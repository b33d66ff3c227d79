------------------------------ MODULE Procedure ------------------------------
(***************************************************************************)
(* The knowledge base, the conversation state d, and the part of the       *)
(* deterministic engine that keeps them in step, as pure operators:        *)
(*                                                                         *)
(*   kb/schema.py           Step, Gate, Fault, RouteRule: the records of KB *)
(*   engine/state.py        UpdateState, ResolveCombination                *)
(*   engine/diff.py         Skipped, Missing, NeedsAxis                    *)
(*                                                                         *)
(* Texts are named by the KB field they come from; a fact the pilot has    *)
(* not stated has the value Unstated (Python: the key is absent).  Nothing *)
(* here is RECURSIVE, so the proof modules may use all of it.              *)
(***************************************************************************)
EXTENDS Naturals, Sequences, FiniteSets

CONSTANTS KB,      \* fault id -> fault record
          Keys,    \* the history-fact keys
          Values,  \* what a fact may be stated to be, with Unstated
          Axes     \* the loco-axis pseudo-facts: config, type, rb

None     == "none"
Unstated == "unstated"
YesNo    == {Unstated, "yes", "no"}

\* Fact keys the engine itself knows by name.
Abnormality     == "abnormality_found"
FaultResolved   == "fault_resolved"
FaultRecurred   == "fault_recurred"
ResetPerformed  == "reset_performed_this_session"
ResetInstructed == "reset_instructed_this_session"
QLMResetEarlier == "was_QLM_reset_earlier_this_trip"

-----------------------------------------------------------------------------
(* Knowledge base records. *)

NoGate == [type |-> None, action |-> None, needs |-> None, recurrence |-> FaultRecurred, pre |-> {}]
ResetLimit(key, recurrenceKey) ==
    [NoGate EXCEPT !.type = "reset_limit", !.needs = key, !.recurrence = recurrenceKey]
HazardExposure(act, preconditions) ==
    [NoGate EXCEPT !.type = "hazard_exposure", !.action = act, !.pre = preconditions]

Step(name) ==
    [id |-> name, gate |-> NoGate, abnormality |-> Abnormality, finding |-> None, isolation |-> None,
     head |-> None, applies |-> {}, requiresStated |-> FALSE, implies |-> {}, elicits |-> None, completes |-> FALSE]

\* How the text of a step begins: with "If", or with a clause of it that a comma, a
\* semicolon or a colon ends.
IfHead   == "if"
IfClause == "if_clause"

Fault(name, stepSeq) ==
    [id |-> name, steps |-> stepSeq, combos |-> <<>>, routes |-> <<>>, defers |-> <<>>, phrases |-> {},
     axes |-> {}, confirmFirst |-> FALSE, resolved |-> None, unresolved |-> None]

Indices(f)  == DOMAIN f.steps
Gated(f, i) == f.steps[i].gate.type # None
GatedIndices(f)    == {i \in Indices(f) : Gated(f, i)}
OrdinaryIndices(f) == {i \in Indices(f) : ~Gated(f, i)}
ResetIndices(f)    == {i \in Indices(f) : f.steps[i].gate.type = "reset_limit"}
StepIds(f)  == {f.steps[i].id : i \in Indices(f)}
Conditions(s) == {a.fact : a \in s.applies}

\* The least element of a set of positions; every caller guards against {}.
First(S) == CHOOSE i \in S : \A j \in S : i <= j

\* A fault and its reroute targets answer to the same presenting phrases.
Targets(f) == {f.combos[i].to : i \in DOMAIN f.combos} \cup {f.routes[i].to : i \in DOMAIN f.routes}
RoutesOf(x) == IF x \in DOMAIN KB THEN Targets(KB[x]) ELSE {}
SameFamily(x, y) ==
    /\ x # None /\ y # None
    /\ x = y \/ y \in RoutesOf(x) \/ x \in RoutesOf(y)

AllSteps == UNION {StepIds(KB[x]) : x \in DOMAIN KB}

\* The engine's own bookkeeping: no fault file and no vocabulary of the parser names it.
Bookkeeping == {ResetPerformed, ResetInstructed}
FaultKeys   == Keys \ Bookkeeping

GateTypes == {"reset_limit", "hazard_exposure"}

\* What the schema's validators demand of every fault file.
WellFormedGate(g) ==
    /\ g.type \in GateTypes \cup {None}
    /\ g.type = "reset_limit" => {g.needs, g.recurrence} \subseteq FaultKeys
    /\ g.type = "hazard_exposure" => g.pre # {} /\ g.pre \subseteq FaultKeys

WellFormedStep(s) ==
    /\ s.id # None
    /\ WellFormedGate(s.gate)
    /\ s.abnormality \in FaultKeys /\ s.isolation \in FaultKeys \cup {None}
    /\ s.isolation # None => s.abnormality # Abnormality
    /\ \A a \in s.applies : a.fact \in FaultKeys \cup Axes /\ a.value \in Values \ {Unstated}
    /\ \A m \in s.implies : m.fact \in FaultKeys /\ m.value \in Values
    /\ s.elicits \in FaultKeys \cup Axes \cup {None}

WellFormedFault(f) ==
    /\ Len(f.steps) \in Nat \ {0} /\ Indices(f) = 1..Len(f.steps)
    /\ \A i \in Indices(f) : WellFormedStep(f.steps[i])
    /\ \A i, j \in Indices(f) : f.steps[i].id = f.steps[j].id => i = j
    /\ \A r \in {f.combos, f.routes, f.defers} : DOMAIN r \subseteq Nat
    /\ \A n \in DOMAIN f.defers : f.defers[n].fact \in FaultKeys
    /\ \A n \in DOMAIN f.combos : f.combos[n].to # None
    /\ \A n \in DOMAIN f.routes : f.routes[n].fact \in FaultKeys
    /\ \A i \in Indices(f) : Conditions(f.steps[i]) \cap Axes \subseteq f.axes

ASSUME KBAssumption ==
    /\ None \notin DOMAIN KB
    /\ None \notin Axes /\ YesNo \subseteq Values
    /\ {Abnormality, FaultResolved, FaultRecurred, ResetPerformed, ResetInstructed, QLMResetEarlier} \subseteq Keys
    /\ \A x \in DOMAIN KB : KB[x].id = x /\ WellFormedFault(KB[x])

\* What every fault file keeps though no validator demands it: it sends no one to itself, a
\* gated step is neither an observation nor on an axis of the loco, and a reset comes after
\* plain checks only.
Reviewed(f) ==
    /\ f.id \notin Targets(f)
    /\ \A i \in GatedIndices(f) : f.steps[i].elicits = None /\ Conditions(f.steps[i]) \cap Axes = {}
    /\ \A i \in ResetIndices(f), j \in OrdinaryIndices(f) :
          j < i /\ f.steps[j].applies = {} /\ f.steps[j].elicits = None

ASSUME FilesAssumption == \A x \in DOMAIN KB : Reviewed(KB[x])

-----------------------------------------------------------------------------
(* Conversation state. *)

NewState ==
    [fault |-> None, confirmed |-> FALSE, claimed |-> {}, declined |-> {}, unrecognised |-> {},
     facts |-> [k \in Keys |-> Unstated], said |-> {}, relays |-> {}, intent |-> None,
     stuckAt |-> None, loco |-> [a \in Axes |-> Unstated]]

Claims(d, f, i) == f.steps[i].id \in d.claimed

Fact(d, f, k) ==
    IF k \in Axes THEN IF k \in f.axes THEN d.loco[k] ELSE Unstated ELSE d.facts[k]

ChecksComplete(d, f) == \A i \in OrdinaryIndices(f) : Claims(d, f, i)

PriorReset(d) == d.facts[ResetPerformed] = "yes" \/ d.facts[ResetInstructed] = "yes"

ResetHistoryKey(f) ==
    IF ResetIndices(f) = {} THEN QLMResetEarlier ELSE f.steps[First(ResetIndices(f))].gate.needs

-----------------------------------------------------------------------------
(* update_state: merge one parsed message u into the state.  f is the fault *)
(* the message is about, i.e. KB[u.fault] or the matched one.               *)

ClaimsReset(f, ids) == \E i \in ResetIndices(f) : f.steps[i].id \in ids

\* Facts a claim establishes by itself (Step.implies, setdefault).
Implied(d, u, f) ==
    LET claiming == {i \in Indices(f) : f.steps[i].id \in u.claimed /\ f.steps[i].implies # {}}
        by(k)    == {i \in claiming : k \in {m.fact : m \in f.steps[i].implies}}
    IN IF claiming = {} THEN d.facts
       ELSE [k \in Keys |->
                IF d.facts[k] # Unstated \/ by(k) = {} THEN d.facts[k]
                ELSE (CHOOSE m \in f.steps[First(by(k))].implies : m.fact = k).value]

\* The prior-reset answers that really report the reset the engine has just
\* instructed, and the one case where an un-instructed reset is reported so.
ReportsInstructedReset(d, u, f) ==
    IF d.facts[ResetInstructed] = "yes" /\ ~u.presenting /\ d.facts[ResetHistoryKey(f)] # "yes"
    THEN {k \in {ResetHistoryKey(f)} \cup {f.steps[i].gate.needs : i \in GatedIndices(f)} :
             k \in Keys /\ u.facts[k] = "yes"}
    ELSE {}

ReportsThisReset(d, u, f, prior) ==
    LET recurred == IF u.facts[FaultRecurred] # Unstated THEN u.facts[FaultRecurred]
                                                         ELSE d.facts[FaultRecurred]
    IN IF /\ ClaimsReset(f, u.claimed)
          /\ ~prior
          /\ u.facts[ResetHistoryKey(f)] = "yes"
          /\ u.facts[FaultResolved] = "yes"
          /\ recurred # "yes"
       THEN {ResetHistoryKey(f)} ELSE {}

\* Mutant: only a reset the pilot reported counts, not one the engine instructed.
RecursOnceDone(d, u) == d.facts[ResetPerformed] = "yes" /\ u.presenting

\* The backstop of section 6.1.1(f)(ii): a reset came before this message, and
\* this message presents the fault.
Recurs(d, u) == PriorReset(d) /\ u.presenting

UpdateFacts(d, u, f, nowClaimed) ==
    LET known   == Implied(d, u, f)
        sofar   == [d EXCEPT !.facts = known]
        dropped == ReportsInstructedReset(sofar, u, f) \cup ReportsThisReset(sofar, u, f, PriorReset(d))
    IN [k \in Keys |->
           CASE k = ResetPerformed /\ (dropped # {} \/ ClaimsReset(f, nowClaimed)) -> "yes"
             [] k = FaultRecurred /\ Recurs(d, u)                                  -> "yes"
             [] OTHER -> IF u.facts[k] # Unstated /\ k \notin dropped THEN u.facts[k] ELSE known[k]]

UpdateIntent(d, u, f, nowClaimed) ==
    LET stated == IF u.clearIntent THEN None ELSE IF u.intent # None THEN u.intent ELSE d.intent
        spent  == \E i \in GatedIndices(f) : /\ f.steps[i].gate.action = stated
                                             /\ f.steps[i].id \in nowClaimed
    IN IF spent THEN None ELSE stated

Confirmation(d, u) ==
    CASE u.confirmed # Unstated -> u.confirmed = "yes"
      [] u.confirmed = Unstated /\ u.fault # None -> TRUE       \* an alias match is trusted
      [] OTHER -> d.confirmed

\* Mutant: whatever step the parser names is taken for done.
RecognisedUnread(u, f) == u.claimed

\* The claims that name steps of the fault the message is about.
Recognised(u, f) == u.claimed \cap StepIds(f)

UpdateState(d, u) ==
    LET id  == IF u.fault # None THEN u.fault ELSE d.fault
        f   == IF id = None THEN Fault(None, <<>>) ELSE KB[id]
        now == d.claimed \cup Recognised(u, f)
    IN [fault     |-> id,
        confirmed |-> Confirmation(d, u),
        claimed   |-> now,
        unrecognised |-> u.claimed \ StepIds(f),
        declined  |-> (d.declined \ u.claimed) \cup
                      (IF u.denies /\ d.stuckAt # None /\ d.stuckAt \notin now THEN {d.stuckAt} ELSE {}),
        facts     |-> UpdateFacts(d, u, f, now),
        said      |-> {k \in Keys : u.facts[k] # Unstated},
        relays    |-> IF u.tellsRelays THEN u.relays ELSE d.relays,
        intent    |-> UpdateIntent(d, u, f, now),
        stuckAt   |-> d.stuckAt,
        loco      |-> [a \in Axes |-> IF u.loco[a] # Unstated THEN u.loco[a] ELSE d.loco[a]]]

-----------------------------------------------------------------------------
(* resolve_combination: one deterministic reroute, before the reflex.       *)

\* Mutant: the new procedure is begun afresh.
SwitchToAfresh(d, id) ==
    [d EXCEPT !.fault = id, !.confirmed = @ /\ ~KB[id].confirmFirst,
              !.claimed = d.unrecognised \cap StepIds(KB[id]), !.unrecognised = @ \ StepIds(KB[id])]

SwitchTo(d, id) ==
    LET target == KB[id] IN
    [d EXCEPT !.fault     = id,
              !.confirmed = @ /\ ~target.confirmFirst,
              !.claimed   = (@ \cap StepIds(target)) \cup (d.unrecognised \cap StepIds(target)),
              !.declined  = @ \ (d.unrecognised \cap StepIds(target)),
              !.unrecognised = @ \ StepIds(target)]

RouteHits(d, f) == {i \in DOMAIN f.routes : d.facts[f.routes[i].fact] = f.routes[i].equals}
ComboHits(d, f) == {i \in DOMAIN f.combos : f.combos[i].also \cap d.relays # {}}

\* The fault this state is rerouted to, None if it stays: a matching route rule
\* decides even when its target is not encoded.
RerouteTarget(d) ==
    IF d.fault = None THEN None
    ELSE LET f == KB[d.fault]
             wanted == CASE RouteHits(d, f) # {} -> f.routes[First(RouteHits(d, f))].to
                         [] RouteHits(d, f) = {} /\ ComboHits(d, f) # {} -> f.combos[First(ComboHits(d, f))].to
                         [] OTHER -> None
         IN IF wanted \in DOMAIN KB THEN wanted ELSE None

\* Mutant: the identity waits for the model's check_combination.
ResolveCombinationLater(d) == d

ResolveCombination(d) == IF RerouteTarget(d) = None THEN d ELSE SwitchTo(d, RerouteTarget(d))

-----------------------------------------------------------------------------
(* diff_steps: the ordinary steps that are due and not done.                *)

Contradicted(d, f, i) ==
    \E a \in f.steps[i].applies : Fact(d, f, a.fact) \notin {Unstated, a.value}
Undecided(d, f, i) == \E a \in f.steps[i].applies : Fact(d, f, a.fact) = Unstated

Skipped(d, f, i) ==
    Contradicted(d, f, i) \/ (f.steps[i].requiresStated /\ Undecided(d, f, i))

\* Mutant: an observation counts only when its step is claimed.
DoneWhenClaimed(d, f, i) == Claims(d, f, i)

\* An observation step is done when its fact is stated, claimed or not.
Done(d, f, i) ==
    IF f.steps[i].elicits # None THEN Fact(d, f, f.steps[i].elicits) # Unstated ELSE Claims(d, f, i)

Completed(d, f) == \E i \in Indices(f) : f.steps[i].completes /\ Claims(d, f, i)

\* Alternative routes of one decision point: a run of conditional "If ..." steps
\* with disjoint conditions.  RouteStart[i] is where the run holding i begins.
Alternative(f, i) ==
    /\ i \in OrdinaryIndices(f)
    /\ f.steps[i].applies # {} /\ ~f.steps[i].requiresStated
    /\ f.steps[i].head \in {IfHead, IfClause}

SameRoutes(f, i, j) ==
    LET start[n \in Indices(f)] ==
          IF n > 1 /\ Alternative(f, n) /\ Alternative(f, n - 1)
               /\ \A m \in start[n - 1]..(n - 1) : Conditions(f.steps[m]) \cap Conditions(f.steps[n]) = {}
          THEN start[n - 1] ELSE n
    IN Alternative(f, i) /\ Alternative(f, j) /\ start[i] = start[j]

\* The steps that are one of several routes, a property of the fault file alone.
RouteIndices(f) == {i \in Indices(f) : \E j \in Indices(f) \ {i} : SameRoutes(f, i, j)}
RouteSteps      == [x \in DOMAIN KB |-> RouteIndices(KB[x])]
IsRoute(f, i) == i \in RouteSteps[f.id]

ChosenConditions(d, f) ==
    UNION {Conditions(f.steps[i]) : i \in {j \in Indices(f) :
              /\ IsRoute(f, j)
              /\ \A a \in f.steps[j].applies : Fact(d, f, a.fact) = a.value}}

SiblingChosen(d, f, i) ==
    /\ Undecided(d, f, i) /\ IsRoute(f, i)
    /\ ChosenConditions(d, f) # {}
    /\ Conditions(f.steps[i]) \cap ChosenConditions(d, f) = {}

\* A due gated step that is not done: everything after it waits for the gate.
PendingGate(d, f, i) == Gated(f, i) /\ ~Done(d, f, i) /\ ~Skipped(d, f, i)
\* Mutant: what follows a gated step is asked for before it.
BeyondPendingGateIgnored(d, f, i) == FALSE

BeyondPendingGate(d, f, i) == \E j \in Indices(f) : j < i /\ PendingGate(d, f, j)

Missing(d, f) ==
    IF Completed(d, f) THEN {}
    ELSE {i \in OrdinaryIndices(f) : /\ ~Done(d, f, i)
                                     /\ ~BeyondPendingGate(d, f, i)
                                     /\ ~Skipped(d, f, i)
                                     /\ ~SiblingChosen(d, f, i)}

\* Mutant: the loco is asked about as soon as any step to come depends on it.
NeedsAxisAnywhere(d, f) ==
    LET open == {k \in Axes : /\ Fact(d, f, k) = Unstated
                              /\ \E i \in OrdinaryIndices(f) : ~Done(d, f, i) /\ k \in Conditions(f.steps[i])}
    IN IF open = {} THEN None ELSE CHOOSE k \in open : TRUE

UnknownAxes(d, f, i) == {k \in Conditions(f.steps[i]) \cap Axes : Fact(d, f, k) = Unstated}

\* The loco axis the next step branches on, if that axis is not known.
NeedsAxis(d, f) ==
    LET open == {i \in OrdinaryIndices(f) :
                    /\ UnknownAxes(d, f, i) # {}
                    /\ ~Completed(d, f) /\ ~Done(d, f, i) /\ ~BeyondPendingGate(d, f, i)
                    /\ \A j \in Missing(d, f) : i <= j}
    IN IF open = {} THEN None ELSE CHOOSE k \in UnknownAxes(d, f, First(open)) : TRUE
==============================================================================
