--------------------------- MODULE DiagnosisProofs ---------------------------
(***************************************************************************)
(* What holds of Diagnosis for every knowledge base, fact vocabulary and    *)
(* set of messages that satisfy its assumptions.                            *)
(***************************************************************************)
EXTENDS Diagnosis, TLAPS, WellFoundedInduction

-----------------------------------------------------------------------------
(* Positions in a procedure. *)

\* A set of positions that is not empty has a least element, and First is it.
LEMMA FirstIsLeast ==
    ASSUME NEW S, S \subseteq Nat, S # {}
    PROVE  First(S) \in S /\ \A j \in S : First(S) <= j
<1>1. PICK x \in S : \A y \in S : ~(<<y, x>> \in OpToRel(<, Nat))
  BY NatLessThanWellFounded, WFMin
<1>2. \A y \in S : x <= y
  <2>1. SUFFICES ASSUME NEW y \in S, y < x PROVE FALSE
    OBVIOUS
  <2>2. <<y, x>> \in OpToRel(<, Nat)
    BY <2>1 DEF OpToRel
  <2>. QED BY <1>1, <2>2
<1>. QED BY <1>2 DEF First

\* A set of positions of a checklist that is not empty has a last element.
LEMMA LastExists ==
    ASSUME NEW n \in Nat, NEW S, S \subseteq 1..n, S # {}
    PROVE  \E i \in S : \A j \in S : j <= i
<1>. DEFINE T == {n - i : i \in S}
<1>1. T \subseteq Nat /\ T # {}
  <2>1. \A i \in S : n - i \in Nat
    OBVIOUS
  <2>2. T \subseteq Nat
    BY <2>1
  <2>. QED BY <2>2
<1>2. First(T) \in T /\ \A j \in T : First(T) <= j
  <2>. HIDE DEF T
  <2>. QED BY <1>1, FirstIsLeast
<1>3. PICK i \in S : First(T) = n - i
  BY <1>2
<1>4. \A j \in S : n - i <= n - j
  BY <1>2, <1>3
<1>. QED BY <1>4

\* Every fault of the knowledge base is as the schema demands.
LEMMA FaultIsWellFormed ==
    ASSUME NEW x \in DOMAIN KB
    PROVE  /\ WellFormedFault(KB[x])
           /\ Indices(KB[x]) \subseteq Nat
           /\ \A i \in Indices(KB[x]) : WellFormedStep(KB[x].steps[i])
BY KBAssumption DEF WellFormedFault

\* The most severe verdict is found: the position the reflex reports exists.
LEMMA MostSevereExists ==
    ASSUME NEW d, NEW x \in DOMAIN KB, GatedIndices(KB[x]) # {}
    PROVE  /\ First(MostSevere(d, KB[x])) \in GatedIndices(KB[x])
           /\ First(MostSevere(d, KB[x])) \in MostSevere(d, KB[x])
<1>. DEFINE f == KB[x]
            At(n) == {i \in GatedIndices(f) : SeverityAt(d, f, i) = n}
<1>0. GatedIndices(f) \subseteq Nat
  BY FaultIsWellFormed DEF GatedIndices
<1>1. \A i \in GatedIndices(f) : SeverityAt(d, f, i) \in 0..3
  <2>. SUFFICES ASSUME NEW i \in GatedIndices(f)
                PROVE  EvaluateGate(d, f, i).outcome \in {"NO_FIRE", "ASK", "CAUTION", "REFUSE"}
    BY DEF SeverityAt, Severity
  <2>. QED BY DEF EvaluateGate, EvaluateResetLimit, EvaluateHazardExposure, Verdict, NoFire
<1>2. PICK n \in 0..3 : At(n) # {} /\ \A m \in 0..3 : m > n => At(m) = {}
  <2>1. \E n \in 0..3 : At(n) # {}
    BY <1>1
  <2>. HIDE DEF At
  <2>. QED BY <2>1
<1>3. At(n) \subseteq MostSevere(d, f)
  BY <1>1, <1>2 DEF MostSevere
<1>4. MostSevere(d, f) # {} /\ MostSevere(d, f) \subseteq Nat
  BY <1>0, <1>2, <1>3 DEF MostSevere
<1>. QED BY <1>4, FirstIsLeast DEF MostSevere

-----------------------------------------------------------------------------
(* Types. *)

\* Merging a message leaves every fact typed, implied ones included.
LEMMA UpdateFactsType ==
    ASSUME NEW d \in State, NEW u \in Messages, NEW x \in DOMAIN KB, NEW now
    PROVE  UpdateFacts(d, u, KB[x], now) \in [Keys -> Values]
<1>. DEFINE f == KB[x]
            claiming == {i \in Indices(f) : f.steps[i].id \in u.claimed /\ f.steps[i].implies # {}}
            By(k) == {i \in claiming : k \in {m.fact : m \in f.steps[i].implies}}
            implied(k) == IF d.facts[k] # Unstated \/ By(k) = {} THEN d.facts[k]
                          ELSE (CHOOSE m \in f.steps[First(By(k))].implies : m.fact = k).value
<1>1. Implied(d, u, f) \in [Keys -> Values]
  <2>1. \A k \in Keys : implied(k) \in Values
    <3>. SUFFICES ASSUME NEW k \in Keys PROVE implied(k) \in Values
      OBVIOUS
    <3>1. CASE d.facts[k] # Unstated \/ By(k) = {}
      BY <3>1 DEF State
    <3>2. CASE By(k) # {} /\ d.facts[k] = Unstated
      <4>1. First(By(k)) \in By(k)
        <5>. By(k) \subseteq Nat
          BY FaultIsWellFormed
        <5>. HIDE DEF By
        <5>. QED BY <3>2, FirstIsLeast
      <4>2. PICK m \in f.steps[First(By(k))].implies : m.fact = k
        BY <4>1
      <4>3. \A n \in f.steps[First(By(k))].implies : n.value \in Values
        BY <4>1, FaultIsWellFormed DEF WellFormedStep
      <4>. QED BY <3>2, <4>2, <4>3
    <3>. QED BY <3>1, <3>2
  <2>2. d.facts \in [Keys -> Values]
    BY DEF State
  <2>. QED BY <2>1, <2>2 DEF Implied
<1>2. u.facts \in [Keys -> Values] /\ "yes" \in Values
  BY MessagesAssumption, KBAssumption DEF Update, YesNo
<1>. QED BY <1>1, <1>2 DEF UpdateFacts

\* Merging a message about some fault keeps the state a state, with a fault matched.
LEMMA UpdateStateType ==
    ASSUME NEW d \in State, NEW u \in Messages, u.fault # None \/ d.fault # None
    PROVE  UpdateState(d, u) \in State /\ UpdateState(d, u).fault \in DOMAIN KB
<1>. DEFINE id  == IF u.fault # None THEN u.fault ELSE d.fault
            now == d.claimed \cup (u.claimed \cap StepIds(KB[id]))
            post == UpdateState(d, u)
<1>1. u \in Update /\ WellParsed(u) /\ id \in DOMAIN KB /\ id # None
  BY MessagesAssumption, KBAssumption DEF Update, State
<1>2. StepIds(KB[id]) \subseteq AllSteps
  BY <1>1 DEF AllSteps
<1>3. post.facts \in [Keys -> Values]
  BY <1>1, UpdateFactsType DEF UpdateState, Recognised
<1>4. post.claimed \in SUBSET AllSteps /\ post.declined \in SUBSET AllSteps /\ post.unrecognised \in SUBSET Named
  BY <1>1, <1>2 DEF UpdateState, Recognised, State, Update, Named
<1>5. post.intent \in Intents
  <2>1. \A f : UpdateIntent(d, u, f, now) \in {None, u.intent, d.intent}
    BY <1>1 DEF UpdateIntent, Update
  <2>. QED BY <1>1, <2>1 DEF UpdateState, Recognised, State, Intents
<1>6. post.confirmed \in BOOLEAN /\ post.said \in SUBSET Keys /\ post.relays \in SUBSET Relays
  BY <1>1 DEF UpdateState, Recognised, Confirmation, State, Update, Relays
<1>7. post.loco \in [Axes -> Values]
  BY <1>1 DEF UpdateState, Recognised, State, Update
<1>8. post.stuckAt \in AllSteps \cup {None} /\ post.fault = id
  BY <1>1 DEF UpdateState, Recognised, State
<1>. QED BY <1>1, <1>3, <1>4, <1>5, <1>6, <1>7, <1>8 DEF UpdateState, Recognised, State

\* A reroute to a fault of the KB leaves a typed state about that fault.
LEMMA SwitchToType ==
    ASSUME NEW d \in State, NEW x \in DOMAIN KB
    PROVE  SwitchTo(d, x) \in State /\ SwitchTo(d, x).fault = x
<1>1. StepIds(KB[x]) \subseteq AllSteps
  BY DEF AllSteps
<1>. QED BY <1>1 DEF SwitchTo, State

\* A reroute stays within the knowledge base.
LEMMA ResolveCombinationType ==
    ASSUME NEW d \in State, d.fault \in DOMAIN KB
    PROVE  ResolveCombination(d) \in State /\ ResolveCombination(d).fault \in DOMAIN KB
<1>1. RerouteTarget(d) \in DOMAIN KB \cup {None}
  BY DEF RerouteTarget
<1>. QED BY <1>1, SwitchToType DEF ResolveCombination

\* A fault a state is rerouted to is one its own fault file names.
LEMMA RerouteIsATarget ==
    ASSUME NEW d \in State, RerouteTarget(d) # None
    PROVE  /\ d.fault \in DOMAIN KB /\ RerouteTarget(d) \in DOMAIN KB
           /\ RerouteTarget(d) \in Targets(KB[d.fault])
<1>. DEFINE f == KB[d.fault]
<1>1. d.fault \in DOMAIN KB
  BY DEF RerouteTarget, State
<1>2. DOMAIN f.routes \subseteq Nat /\ DOMAIN f.combos \subseteq Nat
  BY <1>1, FaultIsWellFormed DEF WellFormedFault
<1>3. RouteHits(d, f) # {} => First(RouteHits(d, f)) \in DOMAIN f.routes
  BY <1>2, FirstIsLeast DEF RouteHits
<1>4. ComboHits(d, f) # {} => First(ComboHits(d, f)) \in DOMAIN f.combos
  BY <1>2, FirstIsLeast DEF ComboHits
<1>. QED BY <1>1, <1>3, <1>4 DEF RerouteTarget, Targets

\* What the reflex reports is a verdict of one of the matched fault's own gates.
LEMMA VerdictOfAGate ==
    ASSUME NEW d \in State, d.fault \in DOMAIN KB, EvaluateGates(d).outcome # "NO_FIRE"
    PROVE  \E i \in GatedIndices(KB[d.fault]) : EvaluateGates(d) = EvaluateGate(d, KB[d.fault], i)
<1>. DEFINE f == KB[d.fault]
<1>1. d.fault # None
  BY KBAssumption
<1>2. GatedIndices(f) # {}
  BY <1>1 DEF EvaluateGates, NoFire
<1>. QED BY <1>1, <1>2, MostSevereExists DEF EvaluateGates

Verdicts == [outcome : DOMAIN Severity, gate : GateTypes, step : AllSteps, text : GateTexts,
             reasons : SUBSET (Grounds \cup Keys), conditional : BOOLEAN] \cup {NoFire}

\* What a gate of a fault evaluates to is a verdict.
LEMMA EvaluateGateType ==
    ASSUME NEW d \in State, NEW x \in DOMAIN KB, NEW i \in GatedIndices(KB[x])
    PROVE  EvaluateGate(d, KB[x], i) \in Verdicts
<1>. DEFINE f == KB[x]
<1>1. /\ f.steps[i].id \in AllSteps
      /\ f.steps[i].gate.type \in GateTypes
      /\ f.steps[i].gate.type = "hazard_exposure" => f.steps[i].gate.pre \subseteq Keys
  <2>1. i \in Indices(f) /\ f.steps[i].gate.type # None
    BY DEF GatedIndices, Gated
  <2>2. WellFormedGate(f.steps[i].gate)
    BY <2>1, FaultIsWellFormed DEF WellFormedStep
  <2>. QED BY <2>1, <2>2 DEF WellFormedGate, AllSteps, StepIds, FaultKeys
<1>2. RefuseReasons(d, f, i) \subseteq Grounds
  BY DEF RefuseReasons, HistoryReasons, AbnormalityReasons, Grounds
<1>3. \A kind \in DOMAIN Severity, what \in GateTexts : Verdict(kind, f, i, what) \in Verdicts
  BY <1>1 DEF Verdict, Verdicts
<1>4. NoFire \in Verdicts
  BY DEF Verdicts
<1>5. EvaluateResetLimit(d, f, i) \in Verdicts
  <2>1. [Verdict("REFUSE", f, i, "refused") EXCEPT !.reasons = RefuseReasons(d, f, i)] \in Verdicts
    BY <1>1, <1>2 DEF Verdict, Verdicts, Severity, GateTexts
  <2>2. [Verdict("CAUTION", f, i, "on_first_reset") EXCEPT !.conditional = VerdictUnknown(d, f)] \in Verdicts
    <3>1. VerdictUnknown(d, f) \in BOOLEAN
      BY DEF VerdictUnknown
    <3>. QED BY <1>1, <3>1 DEF Verdict, Verdicts, Severity, GateTexts
  <2>3. /\ Verdict("ASK", f, i, "isolated?") \in Verdicts
        /\ Verdict("ASK", f, i, "reset_earlier?") \in Verdicts
        /\ Verdict("CAUTION", f, i, "on_isolated") \in Verdicts
    BY <1>3 DEF Severity, GateTexts
  <2>. QED BY <1>4, <2>1, <2>2, <2>3 DEF EvaluateResetLimit
<1>6. CASE f.steps[i].gate.type = "hazard_exposure"
  <2>1. Precondition(d, f, i, "no") \subseteq Keys
    BY <1>1, <1>6 DEF Precondition
  <2>2. EvaluateHazardExposure(d, f, i) \in Verdicts
    <3>1. [Verdict("REFUSE", f, i, "on_precondition_unmet") EXCEPT !.reasons = Precondition(d, f, i, "no")] \in Verdicts
      BY <1>1, <2>1 DEF Verdict, Verdicts, Severity, GateTexts
    <3>2. /\ Verdict("ASK", f, i, "precondition_question") \in Verdicts
          /\ Verdict("CAUTION", f, i, "on_precondition_unmet") \in Verdicts
      BY <1>3 DEF Severity, GateTexts
    <3>. QED BY <1>4, <3>1, <3>2 DEF EvaluateHazardExposure
  <2>. QED BY <1>6, <2>2 DEF EvaluateGate
<1>. QED BY <1>1, <1>5, <1>6 DEF EvaluateGate, GateTypes

-----------------------------------------------------------------------------
(* Answers that are not a gate's: the terminal names no gate, and of the    *)
(* state at most the position in the checklist has changed.                 *)

SameCase(e, d) ==
    /\ e.fault = d.fault /\ e.confirmed = d.confirmed /\ e.claimed = d.claimed
    /\ e.facts = d.facts /\ e.relays = d.relays

OrdinaryAnswers(d) == [diag : {e \in State : SameCase(e, d)}, terminal : {t \in Told : t.gate = None}]

\* A plain terminal is one the pilot may be told, and names no gate.
LEMMA TerminalType ==
    ASSUME NEW d \in State, NEW what \in Kinds, NEW where \in AllSteps \cup {None}, NEW said \in Texts
    PROVE  /\ Terminal(what, d, where, said) \in Told
           /\ Terminal(what, d, where, said).gate = None
BY DEF Terminal, Told, State, Intents

\* Such a terminal, answered with or without a new position, is an ordinary answer.
LEMMA AnswerType ==
    ASSUME NEW d \in State, NEW t \in Told, t.gate = None
    PROVE  /\ Answer(d, t) \in OrdinaryAnswers(d)
           /\ Answer(Closed(d), t) \in OrdinaryAnswers(d)
           /\ \A x \in DOMAIN KB : \A i \in Indices(KB[x]) : Asked(d, KB[x], i, t) \in OrdinaryAnswers(d)
<1>1. \A at \in AllSteps \cup {None} : [d EXCEPT !.stuckAt = at] \in State /\ SameCase([d EXCEPT !.stuckAt = at], d)
  BY DEF State, SameCase
<1>2. \A x \in DOMAIN KB : \A i \in Indices(KB[x]) : KB[x].steps[i].id \in AllSteps
  BY DEF AllSteps, StepIds
<1>. QED BY <1>1, <1>2 DEF Answer, Closed, Asked, OrdinaryAnswers, SameCase

\* A confirmation, whatever guidance of the matched fault it carries.
LEMMA ConfirmAfterResetType ==
    ASSUME NEW d \in State, NEW x \in DOMAIN KB,
           NEW guide, guide \subseteq {KB[x].resolved, KB[x].unresolved}
    PROVE  /\ ConfirmAfterReset(d, KB[x], guide) \in Told
           /\ ConfirmAfterReset(d, KB[x], guide).gate = None
<1>. DEFINE done == {i \in ResetIndices(KB[x]) : Claims(d, KB[x], i)}
            t == Terminal("confirm", d, None, IF done = {} THEN "complete" ELSE "reset_done")
            g == (guide \ {None}) \cup (IF done = {} THEN {} ELSE {"after_first_reset", "rule"})
<1>1. t \in Told /\ t.gate = None
  BY TerminalType DEF Kinds, Texts
<1>2. g \subseteq GuidanceTexts
  BY DEF GuidanceTexts
<1>3. [t EXCEPT !.guidance = g] \in Told /\ [t EXCEPT !.guidance = g].gate = None
  <2>. HIDE DEF t, g
  <2>. QED BY <1>1, <1>2 DEF Told
<1>. QED BY <1>3 DEF ConfirmAfterReset

\* Asking for a step is a terminal that names no gate.
LEMMA AskStepType ==
    ASSUME NEW d \in State, NEW x \in DOMAIN KB, NEW i \in Indices(KB[x])
    PROVE  AskStep(d, KB[x], i) \in Told /\ AskStep(d, KB[x], i).gate = None
<1>. DEFINE f == KB[x]
            dueNow == f.steps[i].id \in d.declined \/ Conditions(f.steps[i]) \cap d.said # {}
<1>1. f.steps[i].id \in AllSteps
  BY DEF AllSteps, StepIds
<1>2. HeldAction(d, f) \in Intents
  BY DEF HeldAction, State, Intents
<1>3. /\ Terminal("ask_history", d, f.steps[i].id, "branch?") \in Told
      /\ Terminal("ask_history", d, f.steps[i].id, "branch?").gate = None
      /\ Terminal("ask_step", d, f.steps[i].id, "step") \in Told
      /\ Terminal("ask_step", d, f.steps[i].id, "step").gate = None
  BY <1>1, TerminalType DEF Kinds, Texts
<1>4. \A t \in Told : \A hold \in Intents, now \in BOOLEAN :
         LET e == [t EXCEPT !.hold = hold, !.doNow = now, !.unrecognised = d.unrecognised]
         IN e \in Told /\ e.gate = t.gate
  BY ZenonT(30) DEF Told, State
<1>. QED BY <1>2, <1>3, <1>4 DEF AskStep

\* What the procedure answers is an ordinary answer.
LEMMA AnswerProcedureType ==
    ASSUME NEW d \in State, NEW x \in DOMAIN KB
    PROVE  AnswerProcedure(d, KB[x]) \in OrdinaryAnswers(d)
<1>. DEFINE f == KB[x]
            axisAsked == [Terminal("ask_config", d, None, "axis?") EXCEPT !.reasons = {NeedsAxis(d, f)}]
            gateStep(i) == [Terminal("ask_step", d, f.steps[i].id, "step") EXCEPT !.unrecognised = d.unrecognised]
<1>0. Indices(f) \subseteq Nat
  BY FaultIsWellFormed
<1>1. CASE NeedsAxis(d, f) # None
  <2>1. NeedsAxis(d, f) \in Axes
    <3>. DEFINE open == {i \in OrdinaryIndices(f) :
                    /\ UnknownAxes(d, f, i) # {}
                    /\ ~Completed(d, f) /\ ~Done(d, f, i) /\ ~BeyondPendingGate(d, f, i)
                    /\ \A j \in Missing(d, f) : i <= j}
    <3>1. open # {} /\ NeedsAxis(d, f) = CHOOSE k \in UnknownAxes(d, f, First(open)) : TRUE
      BY <1>1 DEF NeedsAxis
    <3>2. open \subseteq Nat
      BY <1>0 DEF OrdinaryIndices
    <3>3. First(open) \in open
      <4>. HIDE DEF open
      <4>. QED BY <3>1, <3>2, FirstIsLeast
    <3>4. UnknownAxes(d, f, First(open)) # {} /\ UnknownAxes(d, f, First(open)) \subseteq Axes
      <4>. HIDE DEF open
      <4>1. \A i \in open : UnknownAxes(d, f, i) # {}
        BY DEF open
      <4>. QED BY <3>3, <4>1 DEF UnknownAxes
    <3>. QED BY <3>1, <3>4
  <2>2. axisAsked \in Told /\ axisAsked.gate = None
    BY <2>1, TerminalType DEF Kinds, Texts, Told
  <2>. QED BY <1>1, <2>2, AnswerType DEF AnswerProcedure
<1>2. CASE NeedsAxis(d, f) = None /\ Missing(d, f) # {}
  <2>1. First(Missing(d, f)) \in Indices(f)
    <3>. Missing(d, f) \subseteq Indices(f)
      BY DEF Missing, OrdinaryIndices
    <3>. QED BY <1>0, <1>2, FirstIsLeast
  <2>. QED BY <1>2, <2>1, AskStepType, AnswerType DEF AnswerProcedure
<1>3. CASE NeedsAxis(d, f) = None /\ Missing(d, f) = {} /\ ~Completed(d, f) /\ OpenGates(d, f) # {}
  <2>1. First(OpenGates(d, f)) \in Indices(f)
    <3>. OpenGates(d, f) \subseteq Indices(f)
      BY DEF OpenGates, GatedIndices
    <3>. QED BY <1>0, <1>3, FirstIsLeast
  <2>2. \A i \in Indices(f) : gateStep(i) \in Told /\ gateStep(i).gate = None
    <3>1. \A i \in Indices(f) : f.steps[i].id \in AllSteps
      BY DEF AllSteps, StepIds
    <3>. QED BY <3>1, TerminalType DEF Kinds, Texts, Told, State
  <2>. QED BY <1>3, <2>1, <2>2, AnswerType DEF AnswerProcedure
<1>4. CASE NeedsAxis(d, f) = None /\ Missing(d, f) = {} /\ (Completed(d, f) \/ OpenGates(d, f) = {})
  <2>1. FinalGuidance(d, f) \subseteq {f.resolved, f.unresolved}
    BY DEF FinalGuidance
  <2>. QED BY <1>4, <2>1, ConfirmAfterResetType, AnswerType DEF AnswerProcedure
<1>. QED BY <1>1, <1>2, <1>3, <1>4

\* Whatever the matched fault's answer is, if no gate spoke.
LEMMA AnswerMatchedType ==
    ASSUME NEW d \in State, NEW x \in DOMAIN KB
    PROVE  AnswerMatched(d, KB[x]) \in OrdinaryAnswers(d)
<1>. DEFINE f == KB[x]
<1>1. \A said \in Texts : /\ Terminal("defer_to_TLC", d, None, said) \in Told
                           /\ Terminal("defer_to_TLC", d, None, said).gate = None
  BY TerminalType DEF Kinds
<1>2. /\ Terminal("confirm_fault", d, None, "signs?") \in Told
      /\ Terminal("confirm_fault", d, None, "signs?").gate = None
  BY TerminalType DEF Kinds, Texts
<1>3. DeferHits(d, f) # {} => f.defers[First(DeferHits(d, f))].fact \in Texts
  <2>1. DeferHits(d, f) \subseteq DOMAIN f.defers /\ DOMAIN f.defers \subseteq Nat
    BY FaultIsWellFormed DEF DeferHits, WellFormedFault
  <2>2. \A n \in DOMAIN f.defers : f.defers[n].fact \in Texts
    BY FaultIsWellFormed DEF WellFormedFault, FaultKeys, Texts
  <2>. QED BY <2>1, <2>2, FirstIsLeast
<1>4. IsolationPending(d, f) \cup IsolationFailed(d, f) # {} => AnswerIsolation(d, f) \in OrdinaryAnswers(d)
  <2>. DEFINE P == IsolationPending(d, f)
              latest == CHOOSE i \in P : \A j \in P : j <= i
  <2>1. P # {} => latest \in Indices(f)
    <3>1. P \subseteq 1..Len(f.steps) /\ Len(f.steps) \in Nat /\ P \subseteq Indices(f)
      BY FaultIsWellFormed DEF IsolationPending, Isolable, AbnormalSteps, OrdinaryIndices, WellFormedFault
    <3>2. P # {} => \E i \in P : \A j \in P : j <= i
      <4>. HIDE DEF P
      <4>. QED BY <3>1, LastExists
    <3>. QED BY <3>1, <3>2
  <2>2. P # {} => /\ Terminal("ask_history", d, f.steps[latest].id, "isolated?") \in Told
                  /\ Terminal("ask_history", d, f.steps[latest].id, "isolated?").gate = None
    <3>1. P # {} => f.steps[latest].id \in AllSteps
      <4>. HIDE DEF P, latest
      <4>. QED BY <2>1 DEF AllSteps, StepIds
    <3>. HIDE DEF P, latest
    <3>. QED BY <3>1, TerminalType DEF Kinds, Texts, GateTexts
  <2>. QED BY <1>1, <2>2, AnswerType DEF AnswerIsolation, Texts
<1>5. ConfirmAfterReset(d, f, {f.resolved}) \in Told /\ ConfirmAfterReset(d, f, {f.resolved}).gate = None
  BY ConfirmAfterResetType
<1>. QED BY <1>1, <1>2, <1>3, <1>4, <1>5, AnswerProcedureType, AnswerType DEF AnswerMatched, Texts

-----------------------------------------------------------------------------
(* Answers in general. *)

\* An answer leaves the case it is about alone: the fault, its confirmation, the claims,
\* the relays and every fact a fault file can name.
SameJudgement(e, d) ==
    /\ e.fault = d.fault /\ e.confirmed = d.confirmed /\ e.claimed = d.claimed /\ e.relays = d.relays
    /\ \A k \in FaultKeys : e.facts[k] = d.facts[k]
    /\ \A k \in Bookkeeping : d.facts[k] = "yes" => e.facts[k] = "yes"

\* A verdict that speaks is answered by a typed refusal, caution or question of its own
\* gate and step; of the case, only the record of what was instructed may change.
LEMMA AnswerGateType ==
    ASSUME NEW d \in State, NEW v \in Verdicts, v.outcome # "NO_FIRE"
    PROVE  LET r == AnswerGate(d, v) IN
           /\ r.diag \in State /\ SameJudgement(r.diag, d)
           /\ r.terminal \in Told
           /\ r.terminal.gate = v.gate /\ r.terminal.step = v.step
           /\ r.terminal.kind = "refuse" <=> v.outcome = "REFUSE"
           /\ r.terminal.kind = "caution" <=> v.outcome = "CAUTION"
           /\ r.terminal.kind \in {"refuse", "caution", "ask_history"}
<1>. DEFINE r == AnswerGate(d, v)
            instructed == [d EXCEPT !.facts[ResetInstructed] = "yes"]
            kind == CASE v.outcome = "REFUSE" -> "refuse" [] v.outcome = "CAUTION" -> "caution" [] OTHER -> "ask_history"
            t == Terminal(kind, d, v.step, v.text)
            said == [t EXCEPT !.gate = v.gate, !.reasons = v.reasons, !.conditional = v.conditional]
<1>1. "yes" \in Values /\ ResetInstructed \in Keys
  BY KBAssumption DEF YesNo
<1>2. instructed \in State /\ SameJudgement(instructed, d)
  <2>1. instructed.facts = [d.facts EXCEPT ![ResetInstructed] = "yes"]
    BY DEF State
  <2>2. instructed \in State
    BY <1>1 DEF State
  <2>3. \A k \in FaultKeys : instructed.facts[k] = d.facts[k]
    BY <2>1 DEF State, FaultKeys, Bookkeeping
  <2>4. \A k \in Bookkeeping : d.facts[k] = "yes" => instructed.facts[k] = "yes"
    BY <1>1, <2>1, KBAssumption DEF State, Bookkeeping
  <2>5. /\ instructed.fault = d.fault /\ instructed.confirmed = d.confirmed
        /\ instructed.claimed = d.claimed /\ instructed.relays = d.relays
    BY DEF State
  <2>. QED BY <2>2, <2>3, <2>4, <2>5 DEF SameJudgement
<1>3. r.diag \in {d, instructed} /\ r.terminal = said
  BY DEF AnswerGate, Answer, GateTerminal
<1>4. SameJudgement(d, d)
  BY DEF SameJudgement
<1>5. /\ kind \in Kinds /\ kind \in {"refuse", "caution", "ask_history"}
      /\ kind = "refuse" <=> v.outcome = "REFUSE"
      /\ kind = "caution" <=> v.outcome = "CAUTION"
  BY DEF Kinds
<1>6. t \in [kind : {kind}, fault : {d.fault}, step : {v.step}, gate : {None}, text : {v.text}, reasons : {{}},
              guidance : {{}}, conditional : {FALSE}, hold : {None}, doNow : {FALSE}, unrecognised : {{}}]
  BY DEF Terminal
<1>7. /\ v.gate \in GateTypes /\ v.step \in AllSteps /\ v.text \in Texts
      /\ v.reasons \subseteq Grounds \cup Keys \cup Axes /\ v.conditional \in BOOLEAN
  BY DEF Verdicts, Texts, NoFire
<1>8. said \in Told /\ said.gate = v.gate /\ said.step = v.step /\ said.kind = kind
  <2>. HIDE DEF t, kind
  <2>. QED BY <1>5, <1>6, <1>7 DEF Told, State, Intents
<1>. QED BY <1>2, <1>3, <1>4, <1>5, <1>8

\* Every answer about a matched fault is typed, and leaves its case alone.
LEMMA ReassessType ==
    ASSUME NEW d \in State, d.fault \in DOMAIN KB
    PROVE  LET r == Reassess(d) IN
           r.diag \in State /\ SameJudgement(r.diag, d) /\ r.terminal \in Told
<1>. DEFINE v == EvaluateGates(d)
<1>0. d.fault # None
  BY KBAssumption
<1>1. CASE Speaks(d, v)
  <2>1. v.outcome # "NO_FIRE"
    BY <1>1 DEF Speaks
  <2>2. v \in Verdicts
    BY <2>1, VerdictOfAGate, EvaluateGateType
  <2>. QED BY <1>1, <2>1, <2>2, AnswerGateType DEF Reassess
<1>2. CASE ~Speaks(d, v)
  <2>1. Reassess(d) \in OrdinaryAnswers(d)
    BY <1>0, <1>2, AnswerMatchedType DEF Reassess
  <2>. QED BY <2>1 DEF OrdinaryAnswers, SameCase, SameJudgement
<1>. QED BY <1>1, <1>2

\* The state a message is answered in.
Settled(u) == ResolveCombination(UpdateState(diag, u))

\* A message handed over leaves a typed state about a fault of the KB.
LEMMA SettledType ==
    ASSUME TypeOK, NEW u \in Messages, HandedOver(u)
    PROVE  Settled(u) \in State /\ Settled(u).fault \in DOMAIN KB
<1>1. UpdateState(diag, u) \in State /\ UpdateState(diag, u).fault \in DOMAIN KB
  BY UpdateStateType DEF TypeOK, HandedOver, Concerns
<1>. QED BY <1>1, ResolveCombinationType DEF Settled

\* A conversation begins typed.
LEMMA NewStateType == NewState \in State
BY KBAssumption DEF NewState, State, Intents, YesNo

\* Every turn keeps the types.
LEMMA TypeStep == TypeOK /\ [Next]_vars => TypeOK'
<1>. SUFFICES ASSUME TypeOK, [Next]_vars PROVE TypeOK'
  OBVIOUS
<1>1. CASE Next
  <2>1. PICK u \in Messages : Turn(u)
    BY <1>1 DEF Next
  <2>2. diag' = Reassess(Settled(u)).diag /\ last' = Reassess(Settled(u)).terminal /\ presented' = u.presenting
    BY <2>1 DEF Turn, RunTurn, Settled
  <2>3. u.presenting \in BOOLEAN
    BY MessagesAssumption DEF Update
  <2>. QED BY <2>1, <2>2, <2>3, SettledType, ReassessType DEF TypeOK, Turn, RunTurn
<1>2. CASE UNCHANGED vars
  BY <1>2 DEF vars, TypeOK
<1>. QED BY <1>1, <1>2

\* Every step is the engine's answer to some state about a fault of the KB.
LEMMA NextAnswers ==
    ASSUME TypeOK, Next
    PROVE  \E d \in State : /\ d.fault \in DOMAIN KB
                            /\ diag' = Reassess(d).diag /\ last' = Reassess(d).terminal
<1>1. PICK u \in Messages : Turn(u)
  BY DEF Next
<1>2. diag' = Reassess(Settled(u)).diag /\ last' = Reassess(Settled(u)).terminal /\ HandedOver(u)
  BY <1>1 DEF Turn, RunTurn, Settled
<1>. QED BY <1>2, SettledType

\* The types of Diagnosis: whatever step names, relays and actions the parser hands
\* over, the state counts as claimed only steps of the knowledge base, and what the
\* pilot is told names only the knowledge base and what the pilot said (update_state,
\* terminals.py).
THEOREM TypeCorrect == Spec => []TypeOK
<1>1. Init => TypeOK
  BY NewStateType DEF Init, TypeOK
<1>. QED BY <1>1, TypeStep, PTL DEF Spec

-----------------------------------------------------------------------------
(* The reset. *)

\* A caution of the reset gate is given under rule 5 only.
LEMMA ResetCautionIsRuleFive ==
    ASSUME NEW d, NEW f, NEW i, EvaluateResetLimit(d, f, i).outcome = "CAUTION"
    PROVE  /\ RefuseReasons(d, f, i) = {} /\ IsolationPending(d, f) = {}
           /\ ChecksComplete(d, f) /\ ~Claims(d, f, i)
           /\ d.facts[f.steps[i].gate.needs] # Unstated
BY DEF EvaluateResetLimit, Verdict, NoFire, ResetInPlay

\* A verdict names the gate and the step it is of.
LEMMA VerdictNamesItsGate ==
    ASSUME NEW d, NEW f, NEW i, EvaluateGate(d, f, i).outcome # "NO_FIRE"
    PROVE  EvaluateGate(d, f, i).gate = f.steps[i].gate.type /\ EvaluateGate(d, f, i).step = f.steps[i].id
<1>. DEFINE OfGate(v) == v.gate = f.steps[i].gate.type /\ v.step = f.steps[i].id
<1>1. \A kind, what : /\ OfGate(Verdict(kind, f, i, what))
                      /\ \A why : OfGate([Verdict(kind, f, i, what) EXCEPT !.reasons = why])
                      /\ \A open : OfGate([Verdict(kind, f, i, what) EXCEPT !.conditional = open])
  BY DEF Verdict
<1>2. NoFire.outcome = "NO_FIRE"
  BY DEF NoFire
<1>. HIDE DEF OfGate
<1>3. EvaluateResetLimit(d, f, i) = NoFire \/ OfGate(EvaluateResetLimit(d, f, i))
  BY <1>1 DEF EvaluateResetLimit
<1>4. EvaluateHazardExposure(d, f, i) = NoFire \/ OfGate(EvaluateHazardExposure(d, f, i))
  BY <1>1 DEF EvaluateHazardExposure
<1>5. OfGate(EvaluateGate(d, f, i))
  BY <1>2, <1>3, <1>4 DEF EvaluateGate
<1>. QED BY <1>5 DEF OfGate

\* Without a ground to refuse, what was found is isolated and no reset came before.
LEMMA NoRefuseReasons ==
    ASSUME NEW d, NEW f, NEW i, RefuseReasons(d, f, i) = {}, IsolationPending(d, f) = {}
    PROVE  /\ d.facts[f.steps[i].gate.needs] # "yes" /\ d.facts[f.steps[i].gate.recurrence] # "yes"
           /\ \A j \in AbnormalSteps(d, f) : f.steps[j].isolation # None /\ IsolationOf(d, f, j) = "yes"
<1>1. /\ d.facts[f.steps[i].gate.needs] # "yes" /\ d.facts[f.steps[i].gate.recurrence] # "yes"
      /\ AbnormalSteps(d, f) = Isolable(d, f) /\ IsolationFailed(d, f) = {}
  BY DEF RefuseReasons, HistoryReasons, AbnormalityReasons
<1>. QED BY <1>1 DEF Isolable, IsolationFailed, IsolationPending

\* The promise of ResetOnlyAsPermitted, of a state and a terminal.
ResetSafe(d, t) ==
    InstructsReset(t) =>
        LET f == KB[d.fault] IN
        /\ d.fault # None /\ d.confirmed
        /\ ChecksComplete(d, f)
        /\ \A j \in AbnormalSteps(d, f) : f.steps[j].isolation # None /\ IsolationOf(d, f, j) = "yes"
        /\ \E i \in ResetIndices(f) : /\ f.steps[i].id = t.step /\ ~Claims(d, f, i)
                                       /\ d.facts[f.steps[i].gate.needs] \notin {Unstated, "yes"}
                                       /\ d.facts[f.steps[i].gate.recurrence] # "yes"

\* What a fault's gates read is the same in a state of the same judgement.
LEMMA SameJudgementSameReset ==
    ASSUME NEW d \in State, NEW e \in State, SameJudgement(e, d), d.fault \in DOMAIN KB, NEW t, ResetSafe(d, t)
    PROVE  ResetSafe(e, t)
<1>. SUFFICES ASSUME InstructsReset(t) PROVE ResetSafe(e, t)
  BY DEF ResetSafe
<1>. DEFINE f == KB[d.fault]
<1>1. /\ e.fault = d.fault /\ e.confirmed = d.confirmed /\ e.claimed = d.claimed
      /\ \A k \in FaultKeys : e.facts[k] = d.facts[k]
  BY DEF SameJudgement
<1>2. \A j \in Indices(f) : /\ f.steps[j].abnormality \in FaultKeys
                            /\ f.steps[j].isolation # None => f.steps[j].isolation \in FaultKeys
  BY FaultIsWellFormed DEF WellFormedStep
<1>3. \A i \in ResetIndices(f) : {f.steps[i].gate.needs, f.steps[i].gate.recurrence} \subseteq FaultKeys
  BY FaultIsWellFormed DEF WellFormedStep, WellFormedGate, ResetIndices
<1>4. AbnormalSteps(e, f) = AbnormalSteps(d, f)
  BY <1>1, <1>2 DEF AbnormalSteps, AbnormalityOf, OrdinaryIndices
<1>5. \A j \in AbnormalSteps(d, f) : f.steps[j].isolation # None => IsolationOf(e, f, j) = IsolationOf(d, f, j)
  BY <1>1, <1>2 DEF AbnormalSteps, OrdinaryIndices, IsolationOf
<1>6. ChecksComplete(e, f) <=> ChecksComplete(d, f)
  BY <1>1 DEF ChecksComplete, Claims
<1>7. \A j \in AbnormalSteps(e, f) : f.steps[j].isolation # None /\ IsolationOf(e, f, j) = "yes"
  BY <1>4, <1>5 DEF ResetSafe
<1>8. \E i \in ResetIndices(f) : /\ f.steps[i].id = t.step /\ ~Claims(e, f, i)
                                /\ e.facts[f.steps[i].gate.needs] \notin {Unstated, "yes"}
                                /\ e.facts[f.steps[i].gate.recurrence] # "yes"
  BY <1>1, <1>3 DEF ResetSafe, Claims
<1>. QED BY <1>1, <1>6, <1>7, <1>8 DEF ResetSafe

\* Every answer that instructs a reset does so under rule 5.
LEMMA ReassessResetSafe ==
    ASSUME NEW d \in State, d.fault \in DOMAIN KB
    PROVE  ResetSafe(Reassess(d).diag, Reassess(d).terminal)
<1>. DEFINE v == EvaluateGates(d)
            f == KB[d.fault]
            r == Reassess(d)
<1>. SUFFICES ASSUME InstructsReset(r.terminal) PROVE ResetSafe(r.diag, r.terminal)
  BY DEF ResetSafe
<1>0. d.fault # None
  BY KBAssumption
<1>1. Speaks(d, v)
  <2>1. ~Speaks(d, v) => r \in OrdinaryAnswers(d)
    BY <1>0, AnswerMatchedType DEF Reassess
  <2>. QED BY <2>1 DEF OrdinaryAnswers, InstructsReset, None
<1>2. v.outcome # "NO_FIRE" /\ r = AnswerGate(d, v)
  BY <1>1 DEF Speaks, Reassess
<1>3. PICK i \in GatedIndices(f) : v = EvaluateGate(d, f, i)
  BY <1>2, VerdictOfAGate
<1>4. v \in Verdicts
  BY <1>3, EvaluateGateType
<1>5. v.outcome = "CAUTION" /\ v.gate = "reset_limit" /\ r.terminal.step = v.step
  BY <1>2, <1>4, AnswerGateType DEF InstructsReset
<1>6. v.gate = f.steps[i].gate.type /\ v.step = f.steps[i].id
  BY <1>2, <1>3, VerdictNamesItsGate
<1>7. i \in ResetIndices(f) /\ EvaluateResetLimit(d, f, i).outcome = "CAUTION"
  BY <1>3, <1>5, <1>6 DEF ResetIndices, GatedIndices, EvaluateGate
<1>8. d.confirmed
  BY <1>0, <1>1, <1>3, <1>5 DEF Speaks, NeedsConfirm
<1>9. ResetSafe(d, r.terminal)
  <2>1. /\ RefuseReasons(d, f, i) = {} /\ IsolationPending(d, f) = {} /\ ChecksComplete(d, f)
        /\ ~Claims(d, f, i) /\ d.facts[f.steps[i].gate.needs] # Unstated
    BY <1>7, ResetCautionIsRuleFive
  <2>2. /\ d.facts[f.steps[i].gate.needs] # "yes" /\ d.facts[f.steps[i].gate.recurrence] # "yes"
        /\ \A j \in AbnormalSteps(d, f) : f.steps[j].isolation # None /\ IsolationOf(d, f, j) = "yes"
    BY <2>1, NoRefuseReasons
  <2>3. \E k \in ResetIndices(f) : /\ f.steps[k].id = r.terminal.step /\ ~Claims(d, f, k)
                                  /\ d.facts[f.steps[k].gate.needs] \notin {Unstated, "yes"}
                                  /\ d.facts[f.steps[k].gate.recurrence] # "yes"
    BY <1>5, <1>6, <1>7, <2>1, <2>2
  <2>. QED BY <1>0, <1>8, <2>1, <2>2, <2>3 DEF ResetSafe
<1>. QED BY <1>9, ReassessType, SameJudgementSameReset

\* The copilot tells the pilot to reset a relay only as the six rules of the reset gate
\* permit (gates.py), in every conversation about every well-formed knowledge base.
THEOREM ResetIsSafe == Spec => []ResetOnlyAsPermitted
<1>1. Init => ResetOnlyAsPermitted
  BY DEF Init, ResetOnlyAsPermitted, InstructsReset, NoTerminal, None
<1>2. TypeOK /\ ResetOnlyAsPermitted /\ [Next]_vars => ResetOnlyAsPermitted'
  <2>. SUFFICES ASSUME TypeOK, ResetOnlyAsPermitted, [Next]_vars PROVE ResetOnlyAsPermitted'
    OBVIOUS
  <2>1. CASE Next
    <3>1. ResetSafe(diag', last')
      BY <2>1, NextAnswers, ReassessResetSafe
    <3>. QED BY <3>1 DEF ResetOnlyAsPermitted, ResetSafe, Matched, ResetPermitted
  <2>2. CASE UNCHANGED vars
    BY <2>2 DEF vars, ResetOnlyAsPermitted, Matched, ResetPermitted
  <2>. QED BY <2>1, <2>2
<1>. QED BY <1>1, <1>2, TypeCorrect, PTL DEF Spec

-----------------------------------------------------------------------------
(* Recurrence, guesses, bookkeeping. *)

\* If one gate of the matched fault refuses, the pilot hears a refusal.
LEMMA RefusalIsSaid ==
    ASSUME NEW d \in State, d.fault \in DOMAIN KB, NEW i \in GatedIndices(KB[d.fault]),
           EvaluateGate(d, KB[d.fault], i).outcome = "REFUSE"
    PROVE  Reassess(d).terminal.kind = "refuse"
<1>. DEFINE f == KB[d.fault]
            top == First(MostSevere(d, f))
            v == EvaluateGates(d)
<1>0. d.fault # None
  BY KBAssumption
<1>1. top \in GatedIndices(f) /\ v = EvaluateGate(d, f, top)
  BY <1>0, MostSevereExists DEF EvaluateGates
<1>2. SeverityAt(d, f, i) = 3
  BY DEF SeverityAt, Severity
<1>3. top \in MostSevere(d, f)
  BY MostSevereExists
<1>4. v \in Verdicts
  BY <1>1, EvaluateGateType
<1>5. v.outcome = "REFUSE"
  <2>1. 3 <= SeverityAt(d, f, top)
    BY <1>2, <1>3 DEF MostSevere
  <2>2. v.outcome \in {"NO_FIRE", "ASK", "CAUTION", "REFUSE"}
    BY <1>4 DEF Verdicts, Severity, NoFire
  <2>. QED BY <1>1, <2>1, <2>2 DEF SeverityAt, Severity
<1>6. Reassess(d) = AnswerGate(d, v)
  BY <1>5 DEF Reassess, Speaks
<1>. QED BY <1>4, <1>5, <1>6, AnswerGateType

\* Once the matched relay is on record as having acted again, every answer is a refusal
\* (gates.py rule 1, both triggers before every other rule).
THEOREM RecurrenceIsRefused == Spec => []RecurrenceRefused
<1>1. Init => RecurrenceRefused
  BY DEF Init, RecurrenceRefused, NewState
<1>2. TypeOK /\ RecurrenceRefused /\ [Next]_vars => RecurrenceRefused'
  <2>. SUFFICES ASSUME TypeOK, RecurrenceRefused, [Next]_vars PROVE RecurrenceRefused'
    OBVIOUS
  <2>1. CASE Next
    <3>1. PICK d \in State : d.fault \in DOMAIN KB /\ diag' = Reassess(d).diag /\ last' = Reassess(d).terminal
      BY <2>1, NextAnswers
    <3>2. SameJudgement(diag', d)
      BY <3>1, ReassessType
    <3>. SUFFICES ASSUME NEW i \in ResetIndices(KB[d.fault]),
                         diag'.facts[KB[d.fault].steps[i].gate.recurrence] = "yes"
                  PROVE  last'.kind = "refuse"
      BY <3>2 DEF RecurrenceRefused, Matched, SameJudgement
    <3>3. i \in GatedIndices(KB[d.fault]) /\ KB[d.fault].steps[i].gate.type = "reset_limit"
      BY DEF ResetIndices, GatedIndices, Gated, None
    <3>4. d.facts[KB[d.fault].steps[i].gate.recurrence] = "yes"
      <4>1. KB[d.fault].steps[i].gate.recurrence \in FaultKeys
        BY <3>1, <3>3, FaultIsWellFormed DEF GatedIndices, WellFormedStep, WellFormedGate
      <4>. QED BY <3>2, <4>1 DEF SameJudgement
    <3>5. EvaluateGate(d, KB[d.fault], i).outcome = "REFUSE"
      <4>1. Recurred \in RefuseReasons(d, KB[d.fault], i)
        BY <3>4 DEF RefuseReasons, HistoryReasons
      <4>. QED BY <3>3, <4>1 DEF EvaluateGate, EvaluateResetLimit, Verdict
    <3>. QED BY <3>1, <3>3, <3>5, RefusalIsSaid
  <2>2. CASE UNCHANGED vars
    BY <2>2 DEF vars, RecurrenceRefused, Matched
  <2>. QED BY <2>1, <2>2
<1>. QED BY <1>1, <1>2, TypeCorrect, PTL DEF Spec

\* A hard-gated procedure that is only a guess is confirmed before it is followed
\* (reassess.py step 2b; only a refusal comes before the question).
THEOREM GuessIsConfirmed == Spec => []GuessIsConfirmedFirst
<1>1. Init => GuessIsConfirmedFirst
  BY DEF Init, GuessIsConfirmedFirst, NeedsConfirm, NewState
<1>2. TypeOK /\ GuessIsConfirmedFirst /\ [Next]_vars => GuessIsConfirmedFirst'
  <2>. SUFFICES ASSUME TypeOK, GuessIsConfirmedFirst, [Next]_vars PROVE GuessIsConfirmedFirst'
    OBVIOUS
  <2>1. CASE Next
    <3>1. PICK d \in State : d.fault \in DOMAIN KB /\ diag' = Reassess(d).diag /\ last' = Reassess(d).terminal
      BY <2>1, NextAnswers
    <3>2. SameJudgement(diag', d)
      BY <3>1, ReassessType
    <3>. DEFINE v == EvaluateGates(d)
    <3>. SUFFICES ASSUME NeedsConfirm(d) PROVE last'.kind \in {"refuse", "confirm_fault"}
      BY <3>2 DEF GuessIsConfirmedFirst, NeedsConfirm, SameJudgement
    <3>3. CASE Speaks(d, v)
      <4>1. v.outcome = "REFUSE" /\ Reassess(d) = AnswerGate(d, v)
        BY <3>3 DEF Speaks, Reassess
      <4>2. v \in Verdicts
        BY <3>1, <4>1, VerdictOfAGate, EvaluateGateType
      <4>. QED BY <3>1, <4>1, <4>2, AnswerGateType
    <3>4. CASE ~Speaks(d, v)
      BY <3>1, <3>4, KBAssumption DEF Reassess, AnswerMatched, Answer, Terminal
    <3>. QED BY <3>3, <3>4
  <2>2. CASE UNCHANGED vars
    BY <2>2 DEF vars, GuessIsConfirmedFirst
  <2>. QED BY <2>1, <2>2
<1>. QED BY <1>1, <1>2, TypeCorrect, PTL DEF Spec

\* Merging and rerouting never unrecord what is on record about resets.
LEMMA SettledKeepsBookkeeping ==
    ASSUME TypeOK, NEW u \in Messages, HandedOver(u), NEW k \in Bookkeeping, diag.facts[k] = "yes"
    PROVE  Settled(u).facts[k] = "yes"
<1>1. k \in Keys /\ u.facts[k] = Unstated /\ k # FaultRecurred
  BY KBAssumption, MessagesAssumption DEF WellParsed, Bookkeeping, ResetPerformed, ResetInstructed, FaultRecurred
<1>2. \A f, now : UpdateFacts(diag, u, f, now)[k] = "yes"
  <2>. SUFFICES ASSUME NEW f, NEW now PROVE UpdateFacts(diag, u, f, now)[k] = "yes"
    OBVIOUS
  <2>1. Implied(diag, u, f)[k] = "yes"
    BY <1>1 DEF Implied, Unstated
  <2>. QED BY <1>1, <2>1 DEF UpdateFacts
<1>3. UpdateState(diag, u).facts[k] = "yes"
  BY <1>2 DEF UpdateState
<1>4. \A x : SwitchTo(UpdateState(diag, u), x).facts = UpdateState(diag, u).facts
  BY UpdateStateType DEF SwitchTo, State, TypeOK, HandedOver, Concerns
<1>. QED BY <1>3, <1>4 DEF Settled, ResolveCombination

\* What the engine recorded about resets in this session is never unrecorded, neither by
\* a message nor by a reroute or an answer (update_state).
THEOREM BookkeepingIsKept == Spec => BookkeepingKept
<1>1. TypeOK /\ [Next]_vars => [\A k \in Bookkeeping : diag.facts[k] = "yes" => diag'.facts[k] = "yes"]_vars
  <2>. SUFFICES ASSUME TypeOK, Next, NEW k \in Bookkeeping, diag.facts[k] = "yes" PROVE diag'.facts[k] = "yes"
    OBVIOUS
  <2>1. PICK u \in Messages : Turn(u)
    BY DEF Next
  <2>2. diag' = Reassess(Settled(u)).diag /\ HandedOver(u)
    BY <2>1 DEF Turn, RunTurn, Settled
  <2>3. SameJudgement(diag', Settled(u))
    BY <2>2, SettledType, ReassessType
  <2>. QED BY <2>2, <2>3, SettledKeepsBookkeeping DEF SameJudgement
<1>. QED BY <1>1, TypeCorrect, PTL DEF Spec, BookkeepingKept

\* A reset the pilot has been told to do is on record.
InstructedIsOnRecord == InstructsReset(last) => PriorReset(diag)

\* An answer that instructs a reset puts it on record.
LEMMA ReassessRecordsReset ==
    ASSUME NEW d \in State, d.fault \in DOMAIN KB, InstructsReset(Reassess(d).terminal)
    PROVE  PriorReset(Reassess(d).diag)
<1>. DEFINE v == EvaluateGates(d)
            r == Reassess(d)
<1>0. d.fault # None
  BY KBAssumption
<1>1. Speaks(d, v)
  <2>1. ~Speaks(d, v) => r \in OrdinaryAnswers(d)
    BY <1>0, AnswerMatchedType DEF Reassess
  <2>. QED BY <2>1 DEF OrdinaryAnswers, InstructsReset, None
<1>2. v.outcome # "NO_FIRE" /\ r = AnswerGate(d, v)
  BY <1>1 DEF Speaks, Reassess
<1>3. v \in Verdicts
  BY <1>2, VerdictOfAGate, EvaluateGateType
<1>4. v.outcome = "CAUTION" /\ v.gate = "reset_limit"
  BY <1>2, <1>3, AnswerGateType DEF InstructsReset
<1>5. r.diag = [d EXCEPT !.facts[ResetInstructed] = "yes"]
  BY <1>2, <1>4 DEF AnswerGate, Answer
<1>6. r.diag.facts = [d.facts EXCEPT ![ResetInstructed] = "yes"]
  BY <1>5 DEF State
<1>. QED BY <1>6, KBAssumption DEF PriorReset, State

\* Whenever the pilot was last told to reset, a reset is on record.
LEMMA InstructedOnRecord == Spec => []InstructedIsOnRecord
<1>1. Init => InstructedIsOnRecord
  BY DEF Init, InstructedIsOnRecord, InstructsReset, NoTerminal, None
<1>2. TypeOK /\ InstructedIsOnRecord /\ [Next]_vars => InstructedIsOnRecord'
  <2>. SUFFICES ASSUME TypeOK, InstructedIsOnRecord, [Next]_vars PROVE InstructedIsOnRecord'
    OBVIOUS
  <2>1. CASE Next
    BY <2>1, NextAnswers, ReassessRecordsReset DEF InstructedIsOnRecord
  <2>2. CASE UNCHANGED vars
    BY <2>2 DEF vars, InstructedIsOnRecord
  <2>. QED BY <2>1, <2>2
<1>. QED BY <1>1, <1>2, TypeCorrect, PTL DEF Spec

\* A message that presents the fault over a reset on record settles in a state that has
\* the recurrence on record.
LEMMA PresentedAgainRecurs ==
    ASSUME TypeOK, NEW u \in Messages, HandedOver(u), PriorReset(diag), u.presenting
    PROVE  Settled(u).facts[FaultRecurred] = "yes"
<1>1. FaultRecurred \in Keys /\ FaultRecurred # ResetPerformed
  BY KBAssumption DEF FaultRecurred, ResetPerformed
<1>2. \A f, now : UpdateFacts(diag, u, f, now)[FaultRecurred] = "yes"
  BY <1>1 DEF UpdateFacts, Recurs
<1>3. UpdateState(diag, u).facts[FaultRecurred] = "yes"
  BY <1>2 DEF UpdateState
<1>4. \A x : SwitchTo(UpdateState(diag, u), x).facts = UpdateState(diag, u).facts
  BY UpdateStateType DEF SwitchTo, State, TypeOK, HandedOver, Concerns
<1>. QED BY <1>3, <1>4 DEF Settled, ResolveCombination

\* The turn of a message that presents the fault over a reset on record is refused.
LEMMA PresentedTurnIsRefused ==
    ASSUME TypeOK, RecurrenceRefused', InstructedIsOnRecord, NEW u \in Messages, Turn(u), u.presenting,
           InstructsReset(last) \/ PriorReset(diag), diag'.fault # None,
           \E i \in ResetIndices(Matched') : Matched'.steps[i].gate.recurrence = FaultRecurred
    PROVE  last'.kind = "refuse"
<1>1. diag' = Reassess(Settled(u)).diag /\ HandedOver(u)
  BY DEF Turn, RunTurn, Settled
<1>2. PriorReset(diag)
  BY DEF InstructedIsOnRecord
<1>3. SameJudgement(diag', Settled(u))
  BY <1>1, SettledType, ReassessType
<1>4. FaultRecurred \in FaultKeys
  BY KBAssumption DEF FaultKeys, Bookkeeping, FaultRecurred, ResetPerformed, ResetInstructed
<1>5. diag'.facts[FaultRecurred] = "yes"
  BY <1>1, <1>2, <1>3, <1>4, PresentedAgainRecurs DEF SameJudgement
<1>. QED BY <1>5 DEF RecurrenceRefused, Matched

\* Once the copilot has told the pilot to reset a relay, or a reset is on record as done,
\* a message that presents the fault is refused (update_state's recurrence backstop), in
\* every fault whose reset gate watches the common recurrence fact.
THEOREM SecondActIsRefused == Spec => SecondActRefused
<1>1. TypeOK /\ RecurrenceRefused' /\ InstructedIsOnRecord /\ [Next]_vars
        => [ /\ InstructsReset(last) \/ PriorReset(diag)
             /\ presented'
             /\ diag'.fault # None
             /\ \E i \in ResetIndices(Matched') : Matched'.steps[i].gate.recurrence = FaultRecurred
             => last'.kind = "refuse" ]_vars
  <2>. SUFFICES ASSUME TypeOK, RecurrenceRefused', InstructedIsOnRecord, Next,
                       InstructsReset(last) \/ PriorReset(diag), presented', diag'.fault # None,
                       \E i \in ResetIndices(Matched') : Matched'.steps[i].gate.recurrence = FaultRecurred
                PROVE  last'.kind = "refuse"
    OBVIOUS
  <2>1. PICK u \in Messages : Turn(u)
    BY DEF Next
  <2>2. u.presenting
    BY <2>1 DEF Turn, RunTurn
  <2>. QED BY <2>1, <2>2, PresentedTurnIsRefused
<1>. QED BY <1>1, TypeCorrect, RecurrenceIsRefused, InstructedOnRecord, PTL DEF Spec, SecondActRefused

-----------------------------------------------------------------------------
(* Hazardous steps. *)

\* While no verdict is said about a settled fault, no gate of it fires.
LEMMA SilentGates ==
    ASSUME NEW d \in State, d.fault \in DOMAIN KB, ~NeedsConfirm(d), ~Speaks(d, EvaluateGates(d)),
           NEW i \in GatedIndices(KB[d.fault])
    PROVE  EvaluateGate(d, KB[d.fault], i).outcome = "NO_FIRE"
<1>. DEFINE f == KB[d.fault]
            top == First(MostSevere(d, f))
<1>1. d.fault # None /\ EvaluateGates(d).outcome = "NO_FIRE"
  BY KBAssumption DEF Speaks
<1>2. top \in GatedIndices(f) /\ top \in MostSevere(d, f) /\ EvaluateGates(d) = EvaluateGate(d, f, top)
  BY <1>1, MostSevereExists DEF EvaluateGates
<1>3. SeverityAt(d, f, i) <= 0
  <2>. HIDE DEF top
  <2>1. SeverityAt(d, f, top) = 0
    BY <1>1, <1>2 DEF SeverityAt, Severity
  <2>2. i # top => SeverityAt(d, f, i) <= SeverityAt(d, f, top)
    BY <1>2 DEF MostSevere
  <2>. QED BY <2>1, <2>2
<1>4. EvaluateGate(d, f, i).outcome \in {"NO_FIRE", "ASK", "CAUTION", "REFUSE"}
  BY EvaluateGateType DEF Verdicts, Severity, NoFire
<1>. QED BY <1>3, <1>4 DEF SeverityAt, Severity

\* A hazardous step in play whose gate is silent has every precondition stated.
LEMMA SilentHazard ==
    ASSUME NEW d \in State, NEW x \in DOMAIN KB, NEW i \in HazardIndices(KB[x]),
           EvaluateGate(d, KB[x], i).outcome = "NO_FIRE", HazardInPlay(d, KB[x], i)
    PROVE  PreconditionsMet(d, KB[x], i)
<1>1. EvaluateGate(d, KB[x], i) = EvaluateHazardExposure(d, KB[x], i)
  BY DEF HazardIndices, ResetIndices, GatedIndices, EvaluateGate
<1>. QED BY <1>1 DEF EvaluateHazardExposure, Verdict

\* A gated step is put to the pilot as the next step only when it is in play.
LEMMA AskedGateIsInPlay ==
    ASSUME NEW d \in State, NEW x \in DOMAIN KB, NEW i \in GatedIndices(KB[x]),
           NEW t, t = AnswerProcedure(d, KB[x]).terminal,
           t.kind = "ask_step", t.step = KB[x].steps[i].id
    PROVE  HazardInPlay(d, KB[x], i)
<1>. DEFINE f == KB[x]
<1>0. Indices(f) \subseteq Nat /\ i \in Indices(f) /\ Gated(f, i)
  BY FaultIsWellFormed DEF GatedIndices
<1>1. \A j \in Indices(f) : f.steps[j].id = f.steps[i].id => j = i
  BY <1>0, FaultIsWellFormed DEF WellFormedFault
<1>2. NeedsAxis(d, f) = None
  BY DEF AnswerProcedure, Answer, Terminal
<1>3. Missing(d, f) = {}
  <2>. SUFFICES ASSUME Missing(d, f) # {} PROVE FALSE
    OBVIOUS
  <2>. DEFINE j == First(Missing(d, f))
  <2>1. j \in OrdinaryIndices(f)
    <3>1. Missing(d, f) \subseteq OrdinaryIndices(f) /\ OrdinaryIndices(f) \subseteq Nat
      BY <1>0 DEF Missing, OrdinaryIndices
    <3>. QED BY <3>1, FirstIsLeast
  <2>2. t = AskStep(d, f, j)
    BY <1>2 DEF AnswerProcedure, Asked, Answer
  <2>3. t.step = f.steps[j].id
    <3>. HIDE DEF j
    <3>. QED BY <2>2 DEF AskStep, Terminal
  <2>. QED BY <1>0, <1>1, <2>1, <2>3 DEF OrdinaryIndices
<1>4. ~Completed(d, f) /\ OpenGates(d, f) # {}
  BY <1>2, <1>3 DEF AnswerProcedure, Answer, ConfirmAfterReset, Terminal
<1>5. i = First(OpenGates(d, f))
  <2>1. First(OpenGates(d, f)) \in Indices(f)
    <3>1. OpenGates(d, f) \subseteq Indices(f)
      BY DEF OpenGates, GatedIndices
    <3>. QED BY <1>0, <1>4, <3>1, FirstIsLeast
  <2>2. t.step = f.steps[First(OpenGates(d, f))].id
    BY <1>2, <1>3, <1>4 DEF AnswerProcedure, Asked, Answer, Terminal
  <2>. QED BY <1>1, <2>1, <2>2
<1>6. i \in OpenGates(d, f) /\ \A j \in OpenGates(d, f) : i <= j
  <2>1. OpenGates(d, f) \subseteq Nat
    BY <1>0 DEF OpenGates, GatedIndices
  <2>. QED BY <1>4, <1>5, <2>1, FirstIsLeast
<1>7. \A j \in Indices(f) : j < i /\ Gated(f, j) => Claims(d, f, j) \/ Skipped(d, f, j)
  BY <1>0, <1>6 DEF OpenGates, GatedIndices
<1>8. PriorOrdinaryComplete(d, f, i)
  BY <1>3, <1>4, <1>7 DEF PriorOrdinaryComplete
<1>. QED BY <1>6, <1>8 DEF HazardInPlay, OpenGates

\* What HazardOnlyWithPreconditions promises of a state and a terminal.
HazardSafe(d, t) ==
    \A i \in HazardIndices(KB[d.fault]) :
        \/ t.kind = "ask_step" /\ t.step = KB[d.fault].steps[i].id
        \/ t.kind = "confirm" /\ Claims(d, KB[d.fault], i)
        => PreconditionsMet(d, KB[d.fault], i)

\* Every answer that accepts a hazardous step or puts it to the pilot does so with its
\* preconditions met.
LEMMA ReassessHazardSafe ==
    ASSUME NEW d \in State, d.fault \in DOMAIN KB
    PROVE  HazardSafe(d, Reassess(d).terminal)
<1>. DEFINE f == KB[d.fault]
            t == Reassess(d).terminal
            v == EvaluateGates(d)
<1>. SUFFICES ASSUME NEW i \in HazardIndices(f),
                     \/ t.kind = "ask_step" /\ t.step = f.steps[i].id
                     \/ t.kind = "confirm" /\ Claims(d, f, i)
              PROVE  PreconditionsMet(d, f, i)
  BY DEF HazardSafe
<1>0. d.fault # None /\ i \in GatedIndices(f)
  BY KBAssumption DEF HazardIndices
<1>1. ~Speaks(d, v)
  <2>. SUFFICES ASSUME Speaks(d, v) PROVE FALSE
    OBVIOUS
  <2>1. v.outcome # "NO_FIRE" /\ Reassess(d) = AnswerGate(d, v)
    BY DEF Speaks, Reassess
  <2>2. v \in Verdicts
    BY <2>1, VerdictOfAGate, EvaluateGateType
  <2>. QED BY <2>1, <2>2, AnswerGateType
<1>2. ~NeedsConfirm(d)
  BY <1>0, <1>1 DEF Reassess, AnswerMatched, Answer, Terminal
<1>3. EvaluateGate(d, f, i).outcome = "NO_FIRE"
  BY <1>0, <1>1, <1>2, SilentGates
<1>4. HazardInPlay(d, f, i)
  <2>1. CASE Claims(d, f, i)
    BY <2>1 DEF HazardInPlay
  <2>2. CASE t.kind = "ask_step" /\ t.step = f.steps[i].id
    <3>1. t = AnswerProcedure(d, f).terminal
      BY <1>0, <1>1, <1>2, <2>2
         DEF Reassess, AnswerMatched, AnswerIsolation, Answer, Closed, ConfirmAfterReset, Terminal
    <3>. QED BY <1>0, <2>2, <3>1, AskedGateIsInPlay
  <2>. QED BY <2>1, <2>2
<1>. QED BY <1>3, <1>4, SilentHazard

\* A hazardous step is put to the pilot, or taken as done in a confirmation, only with
\* every precondition of its gate stated 'yes' (gates.py, evaluate_hazard_exposure; the
\* reflex before every other answer, reassess.py).
THEOREM HazardIsGuarded == Spec => []HazardOnlyWithPreconditions
<1>1. Init => HazardOnlyWithPreconditions
  BY DEF Init, HazardOnlyWithPreconditions, NewState
<1>2. TypeOK /\ HazardOnlyWithPreconditions /\ [Next]_vars => HazardOnlyWithPreconditions'
  <2>. SUFFICES ASSUME TypeOK, HazardOnlyWithPreconditions, [Next]_vars PROVE HazardOnlyWithPreconditions'
    OBVIOUS
  <2>1. CASE Next
    <3>1. PICK d \in State : d.fault \in DOMAIN KB /\ diag' = Reassess(d).diag /\ last' = Reassess(d).terminal
      BY <2>1, NextAnswers
    <3>2. SameJudgement(diag', d)
      BY <3>1, ReassessType
    <3>3. \A i \in HazardIndices(KB[d.fault]) :
             /\ Claims(diag', KB[d.fault], i) => Claims(d, KB[d.fault], i)
             /\ PreconditionsMet(d, KB[d.fault], i) => PreconditionsMet(diag', KB[d.fault], i)
      <4>. SUFFICES ASSUME NEW i \in HazardIndices(KB[d.fault])
                    PROVE  KB[d.fault].steps[i].gate.pre \subseteq FaultKeys
        BY <3>2 DEF SameJudgement, Claims, PreconditionsMet
      <4>. QED BY <3>1, FaultIsWellFormed
           DEF HazardIndices, GatedIndices, Gated, ResetIndices, WellFormedStep, WellFormedGate, GateTypes
    <3>4. Matched' = KB[d.fault]
      BY <3>2 DEF Matched, SameJudgement
    <3>5. HazardSafe(d, last')
      BY <3>1, ReassessHazardSafe
    <3>6. \A i \in HazardIndices(KB[d.fault]) :
             \/ last'.kind = "ask_step" /\ last'.step = KB[d.fault].steps[i].id
             \/ last'.kind = "confirm" /\ Claims(diag', KB[d.fault], i)
             => PreconditionsMet(diag', KB[d.fault], i)
      BY <3>3, <3>5 DEF HazardSafe
    <3>. QED BY <3>4, <3>6 DEF HazardOnlyWithPreconditions
  <2>2. CASE UNCHANGED vars
    BY <2>2 DEF vars, HazardOnlyWithPreconditions, Matched
  <2>. QED BY <2>1, <2>2
<1>. QED BY <1>1, <1>2, TypeCorrect, PTL DEF Spec
=============================================================================
