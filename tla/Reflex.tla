-------------------------------- MODULE Reflex --------------------------------
(***************************************************************************)
(* The safety reflex (engine/gates.py) and the router that turns a state   *)
(* into the one terminal the pilot is told (engine/reassess.py,            *)
(* engine/terminals.py), as operators of a conversation state d.           *)
(***************************************************************************)
EXTENDS Procedure

\* Reasons of a refusal.
SecondReset == "second_reset"
Recurred    == "recurred_after_reset"
NotIsolated == "abnormality_not_isolated"
Grounds     == {SecondReset, Recurred, NotIsolated, Abnormality}

GateTexts == {"refused", "isolated?", "reset_earlier?", "on_isolated", "on_first_reset",
              "on_precondition_unmet", "precondition_question"}

NoFire == [outcome |-> "NO_FIRE", gate |-> None, step |-> None, text |-> None,
           reasons |-> {}, conditional |-> FALSE]

Verdict(kind, f, i, what) ==
    [outcome |-> kind, gate |-> f.steps[i].gate.type, step |-> f.steps[i].id, text |-> what,
     reasons |-> {}, conditional |-> FALSE]

-----------------------------------------------------------------------------
(* reset_limit: section 6.1.1 as rules 1-6 of the module docstring.         *)

AbnormalityOf(d, f, j) == d.facts[f.steps[j].abnormality]
IsolationOf(d, f, j)   == d.facts[f.steps[j].isolation]

AbnormalSteps(d, f) == {j \in OrdinaryIndices(f) : AbnormalityOf(d, f, j) = "yes"}
Isolable(d, f)      == {j \in AbnormalSteps(d, f) : f.steps[j].isolation # None}
IsolationPending(d, f) == {j \in Isolable(d, f) : IsolationOf(d, f, j) \notin {"yes", "no"}}
IsolationFailed(d, f)  == {j \in Isolable(d, f) : IsolationOf(d, f, j) = "no"}
IsolationDone(d, f)    == {j \in Isolable(d, f) : IsolationOf(d, f, j) = "yes"}
VerdictUnknown(d, f)   == \E j \in OrdinaryIndices(f) : AbnormalityOf(d, f, j) = Unstated

\* Mutant: a relay that acted again is refused only over an earlier reset.
HistoryReasonsOnce(d, gate) == IF d.facts[gate.needs] = "yes" THEN {SecondReset} ELSE {}

HistoryReasons(d, gate) ==
         (IF d.facts[gate.needs] = "yes" THEN {SecondReset} ELSE {})
    \cup (IF d.facts[gate.recurrence] = "yes" THEN {Recurred} ELSE {})

\* Mutant: an abnormality that cannot be isolated is not looked at.
AbnormalityReasonsLenient(d, f) == IF IsolationFailed(d, f) # {} THEN {NotIsolated} ELSE {}

AbnormalityReasons(d, f) ==
         (IF AbnormalSteps(d, f) # Isolable(d, f) THEN {Abnormality} ELSE {})
    \cup (IF IsolationFailed(d, f) # {} THEN {NotIsolated} ELSE {})

RefuseReasons(d, f, i) == HistoryReasons(d, f.steps[i].gate) \cup AbnormalityReasons(d, f)

\* Mutant: the reset waits to be claimed.
ResetInPlayOnceClaimed(d, f, i) == Claims(d, f, i)

ResetInPlay(d, f, i) == Claims(d, f, i) \/ ChecksComplete(d, f)

EvaluateResetLimit(d, f, i) ==
    LET earlier == d.facts[f.steps[i].gate.needs]
        reasons == RefuseReasons(d, f, i)
    IN  IF reasons # {}                    THEN [Verdict("REFUSE", f, i, "refused") EXCEPT !.reasons = reasons]
        ELSE IF IsolationPending(d, f) # {} THEN Verdict("ASK", f, i, "isolated?")
        ELSE IF ~ResetInPlay(d, f, i)       THEN NoFire
        ELSE IF earlier = Unstated          THEN Verdict("ASK", f, i, "reset_earlier?")
        ELSE IF Claims(d, f, i)             THEN NoFire
        ELSE IF IsolationDone(d, f) # {}    THEN Verdict("CAUTION", f, i, "on_isolated")
        ELSE [Verdict("CAUTION", f, i, "on_first_reset") EXCEPT !.conditional = VerdictUnknown(d, f)]

-----------------------------------------------------------------------------
(* hazard_exposure: the action is dangerous unless every precondition holds. *)

PriorOrdinaryComplete(d, f, i) ==
    /\ ~Completed(d, f)
    /\ \A j \in Indices(f) : j < i =>
          IF Gated(f, j) THEN Claims(d, f, j) \/ Skipped(d, f, j) ELSE j \notin Missing(d, f)

\* Mutants: the action has to be mentioned; an intention waits for the step.
HazardInPlayIfMentioned(d, f, i)  == Claims(d, f, i) \/ d.intent = f.steps[i].gate.action
HazardInPlayWhenReached(d, f, i)  == Claims(d, f, i) \/ (~Skipped(d, f, i) /\ PriorOrdinaryComplete(d, f, i))

HazardInPlay(d, f, i) ==
    \/ Claims(d, f, i)
    \/ d.intent = f.steps[i].gate.action
    \/ ~Skipped(d, f, i) /\ PriorOrdinaryComplete(d, f, i)

Precondition(d, f, i, v) == {p \in f.steps[i].gate.pre : d.facts[p] = v}
PreconditionsMet(d, f, i) == \A p \in f.steps[i].gate.pre : d.facts[p] = "yes"

EvaluateHazardExposure(d, f, i) ==
    IF ~HazardInPlay(d, f, i) THEN NoFire
    ELSE IF Precondition(d, f, i, "no") # {}
         THEN [Verdict("REFUSE", f, i, "on_precondition_unmet") EXCEPT !.reasons = Precondition(d, f, i, "no")]
    ELSE IF PreconditionsMet(d, f, i) THEN NoFire
    ELSE IF Claims(d, f, i)           THEN Verdict("ASK", f, i, "precondition_question")
    ELSE Verdict("CAUTION", f, i, "on_precondition_unmet")

-----------------------------------------------------------------------------
(* evaluate_gates: the most severe verdict, the first gate among equals.    *)

Severity == [NO_FIRE |-> 0, ASK |-> 1, CAUTION |-> 2, REFUSE |-> 3]

EvaluateGate(d, f, i) ==
    IF f.steps[i].gate.type = "reset_limit" THEN EvaluateResetLimit(d, f, i)
                                            ELSE EvaluateHazardExposure(d, f, i)

SeverityAt(d, f, i) == Severity[EvaluateGate(d, f, i).outcome]
MostSevere(d, f) ==
    {i \in GatedIndices(f) : \A j \in GatedIndices(f) \ {i} : SeverityAt(d, f, j) <= SeverityAt(d, f, i)}

EvaluateGates(d) ==
    IF d.fault = None \/ GatedIndices(KB[d.fault]) = {} THEN NoFire
    ELSE EvaluateGate(d, KB[d.fault], First(MostSevere(d, KB[d.fault])))

-----------------------------------------------------------------------------
(* Terminals.  text names the KB text carried; guidance the follow-up texts. *)

NoTerminal == [kind |-> None, fault |-> None, step |-> None, gate |-> None, text |-> None, reasons |-> {},
               guidance |-> {}, conditional |-> FALSE, hold |-> None, doNow |-> FALSE, unrecognised |-> {}]

Terminal(what, d, where, said) ==
    [kind |-> what, fault |-> d.fault, step |-> where, gate |-> None, text |-> said, reasons |-> {},
     guidance |-> {}, conditional |-> FALSE, hold |-> None, doNow |-> FALSE, unrecognised |-> {}]

Kinds == {"refuse", "caution", "ask_history", "ask_config", "ask_step", "confirm_fault", "confirm", "defer_to_TLC"}

\* A deferral names the fact it rests on.
Texts == GateTexts \cup Keys \cup {"branch?", "step", "axis?", "signs?", "complete", "reset_done",
                                  "not_in_set", "on_not_isolated"}
GuidanceTexts == {"after_first_reset", "rule"} \cup {KB[x].resolved : x \in DOMAIN KB}
                                               \cup {KB[x].unresolved : x \in DOMAIN KB}

\* What the pilot was told, for repeat detection.
Signature(t) == <<t.kind, t.fault, t.step, t.gate, t.text, t.guidance, t.reasons>>

InstructsReset(t) == t.kind = "caution" /\ t.gate = "reset_limit"

GateTerminal(d, v) ==
    LET what == CASE v.outcome = "REFUSE" -> "refuse" [] v.outcome = "CAUTION" -> "caution" [] OTHER -> "ask_history"
    IN [Terminal(what, d, v.step, v.text)
           EXCEPT !.gate = v.gate, !.reasons = v.reasons, !.conditional = v.conditional]

ConfirmAfterReset(d, f, guide) ==
    LET done == {i \in ResetIndices(f) : Claims(d, f, i)} IN
    [Terminal("confirm", d, None, IF done = {} THEN "complete" ELSE "reset_done")
        EXCEPT !.guidance = (guide \ {None}) \cup (IF done = {} THEN {} ELSE {"after_first_reset", "rule"})]

-----------------------------------------------------------------------------
(* reassess, in its fixed order.                                            *)

NeedsConfirm(d) ==
    /\ d.fault # None /\ ~d.confirmed
    /\ GatedIndices(KB[d.fault]) # {} \/ KB[d.fault].confirmFirst

DeferHits(d, f) ==
    {n \in DOMAIN f.defers : /\ d.facts[f.defers[n].fact] = f.defers[n].equals
                             /\ f.defers[n].after = {} \/ f.defers[n].after \cap d.claimed # {}}

\* The step and its successor are alternative branches the pilot has not chosen between.
OpenBranch(d, f, i) ==
    /\ ~Claims(d, f, i) /\ Alternative(f, i) /\ f.steps[i].head = IfClause
    /\ \A k \in Conditions(f.steps[i]) \ Axes : d.facts[k] = Unstated
AsksBranch(d, f, i) ==
    /\ OpenBranch(d, f, i) /\ i + 1 \in Indices(f) /\ OpenBranch(d, f, i + 1)
    /\ Conditions(f.steps[i]) \cap Conditions(f.steps[i + 1]) = {}

\* A gated action the pilot intends, held back while checks are outstanding.
HeldAction(d, f) ==
    IF \E i \in GatedIndices(f) : /\ d.intent # None /\ ~Claims(d, f, i)
                                  /\ \/ f.steps[i].gate.action = d.intent
                                     \/ i \in ResetIndices(f) /\ d.intent \in {"reset_QLM", "reset_QLA"}
    THEN d.intent ELSE None

AskStep(d, f, i) ==
    LET branch == AsksBranch(d, f, i)
        dueNow == f.steps[i].id \in d.declined \/ Conditions(f.steps[i]) \cap d.said # {}
    IN IF branch THEN Terminal("ask_history", d, f.steps[i].id, "branch?")
       ELSE [Terminal("ask_step", d, f.steps[i].id, "step") EXCEPT
                !.hold = HeldAction(d, f), !.doNow = dueNow, !.unrecognised = d.unrecognised]

\* Mutant: only a reset is still to be done once the checks are.
OpenResets(d, f) == {i \in ResetIndices(f) : ~Claims(d, f, i) /\ ~Skipped(d, f, i)}

\* The gated steps the reflex let through and that are still to be done, in order.
OpenGates(d, f) == {i \in GatedIndices(f) : ~Claims(d, f, i) /\ ~Skipped(d, f, i)}

FinalGuidance(d, f) ==
    CASE Completed(d, f) /\ f.resolved # None -> {f.resolved}
      [] ~(Completed(d, f) /\ f.resolved # None) /\ ResetIndices(f) = {} -> {f.unresolved}
      [] OTHER -> {}

Answer(d, t)      == [diag |-> d, terminal |-> t]
Closed(d)         == [d EXCEPT !.stuckAt = None]

\* Mutant: asking a declined check again forgets that it was declined.
AskedAfresh(d, f, i, t) == Answer([d EXCEPT !.stuckAt = f.steps[i].id, !.declined = @ \ {f.steps[i].id}], t)

Asked(d, f, i, t) == Answer([d EXCEPT !.stuckAt = f.steps[i].id], t)

\* Mutant: each answer of a gate records anew whether it instructs the reset.
AnswerGateAnew(d, v) ==
    Answer([d EXCEPT !.facts[ResetInstructed] =
                        IF v.outcome = "CAUTION" /\ v.gate = "reset_limit" THEN "yes" ELSE Unstated],
           GateTerminal(d, v))

\* Step 1: the reflex fired and its verdict may be said.
AnswerGate(d, v) ==
    Answer(IF v.outcome = "CAUTION" /\ v.gate = "reset_limit"
           THEN [d EXCEPT !.facts[ResetInstructed] = "yes"] ELSE d,
           GateTerminal(d, v))

\* Step 2e: isolation questions of a fault without a gate.
AnswerIsolation(d, f) ==
    IF IsolationFailed(d, f) # {} THEN Answer(d, Terminal("defer_to_TLC", d, None, "on_not_isolated"))
    ELSE LET last == CHOOSE i \in IsolationPending(d, f) : \A j \in IsolationPending(d, f) : j <= i
         IN Answer(d, Terminal("ask_history", d, f.steps[last].id, "isolated?"))

\* Steps 3-4: the delta, then a gate the reflex let through, then the end.
AnswerProcedure(d, f) ==
    IF NeedsAxis(d, f) # None
    THEN Answer(d, [Terminal("ask_config", d, None, "axis?") EXCEPT !.reasons = {NeedsAxis(d, f)}])
    ELSE IF Missing(d, f) # {}
    THEN LET i == First(Missing(d, f)) IN Asked(d, f, i, AskStep(d, f, i))
    ELSE IF ~Completed(d, f) /\ OpenGates(d, f) # {}
    THEN LET i == First(OpenGates(d, f)) IN
         Asked(d, f, i, [Terminal("ask_step", d, f.steps[i].id, "step") EXCEPT !.unrecognised = d.unrecognised])
    ELSE Answer(Closed(d), ConfirmAfterReset(d, f, FinalGuidance(d, f)))

AnswerMatched(d, f) ==
    IF NeedsConfirm(d) THEN Answer(d, Terminal("confirm_fault", d, None, "signs?"))
    ELSE IF d.facts[FaultResolved] = "yes"
    THEN Answer(Closed(d), ConfirmAfterReset(d, f, {f.resolved}))
    ELSE IF DeferHits(d, f) # {}
    THEN Answer(Closed(d), Terminal("defer_to_TLC", d, None, f.defers[First(DeferHits(d, f))].fact))
    ELSE IF GatedIndices(f) = {} /\ (IsolationFailed(d, f) \cup IsolationPending(d, f)) # {}
    THEN AnswerIsolation(d, f)
    ELSE AnswerProcedure(d, f)

\* Mutant: a gate may guide through a procedure that is only a guess.
SpeaksOfAGuess(d, v) == v.outcome # "NO_FIRE"

Speaks(d, v) == v.outcome # "NO_FIRE" /\ (v.outcome = "REFUSE" \/ ~NeedsConfirm(d))

Reassess(d) ==
    LET v == EvaluateGates(d) IN
    IF Speaks(d, v)         THEN AnswerGate(d, v)
    ELSE IF d.fault = None  THEN Answer(d, Terminal("defer_to_TLC", d, None, "not_in_set"))
    ELSE AnswerMatched(d, KB[d.fault])
=============================================================================
