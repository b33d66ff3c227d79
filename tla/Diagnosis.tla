------------------------------ MODULE Diagnosis ------------------------------
(***************************************************************************)
(* One conversation driven through the engine (engine/run_turn.py): every  *)
(* parsed message is merged, rerouted, put to the reflex and answered.     *)
(* Messages is the set of structured updates the parser may hand over.     *)
(***************************************************************************)
EXTENDS Reflex

CONSTANTS Messages

VARIABLES diag,      \* the DiagnosisState
          last,      \* the terminal the pilot was last told
          presented  \* whether the last message presented the fault

vars == <<diag, last, presented>>

-----------------------------------------------------------------------------
\* StateUpdate: what the parser hands over for one message.
Update == [fault : DOMAIN KB \cup {None}, confirmed : YesNo, claimed : SUBSET STRING,
           facts : [Keys -> Values], tellsRelays : BOOLEAN, relays : SUBSET STRING,
           intent : STRING, clearIntent : BOOLEAN, presenting : BOOLEAN, denies : BOOLEAN,
           loco : [Axes -> Values]]

\* parse_turn: a fault named by one of its aliases is certain and presents itself; a
\* fault the model guessed is unconfirmed; the matched fault is only ever confirmed.
WellParsed(u) ==
    /\ u.fault = None => u.confirmed # "no"
    /\ u.fault # None => u.confirmed = "no" \/ (u.confirmed = "yes" /\ u.presenting)
    /\ \A k \in Bookkeeping : u.facts[k] = Unstated

ASSUME MessagesAssumption == \A u \in Messages : u \in Update /\ WellParsed(u)

NoNews == [fault |-> None, confirmed |-> Unstated, claimed |-> {}, facts |-> [k \in Keys |-> Unstated],
           tellsRelays |-> FALSE, relays |-> {}, intent |-> None, clearIntent |-> FALSE,
           presenting |-> FALSE, denies |-> FALSE, loco |-> [a \in Axes |-> Unstated]]

-----------------------------------------------------------------------------
Init ==
    /\ diag = NewState
    /\ last = NoTerminal
    /\ presented = FALSE

\* parse_turn hands an update over once there is a fault it can be about, and names
\* one only outside the family of the matched fault (the resolved identity is kept).
Concerns(u, x) ==
    /\ u.fault # None \/ x # None
    /\ ~SameFamily(u.fault, x)

HandedOver(u) == Concerns(u, diag.fault)

\* run_turn: merge, reroute, reflex, answer.
RunTurn(u) ==
    /\ \E r \in {Reassess(ResolveCombination(UpdateState(diag, u)))} :
          diag' = r.diag /\ last' = r.terminal
    /\ presented' = u.presenting

Turn(u) == HandedOver(u) /\ RunTurn(u)

Next == \E u \in Messages : Turn(u)

Spec == Init /\ [][Next]_vars

-----------------------------------------------------------------------------
\* The names a conversation may contain are those of the KB and of its messages.
Named   == UNION {u.claimed : u \in Messages}
Relays  == UNION {u.relays : u \in Messages}
Intents == {u.intent : u \in Messages} \cup {None}

State == [fault : DOMAIN KB \cup {None}, confirmed : BOOLEAN, claimed : SUBSET AllSteps,
          declined : SUBSET AllSteps, unrecognised : SUBSET Named, facts : [Keys -> Values],
          said : SUBSET Keys, relays : SUBSET Relays, intent : Intents,
          stuckAt : AllSteps \cup {None}, loco : [Axes -> Values]]

Told == [kind : Kinds, fault : DOMAIN KB \cup {None}, step : AllSteps \cup {None},
         gate : GateTypes \cup {None}, text : Texts, reasons : SUBSET (Grounds \cup Keys \cup Axes),
         guidance : SUBSET GuidanceTexts, conditional : BOOLEAN, hold : Intents, doNow : BOOLEAN,
         unrecognised : SUBSET Named]

\* Types: in particular only steps of some checklist are ever counted as claimed,
\* declined or asked, whatever step names the parser hands over.
TypeOK ==
    /\ diag \in State
    /\ last \in Told \cup {NoTerminal}
    /\ presented \in BOOLEAN

Matched == KB[diag.fault]

\* The engine tells the pilot to reset a relay only under a confirmed fault, with
\* every ordinary check claimed, no abnormality that was not isolated, the reset
\* history stated and not 'yes', no recurrence, and the reset not yet reported done
\* (gates.py rules 1-5, reassess.py step 1).
ResetPermitted(i) ==
    /\ ~Claims(diag, Matched, i)
    /\ diag.facts[Matched.steps[i].gate.needs] \notin {Unstated, "yes"}
    /\ diag.facts[Matched.steps[i].gate.recurrence] # "yes"

ResetOnlyAsPermitted ==
    InstructsReset(last) =>
        /\ diag.fault # None /\ diag.confirmed
        /\ ChecksComplete(diag, Matched)
        /\ \A j \in AbnormalSteps(diag, Matched) :
              Matched.steps[j].isolation # None /\ IsolationOf(diag, Matched, j) = "yes"
        /\ \E i \in ResetIndices(Matched) : Matched.steps[i].id = last.step /\ ResetPermitted(i)

\* The reset is never put to the pilot as an ordinary next step: it reaches them
\* through the gate's own caution or not at all (reassess.py step 3b must find the
\* gate in play by the time nothing else is due).
ResetNeverAPlainStep ==
    last.kind = "ask_step" => \A i \in ResetIndices(Matched) : Matched.steps[i].id # last.step

\* A hazardous step is put to the pilot, or accepted as done in a confirmation,
\* only when every one of its preconditions has been stated 'yes'.
HazardIndices(f) == GatedIndices(f) \ ResetIndices(f)
HazardOnlyWithPreconditions ==
    diag.fault # None =>
        \A i \in HazardIndices(Matched) :
            \/ last.kind = "ask_step" /\ last.step = Matched.steps[i].id
            \/ last.kind = "confirm" /\ Claims(diag, Matched, i)
            => PreconditionsMet(diag, Matched, i)

\* A pilot who has said they are about to do a hazardous action hears, at once and
\* for as long as a precondition is open, a caution or a refusal -- whichever check
\* is outstanding, whatever else the message reported (gates.py: "intent" puts the
\* gate in play; the reflex precedes every other answer).  Only where the step is
\* reported done as well may the question after the precondition come instead.
IntentIsAnswered ==
    (diag.fault # None /\ diag.confirmed) =>
        \A i \in HazardIndices(Matched) :
            diag.intent = Matched.steps[i].gate.action /\ ~PreconditionsMet(diag, Matched, i)
            => \/ last.kind \in {"caution", "refuse"}
               \/ Claims(diag, Matched, i) /\ last.kind = "ask_history"

\* A hard-gated procedure that is only a guess is never guided through: the pilot
\* hears the confirm line, or a refusal (reassess.py step 2b, section 5.5).
GuessIsConfirmedFirst ==
    NeedsConfirm(diag) => last.kind \in {"refuse", "confirm_fault"}

\* Once the matched relay is recorded as having acted again, every answer is a
\* refusal, whatever else the messages say (gates.py rule 1).
RecurrenceRefused ==
    (diag.fault # None /\ \E i \in ResetIndices(Matched) : diag.facts[Matched.steps[i].gate.recurrence] = "yes")
        => last.kind = "refuse"

\* "Procedure verified complete" is said only when the pilot reported the fault
\* cleared, or a completing step was done, or nothing due is left: every step is
\* done, or its branch was not taken.
ConfirmMeansDone ==
    last.kind = "confirm" =>
        \/ diag.facts[FaultResolved] = "yes"
        \/ Completed(diag, Matched)
        \/ \A i \in Indices(Matched) :
              Done(diag, Matched, i) \/ Skipped(diag, Matched, i) \/ SiblingChosen(diag, Matched, i)

\* The step asked for is the first one due: not done, not in a branch the stated
\* facts exclude, on no axis that is unknown, and not behind a gate still pending
\* ("the ONE specific missed check", diff.py and reassess.py step 3).
AskedStepIsDue ==
    last.kind = "ask_step" =>
        \E i \in Indices(Matched) :
            /\ Matched.steps[i].id = last.step
            /\ ~Done(diag, Matched, i) /\ ~Skipped(diag, Matched, i)
            /\ \A k \in Conditions(Matched.steps[i]) \cap Axes : Fact(diag, Matched, k) # Unstated
            /\ \A j \in Indices(Matched) :
                  j < i => Done(diag, Matched, j) \/ Skipped(diag, Matched, j) \/ SiblingChosen(diag, Matched, j)

\* The loco is asked about only when the very next step not done branches on an
\* axis that is unknown ("ask only when the reached branch depends on it", diff.py).
ConfigAskedWhenItDecides ==
    last.kind = "ask_config" =>
        \E i \in OrdinaryIndices(Matched) :
            /\ ~Done(diag, Matched, i)
            /\ \E k \in last.reasons \cap Conditions(Matched.steps[i]) : diag.loco[k] = Unstated
            /\ \A j \in Indices(Matched) :
                  j < i => Done(diag, Matched, j) \/ Skipped(diag, Matched, j) \/ SiblingChosen(diag, Matched, j)

\* The fault's identity is settled before the reflex judges it (state.py,
\* resolve_combination: one hop a message).  A turn leaves a reroute open only when it was
\* itself rerouted to the fault it ends on; one that ends on the fault it began with
\* leaves none, whatever relays, facts or new fault its message brought.
IdentitySettled ==
    [][ RerouteTarget(diag') # None =>
            /\ diag'.fault # diag.fault
            /\ \E x \in DOMAIN KB \ {diag'.fault} : diag'.fault \in Targets(KB[x]) ]_vars

\* Answering again without a new message gives the same answer and changes
\* nothing: reflex_node and terminal_node may both call reassess in one turn.
AnswerIsStable ==
    last # NoTerminal => Reassess(diag) = Answer(diag, last)

\* A message that presents the fault after the engine has told the pilot to reset, or
\* once a reset is on record as instructed or performed, however many turns ago, is
\* answered with a refusal (update_state's backstop, whatever the parser flagged).
SecondActRefused ==
    [][ /\ InstructsReset(last) \/ PriorReset(diag)
        /\ presented'
        /\ diag'.fault # None
        /\ \E i \in ResetIndices(Matched') : Matched'.steps[i].gate.recurrence = FaultRecurred
        => last'.kind = "refuse" ]_vars

\* What the engine has recorded about resets in this session is never unrecorded.
BookkeepingKept ==
    [][ \A k \in Bookkeeping : diag.facts[k] = "yes" => diag'.facts[k] = "yes" ]_vars

\* A reroute carries every claim that is a step of the new procedure over, and
\* none that is not (state.py, _switch_to).
RerouteCarriesClaims ==
    [][ diag.fault # None /\ diag'.fault \in Targets(Matched) =>
            /\ diag.claimed \cap StepIds(Matched') \subseteq diag'.claimed
            /\ diag'.claimed \subseteq StepIds(Matched') ]_vars

-----------------------------------------------------------------------------
(* What the documents say and the code does not keep: each is refuted by a  *)
(* run of its own.                                                          *)

\* "Any turn instructing a forbidden action (second reset, ...) fails" (BUILD_PLAN.md
\* 12.2): the pilot is not told to reset a relay whose reset is on record as done.
ResetNotInstructedAgain ==
    InstructsReset(last) => diag.facts[ResetPerformed] # "yes"

\* "Recurrence backstop -- the PRIMARY mechanism, independent of the parser" (state.py,
\* update_state): a fault presented again over a reset that counts as done is refused,
\* however that reset came to be claimed.
ReportedSecondActRefused ==
    [][ /\ diag.fault # None /\ ClaimsReset(Matched, diag.claimed)
        /\ presented' /\ diag'.fault = diag.fault
        => last'.kind = "refuse" ]_vars

\* "A false confirmation of a wrong procedure counts here -- the worst failure"
\* (BUILD_PLAN.md 12.2): a fault that has only just presented is not called complete
\* because an earlier one was cleared.
FreshFaultIsNotConfirmed ==
    [][ /\ presented' /\ ~SameFamily(diag.fault, diag'.fault)
        /\ last'.kind = "confirm" /\ last'.fault = diag'.fault
        => FaultResolved \in diag'.said \/ Missing(diag', Matched') = {} ]_vars
=============================================================================
