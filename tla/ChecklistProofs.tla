---------------------------- MODULE ChecklistProofs ----------------------------
(***************************************************************************)
(* What the pilot is asked next, when the procedure is called complete and  *)
(* what a reroute keeps, for every knowledge base whose files are as those  *)
(* of the repository.                                                       *)
(***************************************************************************)
EXTENDS DiagnosisProofs

-----------------------------------------------------------------------------
(* An answer moves at most the position in the checklist. *)

Repositioned(e, d) == \E at : e = [d EXCEPT !.stuckAt = at]

\* The position in the checklist decides nothing about what is due.
LEMMA PositionIsIrrelevant ==
    ASSUME NEW d \in State, NEW e, e = d \/ Repositioned(e, d), NEW f, NEW i
    PROVE  /\ e.fault = d.fault /\ e.facts = d.facts /\ e.loco = d.loco
           /\ Done(e, f, i) = Done(d, f, i) /\ Skipped(e, f, i) = Skipped(d, f, i)
           /\ SiblingChosen(e, f, i) = SiblingChosen(d, f, i) /\ Completed(e, f) = Completed(d, f)
           /\ \A k : Fact(e, f, k) = Fact(d, f, k)
<1>1. e.fault = d.fault /\ e.facts = d.facts /\ e.loco = d.loco /\ e.claimed = d.claimed
  BY DEF Repositioned, State
<1>2. \A k : Fact(e, f, k) = Fact(d, f, k)
  BY <1>1 DEF Fact
<1>3. \A j : /\ Contradicted(e, f, j) = Contradicted(d, f, j)
             /\ Undecided(e, f, j) = Undecided(d, f, j)
             /\ Done(e, f, j) = Done(d, f, j)
  BY <1>1, <1>2 DEF Contradicted, Undecided, Done, Claims
<1>4. ChosenConditions(e, f) = ChosenConditions(d, f)
  BY <1>2 DEF ChosenConditions
<1>5. Completed(e, f) = Completed(d, f)
  BY <1>1 DEF Completed, Claims
<1>. QED BY <1>1, <1>2, <1>3, <1>4, <1>5 DEF Skipped, SiblingChosen

\* Answering from the procedure moves at most the position in the checklist.
LEMMA ProcedureRepositions ==
    ASSUME NEW d \in State, NEW f
    PROVE  LET e == AnswerProcedure(d, f).diag IN e = d \/ Repositioned(e, d)
BY DEF AnswerProcedure, Answer, Asked, Closed, Repositioned

\* A check, or the loco, is asked for only by the procedure itself, once every gate is
\* silent.
LEMMA AsksFromTheProcedure ==
    ASSUME NEW d \in State, d.fault \in DOMAIN KB,
           Reassess(d).terminal.kind \in {"ask_step", "ask_config"}
    PROVE  /\ ~Speaks(d, EvaluateGates(d)) /\ ~NeedsConfirm(d)
           /\ Reassess(d) = AnswerProcedure(d, KB[d.fault])
<1>. DEFINE v == EvaluateGates(d)
<1>0. d.fault # None
  BY KBAssumption
<1>1. ~Speaks(d, v)
  <2>. SUFFICES ASSUME Speaks(d, v) PROVE FALSE
    OBVIOUS
  <2>1. v.outcome # "NO_FIRE" /\ Reassess(d) = AnswerGate(d, v)
    BY DEF Speaks, Reassess
  <2>2. v \in Verdicts
    BY <2>1, VerdictOfAGate, EvaluateGateType
  <2>. QED BY <2>1, <2>2, AnswerGateType
<1>2. Reassess(d) = AnswerMatched(d, KB[d.fault])
  BY <1>0, <1>1 DEF Reassess
<1>. QED BY <1>1, <1>2 DEF AnswerMatched, AnswerIsolation, Answer, Closed, ConfirmAfterReset, Terminal

\* A procedure is called complete because the fault is cleared, or by the procedure.
LEMMA ConfirmsFromTheProcedure ==
    ASSUME NEW d \in State, d.fault \in DOMAIN KB, Reassess(d).terminal.kind = "confirm"
    PROVE  \/ d.facts[FaultResolved] = "yes" /\ Reassess(d).diag = Closed(d)
           \/ Reassess(d) = AnswerProcedure(d, KB[d.fault])
<1>. DEFINE v == EvaluateGates(d)
<1>0. d.fault # None
  BY KBAssumption
<1>1. ~Speaks(d, v)
  <2>. SUFFICES ASSUME Speaks(d, v) PROVE FALSE
    OBVIOUS
  <2>1. v.outcome # "NO_FIRE" /\ Reassess(d) = AnswerGate(d, v)
    BY DEF Speaks, Reassess
  <2>2. v \in Verdicts
    BY <2>1, VerdictOfAGate, EvaluateGateType
  <2>. QED BY <2>1, <2>2, AnswerGateType
<1>2. Reassess(d) = AnswerMatched(d, KB[d.fault])
  BY <1>0, <1>1 DEF Reassess
<1>. QED BY <1>2 DEF AnswerMatched, AnswerIsolation, Answer, Terminal

-----------------------------------------------------------------------------
(* What comes before the first step that is due. *)

\* Everything before a position that no step due precedes and no gate holds back is done,
\* or its branch was not taken.
SettledBefore(d, f, i) ==
    \A j \in Indices(f) : j < i => Done(d, f, j) \/ Skipped(d, f, j) \/ SiblingChosen(d, f, j)

\* When no step before i is missing and no gate before it is open, everything before it is
\* settled: done, skipped, or of a route not taken.
LEMMA NothingDueBefore ==
    ASSUME NEW d \in State, NEW x \in DOMAIN KB, NEW i \in Indices(KB[x]),
           ~Completed(d, KB[x]), ~BeyondPendingGate(d, KB[x], i),
           \A j \in Missing(d, KB[x]) : i <= j
    PROVE  SettledBefore(d, KB[x], i)
<1>. DEFINE f == KB[x]
<1>. SUFFICES ASSUME NEW j \in Indices(f), j < i
              PROVE  Done(d, f, j) \/ Skipped(d, f, j) \/ SiblingChosen(d, f, j)
  BY DEF SettledBefore
<1>0. i \in Nat /\ j \in Nat /\ Indices(f) \subseteq Nat
  BY FaultIsWellFormed
<1>1. CASE Gated(f, j)
  BY <1>1 DEF BeyondPendingGate, PendingGate
<1>2. CASE ~Gated(f, j)
  <2>1. ~BeyondPendingGate(d, f, j)
    BY <1>0 DEF BeyondPendingGate
  <2>2. j \notin Missing(d, f) /\ j \in OrdinaryIndices(f)
    BY <1>0, <1>2 DEF OrdinaryIndices
  <2>. QED BY <2>1, <2>2 DEF Missing
<1>. QED BY <1>1, <1>2

\* The first step not done whose branch depends on an axis of the loco not yet known.
OpenAxes(d, f) ==
    {i \in OrdinaryIndices(f) :
        /\ UnknownAxes(d, f, i) # {}
        /\ ~Completed(d, f) /\ ~Done(d, f, i) /\ ~BeyondPendingGate(d, f, i)
        /\ \A j \in Missing(d, f) : i <= j}

\* The loco is asked about if and only if there is such a step, and then about its axis.
LEMMA AxisOfTheOpenStep ==
    ASSUME NEW d \in State, NEW x \in DOMAIN KB
    PROVE  IF OpenAxes(d, KB[x]) = {} THEN NeedsAxis(d, KB[x]) = None
           ELSE \E i \in OpenAxes(d, KB[x]) :
                   /\ NeedsAxis(d, KB[x]) \in Conditions(KB[x].steps[i]) \cap Axes
                   /\ Fact(d, KB[x], NeedsAxis(d, KB[x])) = Unstated
<1>. DEFINE f == KB[x]
            axis(i) == CHOOSE k \in UnknownAxes(d, f, i) : TRUE
<1>1. NeedsAxis(d, f) = IF OpenAxes(d, f) = {} THEN None ELSE axis(First(OpenAxes(d, f)))
  BY DEF NeedsAxis, OpenAxes
<1>2. OpenAxes(d, f) # {} => First(OpenAxes(d, f)) \in OpenAxes(d, f)
  <2>1. OpenAxes(d, f) \subseteq Nat
    BY FaultIsWellFormed DEF OpenAxes, OrdinaryIndices
  <2>. QED BY <2>1, FirstIsLeast
<1>3. \A i \in OpenAxes(d, f) : axis(i) \in UnknownAxes(d, f, i)
  BY DEF OpenAxes
<1>4. \A i \in OpenAxes(d, f) : axis(i) \in Conditions(f.steps[i]) \cap Axes /\ Fact(d, f, axis(i)) = Unstated
  BY <1>3 DEF UnknownAxes
<1>. HIDE DEF axis
<1>. QED BY <1>1, <1>2, <1>4

\* The first gate still open is held back by no other gate.
LEMMA FirstOpenGateIsFree ==
    ASSUME NEW d \in State, NEW x \in DOMAIN KB, OpenGates(d, KB[x]) # {}
    PROVE  /\ First(OpenGates(d, KB[x])) \in OpenGates(d, KB[x])
           /\ ~BeyondPendingGate(d, KB[x], First(OpenGates(d, KB[x])))
<1>. DEFINE f == KB[x]
            i == First(OpenGates(d, f))
<1>1. Indices(f) \subseteq Nat /\ OpenGates(d, f) \subseteq Nat
  BY FaultIsWellFormed DEF OpenGates, GatedIndices
<1>2. i \in OpenGates(d, f) /\ \A j \in OpenGates(d, f) : i <= j
  BY <1>1, FirstIsLeast
<1>3. \A j \in Indices(f) : PendingGate(d, f, j) => j \in OpenGates(d, f)
  BY FilesAssumption DEF PendingGate, OpenGates, Done, Reviewed, GatedIndices
<1>4. ~BeyondPendingGate(d, f, i)
  <2>. HIDE DEF i
  <2>. QED BY <1>1, <1>2, <1>3 DEF BeyondPendingGate
<1>. QED BY <1>2, <1>4

\* While the loco need not be asked about, the first step due is on no unknown axis.
LEMMA NoAxisIsOpen ==
    ASSUME NEW d \in State, NEW x \in DOMAIN KB, NEW i \in OrdinaryIndices(KB[x]),
           NeedsAxis(d, KB[x]) = None, ~Completed(d, KB[x]), ~Done(d, KB[x], i),
           ~BeyondPendingGate(d, KB[x], i), \A j \in Missing(d, KB[x]) : i <= j
    PROVE  \A k \in Conditions(KB[x].steps[i]) \cap Axes : Fact(d, KB[x], k) # Unstated
<1>1. NeedsAxis(d, KB[x]) \notin Axes
  BY KBAssumption
<1>2. OpenAxes(d, KB[x]) = {}
  BY <1>1, AxisOfTheOpenStep
<1>. QED BY <1>2 DEF OpenAxes, UnknownAxes

\* The step put next, if it is a check, is the first one due.
LEMMA AskedStep ==
    ASSUME NEW d \in State, NEW x \in DOMAIN KB, AnswerProcedure(d, KB[x]).terminal.kind = "ask_step"
    PROVE  \E i \in Indices(KB[x]) :
              /\ KB[x].steps[i].id = AnswerProcedure(d, KB[x]).terminal.step
              /\ ~Done(d, KB[x], i) /\ ~Skipped(d, KB[x], i)
              /\ \A k \in Conditions(KB[x].steps[i]) \cap Axes : Fact(d, KB[x], k) # Unstated
              /\ SettledBefore(d, KB[x], i)
<1>. DEFINE f == KB[x]
            t == AnswerProcedure(d, f).terminal
<1>0. Indices(f) \subseteq Nat
  BY FaultIsWellFormed
<1>1. NeedsAxis(d, f) = None
  BY DEF AnswerProcedure, Answer, Terminal
<1>2. CASE Missing(d, f) # {}
  <2>. DEFINE i == First(Missing(d, f))
  <2>1. Missing(d, f) \subseteq Nat /\ ~Completed(d, f)
    BY <1>0, <1>2 DEF Missing, OrdinaryIndices
  <2>2. i \in Missing(d, f) /\ \A j \in Missing(d, f) : i <= j
    BY <1>2, <2>1, FirstIsLeast
  <2>3. t.step = f.steps[i].id
    <3>1. t = AskStep(d, f, i)
      BY <1>1, <1>2 DEF AnswerProcedure, Asked, Answer
    <3>. HIDE DEF i
    <3>. QED BY <3>1 DEF AskStep, Terminal
  <2>. HIDE DEF i
  <2>4. /\ i \in Indices(f) /\ i \in OrdinaryIndices(f) /\ ~Done(d, f, i) /\ ~Skipped(d, f, i)
        /\ ~BeyondPendingGate(d, f, i)
    BY <2>2 DEF Missing, OrdinaryIndices
  <2>5. \A k \in Conditions(f.steps[i]) \cap Axes : Fact(d, f, k) # Unstated
    <3>. SUFFICES ASSUME NEW k \in Conditions(f.steps[i]) \cap Axes, Fact(d, f, k) = Unstated PROVE FALSE
      OBVIOUS
    <3>. QED BY <1>1, <2>1, <2>2, <2>4, NoAxisIsOpen
  <2>. QED BY <2>1, <2>2, <2>3, <2>4, <2>5, NothingDueBefore
<1>3. CASE Missing(d, f) = {}
  <2>. DEFINE i == First(OpenGates(d, f))
  <2>1. ~Completed(d, f) /\ OpenGates(d, f) # {}
    BY <1>1, <1>3 DEF AnswerProcedure, Answer, ConfirmAfterReset, Terminal
  <2>2. i \in OpenGates(d, f) /\ ~BeyondPendingGate(d, f, i)
    BY <2>1, FirstOpenGateIsFree
  <2>3. t.step = f.steps[i].id
    <3>1. t = [Terminal("ask_step", d, f.steps[i].id, "step") EXCEPT !.unrecognised = d.unrecognised]
      BY <1>1, <1>3, <2>1 DEF AnswerProcedure, Asked, Answer
    <3>. HIDE DEF i
    <3>. QED BY <3>1 DEF Terminal
  <2>. HIDE DEF i
  <2>4. /\ i \in Indices(f) /\ ~Done(d, f, i) /\ ~Skipped(d, f, i)
        /\ Conditions(f.steps[i]) \cap Axes = {}
    BY <2>2, FilesAssumption DEF OpenGates, GatedIndices, Done, Reviewed
  <2>. QED BY <1>3, <2>1, <2>2, <2>3, <2>4, NothingDueBefore
<1>. QED BY <1>2, <1>3

\* A gated step is put as the next step only when it is the first gate still open and
\* nothing else is due.
LEMMA AskedGateIsTheFirstOpen ==
    ASSUME NEW d \in State, NEW x \in DOMAIN KB, NEW i \in GatedIndices(KB[x]),
           AnswerProcedure(d, KB[x]).terminal.kind = "ask_step",
           AnswerProcedure(d, KB[x]).terminal.step = KB[x].steps[i].id
    PROVE  /\ i \in OpenGates(d, KB[x]) /\ ~BeyondPendingGate(d, KB[x], i)
           /\ Missing(d, KB[x]) = {} /\ ~Completed(d, KB[x])
<1>. DEFINE f == KB[x]
            t == AnswerProcedure(d, f).terminal
<1>0. /\ Indices(f) \subseteq Nat /\ i \in Indices(f)
      /\ \A j \in Indices(f) : f.steps[j].id = f.steps[i].id => j = i
  BY FaultIsWellFormed DEF GatedIndices, WellFormedFault
<1>1. NeedsAxis(d, f) = None
  BY DEF AnswerProcedure, Answer, Terminal
<1>2. Missing(d, f) = {}
  <2>. SUFFICES ASSUME Missing(d, f) # {} PROVE FALSE
    OBVIOUS
  <2>. DEFINE j == First(Missing(d, f))
  <2>1. j \in OrdinaryIndices(f)
    <3>1. Missing(d, f) \subseteq OrdinaryIndices(f) /\ OrdinaryIndices(f) \subseteq Nat
      BY <1>0 DEF Missing, OrdinaryIndices
    <3>. QED BY <3>1, FirstIsLeast
  <2>2. t = AskStep(d, f, j)
    BY <1>1 DEF AnswerProcedure, Asked, Answer
  <2>. HIDE DEF j
  <2>3. f.steps[j].id = f.steps[i].id
    BY <2>2 DEF AskStep, Terminal
  <2>. QED BY <1>0, <2>1, <2>3 DEF OrdinaryIndices, GatedIndices
<1>3. ~Completed(d, f) /\ OpenGates(d, f) # {}
  BY <1>1, <1>2 DEF AnswerProcedure, Answer, ConfirmAfterReset, Terminal
<1>. DEFINE j == First(OpenGates(d, f))
<1>4. j \in OpenGates(d, f) /\ ~BeyondPendingGate(d, f, j)
  BY <1>3, FirstOpenGateIsFree
<1>5. t = [Terminal("ask_step", d, f.steps[j].id, "step") EXCEPT !.unrecognised = d.unrecognised]
  BY <1>1, <1>2, <1>3 DEF AnswerProcedure, Asked, Answer
<1>. HIDE DEF j
<1>6. f.steps[j].id = f.steps[i].id
  BY <1>5 DEF Terminal
<1>7. j = i
  BY <1>0, <1>4, <1>6 DEF OpenGates, GatedIndices
<1>. QED BY <1>2, <1>3, <1>4, <1>7

\* The loco is asked about because of the next step not done.
LEMMA AskedAxis ==
    ASSUME NEW d \in State, NEW x \in DOMAIN KB, AnswerProcedure(d, KB[x]).terminal.kind = "ask_config"
    PROVE  \E i \in OrdinaryIndices(KB[x]) :
              /\ ~Done(d, KB[x], i)
              /\ \E k \in AnswerProcedure(d, KB[x]).terminal.reasons \cap Conditions(KB[x].steps[i]) :
                    d.loco[k] = Unstated
              /\ SettledBefore(d, KB[x], i)
<1>. DEFINE f == KB[x]
            t == AnswerProcedure(d, f).terminal
<1>1. NeedsAxis(d, f) # None
  BY DEF AnswerProcedure, Answer, Asked, AskStep, ConfirmAfterReset, Terminal
<1>2. t.reasons = {NeedsAxis(d, f)}
  BY <1>1 DEF AnswerProcedure, Answer, Terminal
<1>3. PICK i \in OpenAxes(d, f) : /\ NeedsAxis(d, f) \in Conditions(f.steps[i]) \cap Axes
                                  /\ Fact(d, f, NeedsAxis(d, f)) = Unstated
  BY <1>1, AxisOfTheOpenStep
<1>4. i \in OrdinaryIndices(f) /\ i \in Indices(f)
  BY DEF OpenAxes, OrdinaryIndices
<1>5. NeedsAxis(d, f) \in f.axes
  BY <1>3, <1>4, FaultIsWellFormed DEF WellFormedFault
<1>6. d.loco[NeedsAxis(d, f)] = Unstated
  BY <1>3, <1>5 DEF Fact
<1>7. SettledBefore(d, f, i)
  BY <1>4, NothingDueBefore DEF OpenAxes
<1>8. ~Done(d, f, i)
  BY DEF OpenAxes
<1>. QED BY <1>2, <1>3, <1>4, <1>6, <1>7, <1>8

\* When the procedure calls itself complete, a completing step is done or nothing due is
\* left.
LEMMA CompleteMeansSettled ==
    ASSUME NEW d \in State, NEW x \in DOMAIN KB, AnswerProcedure(d, KB[x]).terminal.kind = "confirm"
    PROVE  \/ Completed(d, KB[x])
           \/ \A i \in Indices(KB[x]) : Done(d, KB[x], i) \/ Skipped(d, KB[x], i) \/ SiblingChosen(d, KB[x], i)
<1>. DEFINE f == KB[x]
<1>. SUFFICES ASSUME ~Completed(d, f), NEW i \in Indices(f)
              PROVE  Done(d, f, i) \/ Skipped(d, f, i) \/ SiblingChosen(d, f, i)
  OBVIOUS
<1>1. Missing(d, f) = {}
  BY DEF AnswerProcedure, Answer, Asked, AskStep, Terminal
<1>2. OpenGates(d, f) = {}
  BY <1>1 DEF AnswerProcedure, Answer, Asked, Terminal
<1>3. \A j \in Indices(f) : ~PendingGate(d, f, j)
  BY <1>2, FilesAssumption DEF PendingGate, OpenGates, Done, Reviewed, GatedIndices
<1>4. CASE Gated(f, i)
  BY <1>3, <1>4 DEF PendingGate
<1>5. CASE ~Gated(f, i)
  BY <1>1, <1>3, <1>5 DEF Missing, BeyondPendingGate, OrdinaryIndices
<1>. QED BY <1>4, <1>5

\* Once nothing else is due a reset is in play, for every check of its procedure is done:
\* the gate has an answer of its own to it.
LEMMA OpenResetSpeaks ==
    ASSUME NEW d \in State, NEW x \in DOMAIN KB, NEW i \in ResetIndices(KB[x]), ~Completed(d, KB[x]),
           Missing(d, KB[x]) = {}, i \in OpenGates(d, KB[x]), ~BeyondPendingGate(d, KB[x], i)
    PROVE  EvaluateGate(d, KB[x], i).outcome # "NO_FIRE"
<1>. DEFINE f == KB[x]
<1>0. Indices(f) \subseteq Nat /\ i \in Indices(f)
  BY FaultIsWellFormed DEF ResetIndices
<1>1. ASSUME NEW j \in OrdinaryIndices(f) PROVE Claims(d, f, j)
  <2>1. j < i /\ f.steps[j].applies = {} /\ f.steps[j].elicits = None /\ j \in Indices(f)
    BY FilesAssumption DEF Reviewed, OrdinaryIndices
  <2>2. ~Contradicted(d, f, j) /\ ~Undecided(d, f, j)
    BY <2>1 DEF Contradicted, Undecided
  <2>3. ~BeyondPendingGate(d, f, j)
    BY <1>0, <2>1 DEF BeyondPendingGate
  <2>. QED BY <2>1, <2>2, <2>3 DEF Missing, Skipped, SiblingChosen, Done
<1>2. ~Claims(d, f, i) /\ ResetInPlay(d, f, i) /\ f.steps[i].gate.type = "reset_limit"
  BY <1>1 DEF ResetInPlay, ChecksComplete, OpenGates, ResetIndices
<1>. QED BY <1>2 DEF EvaluateGate, EvaluateResetLimit, Verdict

-----------------------------------------------------------------------------
(* What the pilot is told after every turn. *)

\* What a turn says of a check, of the loco or of the end is said of the state it leaves.
SameDelta(e, d) ==
    /\ e.fault = d.fault /\ e.facts = d.facts /\ e.loco = d.loco
    /\ \A f, i : /\ Done(e, f, i) = Done(d, f, i) /\ Skipped(e, f, i) = Skipped(d, f, i)
                 /\ SiblingChosen(e, f, i) = SiblingChosen(d, f, i)
                 /\ Completed(e, f) = Completed(d, f)
    /\ \A f, k : Fact(e, f, k) = Fact(d, f, k)

\* A state that differs only in the position in the checklist has the same delta.
LEMMA SameDeltaIfRepositioned ==
    ASSUME NEW d \in State, NEW e, e = d \/ Repositioned(e, d)
    PROVE  SameDelta(e, d)
BY PositionIsIrrelevant DEF SameDelta

\* A turn that asks for a check or for the loco is an answer of the procedure to the state
\* it leaves, but for the position in the checklist.
LEMMA AskingTurn ==
    ASSUME TypeOK, Next, last'.kind \in {"ask_step", "ask_config"}
    PROVE  \E d \in State :
              /\ d.fault \in DOMAIN KB /\ Matched' = KB[d.fault] /\ SameDelta(diag', d)
              /\ ~Speaks(d, EvaluateGates(d)) /\ ~NeedsConfirm(d)
              /\ last' = AnswerProcedure(d, KB[d.fault]).terminal
<1>1. PICK d \in State : d.fault \in DOMAIN KB /\ diag' = Reassess(d).diag /\ last' = Reassess(d).terminal
  BY NextAnswers
<1>2. ~Speaks(d, EvaluateGates(d)) /\ ~NeedsConfirm(d) /\ Reassess(d) = AnswerProcedure(d, KB[d.fault])
  BY <1>1, AsksFromTheProcedure
<1>3. SameDelta(diag', d)
  BY <1>1, <1>2, ProcedureRepositions, SameDeltaIfRepositioned
<1>. QED BY <1>1, <1>2, <1>3 DEF SameDelta, Matched

\* "The ONE specific missed check" (diff.py, reassess.py step 3): the step asked for is not
\* done, not in a branch the stated facts exclude, on no unknown axis, and everything
\* before it is done or was not to be done.
THEOREM AskedStepIsTheFirstDue == Spec => []AskedStepIsDue
<1>1. Init => AskedStepIsDue
  BY DEF Init, NoTerminal, AskedStepIsDue, None
<1>2. TypeOK /\ AskedStepIsDue /\ [Next]_vars => AskedStepIsDue'
  <2>. SUFFICES ASSUME TypeOK, AskedStepIsDue, [Next]_vars PROVE AskedStepIsDue'
    OBVIOUS
  <2>1. CASE Next /\ last'.kind = "ask_step"
    <3>1. PICK d \in State : /\ d.fault \in DOMAIN KB /\ Matched' = KB[d.fault] /\ SameDelta(diag', d)
                             /\ last' = AnswerProcedure(d, KB[d.fault]).terminal
      BY <2>1, AskingTurn
    <3>2. PICK i \in Indices(KB[d.fault]) :
             /\ KB[d.fault].steps[i].id = last'.step
             /\ ~Done(d, KB[d.fault], i) /\ ~Skipped(d, KB[d.fault], i)
             /\ \A k \in Conditions(KB[d.fault].steps[i]) \cap Axes : Fact(d, KB[d.fault], k) # Unstated
             /\ SettledBefore(d, KB[d.fault], i)
      BY <2>1, <3>1, AskedStep
    <3>. QED BY <3>1, <3>2 DEF AskedStepIsDue, SettledBefore, SameDelta
  <2>2. CASE last'.kind # "ask_step"
    BY <2>2 DEF AskedStepIsDue
  <2>3. CASE UNCHANGED vars
    BY <2>3 DEF vars, AskedStepIsDue, Matched
  <2>. QED BY <2>1, <2>2, <2>3
<1>. QED BY <1>1, <1>2, TypeCorrect, PTL DEF Spec

\* "Ask only when the reached branch depends on it" (diff.py): the loco is asked about only
\* if the next step not done branches on an axis of it that is not known.
THEOREM LocoIsAskedWhenItDecides == Spec => []ConfigAskedWhenItDecides
<1>1. Init => ConfigAskedWhenItDecides
  BY DEF Init, NoTerminal, ConfigAskedWhenItDecides, None
<1>2. TypeOK /\ ConfigAskedWhenItDecides /\ [Next]_vars => ConfigAskedWhenItDecides'
  <2>. SUFFICES ASSUME TypeOK, ConfigAskedWhenItDecides, [Next]_vars PROVE ConfigAskedWhenItDecides'
    OBVIOUS
  <2>1. CASE Next /\ last'.kind = "ask_config"
    <3>1. PICK d \in State : /\ d.fault \in DOMAIN KB /\ Matched' = KB[d.fault] /\ SameDelta(diag', d)
                             /\ last' = AnswerProcedure(d, KB[d.fault]).terminal
      BY <2>1, AskingTurn
    <3>2. PICK i \in OrdinaryIndices(KB[d.fault]) :
             /\ ~Done(d, KB[d.fault], i)
             /\ \E k \in last'.reasons \cap Conditions(KB[d.fault].steps[i]) : d.loco[k] = Unstated
             /\ SettledBefore(d, KB[d.fault], i)
      BY <2>1, <3>1, AskedAxis
    <3>. QED BY <3>1, <3>2 DEF ConfigAskedWhenItDecides, SettledBefore, SameDelta
  <2>2. CASE last'.kind # "ask_config"
    BY <2>2 DEF ConfigAskedWhenItDecides
  <2>3. CASE UNCHANGED vars
    BY <2>3 DEF vars, ConfigAskedWhenItDecides, Matched
  <2>. QED BY <2>1, <2>2, <2>3
<1>. QED BY <1>1, <1>2, TypeCorrect, PTL DEF Spec

\* "Procedure verified complete" (terminals.py) is said only if the pilot reported the
\* fault cleared, a completing step is done, or nothing that is due is left.
THEOREM ConfirmedIsDone == Spec => []ConfirmMeansDone
<1>1. Init => ConfirmMeansDone
  BY DEF Init, NoTerminal, ConfirmMeansDone, None
<1>2. TypeOK /\ ConfirmMeansDone /\ [Next]_vars => ConfirmMeansDone'
  <2>. SUFFICES ASSUME TypeOK, ConfirmMeansDone, [Next]_vars PROVE ConfirmMeansDone'
    OBVIOUS
  <2>1. CASE Next /\ last'.kind = "confirm"
    <3>1. PICK d \in State : d.fault \in DOMAIN KB /\ diag' = Reassess(d).diag /\ last' = Reassess(d).terminal
      BY <2>1, NextAnswers
    <3>2. CASE d.facts[FaultResolved] = "yes" /\ diag' = Closed(d)
      BY <3>2 DEF ConfirmMeansDone, Closed, State
    <3>3. CASE Reassess(d) = AnswerProcedure(d, KB[d.fault])
      <4>1. SameDelta(diag', d)
        BY <3>1, <3>3, ProcedureRepositions, SameDeltaIfRepositioned
      <4>2. Matched' = KB[d.fault]
        BY <4>1 DEF SameDelta, Matched
      <4>3. \/ Completed(d, KB[d.fault])
            \/ \A i \in Indices(KB[d.fault]) : \/ Done(d, KB[d.fault], i) \/ Skipped(d, KB[d.fault], i)
                                               \/ SiblingChosen(d, KB[d.fault], i)
        BY <2>1, <3>1, <3>3, CompleteMeansSettled
      <4>. QED BY <4>1, <4>2, <4>3 DEF ConfirmMeansDone, SameDelta
    <3>4. \/ d.facts[FaultResolved] = "yes" /\ diag' = Closed(d)
          \/ Reassess(d) = AnswerProcedure(d, KB[d.fault])
      BY <2>1, <3>1, ConfirmsFromTheProcedure
    <3>. QED BY <3>2, <3>3, <3>4
  <2>2. CASE last'.kind # "confirm"
    BY <2>2 DEF ConfirmMeansDone
  <2>3. CASE UNCHANGED vars
    BY <2>3 DEF vars, ConfirmMeansDone, Matched
  <2>. QED BY <2>1, <2>2, <2>3
<1>. QED BY <1>1, <1>2, TypeCorrect, PTL DEF Spec

\* The reset reaches the pilot through its gate or not at all (reassess.py step 3b): by the
\* time nothing else is due the gate is in play and has spoken.
THEOREM ResetIsNeverAsked == Spec => []ResetNeverAPlainStep
<1>1. Init => ResetNeverAPlainStep
  BY DEF Init, NoTerminal, ResetNeverAPlainStep, None
<1>2. TypeOK /\ ResetNeverAPlainStep /\ [Next]_vars => ResetNeverAPlainStep'
  <2>. SUFFICES ASSUME TypeOK, ResetNeverAPlainStep, [Next]_vars PROVE ResetNeverAPlainStep'
    OBVIOUS
  <2>1. CASE Next /\ last'.kind = "ask_step"
    <3>1. PICK d \in State : /\ d.fault \in DOMAIN KB /\ Matched' = KB[d.fault]
                             /\ ~Speaks(d, EvaluateGates(d)) /\ ~NeedsConfirm(d)
                             /\ last' = AnswerProcedure(d, KB[d.fault]).terminal
      BY <2>1, AskingTurn
    <3>. DEFINE f == KB[d.fault]
    <3>. SUFFICES ASSUME NEW i \in ResetIndices(f), f.steps[i].id = last'.step PROVE FALSE
      BY <3>1 DEF ResetNeverAPlainStep
    <3>2. i \in GatedIndices(f)
      BY DEF ResetIndices, GatedIndices, Gated, None
    <3>3. /\ i \in OpenGates(d, f) /\ ~BeyondPendingGate(d, f, i)
          /\ Missing(d, f) = {} /\ ~Completed(d, f)
      BY <2>1, <3>1, <3>2, AskedGateIsTheFirstOpen
    <3>4. EvaluateGate(d, f, i).outcome = "NO_FIRE"
      BY <3>1, <3>2, SilentGates
    <3>. QED BY <3>1, <3>3, <3>4, OpenResetSpeaks
  <2>2. CASE last'.kind # "ask_step"
    BY <2>2 DEF ResetNeverAPlainStep
  <2>3. CASE UNCHANGED vars
    BY <2>3 DEF vars, ResetNeverAPlainStep, Matched
  <2>. QED BY <2>1, <2>2, <2>3
<1>. QED BY <1>1, <1>2, TypeCorrect, PTL DEF Spec
-----------------------------------------------------------------------------
(* The answer does not depend on what answering has changed. *)

\* Two states that differ at most in the position in the checklist and in the record of
\* what was instructed.
Alike(e, d) ==
    /\ e.fault = d.fault /\ e.confirmed = d.confirmed /\ e.claimed = d.claimed /\ e.declined = d.declined
    /\ e.unrecognised = d.unrecognised /\ e.said = d.said /\ e.intent = d.intent /\ e.loco = d.loco
    /\ \A k \in FaultKeys : e.facts[k] = d.facts[k]

\* What is done, skipped and missing is the same.
LEMMA AlikeDelta ==
    ASSUME NEW d, NEW e, Alike(e, d), NEW x \in DOMAIN KB
    PROVE  LET f == KB[x] IN
           /\ \A i \in Indices(f) : /\ Claims(e, f, i) = Claims(d, f, i)
                                    /\ Skipped(e, f, i) = Skipped(d, f, i)
                                    /\ Done(e, f, i) = Done(d, f, i)
                                    /\ BeyondPendingGate(e, f, i) = BeyondPendingGate(d, f, i)
                                    /\ \A a \in f.steps[i].applies : Fact(e, f, a.fact) = Fact(d, f, a.fact)
           /\ Completed(e, f) = Completed(d, f)
           /\ Missing(e, f) = Missing(d, f)
<1>. DEFINE f == KB[x]
<1>1. \A k \in FaultKeys \cup Axes : Fact(e, f, k) = Fact(d, f, k)
  BY DEF Fact, Alike
<1>2. ASSUME NEW i \in Indices(f)
      PROVE  /\ \A a \in f.steps[i].applies : Fact(e, f, a.fact) = Fact(d, f, a.fact)
             /\ f.steps[i].elicits # None => Fact(e, f, f.steps[i].elicits) = Fact(d, f, f.steps[i].elicits)
  BY <1>1, FaultIsWellFormed DEF WellFormedStep
<1>3. \A i \in Indices(f) : /\ Claims(e, f, i) = Claims(d, f, i)
                            /\ Contradicted(e, f, i) = Contradicted(d, f, i)
                            /\ Undecided(e, f, i) = Undecided(d, f, i)
  BY <1>2 DEF Claims, Contradicted, Undecided, Alike
<1>4. \A i \in Indices(f) : Skipped(e, f, i) = Skipped(d, f, i) /\ Done(e, f, i) = Done(d, f, i)
  BY <1>2, <1>3 DEF Skipped, Done
<1>5. ChosenConditions(e, f) = ChosenConditions(d, f)
  BY <1>2 DEF ChosenConditions
<1>6. \A i \in Indices(f) : SiblingChosen(e, f, i) = SiblingChosen(d, f, i)
  BY <1>3, <1>5 DEF SiblingChosen
<1>7. \A i \in Indices(f) : BeyondPendingGate(e, f, i) = BeyondPendingGate(d, f, i)
  BY <1>4 DEF BeyondPendingGate, PendingGate
<1>8. Completed(e, f) = Completed(d, f)
  BY <1>3 DEF Completed
<1>9. Missing(e, f) = Missing(d, f)
  BY <1>4, <1>6, <1>7, <1>8 DEF Missing, OrdinaryIndices
<1>. QED BY <1>2, <1>3, <1>4, <1>7, <1>8, <1>9

\* So is every abnormality and what was isolated of it.
LEMMA AlikeAbnormalities ==
    ASSUME NEW d, NEW e, Alike(e, d), NEW x \in DOMAIN KB
    PROVE  LET f == KB[x] IN
           /\ AbnormalSteps(e, f) = AbnormalSteps(d, f) /\ Isolable(e, f) = Isolable(d, f)
           /\ IsolationPending(e, f) = IsolationPending(d, f) /\ IsolationFailed(e, f) = IsolationFailed(d, f)
           /\ IsolationDone(e, f) = IsolationDone(d, f) /\ VerdictUnknown(e, f) = VerdictUnknown(d, f)
<1>. DEFINE f == KB[x]
<1>1. \A i \in Indices(f) : /\ AbnormalityOf(e, f, i) = AbnormalityOf(d, f, i)
                            /\ f.steps[i].isolation # None => IsolationOf(e, f, i) = IsolationOf(d, f, i)
  BY FaultIsWellFormed DEF WellFormedStep, AbnormalityOf, IsolationOf, Alike
<1>2. AbnormalSteps(e, f) = AbnormalSteps(d, f) /\ VerdictUnknown(e, f) = VerdictUnknown(d, f)
  BY <1>1 DEF AbnormalSteps, VerdictUnknown, OrdinaryIndices
<1>3. Isolable(e, f) = Isolable(d, f) /\ \A i \in Isolable(d, f) : i \in Indices(f) /\ f.steps[i].isolation # None
  BY <1>2 DEF Isolable, AbnormalSteps, OrdinaryIndices
<1>. QED BY <1>1, <1>2, <1>3 DEF IsolationPending, IsolationFailed, IsolationDone

\* Every gate gives the same verdict.
LEMMA AlikeGate ==
    ASSUME NEW d, NEW e, Alike(e, d), NEW x \in DOMAIN KB, NEW i \in GatedIndices(KB[x])
    PROVE  EvaluateGate(e, KB[x], i) = EvaluateGate(d, KB[x], i)
<1>. DEFINE f == KB[x]
<1>0. i \in Indices(f) /\ WellFormedGate(f.steps[i].gate)
  BY FaultIsWellFormed DEF GatedIndices, WellFormedStep
<1>1. CASE f.steps[i].gate.type = "reset_limit"
  <2>1. /\ f.steps[i].gate.needs \in FaultKeys /\ f.steps[i].gate.recurrence \in FaultKeys
    BY <1>0, <1>1 DEF WellFormedGate
  <2>2. /\ e.facts[f.steps[i].gate.needs] = d.facts[f.steps[i].gate.needs]
        /\ HistoryReasons(e, f.steps[i].gate) = HistoryReasons(d, f.steps[i].gate)
    BY <2>1 DEF Alike, HistoryReasons
  <2>3. RefuseReasons(e, f, i) = RefuseReasons(d, f, i)
    BY <2>2, AlikeAbnormalities DEF RefuseReasons, AbnormalityReasons
  <2>4. Claims(e, f, i) = Claims(d, f, i) /\ ResetInPlay(e, f, i) = ResetInPlay(d, f, i)
    BY <1>0, AlikeDelta DEF ResetInPlay, ChecksComplete, OrdinaryIndices
  <2>5. EvaluateResetLimit(e, f, i) = EvaluateResetLimit(d, f, i)
    BY <2>2, <2>3, <2>4, AlikeAbnormalities DEF EvaluateResetLimit
  <2>. QED BY <1>1, <2>5 DEF EvaluateGate
<1>2. CASE f.steps[i].gate.type # "reset_limit"
  <2>1. f.steps[i].gate.pre \subseteq FaultKeys
    BY <1>0, <1>2 DEF WellFormedGate, GatedIndices, Gated, GateTypes
  <2>2. /\ \A v : Precondition(e, f, i, v) = Precondition(d, f, i, v)
        /\ PreconditionsMet(e, f, i) = PreconditionsMet(d, f, i)
    BY <2>1 DEF Precondition, PreconditionsMet, Alike
  <2>3. PriorOrdinaryComplete(e, f, i) = PriorOrdinaryComplete(d, f, i)
    BY AlikeDelta DEF PriorOrdinaryComplete
  <2>4. Claims(e, f, i) = Claims(d, f, i) /\ HazardInPlay(e, f, i) = HazardInPlay(d, f, i)
    BY <1>0, <2>3, AlikeDelta DEF HazardInPlay, Alike
  <2>5. EvaluateHazardExposure(e, f, i) = EvaluateHazardExposure(d, f, i)
    BY <2>2, <2>4 DEF EvaluateHazardExposure
  <2>. QED BY <1>2, <2>5 DEF EvaluateGate
<1>. QED BY <1>1, <1>2

\* The reflex, and whether it may speak, are the same.
LEMMA AlikeReflex ==
    ASSUME NEW d, NEW e, Alike(e, d), d.fault \in DOMAIN KB
    PROVE  /\ EvaluateGates(e) = EvaluateGates(d) /\ NeedsConfirm(e) = NeedsConfirm(d)
           /\ \A v : Speaks(e, v) = Speaks(d, v) /\ GateTerminal(e, v) = GateTerminal(d, v)
<1>. DEFINE f == KB[d.fault]
<1>1. \A i \in GatedIndices(f) : /\ EvaluateGate(e, f, i) = EvaluateGate(d, f, i)
                                 /\ SeverityAt(e, f, i) = SeverityAt(d, f, i)
  BY AlikeGate DEF SeverityAt
<1>2. MostSevere(e, f) = MostSevere(d, f)
  BY <1>1 DEF MostSevere
<1>3. e.fault = d.fault /\ e.confirmed = d.confirmed
  BY DEF Alike
<1>4. EvaluateGates(e) = EvaluateGates(d)
  <2>1. CASE GatedIndices(f) = {}
    BY <1>3, <2>1 DEF EvaluateGates
  <2>2. CASE GatedIndices(f) # {}
    <3>1. First(MostSevere(d, f)) \in GatedIndices(f)
      BY <2>2, MostSevereExists
    <3>. QED BY <1>1, <1>2, <1>3, <3>1 DEF EvaluateGates
  <2>. QED BY <2>1, <2>2
<1>5. NeedsConfirm(e) = NeedsConfirm(d)
  BY <1>3 DEF NeedsConfirm
<1>. QED BY <1>3, <1>4, <1>5 DEF Speaks, GateTerminal, Terminal

\* The procedure says the same of both, and moves both to the same position if it moves.
SameMove(a, e, b, d) ==
    /\ a.terminal = b.terminal
    /\ \/ a.diag = e /\ b.diag = d
       \/ \E at : a.diag = [e EXCEPT !.stuckAt = at] /\ b.diag = [d EXCEPT !.stuckAt = at]

\* The same terminal, with or without a new position, is the same move.
LEMMA MovesAlike ==
    ASSUME NEW d, NEW e, NEW t, NEW at
    PROVE  /\ SameMove(Answer(e, t), e, Answer(d, t), d)
           /\ SameMove(Answer([e EXCEPT !.stuckAt = at], t), e, Answer([d EXCEPT !.stuckAt = at], t), d)
<1>1. SameMove(Answer(e, t), e, Answer(d, t), d)
  BY DEF SameMove, Answer
<1>2. SameMove(Answer([e EXCEPT !.stuckAt = at], t), e, Answer([d EXCEPT !.stuckAt = at], t), d)
  <2>. DEFINE b == Answer([d EXCEPT !.stuckAt = at], t)
              a == Answer([e EXCEPT !.stuckAt = at], t)
  <2>1. /\ a.diag = [e EXCEPT !.stuckAt = at] /\ b.diag = [d EXCEPT !.stuckAt = at]
        /\ a.terminal = b.terminal
    BY DEF Answer
  <2>2. \E s : a.diag = [e EXCEPT !.stuckAt = s] /\ b.diag = [d EXCEPT !.stuckAt = s]
    BY <2>1
  <2>. QED BY <2>1, <2>2 DEF SameMove
<1>. QED BY <1>1, <1>2

\* The confirmation after a reset is worded the same.
LEMMA AlikeEnd ==
    ASSUME NEW d, NEW e, Alike(e, d), NEW x \in DOMAIN KB, NEW guide
    PROVE  ConfirmAfterReset(e, KB[x], guide) = ConfirmAfterReset(d, KB[x], guide)
<1>1. \A what, where, said : Terminal(what, e, where, said) = Terminal(what, d, where, said)
  BY DEF Terminal, Alike
<1>2. \A i \in ResetIndices(KB[x]) : Claims(e, KB[x], i) = Claims(d, KB[x], i)
  BY AlikeDelta DEF ResetIndices
<1>3. {i \in ResetIndices(KB[x]) : Claims(e, KB[x], i)} = {i \in ResetIndices(KB[x]) : Claims(d, KB[x], i)}
  BY <1>2
<1>. QED BY <1>1, <1>3 DEF ConfirmAfterReset

\* The same axis of the loco is needed.
LEMMA AlikeAxis ==
    ASSUME NEW d, NEW e, Alike(e, d), NEW x \in DOMAIN KB
    PROVE  NeedsAxis(e, KB[x]) = NeedsAxis(d, KB[x])
<1>. DEFINE f == KB[x]
<1>1. \A i \in OrdinaryIndices(f) : /\ UnknownAxes(e, f, i) = UnknownAxes(d, f, i)
                                    /\ Done(e, f, i) = Done(d, f, i)
                                    /\ BeyondPendingGate(e, f, i) = BeyondPendingGate(d, f, i)
  <2>. SUFFICES ASSUME NEW i \in OrdinaryIndices(f)
                PROVE  /\ UnknownAxes(e, f, i) = UnknownAxes(d, f, i)
                       /\ Done(e, f, i) = Done(d, f, i)
                       /\ BeyondPendingGate(e, f, i) = BeyondPendingGate(d, f, i)
    OBVIOUS
  <2>1. \A k \in Axes : Fact(e, f, k) = Fact(d, f, k)
    BY DEF Fact, Alike
  <2>2. UnknownAxes(e, f, i) = UnknownAxes(d, f, i)
    BY <2>1 DEF UnknownAxes
  <2>. QED BY <2>2, AlikeDelta DEF OrdinaryIndices
<1>2. Completed(e, f) = Completed(d, f) /\ Missing(e, f) = Missing(d, f)
  BY AlikeDelta
<1>3. OpenAxes(e, f) = OpenAxes(d, f)
  BY <1>1, <1>2 DEF OpenAxes
<1>4. \A c : NeedsAxis(c, f) = IF OpenAxes(c, f) = {} THEN None
                               ELSE CHOOSE k \in UnknownAxes(c, f, First(OpenAxes(c, f))) : TRUE
  BY DEF NeedsAxis, OpenAxes
<1>5. OpenAxes(d, f) # {} => First(OpenAxes(d, f)) \in OrdinaryIndices(f)
  <2>1. OpenAxes(d, f) \subseteq Nat /\ OpenAxes(d, f) \subseteq OrdinaryIndices(f)
    BY FaultIsWellFormed DEF OpenAxes, OrdinaryIndices
  <2>. QED BY <2>1, FirstIsLeast
<1>6. OpenAxes(d, f) # {} => UnknownAxes(e, f, First(OpenAxes(d, f))) = UnknownAxes(d, f, First(OpenAxes(d, f)))
  BY <1>1, <1>5
<1>. QED BY <1>3, <1>4, <1>6

\* The same step is asked for in the same words.
LEMMA AlikeAskStep ==
    ASSUME NEW d, NEW e, Alike(e, d), NEW x \in DOMAIN KB, NEW i \in Indices(KB[x])
    PROVE  AskStep(e, KB[x], i) = AskStep(d, KB[x], i)
<1>. DEFINE f == KB[x]
<1>1. \A j \in Indices(f) : \A k \in Conditions(f.steps[j]) \ Axes : e.facts[k] = d.facts[k]
  BY FaultIsWellFormed DEF WellFormedStep, Conditions, Alike
<1>2. \A j \in Indices(f) : Claims(e, f, j) = Claims(d, f, j)
  BY AlikeDelta
<1>3. \A j \in Indices(f) : OpenBranch(e, f, j) = OpenBranch(d, f, j)
  BY <1>1, <1>2 DEF OpenBranch
<1>4. AsksBranch(e, f, i) = AsksBranch(d, f, i)
  BY <1>3 DEF AsksBranch
<1>5. HeldAction(e, f) = HeldAction(d, f)
  BY <1>2 DEF HeldAction, Alike, GatedIndices
<1>6. /\ \A what, where, said : Terminal(what, e, where, said) = Terminal(what, d, where, said)
      /\ e.declined = d.declined /\ e.said = d.said /\ e.unrecognised = d.unrecognised
  BY DEF Terminal, Alike
<1>. QED BY <1>4, <1>5, <1>6 DEF AskStep

\* The procedure answers with the same move.
LEMMA AlikeProcedure ==
    ASSUME NEW d, NEW e, Alike(e, d), NEW x \in DOMAIN KB
    PROVE  SameMove(AnswerProcedure(e, KB[x]), e, AnswerProcedure(d, KB[x]), d)
<1>. DEFINE f == KB[x]
<1>0. \A what, where, said : Terminal(what, e, where, said) = Terminal(what, d, where, said)
  BY DEF Terminal, Alike
<1>1. /\ NeedsAxis(e, f) = NeedsAxis(d, f) /\ Missing(e, f) = Missing(d, f)
      /\ Completed(e, f) = Completed(d, f) /\ e.unrecognised = d.unrecognised
  BY AlikeAxis, AlikeDelta DEF Alike
<1>2. OpenGates(e, f) = OpenGates(d, f)
  BY AlikeDelta DEF OpenGates, GatedIndices
<1>3. CASE NeedsAxis(d, f) # None
  BY <1>0, <1>1, <1>3 DEF AnswerProcedure, Answer, SameMove
<1>4. CASE NeedsAxis(d, f) = None /\ Missing(d, f) # {}
  <2>. DEFINE i == First(Missing(d, f))
  <2>1. i \in Indices(f)
    <3>1. Missing(d, f) \subseteq Nat /\ Missing(d, f) \subseteq Indices(f)
      BY FaultIsWellFormed DEF Missing, OrdinaryIndices
    <3>. QED BY <1>4, <3>1, FirstIsLeast
  <2>2. /\ AnswerProcedure(d, f) = Asked(d, f, i, AskStep(d, f, i))
        /\ AnswerProcedure(e, f) = Asked(e, f, i, AskStep(e, f, i))
    BY <1>1, <1>4 DEF AnswerProcedure
  <2>. HIDE DEF i
  <2>3. AskStep(e, f, i) = AskStep(d, f, i)
    BY <2>1, AlikeAskStep
  <2>. QED BY <2>2, <2>3, MovesAlike DEF Asked
<1>5. CASE NeedsAxis(d, f) = None /\ Missing(d, f) = {} /\ ~Completed(d, f) /\ OpenGates(d, f) # {}
  <2>. DEFINE i == First(OpenGates(d, f))
              say(c) == [Terminal("ask_step", c, f.steps[i].id, "step") EXCEPT !.unrecognised = c.unrecognised]
  <2>1. AnswerProcedure(d, f) = Asked(d, f, i, say(d)) /\ AnswerProcedure(e, f) = Asked(e, f, i, say(e))
    BY <1>1, <1>2, <1>5 DEF AnswerProcedure
  <2>2. say(e) = say(d)
    BY <1>0, <1>1
  <2>. HIDE DEF i, say
  <2>. QED BY <2>1, <2>2, MovesAlike DEF Asked
<1>6. CASE NeedsAxis(d, f) = None /\ Missing(d, f) = {} /\ ~(~Completed(d, f) /\ OpenGates(d, f) # {})
  <2>1. /\ AnswerProcedure(d, f) = Answer(Closed(d), ConfirmAfterReset(d, f, FinalGuidance(d, f)))
        /\ AnswerProcedure(e, f) = Answer(Closed(e), ConfirmAfterReset(e, f, FinalGuidance(e, f)))
    BY <1>1, <1>2, <1>6 DEF AnswerProcedure
  <2>2. FinalGuidance(e, f) = FinalGuidance(d, f)
    BY <1>1 DEF FinalGuidance
  <2>3. \A guide : ConfirmAfterReset(e, f, guide) = ConfirmAfterReset(d, f, guide)
    BY AlikeEnd
  <2>. QED BY <2>1, <2>2, <2>3, MovesAlike DEF Closed
<1>. QED BY <1>3, <1>4, <1>5, <1>6

\* The router answers a matched fault with the same move.
LEMMA AlikeMatched ==
    ASSUME NEW d, NEW e, Alike(e, d), d.fault \in DOMAIN KB
    PROVE  SameMove(AnswerMatched(e, KB[d.fault]), e, AnswerMatched(d, KB[d.fault]), d)
<1>. DEFINE f == KB[d.fault]
<1>0. /\ \A what, where, said : Terminal(what, e, where, said) = Terminal(what, d, where, said)
      /\ e.facts[FaultResolved] = d.facts[FaultResolved] /\ e.claimed = d.claimed
  BY KBAssumption DEF Terminal, Alike, FaultKeys, Bookkeeping, FaultResolved, ResetPerformed, ResetInstructed
<1>1. NeedsConfirm(e) = NeedsConfirm(d)
  BY AlikeReflex
<1>2. /\ IsolationFailed(e, f) = IsolationFailed(d, f) /\ IsolationPending(e, f) = IsolationPending(d, f)
  BY AlikeAbnormalities
<1>3. DeferHits(e, f) = DeferHits(d, f)
  <2>1. \A n \in DOMAIN f.defers : e.facts[f.defers[n].fact] = d.facts[f.defers[n].fact]
    BY FaultIsWellFormed DEF WellFormedFault, Alike
  <2>. QED BY <1>0, <2>1 DEF DeferHits
<1>4. \A guide : ConfirmAfterReset(e, f, guide) = ConfirmAfterReset(d, f, guide)
  BY AlikeEnd
<1>5. SameMove(AnswerIsolation(e, f), e, AnswerIsolation(d, f), d)
  BY <1>0, <1>2 DEF AnswerIsolation, Answer, SameMove
<1>6. \A t : SameMove(Answer(e, t), e, Answer(d, t), d) /\ SameMove(Answer(Closed(e), t), e, Answer(Closed(d), t), d)
  BY MovesAlike DEF Closed
<1>. QED BY <1>0, <1>1, <1>2, <1>3, <1>4, <1>5, <1>6, AlikeProcedure DEF AnswerMatched

\* Answering changes only the position and the record of what was instructed.
LEMMA AnswersAreAlike ==
    ASSUME NEW d \in State, d.fault \in DOMAIN KB
    PROVE  Alike(Reassess(d).diag, d)
<1>. DEFINE v == EvaluateGates(d)
            f == KB[d.fault]
<1>0. d.fault # None /\ Alike(d, d)
  BY KBAssumption DEF Alike
<1>1. CASE Speaks(d, v)
  <2>1. \/ Reassess(d).diag = d
        \/ Reassess(d).diag = [d EXCEPT !.facts[ResetInstructed] = "yes"]
    BY <1>1 DEF Reassess, AnswerGate, Answer
  <2>. QED BY <1>0, <2>1 DEF Alike, State, FaultKeys, Bookkeeping
<1>2. CASE ~Speaks(d, v)
  <2>1. Reassess(d) = AnswerMatched(d, f)
    BY <1>0, <1>2 DEF Reassess
  <2>2. SameMove(AnswerMatched(d, f), d, AnswerMatched(d, f), d)
    BY <1>0, AlikeMatched
  <2>3. Reassess(d).diag = d \/ \E at : Reassess(d).diag = [d EXCEPT !.stuckAt = at]
    BY <2>1, <2>2 DEF SameMove
  <2>. QED BY <1>0, <2>3 DEF Alike, State
<1>. QED BY <1>1, <1>2

\* Answering twice without a message in between is answering once.
LEMMA ReassessTwice ==
    ASSUME NEW d \in State, d.fault \in DOMAIN KB
    PROVE  Reassess(Reassess(d).diag) = Reassess(d)
<1>. DEFINE v == EvaluateGates(d)
            f == KB[d.fault]
            r == Reassess(d)
            e == r.diag
<1>0. d.fault # None
  BY KBAssumption
<1>1. CASE Speaks(d, v)
  <2>1. r = AnswerGate(d, v)
    BY <1>1 DEF Reassess
  <2>2. e = d \/ (v.outcome = "CAUTION" /\ v.gate = "reset_limit" /\ e = [d EXCEPT !.facts[ResetInstructed] = "yes"])
    BY <2>1 DEF AnswerGate, Answer
  <2>3. Alike(e, d)
    BY <2>2 DEF Alike, State, FaultKeys, Bookkeeping
  <2>4. EvaluateGates(e) = v /\ Speaks(e, v) /\ GateTerminal(e, v) = GateTerminal(d, v)
    BY <1>1, <2>3, AlikeReflex
  <2>5. Reassess(e) = AnswerGate(e, v)
    BY <2>4 DEF Reassess
  <2>6. ASSUME v.outcome = "CAUTION" /\ v.gate = "reset_limit" PROVE [e EXCEPT !.facts[ResetInstructed] = "yes"] = e
    <3>1. e = [d EXCEPT !.facts[ResetInstructed] = "yes"]
      BY <2>1, <2>6 DEF AnswerGate, Answer
    <3>2. d.facts \in [Keys -> Values] /\ ResetInstructed \in Keys
      BY KBAssumption DEF State
    <3>3. e.facts = [d.facts EXCEPT ![ResetInstructed] = "yes"]
      BY <3>1 DEF State
    <3>4. [e.facts EXCEPT ![ResetInstructed] = "yes"] = e.facts
      BY <3>2, <3>3
    <3>. QED BY <3>1, <3>4 DEF State
  <2>. HIDE DEF v
  <2>7. AnswerGate(e, v) = Answer(e, GateTerminal(d, v))
    BY <2>4, <2>6 DEF AnswerGate
  <2>8. r = Answer(e, GateTerminal(d, v))
    BY <2>1 DEF AnswerGate, Answer
  <2>. QED BY <2>5, <2>7, <2>8
<1>2. CASE ~Speaks(d, v)
  <2>1. r = AnswerMatched(d, f)
    BY <1>0, <1>2 DEF Reassess
  <2>2. \A c : Alike(c, d) => SameMove(AnswerMatched(c, f), c, r, d)
    BY <2>1, AlikeMatched
  <2>3. Alike(d, d)
    BY DEF Alike
  <2>4. e = d \/ Repositioned(e, d)
    BY <2>2, <2>3 DEF SameMove, Repositioned
  <2>5. Alike(e, d)
    BY <2>4 DEF Repositioned, Alike, State
  <2>6. EvaluateGates(e) = v /\ ~Speaks(e, v) /\ e.fault = d.fault
    BY <1>2, <2>5, AlikeReflex DEF Alike
  <2>7. Reassess(e) = AnswerMatched(e, f)
    BY <1>0, <2>6 DEF Reassess
  <2>8. SameMove(AnswerMatched(e, f), e, r, d)
    BY <2>2, <2>5
  <2>9. AnswerMatched(e, f).diag = e
    BY <2>8 DEF SameMove, State
  <2>10. e \in State /\ r \in OrdinaryAnswers(d) /\ AnswerMatched(e, f) \in OrdinaryAnswers(e)
    <3>1. r \in OrdinaryAnswers(d)
      BY <2>1, AnswerMatchedType
    <3>2. e \in State
      BY <3>1 DEF OrdinaryAnswers
    <3>. QED BY <3>1, <3>2, AnswerMatchedType
  <2>11. AnswerMatched(e, f).terminal = r.terminal
    BY <2>8 DEF SameMove
  <2>. HIDE DEF r
  <2>12. \A a, b : a \in OrdinaryAnswers(e) /\ b \in OrdinaryAnswers(d)
                    /\ a.diag = b.diag /\ a.terminal = b.terminal => a = b
    BY DEF OrdinaryAnswers
  <2>13. AnswerMatched(e, f) = r
    BY <2>9, <2>10, <2>11, <2>12
  <2>. QED BY <2>7, <2>13 DEF r
<1>. QED BY <1>1, <1>2

\* reflex_node and terminal_node may both answer one message (graph.py): the second answer
\* is the first, and leaves the state as the first left it.
THEOREM AnswerIsTheSame == Spec => []AnswerIsStable
<1>1. Init => AnswerIsStable
  BY DEF Init, AnswerIsStable
<1>2. TypeOK /\ AnswerIsStable /\ [Next]_vars => AnswerIsStable'
  <2>. SUFFICES ASSUME TypeOK, AnswerIsStable, [Next]_vars PROVE AnswerIsStable'
    OBVIOUS
  <2>1. CASE Next
    <3>1. PICK d \in State : d.fault \in DOMAIN KB /\ diag' = Reassess(d).diag /\ last' = Reassess(d).terminal
      BY <2>1, NextAnswers
    <3>2. Reassess(diag') = Reassess(d)
      BY <3>1, ReassessTwice
    <3>3. Reassess(d) = Answer(diag', last')
      <4>1. AnswerMatched(d, KB[d.fault]) \in OrdinaryAnswers(d)
        BY <3>1, AnswerMatchedType
      <4>2. AnswerMatched(d, KB[d.fault]) = Answer(AnswerMatched(d, KB[d.fault]).diag,
                                                  AnswerMatched(d, KB[d.fault]).terminal)
        BY <4>1 DEF OrdinaryAnswers, Answer
      <4>3. Reassess(d) = AnswerGate(d, EvaluateGates(d)) \/ Reassess(d) = AnswerMatched(d, KB[d.fault])
        BY <3>1, KBAssumption DEF Reassess
      <4>. QED BY <3>1, <4>2, <4>3 DEF AnswerGate, Answer
    <3>. QED BY <3>2, <3>3 DEF AnswerIsStable
  <2>2. CASE UNCHANGED vars
    BY <2>2 DEF vars, AnswerIsStable
  <2>. QED BY <2>1, <2>2
<1>. QED BY <1>1, <1>2, TypeCorrect, PTL DEF Spec

-----------------------------------------------------------------------------
(* What a reroute keeps. *)

\* A fault whose procedure reroutes to another is left for it only by such a reroute: a
\* message that names the target keeps the identity already resolved.
LEMMA TargetsAreRerouted ==
    ASSUME TypeOK, NEW u \in Messages, HandedOver(u), diag.fault # None,
           Settled(u).fault \in Targets(Matched)
    PROVE  /\ Settled(u) = SwitchTo(UpdateState(diag, u), Settled(u).fault)
           /\ diag.claimed \subseteq UpdateState(diag, u).claimed
<1>. DEFINE e == UpdateState(diag, u)
            x == diag.fault
<1>1. e.fault = IF u.fault # None THEN u.fault ELSE x
  BY DEF UpdateState
<1>2. x \in DOMAIN KB /\ KB[x].id = x /\ x \notin Targets(KB[x])
  BY KBAssumption, FilesAssumption DEF TypeOK, State, Reviewed
<1>3. e.fault \notin Targets(KB[x])
  BY <1>1, <1>2 DEF HandedOver, Concerns, SameFamily, RoutesOf
<1>4. Settled(u) # e
  BY <1>3 DEF Matched
<1>5. Settled(u) = SwitchTo(e, RerouteTarget(e)) /\ RerouteTarget(e) # None
  BY <1>4 DEF Settled, ResolveCombination
<1>6. e \in State /\ RerouteTarget(e) \in DOMAIN KB
  BY <1>5, UpdateStateType DEF TypeOK, HandedOver, Concerns, RerouteTarget
<1>7. Settled(u).fault = RerouteTarget(e)
  BY <1>5, <1>6, SwitchToType
<1>8. diag.claimed \subseteq e.claimed
  BY DEF UpdateState
<1>. QED BY <1>5, <1>7, <1>8

\* "Claimed steps carry over where ids match" (state.py, _switch_to): a reroute
\* loses no claim of the new procedure and keeps none of the old one.
THEOREM RerouteKeepsClaims == Spec => RerouteCarriesClaims
<1>1. ASSUME TypeOK, Next, diag.fault # None, diag'.fault \in Targets(Matched)
      PROVE  /\ diag.claimed \cap StepIds(Matched') \subseteq diag'.claimed
             /\ diag'.claimed \subseteq StepIds(Matched')
  <2>1. PICK u \in Messages : HandedOver(u) /\ diag' = Reassess(Settled(u)).diag
    BY <1>1 DEF Next, Turn, RunTurn, Settled
  <2>2. diag'.fault = Settled(u).fault /\ diag'.claimed = Settled(u).claimed
    BY <1>1, <2>1, SettledType, ReassessType DEF SameJudgement
  <2>3. /\ Settled(u) = SwitchTo(UpdateState(diag, u), diag'.fault)
        /\ diag.claimed \subseteq UpdateState(diag, u).claimed
    BY <1>1, <2>1, <2>2, TargetsAreRerouted
  <2>4. SwitchTo(UpdateState(diag, u), diag'.fault).claimed =
           (UpdateState(diag, u).claimed \cap StepIds(Matched'))
             \cup (UpdateState(diag, u).unrecognised \cap StepIds(Matched'))
    BY DEF SwitchTo, UpdateState, Matched
  <2>. QED BY <2>2, <2>3, <2>4
<1>2. TypeOK /\ [Next]_vars =>
         [diag.fault # None /\ diag'.fault \in Targets(Matched) =>
            /\ diag.claimed \cap StepIds(Matched') \subseteq diag'.claimed
            /\ diag'.claimed \subseteq StepIds(Matched')]_vars
  BY <1>1
<1>. QED BY <1>2, TypeCorrect, PTL DEF Spec, RerouteCarriesClaims

-----------------------------------------------------------------------------
(* What is left to reroute. *)

\* Where a state would be rerouted depends on its fault, its relays and the facts the
\* fault files name, none of which answering changes.
LEMMA AnsweringReroutesNowhere ==
    ASSUME NEW d \in State, NEW e \in State, d.fault \in DOMAIN KB, SameJudgement(e, d)
    PROVE  RerouteTarget(e) = RerouteTarget(d)
<1>. DEFINE f == KB[d.fault]
<1>1. \A n \in DOMAIN f.routes : f.routes[n].fact \in FaultKeys
  BY FaultIsWellFormed DEF WellFormedFault
<1>2. RouteHits(e, f) = RouteHits(d, f)
  BY <1>1 DEF RouteHits, SameJudgement
<1>3. ComboHits(e, f) = ComboHits(d, f)
  BY DEF ComboHits, SameJudgement
<1>4. e.fault = d.fault
  BY DEF SameJudgement
<1>. QED BY <1>2, <1>3, <1>4 DEF RerouteTarget

\* Before a message is answered it is rerouted at most once, and not at all only when
\* nothing calls for it (state.py, resolve_combination).
THEOREM IdentityIsSettled == Spec => IdentitySettled
<1>. DEFINE Goal == RerouteTarget(diag') # None =>
                      /\ diag'.fault # diag.fault
                      /\ \E x \in DOMAIN KB \ {diag'.fault} : diag'.fault \in Targets(KB[x])
<1>1. ASSUME TypeOK, Next, RerouteTarget(diag') # None
      PROVE  /\ diag'.fault # diag.fault
             /\ \E x \in DOMAIN KB \ {diag'.fault} : diag'.fault \in Targets(KB[x])
  <2>1. PICK u \in Messages : HandedOver(u) /\ diag' = Reassess(Settled(u)).diag
    BY <1>1 DEF Next, Turn, RunTurn, Settled
  <2>. DEFINE e == UpdateState(diag, u)
              m == Settled(u)
              y == RerouteTarget(e)
  <2>2. e \in State /\ m \in State /\ m.fault \in DOMAIN KB
    BY <1>1, <2>1, SettledType, UpdateStateType DEF TypeOK, HandedOver, Concerns
  <2>3. Reassess(m).diag \in State /\ SameJudgement(Reassess(m).diag, m)
    BY <2>2, ReassessType
  <2>4. diag'.fault = m.fault /\ RerouteTarget(m) # None
    BY <1>1, <2>1, <2>2, <2>3, AnsweringReroutesNowhere DEF SameJudgement
  <2>5. y # None
    BY <2>4 DEF Settled, ResolveCombination
  <2>6. m = SwitchTo(e, y)
    BY <2>5 DEF Settled, ResolveCombination
  <2>7. e.fault \in DOMAIN KB /\ y \in DOMAIN KB /\ y \in Targets(KB[e.fault])
    BY <2>2, <2>5, RerouteIsATarget
  <2>8. m.fault = y
    BY <2>2, <2>6, <2>7, SwitchToType
  <2>9. y # e.fault
    BY <2>7, KBAssumption, FilesAssumption DEF Reviewed
  <2>10. e.fault = IF u.fault # None THEN u.fault ELSE diag.fault
    BY DEF UpdateState
  <2>11. y # diag.fault
    <3>1. CASE u.fault = None
      BY <2>9, <2>10, <3>1
    <3>2. CASE u.fault # None
      <4>1. y # None /\ e.fault = u.fault
        BY <2>5, <2>10, <3>2
      <4>2. ~SameFamily(u.fault, diag.fault)
        BY <2>1 DEF HandedOver, Concerns
      <4>. QED BY <2>3, <2>7, <3>2, <4>1, <4>2 DEF SameFamily, RoutesOf
    <3>. QED BY <3>1, <3>2
  <2>. QED BY <2>4, <2>7, <2>8, <2>9, <2>11
<1>2. TypeOK /\ [Next]_vars => [Goal]_vars
  BY <1>1
<1>. QED BY <1>2, TypeCorrect, PTL DEF Spec, IdentitySettled

-----------------------------------------------------------------------------
(* An announced action. *)

\* The verdict that speaks is no milder than any gate's.
LEMMA SeverestSpeaks ==
    ASSUME NEW d \in State, d.fault \in DOMAIN KB, NEW i \in GatedIndices(KB[d.fault])
    PROVE  /\ SeverityAt(d, KB[d.fault], i) <= Severity[EvaluateGates(d).outcome]
           /\ EvaluateGates(d) \in Verdicts
<1>. DEFINE f == KB[d.fault]
            top == First(MostSevere(d, f))
<1>1. d.fault # None
  BY KBAssumption
<1>2. top \in GatedIndices(f) /\ top \in MostSevere(d, f) /\ EvaluateGates(d) = EvaluateGate(d, f, top)
  BY <1>1, MostSevereExists DEF EvaluateGates
<1>. HIDE DEF top
<1>3. EvaluateGates(d) \in Verdicts
  BY <1>2, EvaluateGateType
<1>4. SeverityAt(d, f, top) = Severity[EvaluateGates(d).outcome] /\ SeverityAt(d, f, top) \in Nat
  <2>1. EvaluateGates(d).outcome \in {"NO_FIRE", "ASK", "CAUTION", "REFUSE"}
    BY <1>3 DEF Verdicts, Severity, NoFire
  <2>. QED BY <1>2, <2>1 DEF SeverityAt, Severity
<1>5. i # top => SeverityAt(d, f, i) <= SeverityAt(d, f, top)
  BY <1>2 DEF MostSevere
<1>. QED BY <1>3, <1>4, <1>5

\* An action announced while a precondition of it is open is answered by a gate.
LEMMA AnnouncedIsAnswered ==
    ASSUME NEW d \in State, d.fault \in DOMAIN KB, d.confirmed, NEW i \in HazardIndices(KB[d.fault]),
           d.intent = KB[d.fault].steps[i].gate.action, ~PreconditionsMet(d, KB[d.fault], i)
    PROVE  \/ Reassess(d).terminal.kind \in {"caution", "refuse"}
           \/ Claims(d, KB[d.fault], i) /\ Reassess(d).terminal.kind = "ask_history"
<1>. DEFINE f == KB[d.fault]
            v == EvaluateGates(d)
<1>1. i \in GatedIndices(f) /\ EvaluateGate(d, f, i) = EvaluateHazardExposure(d, f, i)
  BY DEF HazardIndices, ResetIndices, GatedIndices, EvaluateGate
<1>2. EvaluateGate(d, f, i).outcome \in IF Claims(d, f, i) THEN {"ASK", "REFUSE"} ELSE {"CAUTION", "REFUSE"}
  BY <1>1 DEF EvaluateHazardExposure, HazardInPlay, Verdict
<1>3. v \in Verdicts /\ Severity[EvaluateGate(d, f, i).outcome] <= Severity[v.outcome]
  BY <1>1, SeverestSpeaks DEF SeverityAt
<1>. HIDE DEF v
<1>4. v.outcome \in IF Claims(d, f, i) THEN {"ASK", "CAUTION", "REFUSE"} ELSE {"CAUTION", "REFUSE"}
  <2>1. v.outcome \in {"NO_FIRE", "ASK", "CAUTION", "REFUSE"}
    BY <1>3 DEF Verdicts, Severity, NoFire
  <2>. QED BY <1>2, <1>3, <2>1 DEF Severity
<1>5. Reassess(d) = AnswerGate(d, v)
  BY <1>4 DEF Reassess, Speaks, NeedsConfirm, v
<1>6. LET k == Reassess(d).terminal.kind IN
      /\ k \in {"refuse", "caution", "ask_history"}
      /\ v.outcome = "CAUTION" => k = "caution"
      /\ v.outcome = "REFUSE" => k = "refuse"
  BY <1>3, <1>4, <1>5, AnswerGateType
<1>. QED BY <1>4, <1>6

\* "Intent" puts a gate in play (gates.py): a pilot about to do a hazardous action hears a
\* caution or a refusal until every precondition is stated.
THEOREM AnnouncedHazardIsAnswered == Spec => []IntentIsAnswered
<1>1. Init => IntentIsAnswered
  BY DEF Init, NewState, IntentIsAnswered
<1>2. TypeOK /\ IntentIsAnswered /\ [Next]_vars => IntentIsAnswered'
  <2>. SUFFICES ASSUME TypeOK, IntentIsAnswered, [Next]_vars PROVE IntentIsAnswered'
    OBVIOUS
  <2>1. CASE Next
    <3>1. PICK d \in State : d.fault \in DOMAIN KB /\ diag' = Reassess(d).diag /\ last' = Reassess(d).terminal
      BY <2>1, NextAnswers
    <3>2. Alike(diag', d)
      BY <3>1, AnswersAreAlike
    <3>3. Matched' = KB[d.fault] /\ diag'.confirmed = d.confirmed /\ diag'.intent = d.intent
      BY <3>2 DEF Alike, Matched
    <3>4. ASSUME NEW i \in HazardIndices(KB[d.fault])
          PROVE  /\ PreconditionsMet(diag', KB[d.fault], i) = PreconditionsMet(d, KB[d.fault], i)
                 /\ Claims(diag', KB[d.fault], i) = Claims(d, KB[d.fault], i)
      <4>1. KB[d.fault].steps[i].gate.pre \subseteq FaultKeys
        BY <3>1, FaultIsWellFormed
           DEF HazardIndices, ResetIndices, GatedIndices, Gated, WellFormedStep, WellFormedGate, GateTypes
      <4>. QED BY <3>2, <4>1 DEF Alike, PreconditionsMet, Claims
    <3>. QED BY <3>1, <3>3, <3>4, AnnouncedIsAnswered DEF IntentIsAnswered
  <2>2. CASE UNCHANGED vars
    BY <2>2 DEF vars, IntentIsAnswered, Matched
  <2>. QED BY <2>1, <2>2
<1>. QED BY <1>1, <1>2, TypeCorrect, PTL DEF Spec
=============================================================================
