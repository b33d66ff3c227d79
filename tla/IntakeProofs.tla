----------------------------- MODULE IntakeProofs -----------------------------
(***************************************************************************)
(* What reaches the engine is what the engine's theorems assume, for every  *)
(* text and every reading of it; so they hold of a conversation in words.   *)
(***************************************************************************)
EXTENDS Intake, DiagnosisProofs

-----------------------------------------------------------------------------
(* One message. *)

\* Whatever is matched or guessed, an alias hit and a guess are faults of the KB.
LEMMA AliasAndGuess ==
    ASSUME NEW x, NEW m \in Inputs
    PROVE  /\ MatchAlias(m) \in DOMAIN KB \cup {None}
           /\ Alias(x, m) \in {MatchAlias(m), None}
           /\ Guess(m) \in DOMAIN KB \cup {None}
<1>. DEFINE top == {z \in m.hits : \A y \in m.hits : Precedence[y] <= Precedence[z]}
<1>1. m \in Input
  BY InputsAssumption
<1>2. m.exact \in DOMAIN KB \cup {None} /\ top \subseteq DOMAIN KB
  BY <1>1 DEF Input
<1>3. (\E z \in top : top = {z}) => (CHOOSE z \in top : TRUE) \in top
  OBVIOUS
<1>. QED BY <1>2, <1>3 DEF MatchAlias, Alias, Guess

\* A message that is understood is about a fault of the KB, and about another one than
\* the fault at hand only outside its family.
LEMMA SubjectIsKnown ==
    ASSUME NEW x \in DOMAIN KB \cup {None}, NEW m \in Inputs, Understood(x, m)
    PROVE  /\ Subject(x, m) \in DOMAIN KB /\ Subject(x, m) # None
           /\ Subject(x, m) # x => ~SameFamily(Subject(x, m), x)
<1>1. /\ Alias(x, m) \in DOMAIN KB \cup {None} /\ Guess(m) \in DOMAIN KB \cup {None}
      /\ None \notin DOMAIN KB
  BY AliasAndGuess, KBAssumption
<1>2. CASE Alias(x, m) # None
  <2>1. SameFamily(Alias(x, m), x) => x # None
    BY DEF SameFamily
  <2>2. Subject(x, m) = IF SameFamily(Alias(x, m), x) THEN x ELSE Alias(x, m)
    BY <1>2 DEF Subject
  <2>. QED BY <1>1, <1>2, <2>1, <2>2
<1>3. CASE Alias(x, m) = None /\ x = None
  <2>1. Subject(x, m) = Guess(m) /\ Guess(m) # None
    BY <1>3 DEF Subject, Understood
  <2>. QED BY <1>1, <1>3, <2>1 DEF SameFamily
<1>4. CASE Alias(x, m) = None /\ x # None
  <2>1. Subject(x, m) = IF m.confirms = "no" /\ ~SameFamily(Guess(m), x) THEN Guess(m) ELSE x
    BY <1>4 DEF Subject
  <2>2. m.confirms = "no" => Guess(m) # None
    BY <1>4 DEF Understood
  <2>. QED BY <1>1, <1>4, <2>1, <2>2
<1>. QED BY <1>2, <1>3, <1>4

\* A message is certain of a fault only by its text or by a yes, and denies it only by
\* naming another.
LEMMA CertaintyOfSubject ==
    ASSUME NEW x, NEW m
    PROVE  /\ Certainty(x, m) \in YesNo
           /\ Certainty(x, m) = "no" => Subject(x, m) # x
           /\ Subject(x, m) # x => Certainty(x, m) = "no" \/ (Certainty(x, m) = "yes" /\ Presenting(x, m))
<1>1. CASE Alias(x, m) # None
  BY <1>1 DEF Certainty, YesNo, Presenting
<1>2. CASE Alias(x, m) = None
  BY <1>2 DEF Certainty, YesNo, Unstated
<1>. QED BY <1>1, <1>2

\* The facts handed over are typed, and say nothing about the reset bookkeeping.
LEMMA HistoryIsTyped ==
    ASSUME NEW y \in DOMAIN KB, NEW m \in Inputs
    PROVE  /\ History(y, m) \in [Keys -> Values]
           /\ \A k \in Bookkeeping : History(y, m)[k] = Unstated
<1>1. m \in Input /\ YesNo \subseteq Values /\ Bookkeeping \subseteq Keys
  BY InputsAssumption, KBAssumption DEF Bookkeeping
<1>2. /\ m.facts \in [Keys -> Values] /\ m.phrases[y] \in [Keys -> Values]
      /\ {m.resolved, m.resetEarlier, m.abnormality, "yes"} \subseteq Values
  BY <1>1 DEF Input, YesNo
<1>3. History(y, m) \in [Keys -> Values]
  BY <1>2 DEF History, PhraseFacts
<1>4. ASSUME NEW k \in Bookkeeping PROVE History(y, m)[k] = Unstated
  <2>1. k \notin FamilyKeys[y]
    BY InputsAssumption DEF FamilyKeys
  <2>2. k \notin {FaultRecurred, FaultResolved, Abnormality}
    BY DEF Bookkeeping, ResetPerformed, ResetInstructed, FaultRecurred, FaultResolved, Abnormality
  <2>3. k # ResetHistoryKey(KB[y])
    <3>1. CASE ResetIndices(KB[y]) = {}
      BY <3>1 DEF ResetHistoryKey, Bookkeeping, ResetPerformed, ResetInstructed, QLMResetEarlier
    <3>2. CASE ResetIndices(KB[y]) # {}
      <4>1. First(ResetIndices(KB[y])) \in ResetIndices(KB[y])
        BY <3>2, FaultIsWellFormed, FirstIsLeast DEF ResetIndices
      <4>2. KB[y].steps[First(ResetIndices(KB[y]))].gate.needs \in FaultKeys
        BY <4>1, FaultIsWellFormed DEF ResetIndices, WellFormedStep, WellFormedGate
      <4>. QED BY <3>2, <4>2 DEF ResetHistoryKey, FaultKeys
    <3>. QED BY <3>1, <3>2
  <2>4. m.phrases[y][k] = Unstated
    <3>1. k \notin PhraseKeys(KB[y])
      <4>1. PhraseKeys(KB[y]) \subseteq HistoryKeys(KB[y])
        BY DEF HistoryKeys
      <4>2. HistoryKeys(KB[y]) \cap Bookkeeping = {}
        BY InputsAssumption
      <4>. QED BY <4>1, <4>2
    <3>. QED BY <1>1, <3>1, InputsAssumption
  <2>. QED BY <1>1, <2>1, <2>2, <2>3, <2>4 DEF History, PhraseFacts
<1>. QED BY <1>3, <1>4

\* parse_turn hands over a typed update the engine may trust, whatever the text matches
\* and whatever the model reads into it.
LEMMA ParsedIsSound ==
    ASSUME NEW x \in DOMAIN KB \cup {None}, NEW m \in Inputs, Understood(x, m)
    PROVE  /\ Parsed(x, m) \in Update
           /\ WellParsed(Parsed(x, m))
           /\ Concerns(Parsed(x, m), x)
<1>. DEFINE y == Subject(x, m)
            u == Parsed(x, m)
<1>1. y \in DOMAIN KB /\ y # None /\ (y # x => ~SameFamily(y, x))
  BY SubjectIsKnown
<1>2. m \in Input
  BY InputsAssumption
<1>3. u.fault = (IF y = x THEN None ELSE y)
  BY DEF Parsed
<1>4. History(y, m) \in [Keys -> Values] /\ \A k \in Bookkeeping : History(y, m)[k] = Unstated
  BY <1>1, HistoryIsTyped
<1>5. Presenting(x, m) \in BOOLEAN
  BY <1>2 DEF Presenting, Input, SameFamily
<1>6. Claimed(x, m) \in SUBSET STRING
  BY <1>2 DEF Claimed, Input
<1>7. u \in Update
  BY <1>1, <1>2, <1>4, <1>5, <1>6, CertaintyOfSubject DEF Parsed, Update, Input
<1>8. WellParsed(u)
  <2>1. u.confirmed = Certainty(x, m) /\ u.presenting = Presenting(x, m) /\ u.facts = History(y, m)
    BY DEF Parsed
  <2>. QED BY <1>1, <1>3, <1>4, <2>1, CertaintyOfSubject DEF WellParsed
<1>9. Concerns(u, x)
  BY <1>1, <1>3 DEF Concerns, SameFamily
<1>. QED BY <1>7, <1>8, <1>9

-----------------------------------------------------------------------------
(* A conversation in words is a conversation of the engine. *)

\* A message that is understood is a turn of the engine.
LEMMA UnderstoodIsATurn ==
    ASSUME TypeOK, NEW m \in Inputs, Understand(m)
    PROVE  Parsed(diag.fault, m) \in Messages /\ Turn(Parsed(diag.fault, m))
<1>1. diag.fault \in DOMAIN KB \cup {None} /\ Understood(diag.fault, m)
  BY DEF TypeOK, State, Understand
<1>2. Parsed(diag.fault, m) \in Messages
  BY <1>1, ParsedIsSound, ParserAssumption DEF HandOvers, Trusted
<1>3. HandedOver(Parsed(diag.fault, m))
  BY <1>1, ParsedIsSound DEF HandedOver
<1>. QED BY <1>2, <1>3 DEF Understand, Turn

\* Every message is a turn of the engine or leaves the engine alone.
LEMMA IntakeStep == TypeOK /\ [IntakeNext]_intakeVars => [Next]_vars
<1>. SUFFICES ASSUME TypeOK, [IntakeNext]_intakeVars PROVE [Next]_vars
  OBVIOUS
<1>1. ASSUME NEW m \in Inputs, Understand(m) PROVE [Next]_vars
  BY <1>1, UnderstoodIsATurn DEF Next
<1>2. ASSUME NEW m \in Inputs, ShowTheList(m) \/ NotUnderstood(m) PROVE [Next]_vars
  BY <1>2 DEF ShowTheList, NotUnderstood, vars
<1>3. CASE UNCHANGED intakeVars
  BY <1>3 DEF intakeVars, vars
<1>. QED BY <1>1, <1>2, <1>3 DEF IntakeNext, Hear

\* The types of the engine hold throughout a conversation in words.
LEMMA IntakeTypes == IntakeSpec => []TypeOK
<1>1. IntakeInit => TypeOK
  BY NewStateType DEF IntakeInit, Init, TypeOK
<1>2. TypeOK /\ [IntakeNext]_intakeVars => TypeOK'
  BY IntakeStep, TypeStep
<1>. QED BY <1>1, <1>2, PTL DEF IntakeSpec

\* The parser in front of the engine adds no behaviour to it: a message is a turn of the
\* engine or leaves it alone (parse_node and engine_node, graph.py), so that every
\* theorem about the engine holds of a conversation in words.
THEOREM WordsAreTurns == IntakeSpec => Spec
<1>1. IntakeInit => Init
  BY DEF IntakeInit
<1>. QED BY <1>1, IntakeStep, IntakeTypes, PTL DEF IntakeSpec, Spec

\* "The model's output never enters state unvalidated" (parse.py): in every state of a
\* conversation, whatever the text matches and the model reads, the update handed over
\* is typed, trusted only as far as the text or a yes vouches for it, and leaves the
\* reset bookkeeping alone.
THEOREM ParserIsSound == IntakeSpec => []HandsOverWellParsed
<1>1. TypeOK => HandsOverWellParsed
  BY ParsedIsSound DEF TypeOK, State, HandsOverWellParsed, SoundUnder
<1>. QED BY <1>1, IntakeTypes, PTL

-----------------------------------------------------------------------------
(* What the text alone decides. *)

\* A text that names one fault of the KB other than a hub is understood, and presents it,
\* and that is news.
LEMMA NamedPresents ==
    ASSUME NEW x, NEW m, NamedInText(m) # None
    PROVE  /\ Understood(x, m) /\ Presenting(x, m)
           /\ \A d : BringsNews(Parsed(x, m), d)
<1>1. MatchAlias(m) # None /\ ~IsHub(MatchAlias(m))
  BY DEF NamedInText
<1>2. Alias(x, m) # None
  BY <1>1 DEF Alias, AnswersWithin, YieldsToGuess
<1>. QED BY <1>2 DEF Understood, Presenting, BringsNews, Parsed

\* Naming a relay in words the KB knows over a reset on record is refused, whatever the
\* model makes of the message (match_alias before the model, parse.py; the recurrence
\* backstop, state.py).
THEOREM NamedSecondActIsRefused == IntakeSpec => AliasedSecondActRefused
<1>1. TypeOK /\ RecurrenceRefused' /\ InstructedIsOnRecord /\ [IntakeNext]_intakeVars
        => [ /\ heard'.named # None
             /\ PriorReset(diag) \/ InstructsReset(last)
             /\ diag'.fault # None
             /\ \E i \in ResetIndices(Matched') : Matched'.steps[i].gate.recurrence = FaultRecurred
             => last'.kind = "refuse" ]_intakeVars
  <2>. SUFFICES ASSUME TypeOK, RecurrenceRefused', InstructedIsOnRecord, IntakeNext,
                       heard'.named # None, PriorReset(diag) \/ InstructsReset(last), diag'.fault # None,
                       \E i \in ResetIndices(Matched') : Matched'.steps[i].gate.recurrence = FaultRecurred
                PROVE  last'.kind = "refuse"
    OBVIOUS
  <2>1. PICK m \in Inputs : Understand(m) \/ ShowTheList(m) \/ NotUnderstood(m)
    BY DEF IntakeNext, Hear
  <2>2. NamedInText(m) # None
    BY <2>1 DEF Understand, ShowTheList, NotUnderstood, Hearing
  <2>3. Understand(m) /\ Presenting(diag.fault, m)
    BY <2>1, <2>2, NamedPresents DEF ShowTheList, AsksForTheList, NotUnderstood
  <2>4. Parsed(diag.fault, m) \in Messages /\ Turn(Parsed(diag.fault, m)) /\ Parsed(diag.fault, m).presenting
    BY <2>3, UnderstoodIsATurn DEF Parsed
  <2>. QED BY <2>4, PresentedTurnIsRefused
<1>. QED BY <1>1, WordsAreTurns, IntakeTypes, RecurrenceIsRefused, InstructedOnRecord, PTL
         DEF IntakeSpec, AliasedSecondActRefused

-----------------------------------------------------------------------------
(* What the pilot vouched for. *)

\* The faults S leads to are those of S and, with each, what it may be rerouted to.
LEMMA LeadsToIsClosed ==
    ASSUME NEW S
    PROVE  /\ S \cap DOMAIN KB \subseteq LeadsTo(S)
           /\ \A x \in LeadsTo(S), y \in DOMAIN KB : y \in Targets(KB[x]) => y \in LeadsTo(S)
BY DEF LeadsTo

\* The more is vouched for, the more it leads to.
LEMMA LeadsToGrows ==
    ASSUME NEW S, NEW T, S \subseteq T
    PROVE  LeadsTo(Kin(S)) \subseteq LeadsTo(Kin(T))
<1>1. Kin(S) \subseteq Kin(T)
  BY DEF Kin
<1>. QED BY <1>1 DEF LeadsTo

\* A fault that counts as confirmed is one the pilot's words lead to.
ConfirmedIsVouched == diag.fault # None /\ diag.confirmed => diag.fault \in LeadsTo(Kin(heard.vouched))

\* A message is certain only of a fault it names, of one of the family it names, of the
\* one it says yes to, or of the one that was certain before.
LEMMA CertainIsVouched ==
    ASSUME TypeOK, ConfirmedIsVouched, NEW m \in Inputs, Understand(m),
           UpdateState(diag, Parsed(diag.fault, m)).confirmed
    PROVE  UpdateState(diag, Parsed(diag.fault, m)).fault \in LeadsTo(Kin(heard'.vouched))
<1>. DEFINE x == diag.fault
            y == Subject(x, m)
            a == Alias(x, m)
            u == Parsed(x, m)
            e == UpdateState(diag, u)
            V == heard'.vouched
<1>1. x \in DOMAIN KB \cup {None} /\ Understood(x, m)
  BY DEF TypeOK, State, Understand
<1>2. y \in DOMAIN KB /\ y # None
  BY <1>1, SubjectIsKnown
<1>3. u.fault = (IF y = x THEN None ELSE y) /\ u.confirmed = Certainty(x, m)
  BY DEF Parsed
<1>4. e.fault = (IF u.fault # None THEN u.fault ELSE x) /\ e.confirmed = Confirmation(diag, u)
  BY DEF UpdateState
<1>5. e.fault = y
  BY <1>2, <1>3, <1>4
<1>6. V = heard.vouched \cup ({MatchAlias(m)} \ {None}) \cup (IF m.confirms = "yes" THEN {x} \ {None} ELSE {})
  BY DEF Understand, Hearing
<1>7. Kin(V) \cap DOMAIN KB \subseteq LeadsTo(Kin(V))
  BY LeadsToIsClosed
<1>8. CASE a # None
  <2>1. a \in V /\ a \in DOMAIN KB
    BY <1>6, <1>8, AliasAndGuess
  <2>2. y = IF SameFamily(a, x) THEN x ELSE a
    BY <1>8 DEF Subject
  <2>3. y \in Kin(V)
    BY <1>2, <2>1, <2>2 DEF Kin
  <2>. QED BY <1>2, <1>5, <1>7, <2>3
<1>9. CASE a = None /\ y # x
  <2>1. u.confirmed = "no"
    BY <1>3, <1>9 DEF Certainty
  <2>. QED BY <1>4, <2>1 DEF Confirmation, Unstated
<1>10. CASE a = None /\ y = x /\ m.confirms = "yes"
  BY <1>2, <1>5, <1>6, <1>7, <1>10 DEF Kin
<1>11. CASE a = None /\ y = x /\ m.confirms # "yes"
  <2>1. u.confirmed = Unstated /\ u.fault = None
    BY <1>3, <1>11 DEF Certainty
  <2>2. diag.confirmed
    BY <1>4, <2>1 DEF Confirmation
  <2>3. x \in LeadsTo(Kin(heard.vouched))
    BY <1>2, <1>11, <2>2 DEF ConfirmedIsVouched
  <2>. QED BY <1>5, <1>6, <1>11, <2>3, LeadsToGrows
<1>. QED BY <1>8, <1>9, <1>10, <1>11

\* A reroute takes the confirmation only along to a fault its own fault leads to.
LEMMA VouchedStep ==
    ASSUME TypeOK, ConfirmedIsVouched, NEW m \in Inputs, Hear(m)
    PROVE  ConfirmedIsVouched'
<1>1. CASE Understand(m)
  <2>. DEFINE u == Parsed(diag.fault, m)
              e == UpdateState(diag, u)
              z == RerouteTarget(e)
              W == LeadsTo(Kin(heard'.vouched))
  <2>1. u \in Messages /\ Turn(u)
    BY <1>1, UnderstoodIsATurn
  <2>2. HandedOver(u) /\ diag' = Reassess(Settled(u)).diag
    BY <2>1 DEF Turn, RunTurn, Settled
  <2>3. e \in State /\ Settled(u) \in State /\ Settled(u).fault \in DOMAIN KB
    BY <2>1, <2>2, SettledType, UpdateStateType DEF TypeOK, HandedOver, Concerns
  <2>4. diag'.fault = Settled(u).fault /\ diag'.confirmed = Settled(u).confirmed
    BY <2>2, <2>3, ReassessType DEF SameJudgement
  <2>5. e.confirmed => e.fault \in W
    BY <1>1, CertainIsVouched
  <2>6. CASE z = None
    BY <2>4, <2>5, <2>6 DEF Settled, ResolveCombination, ConfirmedIsVouched
  <2>7. CASE z # None
    <3>1. z \in DOMAIN KB /\ z \in Targets(KB[e.fault])
      BY <2>3, <2>7, RerouteIsATarget
    <3>2. Settled(u) = SwitchTo(e, z)
      BY <2>7 DEF Settled, ResolveCombination
    <3>3. Settled(u).fault = z /\ (Settled(u).confirmed => e.confirmed)
      BY <2>3, <3>2 DEF SwitchTo, State
    <3>4. e.confirmed => z \in W
      BY <2>5, <3>1, LeadsToIsClosed
    <3>. QED BY <2>4, <3>3, <3>4 DEF ConfirmedIsVouched
  <2>. QED BY <2>6, <2>7
<1>2. CASE ShowTheList(m) \/ NotUnderstood(m)
  <2>1. heard.vouched \subseteq heard'.vouched /\ diag' = diag
    BY <1>2 DEF ShowTheList, NotUnderstood, Hearing
  <2>. QED BY <2>1, LeadsToGrows DEF ConfirmedIsVouched
<1>. QED BY <1>1, <1>2 DEF Hear

\* A guess of the model, however sure, never guides the pilot through a procedure with a
\* gate: only their own words, or what the KB makes of them, do (fault_confirmed in
\* parse.py, update_state and _switch_to in state.py, step 2b of reassess.py).
THEOREM GuidedIsVouched == IntakeSpec => []GuidedOnlyIfVouched
<1>1. IntakeInit => ConfirmedIsVouched
  BY DEF IntakeInit, Init, NewState, ConfirmedIsVouched
<1>2. TypeOK /\ ConfirmedIsVouched /\ [IntakeNext]_intakeVars => ConfirmedIsVouched'
  <2>1. ASSUME UNCHANGED intakeVars, ConfirmedIsVouched PROVE ConfirmedIsVouched'
    BY <2>1 DEF intakeVars, ConfirmedIsVouched
  <2>. QED BY <2>1, VouchedStep DEF IntakeNext
<1>3. ConfirmedIsVouched /\ GuessIsConfirmedFirst => GuidedOnlyIfVouched
  BY DEF ConfirmedIsVouched, GuessIsConfirmedFirst, GuidedOnlyIfVouched, NeedsConfirm
<1>. QED BY <1>1, <1>2, <1>3, IntakeTypes, WordsAreTurns, GuessIsConfirmed, PTL DEF IntakeSpec

-----------------------------------------------------------------------------
(* What a hub may take over. *)

\* A message that answers within a procedure is about that procedure.
LEMMA AnswerKeepsTheFault ==
    ASSUME NEW x \in DOMAIN KB, NEW m, AnswersWithin(x, MatchAlias(m), m), m.confirms # "no"
    PROVE  Parsed(x, m).fault = None
<1>1. Alias(x, m) = None /\ x # None
  BY DEF Alias, AnswersWithin
<1>2. Subject(x, m) = x
  BY <1>1 DEF Subject
<1>. QED BY <1>2 DEF Parsed

\* Such a message leaves the procedure only for one the KB reroutes it to.
LEMMA AnswerStep ==
    ASSUME TypeOK, NEW m \in Inputs, Hear(m)
    PROVE  HubNeverTakesOver'
<1>. DEFINE x == diag.fault
<1>. SUFFICES ASSUME heard'.answers # None PROVE diag'.fault \in LeadsTo({x}) /\ heard'.answers = x
  BY DEF HubNeverTakesOver
<1>1. heard'.answers = x /\ AnswersWithin(x, MatchAlias(m), m) /\ m.confirms # "no"
  BY DEF Hear, Understand, ShowTheList, NotUnderstood, Hearing
<1>2. x \in DOMAIN KB /\ x # None
  BY <1>1 DEF AnswersWithin, TypeOK, State
<1>3. x \in LeadsTo({x})
  BY <1>2, LeadsToIsClosed
<1>4. CASE Understand(m)
  <2>. DEFINE u == Parsed(x, m)
              e == UpdateState(diag, u)
              z == RerouteTarget(e)
  <2>1. u \in Messages /\ Turn(u)
    BY <1>4, UnderstoodIsATurn
  <2>2. HandedOver(u) /\ diag' = Reassess(Settled(u)).diag
    BY <2>1 DEF Turn, RunTurn, Settled
  <2>3. e \in State /\ Settled(u) \in State /\ Settled(u).fault \in DOMAIN KB
    BY <2>1, <2>2, SettledType, UpdateStateType DEF TypeOK, HandedOver, Concerns
  <2>4. diag'.fault = Settled(u).fault
    BY <2>2, <2>3, ReassessType DEF SameJudgement
  <2>5. e.fault = x
    BY <1>1, <1>2, AnswerKeepsTheFault DEF UpdateState
  <2>6. CASE z = None
    BY <1>1, <1>3, <2>4, <2>5, <2>6 DEF Settled, ResolveCombination
  <2>7. CASE z # None
    <3>1. z \in DOMAIN KB /\ z \in Targets(KB[x])
      BY <2>3, <2>5, <2>7, RerouteIsATarget
    <3>2. Settled(u) = SwitchTo(e, z)
      BY <2>7 DEF Settled, ResolveCombination
    <3>3. Settled(u).fault = z
      BY <2>3, <3>2 DEF SwitchTo, State
    <3>. QED BY <1>1, <1>3, <2>4, <3>1, <3>3, LeadsToIsClosed
  <2>. QED BY <2>6, <2>7
<1>5. CASE ShowTheList(m) \/ NotUnderstood(m)
  BY <1>1, <1>3, <1>5 DEF ShowTheList, NotUnderstood
<1>. QED BY <1>4, <1>5 DEF Hear

\* A hub's alias that is also an answer inside the procedure at hand never takes the
\* conversation over to the hub ("DJ trips" under a loading fault, parse.py); only a
\* denial of the procedure or the KB's own reroutes lead out of it.
THEOREM HubStaysOut == IntakeSpec => []HubNeverTakesOver
<1>1. IntakeInit => HubNeverTakesOver
  BY DEF IntakeInit, HubNeverTakesOver
<1>2. TypeOK /\ HubNeverTakesOver /\ [IntakeNext]_intakeVars => HubNeverTakesOver'
  <2>1. ASSUME UNCHANGED intakeVars, HubNeverTakesOver PROVE HubNeverTakesOver'
    BY <2>1 DEF intakeVars, HubNeverTakesOver
  <2>. QED BY <2>1, AnswerStep DEF IntakeNext
<1>. QED BY <1>1, <1>2, IntakeTypes, PTL DEF IntakeSpec

-----------------------------------------------------------------------------
(* The clarifying question. *)

\* The count of clarifications remembers that the question was put, and an answer that
\* the message is out of scope leaves it alone.
QuestionIsCounted == clarifyAsked \in Nat /\ (heard.asked => clarifyAsked >= 1)

\* A message keeps the count right, and the question is put only if it was not.
LEMMA QuestionStep ==
    ASSUME QuestionIsCounted, NEW m \in Inputs, Hear(m)
    PROVE  QuestionIsCounted' /\ (reply' = "clarify" => ~heard.asked)
<1>1. CASE Understand(m)
  <2>1. heard'.asked = FALSE /\ clarifyAsked' = 0 /\ reply' = "engine"
    BY <1>1 DEF Understand, Hearing
  <2>. QED BY <2>1 DEF QuestionIsCounted
<1>2. CASE NotUnderstood(m)
  <2>1. /\ heard'.asked => heard.asked \/ reply' = "clarify"
        /\ reply' = "clarify" => clarifyAsked' = clarifyAsked + 1 /\ ~(clarifyAsked >= 1)
        /\ reply' # "clarify" => clarifyAsked' = clarifyAsked
    BY <1>2 DEF NotUnderstood, Hearing
  <2>2. CASE reply' = "clarify"
    BY <2>1, <2>2 DEF QuestionIsCounted
  <2>3. CASE reply' # "clarify"
    BY <2>1, <2>3 DEF QuestionIsCounted
  <2>. QED BY <2>2, <2>3
<1>3. CASE ShowTheList(m)
  <2>1. heard'.asked = FALSE /\ clarifyAsked' = 0 /\ reply' = "list"
    BY <1>3 DEF ShowTheList, Hearing
  <2>. QED BY <2>1 DEF QuestionIsCounted
<1>. QED BY <1>1, <1>2, <1>3 DEF Hear

\* The clarifying question is put at most once until a message is understood (_unresolved
\* in graph.py and parse.py), however many messages the copilot calls out of scope.
THEOREM QuestionIsPutOnce == IntakeSpec => NeverAskedTwice
<1>1. IntakeInit => QuestionIsCounted
  BY DEF IntakeInit, QuestionIsCounted
<1>2. QuestionIsCounted /\ [IntakeNext]_intakeVars
        => QuestionIsCounted' /\ [reply' = "clarify" => ~heard.asked]_intakeVars
  BY QuestionStep DEF IntakeNext, QuestionIsCounted, intakeVars
<1>. QED BY <1>1, <1>2, PTL DEF IntakeSpec, NeverAskedTwice
=============================================================================
