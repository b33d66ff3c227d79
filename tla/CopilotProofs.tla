---------------------------- MODULE CopilotProofs ----------------------------
(***************************************************************************)
(* What the agent's loop keeps whatever the models choose, for every        *)
(* knowledge base and every cap on tool calls: its limits, the reflex before *)
(* every step, the engine's own answer at the end, and the promise made of   *)
(* every message.                                                            *)
(***************************************************************************)
EXTENDS Copilot, ChecklistProofs

-----------------------------------------------------------------------------
(* What the tools may leave behind. *)

\* The position diff_completed_steps reports is a step of a checklist, or none.
LEMMA NextUnmetType ==
    ASSUME NEW d \in State, d.fault \in DOMAIN KB
    PROVE  NextUnmet(d) \in AllSteps \cup {None}
<1>. DEFINE f == KB[d.fault]
<1>1. Missing(d, f) \subseteq Indices(f) /\ Indices(f) \subseteq Nat
  BY FaultIsWellFormed DEF Missing, OrdinaryIndices
<1>2. ASSUME Missing(d, f) # {} PROVE First(Missing(d, f)) \in Indices(f)
  BY <1>1, <1>2, FirstIsLeast
<1>3. \A i \in Indices(f) : f.steps[i].id \in AllSteps
  BY DEF AllSteps, StepIds
<1>. QED BY <1>2, <1>3 DEF NextUnmet

\* It does not depend on the position before.
LEMMA NextUnmetFromAnywhere ==
    ASSUME NEW d \in State, NEW at, d.fault \in DOMAIN KB
    PROVE  NextUnmet([d EXCEPT !.stuckAt = at]) = NextUnmet(d)
<1>. DEFINE e == [d EXCEPT !.stuckAt = at]
<1>1. Alike(e, d) /\ e.fault = d.fault
  BY DEF Alike, State
<1>2. Missing(e, KB[d.fault]) = Missing(d, KB[d.fault])
  BY <1>1, AlikeDelta
<1>. QED BY <1>1, <1>2 DEF NextUnmet

\* What check_combination finds depends on the fault and on the relays reported.
LEMMA CombinedFrom ==
    ASSUME NEW d, NEW e, e.fault = d.fault, e.relays = d.relays
    PROVE  Combined(e) = Combined(d)
BY DEF Combined, ComboHits

\* The faults reached begin with the one at hand and follow check_combination's results.
LEMMA HopsBegin ==
    ASSUME NEW d, d.fault \in DOMAIN KB
    PROVE  d.fault \in Hops(d)
BY DEF Hops

\* What follows a fault that was reached is reached too.
LEMMA HopsFollow ==
    ASSUME NEW d, NEW x \in Hops(d), Combined(At(d, x)) \in DOMAIN KB
    PROVE  Combined(At(d, x)) \in Hops(d)
<1>. DEFINE next   == [y \in DOMAIN KB |-> Combined(At(d, y))]
            closed == {S \in SUBSET DOMAIN KB : \A y \in S : next[y] \in S \/ next[y] \notin DOMAIN KB}
<1>1. Hops(d) = {y \in DOMAIN KB : \A S \in closed : d.fault \in S => y \in S}
  BY DEF Hops
<1>2. x \in DOMAIN KB /\ next[x] = Combined(At(d, x))
  BY <1>1
<1>3. ASSUME NEW S \in closed, d.fault \in S PROVE next[x] \in S
  BY <1>1, <1>2, <1>3
<1>. QED BY <1>1, <1>2, <1>3

-----------------------------------------------------------------------------
\* The states the tools may leave behind of m begin with m itself; they are states about
\* a fault of the KB, with what m knows.
LEMMA WorkedBegins ==
    ASSUME NEW m \in State, m.fault \in DOMAIN KB
    PROVE  m \in Worked(m)
<1>1. At(m, m.fault) = m
  BY DEF At, State
<1>2. At(m, m.fault) \in {At(m, x) : x \in Hops(m)}
  BY HopsBegin
<1>. QED BY <1>1, <1>2 DEF Worked

\* The shape of what the tools may leave behind.
LEMMA WorkedForm ==
    ASSUME NEW m \in State, NEW e
    PROVE  e \in Worked(m) <=>
              \/ \E x \in Hops(m) : e = At(m, x)
              \/ \E y \in Hops(m) : \E x \in Hops(At(m, y)) : e = [At(m, x) EXCEPT !.stuckAt = NextUnmet(At(m, y))]
BY DEF Worked

\* Moving a state to a fault of the KB keeps it typed, and its relays.
LEMMA AtType ==
    ASSUME NEW m \in State, NEW x \in DOMAIN KB
    PROVE  At(m, x) \in State /\ At(m, x).fault = x /\ At(m, x).relays = m.relays
BY DEF At, State

\* What the tools leave behind is typed, about a fault of the KB, with the same relays.
LEMMA WorkedType ==
    ASSUME NEW m \in State, NEW e \in Worked(m)
    PROVE  e \in State /\ e.fault \in DOMAIN KB /\ e.relays = m.relays
<1>1. \A d : Hops(d) \subseteq DOMAIN KB
  BY DEF Hops
<1>2. CASE \E x \in Hops(m) : e = At(m, x)
  BY <1>1, <1>2, AtType
<1>3. CASE \E y \in Hops(m) : \E x \in Hops(At(m, y)) : e = [At(m, x) EXCEPT !.stuckAt = NextUnmet(At(m, y))]
  <2>1. PICK y \in DOMAIN KB, x \in DOMAIN KB : e = [At(m, x) EXCEPT !.stuckAt = NextUnmet(At(m, y))]
    BY <1>1, <1>3
  <2>2. NextUnmet(At(m, y)) \in AllSteps \cup {None}
    BY AtType, NextUnmetType
  <2>3. At(m, x) \in State /\ At(m, x).fault = x /\ At(m, x).relays = m.relays
    BY AtType
  <2>. QED BY <2>1, <2>2, <2>3 DEF State
<1>. QED BY <1>2, <1>3, WorkedForm

\* Only the last move counts.
LEMMA AtTwice ==
    ASSUME NEW m \in State, NEW x, NEW y
    PROVE  At(At(m, y), x) = At(m, x)
BY DEF At, State

\* What follows a fault that follows is among the faults reached.
LEMMA HopsOnward ==
    ASSUME NEW m \in State, NEW y \in Hops(m), NEW x \in Hops(At(m, y))
    PROVE  x \in Hops(m)
<1>. DEFINE next(d)   == [z \in DOMAIN KB |-> Combined(At(d, z))]
            closed(d) == {S \in SUBSET DOMAIN KB : \A z \in S : next(d)[z] \in S \/ next(d)[z] \notin DOMAIN KB}
<1>1. \A d : Hops(d) = {z \in DOMAIN KB : \A S \in closed(d) : d.fault \in S => z \in S}
  BY DEF Hops
<1>2. next(At(m, y)) = next(m)
  BY AtTwice
<1>3. closed(At(m, y)) = closed(m)
  BY <1>2
<1>4. At(m, y).fault = y
  BY DEF At, State
<1>. HIDE DEF closed
<1>. QED BY <1>1, <1>3, <1>4

\* A position found in the checklist of such a state leaves such a state.
LEMMA WorkedPositions ==
    ASSUME NEW m \in State, NEW e \in Worked(m)
    PROVE  [e EXCEPT !.stuckAt = NextUnmet(e)] \in Worked(m)
<1>0. \A d : Hops(d) \subseteq DOMAIN KB
  BY DEF Hops
<1>1. PICK x \in Hops(m) : e = At(m, x) \/ \E at : e = [At(m, x) EXCEPT !.stuckAt = at]
  <2>1. CASE \E x \in Hops(m) : e = At(m, x)
    BY <2>1
  <2>2. CASE \E y \in Hops(m) : \E x \in Hops(At(m, y)) : e = [At(m, x) EXCEPT !.stuckAt = NextUnmet(At(m, y))]
    BY <2>2, HopsOnward
  <2>. QED BY <2>1, <2>2, WorkedForm
<1>2. At(m, x) \in State /\ At(m, x).fault = x /\ x \in DOMAIN KB
  BY <1>0, AtType
<1>3. NextUnmet(e) = NextUnmet(At(m, x))
  BY <1>1, <1>2, NextUnmetFromAnywhere
<1>4. [e EXCEPT !.stuckAt = NextUnmet(e)] = [At(m, x) EXCEPT !.stuckAt = NextUnmet(At(m, x))]
  BY <1>1, <1>2, <1>3 DEF State
<1>5. x \in Hops(At(m, x))
  BY <1>2, HopsBegin
<1>. QED BY <1>4, <1>5, WorkedForm

\* So does the procedure check_combination finds.
LEMMA WorkedFollows ==
    ASSUME NEW m \in State, NEW e \in Worked(m), Combined(e) \in DOMAIN KB
    PROVE  [e EXCEPT !.fault = Combined(e)] \in Worked(m)
<1>. DEFINE z == Combined(e)
<1>0. \A d : Hops(d) \subseteq DOMAIN KB
  BY DEF Hops
<1>1. CASE \E x \in Hops(m) : e = At(m, x)
  <2>1. PICK x \in Hops(m) : e = At(m, x)
    BY <1>1
  <2>2. [e EXCEPT !.fault = z] = At(m, z)
    BY <2>1 DEF At, State
  <2>. QED BY <2>1, <2>2, HopsFollow, WorkedForm
<1>2. CASE \E y \in Hops(m) : \E x \in Hops(At(m, y)) : e = [At(m, x) EXCEPT !.stuckAt = NextUnmet(At(m, y))]
  <2>0. PICK y \in Hops(m) : \E x \in Hops(At(m, y)) : e = [At(m, x) EXCEPT !.stuckAt = NextUnmet(At(m, y))]
    BY <1>2
  <2>1. PICK x \in Hops(At(m, y)) : e = [At(m, x) EXCEPT !.stuckAt = NextUnmet(At(m, y))]
    BY <2>0
  <2>2. At(m, x) \in State /\ At(m, x).fault = x /\ At(m, x).relays = m.relays
    BY <1>0, AtType
  <2>3. z = Combined(At(At(m, y), x))
    <3>1. e.fault = x /\ e.relays = m.relays
      BY <2>1, <2>2 DEF State
    <3>. QED BY <2>2, <3>1, AtTwice, CombinedFrom
  <2>4. z \in Hops(At(m, y))
    BY <2>3, HopsFollow
  <2>5. [e EXCEPT !.fault = z] = [At(m, z) EXCEPT !.stuckAt = NextUnmet(At(m, y))]
    BY <2>1 DEF At, State
  <2>. QED BY <2>4, <2>5, WorkedForm
<1>. QED BY <1>1, <1>2, WorkedForm

-----------------------------------------------------------------------------
(* What an answer is made of. *)

\* An answer is a state and a terminal.
LEMMA AnswerShape ==
    ASSUME NEW d, NEW f, NEW v
    PROVE  /\ AnswerGate(d, v) = Answer(AnswerGate(d, v).diag, AnswerGate(d, v).terminal)
           /\ AnswerIsolation(d, f) = Answer(AnswerIsolation(d, f).diag, AnswerIsolation(d, f).terminal)
           /\ AnswerProcedure(d, f) = Answer(AnswerProcedure(d, f).diag, AnswerProcedure(d, f).terminal)
<1>. DEFINE Made(a) == \E e, t : a = Answer(e, t)
<1>1. \A a : Made(a) => a = Answer(a.diag, a.terminal)
  BY DEF Answer
<1>2. Made(AnswerGate(d, v)) /\ Made(AnswerIsolation(d, f))
  BY DEF AnswerGate, AnswerIsolation
<1>3. Made(AnswerProcedure(d, f))
  <2>1. \A e, t, i : Made(Answer(e, t)) /\ Made(Asked(e, f, i, t))
    BY DEF Asked
  <2>. HIDE DEF Made
  <2>. QED BY <2>1 DEF AnswerProcedure
<1>. QED BY <1>1, <1>2, <1>3

\* The engine always answers with a state and a terminal, nothing else.
LEMMA ReassessShape ==
    ASSUME NEW d
    PROVE  Reassess(d) = Answer(Reassess(d).diag, Reassess(d).terminal)
<1>. DEFINE Made(a) == a = Answer(a.diag, a.terminal)
<1>1. \A e, t : Made(Answer(e, t))
  BY DEF Answer
<1>2. \A f, v : Made(AnswerGate(d, v)) /\ Made(AnswerIsolation(d, f)) /\ Made(AnswerProcedure(d, f))
  BY AnswerShape
<1>. HIDE DEF Made
<1>3. \A f : Made(AnswerMatched(d, f))
  BY <1>1, <1>2 DEF AnswerMatched
<1>4. Made(Reassess(d))
  BY <1>1, <1>2, <1>3 DEF Reassess
<1>. QED BY <1>4 DEF Made

\* A check that is asked for is a step of a checklist.
LEMMA AskedStepIsAStep ==
    ASSUME NEW d \in State, d.fault \in DOMAIN KB, Reassess(d).terminal.kind = "ask_step"
    PROVE  Reassess(d).terminal.step \in AllSteps
<1>1. Reassess(d) = AnswerProcedure(d, KB[d.fault])
  BY AsksFromTheProcedure
<1>2. \E i \in Indices(KB[d.fault]) : KB[d.fault].steps[i].id = Reassess(d).terminal.step
  BY <1>1, AskedStep
<1>. QED BY <1>2 DEF AllSteps, StepIds

\* A combination rule names the procedure it leads to.
LEMMA CombinedIsNamed ==
    ASSUME NEW d, d.fault \in DOMAIN KB
    PROVE  Combined(d) # None
<1>. DEFINE f == KB[d.fault]
<1>1. ComboHits(d, f) \subseteq Nat /\ ComboHits(d, f) \subseteq DOMAIN f.combos
  BY FaultIsWellFormed DEF ComboHits, WellFormedFault
<1>2. ComboHits(d, f) # {} => First(ComboHits(d, f)) \in DOMAIN f.combos
  BY <1>1, FirstIsLeast
<1>3. \A n \in DOMAIN f.combos : f.combos[n].to # None
  BY FaultIsWellFormed DEF WellFormedFault
<1>. QED BY <1>2, <1>3, KBAssumption DEF Combined

\* The states a message leads to are states about a fault of the KB, and the merged and
\* rerouted one is among them.
LEMMA MergedType ==
    ASSUME NEW d \in State, NEW u \in Messages, About(u, d)
    PROVE  /\ \A m \in Merged(d, u) : m \in State /\ m.fault \in DOMAIN KB
           /\ ResolveCombination(UpdateState(d, u)) \in Merged(d, u)
<1>1. UpdateState(d, u) \in State /\ UpdateState(d, u).fault \in DOMAIN KB
  BY UpdateStateType DEF About, Concerns
<1>2. ResolveCombination(UpdateState(d, u)) \in State /\ ResolveCombination(UpdateState(d, u)).fault \in DOMAIN KB
  BY <1>1, ResolveCombinationType
<1>. QED BY <1>2, WorkedType, WorkedBegins DEF Merged

-----------------------------------------------------------------------------
(* What holds at each node of a turn.                                       *)

\* A turn about a message: the message is one that may be handed over in the state the
\* last turn left, and its news are judged against that state.
AboutAMessage ==
    /\ turn.update \in Messages /\ About(turn.update, settled)
    /\ turn.news = BringsNews(turn.update, settled)

Leavings == Merged(settled, turn.update)

\* The engine has answered one of the states the message leads to, or referred it to TLC.
Concluded ==
    \/ \E m \in Leavings : Reassess(m) = Answer(diag, turn.terminal)
    \/ /\ diag \in Leavings /\ Combined(diag) \notin DOMAIN KB \cup {None}
       /\ turn.terminal = DifferentProcedure(diag)

\* Nothing is judged: what is said is the fallback, or the last answer again.
Echoed ==
    /\ diag = settled /\ turn.update = NoNews /\ turn.news
    /\ turn.terminal \in Unanswerable \cup {last} /\ turn.terminal # NoTerminal

Tools == {"reflex", "agent_decide", "execute_tool", "reflex_after_tool", "reassess"}

TurnInv ==
    /\ pc \in {"idle", "update_state"} => diag = settled
    /\ pc \in Tools \cup {"update_state", "terminal"} => AboutAMessage
    /\ pc \in Tools => diag \in Leavings
    /\ pc \in Tools \cup {"update_state"} => turn.terminal = NoTerminal
    /\ pc = "terminal" => (IF turn.terminal = NoTerminal THEN diag \in Leavings ELSE Concluded)
    /\ pc = "phrase" => Echoed \/ (AboutAMessage /\ Concluded)

\* One tool and at most one reroute after it take six nodes; a second reroute needs
\* another check_combination, since the cached one was of the fault left.
Spent(n) == turn.steps <= 6 * turn.iter + n

Budget ==
    /\ turn.iter <= MaxIter
    /\ pc \in {"idle"} => turn.steps = 0
    /\ pc = "update_state" => Spent(1)
    /\ pc = "reflex" => Spent(2)
    /\ pc = "agent_decide" => Spent(3)
    /\ pc = "execute_tool" => Spent(4) /\ turn.iter < MaxIter
    /\ pc = "reflex_after_tool" => Spent(-1) \/ (Spent(1) /\ ~Fresh("check_combination"))
    /\ pc = "reassess" => Spent(0) \/ (Spent(2) /\ ~Fresh("check_combination"))
    /\ pc = "terminal" => Spent(4)
    /\ pc = "phrase" => Spent(5)

\* What was concluded is the engine's own answer to the state as it then is.
AnswerInv ==
    pc \in {"terminal", "phrase"} /\ turn.terminal \notin Unanswerable \cup {NoTerminal}
          /\ turn.stop \notin {"detail", "reroute"}
        => Reassess(diag) = Answer(diag, turn.terminal)

-----------------------------------------------------------------------------
(* One node after another. *)

\* The node that hands over leaves the turn as it put it, one step older.
LEMMA GotoFields ==
    ASSUME NEW g \in Turns, NEW n, Goto(n, g)
    PROVE  /\ pc' = n /\ turn' \in Turns
           /\ turn'.update = g.update /\ turn'.news = g.news /\ turn'.overview = g.overview
           /\ turn'.terminal = g.terminal /\ turn'.tool = g.tool /\ turn'.before = g.before
           /\ turn'.cached = g.cached /\ turn'.iter = g.iter /\ turn'.stop = g.stop
           /\ turn'.steps <= g.steps + 1
<1>1. RecursionLimit \in Nat
  BY LoopAssumption
<1>. QED BY <1>1 DEF Goto, Turns

\* The snapshot of a state is typed.
LEMMA SnapshotType == ASSUME NEW d \in State PROVE Snapshot(d) \in Snapshots
BY DEF Snapshot, Snapshots, State

\* A turn begins typed.
LEMMA NewTurnType == NewTurn \in Turns
BY DEF NewTurn, Turns, Terminals, Snapshots

\* The two answers to a message no fault can be made out of.
LEMMA FallbackType ==
    ASSUME NEW gone \in BOOLEAN
    PROVE  LET t == CHOOSE t \in Unanswerable : t.kind = IF gone THEN "defer_to_TLC" ELSE "clarify"
           IN t \in Unanswerable /\ t # NoTerminal
<1>1. \E t \in Unanswerable : t.kind = IF gone THEN "defer_to_TLC" ELSE "clarify"
  BY DEF Unanswerable, NoTerminal
<1>2. NoTerminal \notin Unanswerable
  BY DEF Unanswerable, NoTerminal, None
<1>. QED BY <1>1, <1>2

\* The referral of a procedure that is not encoded is one, and says something.
LEMMA ReferralType ==
    ASSUME NEW d \in State, d.fault \in DOMAIN KB
    PROVE  DifferentProcedure(d) \in Referrals /\ DifferentProcedure(d) # NoTerminal
BY DEF Referrals, DifferentProcedure, Terminal, NoTerminal, None

\* Whatever the engine tells the pilot is something.
LEMMA ToldIsSaid == \A t \in Told : t # NoTerminal
BY DEF Told, Kinds, NoTerminal, None

\* Of what the engine has concluded and how it is put.
LEMMA ConcludedType ==
    ASSUME LoopTypeOK, AboutAMessage, Concluded, NEW news
    PROVE  LET s == Deliver(diag, turn.terminal, last, news) IN
           /\ turn.terminal # NoTerminal
           /\ s.diag \in State /\ s.terminal \in Terminals
           /\ s = [diag |-> s.diag, terminal |-> s.terminal]
<1>. DEFINE t == turn.terminal
<1>1. diag \in State /\ t \in Terminals /\ settled \in State
  BY DEF LoopTypeOK, Turns
<1>2. CASE \E m \in Leavings : Reassess(m) = Answer(diag, t)
  <2>1. PICK m \in Leavings : Reassess(m) = Answer(diag, t)
    BY <1>2
  <2>2. m \in State /\ m.fault \in DOMAIN KB
    BY <1>1, MergedType DEF Leavings, AboutAMessage
  <2>3. t \in Told /\ (t.kind = "ask_step" => t.step \in AllSteps)
    BY <2>1, <2>2, ReassessType, AskedStepIsAStep DEF Answer
  <2>4. CASE AskedAgain(t, last, news)
    <3>1. [diag EXCEPT !.declined = @ \cup {t.step}] \in State
      BY <1>1, <2>3, <2>4 DEF AskedAgain, State
    <3>2. [t EXCEPT !.doNow = TRUE] \in Told
      BY <2>3 DEF Told
    <3>. QED BY <2>3, <2>4, <3>1, <3>2, ToldIsSaid DEF Deliver, Answer, Terminals
  <2>5. CASE ~AskedAgain(t, last, news)
    BY <1>1, <2>3, <2>5, ToldIsSaid DEF Deliver, Answer
  <2>. QED BY <2>4, <2>5
<1>3. CASE diag \in Leavings /\ t = DifferentProcedure(diag)
  <2>1. diag.fault \in DOMAIN KB
    BY <1>1, <1>3, MergedType DEF Leavings, AboutAMessage
  <2>2. ~AskedAgain(t, last, news)
    BY <1>3 DEF AskedAgain, DifferentProcedure, Terminal
  <2>. QED BY <1>1, <1>3, <2>1, <2>2, ReferralType DEF Deliver, Answer
<1>. QED BY <1>2, <1>3 DEF Concluded

\* The engine's answer to the state at hand concludes the turn.
LEMMA EngineConcludes ==
    ASSUME LoopTypeOK, AboutAMessage, diag \in Leavings,
           diag' = Reassess(diag).diag, turn'.terminal = Reassess(diag).terminal,
           turn'.update = turn.update, turn'.news = turn.news, UNCHANGED settled
    PROVE  /\ diag' \in State /\ Reassess(diag).terminal \in Told
           /\ AboutAMessage' /\ Concluded'
<1>1. diag \in State /\ diag.fault \in DOMAIN KB
  BY MergedType DEF Leavings, AboutAMessage, LoopTypeOK
<1>2. Reassess(diag) = Answer(diag', turn'.terminal)
  BY ReassessShape
<1>3. Leavings' = Leavings
  BY DEF Leavings
<1>4. Concluded'
  <2>1. \E m \in Leavings' : Reassess(m) = Answer(diag', turn'.terminal)
    BY <1>2, <1>3
  <2>. QED BY <2>1 DEF Concluded
<1>. QED BY <1>1, <1>4, ReassessType DEF AboutAMessage

\* Whether a message brings news is a Boolean.
LEMMA NewsType == ASSUME NEW u \in Messages, NEW d PROVE BringsNews(u, d) \in BOOLEAN
<1>1. u.tellsRelays \in BOOLEAN /\ u.clearIntent \in BOOLEAN /\ u.presenting \in BOOLEAN /\ u.denies \in BOOLEAN
  BY MessagesAssumption DEF Update
<1>. QED BY <1>1 DEF BringsNews

\* parse: the turn is about the message, in the state the last turn left.
LEMMA ParseStep ==
    ASSUME LoopTypeOK, TurnInv, Message
    PROVE  LoopTypeOK' /\ TurnInv'
<1>0. diag = settled /\ diag \in State /\ last \in Terminals /\ pc = "idle"
  BY DEF LoopTypeOK, TurnInv, Message, ParseUpdate, ParseUnresolved, ParseDetail
<1>1. ASSUME NEW u \in Messages, NEW overview \in BOOLEAN, ParseUpdate(u, overview)
      PROVE  LoopTypeOK' /\ TurnInv'
  <2>. DEFINE g == [NewTurn EXCEPT !.update = u, !.news = BringsNews(u, diag), !.overview = overview]
  <2>1. /\ g \in Turns /\ g.update = u /\ g.news = BringsNews(u, diag) /\ g.terminal = NoTerminal
    BY NewTurnType, NewsType DEF NewTurn, Turns
  <2>2. Goto("update_state", g) /\ HandedOver(u) /\ UNCHANGED <<diag, last, presented, settled, cache>>
        /\ clarifyAsked' = 0
    BY <1>1 DEF ParseUpdate
  <2>. HIDE DEF g
  <2>3. /\ pc' = "update_state" /\ turn' \in Turns /\ turn'.update = u
        /\ turn'.news = BringsNews(u, diag) /\ turn'.terminal = NoTerminal
    BY <2>1, <2>2, GotoFields
  <2>4. AboutAMessage'
    BY <1>0, <2>2, <2>3 DEF AboutAMessage, About, HandedOver
  <2>5. LoopTypeOK'
    BY <2>2, <2>3 DEF LoopTypeOK, Nodes
  <2>. QED BY <1>0, <2>2, <2>3, <2>4, <2>5 DEF TurnInv, Tools
<1>2. ASSUME NEW g \in Turns, Goto("phrase", g), g.update = NoNews, g.news, g.terminal # NoTerminal,
             g.terminal \in Unanswerable \cup {last}, clarifyAsked' \in 0..1,
             UNCHANGED <<diag, last, presented, settled, cache>>
      PROVE  LoopTypeOK' /\ TurnInv'
  <2>1. /\ pc' = "phrase" /\ turn' \in Turns /\ turn'.update = NoNews /\ turn'.news
        /\ turn'.terminal = g.terminal
    BY <1>2, GotoFields
  <2>2. Echoed'
    BY <1>0, <1>2, <2>1 DEF Echoed
  <2>3. LoopTypeOK'
    BY <1>2, <2>1 DEF LoopTypeOK, Nodes
  <2>. QED BY <2>1, <2>2, <2>3 DEF TurnInv, Tools
<1>3. ASSUME NEW outside \in BOOLEAN, ParseUnresolved(outside)
      PROVE  LoopTypeOK' /\ TurnInv'
  <2>. DEFINE gone == outside \/ clarifyAsked >= 1
              t == CHOOSE t \in Unanswerable : t.kind = IF gone THEN "defer_to_TLC" ELSE "clarify"
              g == [NewTurn EXCEPT !.terminal = t]
  <2>1. t \in Unanswerable /\ t # NoTerminal
    BY FallbackType
  <2>2. Goto("phrase", g) /\ UNCHANGED <<diag, last, presented, settled, cache>> /\ clarifyAsked' \in 0..1
    BY <1>3 DEF ParseUnresolved, LoopTypeOK
  <2>. HIDE DEF t
  <2>3. /\ g \in Turns /\ g.update = NoNews /\ g.news /\ g.terminal = t
    BY <2>1, NewTurnType DEF NewTurn, Turns, Terminals
  <2>. QED BY <1>2, <2>1, <2>2, <2>3
<1>4. ASSUME ParseDetail
      PROVE  LoopTypeOK' /\ TurnInv'
  <2>. DEFINE g == [NewTurn EXCEPT !.terminal = last, !.stop = "detail"]
  <2>1. last # NoTerminal /\ Goto("phrase", g) /\ UNCHANGED <<diag, last, presented, settled, cache>>
        /\ clarifyAsked' \in 0..1
    BY <1>4 DEF ParseDetail, NoTerminal, None
  <2>2. /\ g \in Turns /\ g.update = NoNews /\ g.news /\ g.terminal = last
    BY <1>0, NewTurnType DEF NewTurn, Turns
  <2>. QED BY <1>2, <2>1, <2>2
<1>. QED BY <1>1, <1>3, <1>4 DEF Message

\* update_state: what the message is merged into is a state it leads to.
LEMMA MergeStep ==
    ASSUME LoopTypeOK, TurnInv, UpdateStateNode
    PROVE  LoopTypeOK' /\ TurnInv'
<1>1. /\ diag = settled /\ settled \in State /\ turn \in Turns /\ AboutAMessage /\ turn.terminal = NoTerminal
      /\ turn.update \in Messages /\ About(turn.update, settled)
  BY DEF LoopTypeOK, TurnInv, UpdateStateNode, AboutAMessage
<1>2. /\ Goto("reflex", turn) /\ diag' = ResolveCombination(UpdateState(settled, turn.update))
      /\ UNCHANGED <<last, presented, settled, cache, clarifyAsked>>
  BY <1>1 DEF UpdateStateNode
<1>3. /\ pc' = "reflex" /\ turn' \in Turns /\ turn'.update = turn.update /\ turn'.news = turn.news
      /\ turn'.terminal = NoTerminal
  BY <1>1, <1>2, GotoFields
<1>4. diag' \in Leavings' /\ diag' \in State
  BY <1>1, <1>2, <1>3, MergedType DEF Leavings
<1>5. AboutAMessage'
  BY <1>1, <1>2, <1>3 DEF AboutAMessage
<1>6. LoopTypeOK'
  BY <1>2, <1>3, <1>4 DEF LoopTypeOK, Nodes
<1>. QED BY <1>3, <1>4, <1>5, <1>6 DEF TurnInv, Tools

\* A node of the loop that ends it has the engine's answer to the state at hand.
LEMMA ConcludingStep ==
    ASSUME LoopTypeOK, AboutAMessage, diag \in Leavings, NEW g \in Turns, NEW n \in {"terminal", "phrase"},
           Goto(n, g), g.update = turn.update, g.news = turn.news, g.terminal = Reassess(diag).terminal,
           diag' = Reassess(diag).diag, UNCHANGED <<last, presented, settled, cache, clarifyAsked>>
    PROVE  LoopTypeOK' /\ TurnInv'
<1>1. /\ pc' = n /\ turn' \in Turns /\ turn'.update = turn.update /\ turn'.news = turn.news
      /\ turn'.terminal = Reassess(diag).terminal
  BY GotoFields
<1>2. diag' \in State /\ turn'.terminal \in Told /\ AboutAMessage' /\ Concluded'
  BY <1>1, EngineConcludes
<1>3. LoopTypeOK'
  BY <1>1, <1>2 DEF LoopTypeOK, Nodes
<1>. QED BY <1>1, <1>2, <1>3, ToldIsSaid DEF TurnInv, Tools

\* A node of the loop that goes on is left with a state the message leads to.
LEMMA GoingOnStep ==
    ASSUME LoopTypeOK, AboutAMessage, NEW g \in Turns, NEW n \in Tools \cup {"terminal"}, Goto(n, g),
           g.update = turn.update, g.news = turn.news, g.terminal = NoTerminal,
           diag' \in Leavings, cache' \in [Registry -> Snapshots],
           UNCHANGED <<last, presented, settled, clarifyAsked>>
    PROVE  LoopTypeOK' /\ TurnInv'
<1>1. /\ pc' = n /\ turn' \in Turns /\ turn'.update = turn.update /\ turn'.news = turn.news
      /\ turn'.terminal = NoTerminal
  BY GotoFields
<1>2. diag' \in State /\ diag' \in Leavings' /\ AboutAMessage'
  BY <1>1, MergedType DEF Leavings, AboutAMessage, LoopTypeOK
<1>3. LoopTypeOK'
  BY <1>1, <1>2 DEF LoopTypeOK, Nodes, Tools
<1>. QED BY <1>1, <1>2, <1>3 DEF TurnInv, Tools

\* reflex and reflex_after_tool.
LEMMA ReflexStep ==
    ASSUME LoopTypeOK, TurnInv, NEW here \in Tools, NEW onward \in Tools, Reflex(here, onward)
    PROVE  LoopTypeOK' /\ TurnInv'
<1>0. /\ turn \in Turns /\ AboutAMessage /\ diag \in Leavings /\ turn.terminal = NoTerminal
      /\ cache \in [Registry -> Snapshots] /\ diag \in State /\ diag.fault \in DOMAIN KB
  BY MergedType DEF LoopTypeOK, TurnInv, Reflex, Tools, Leavings, AboutAMessage
<1>1. CASE EvaluateGates(diag).outcome # "NO_FIRE"
  <2>. DEFINE g == [turn EXCEPT !.terminal = Reassess(diag).terminal, !.stop = "gate"]
  <2>1. Reassess(diag).terminal \in Told
    BY <1>0, ReassessType
  <2>2. /\ g \in Turns /\ g.update = turn.update /\ g.news = turn.news
        /\ g.terminal = Reassess(diag).terminal
    BY <1>0, <2>1 DEF Turns, Terminals
  <2>3. /\ Goto("phrase", g) /\ diag' = Reassess(diag).diag
        /\ UNCHANGED <<last, presented, settled, cache, clarifyAsked>>
    BY <1>1 DEF Reflex
  <2>. QED BY <1>0, <2>2, <2>3, ConcludingStep
<1>2. CASE EvaluateGates(diag).outcome = "NO_FIRE"
  <2>1. Goto(onward, turn) /\ UNCHANGED <<diag, last, presented, settled, cache, clarifyAsked>>
    BY <1>2 DEF Reflex
  <2>. QED BY <1>0, <2>1, GoingOnStep
<1>. QED BY <1>1, <1>2

\* agent_decide and execute_tool.
LEMMA ToolStep ==
    ASSUME LoopTypeOK, TurnInv, DecideNone \/ (\E t \in Choices \cap Registry : DecideTool(t)) \/ ExecuteTool
    PROVE  LoopTypeOK' /\ TurnInv'
<1>0. /\ turn \in Turns /\ AboutAMessage /\ diag \in Leavings /\ turn.terminal = NoTerminal
      /\ cache \in [Registry -> Snapshots] /\ diag \in State /\ diag.fault \in DOMAIN KB
  BY MergedType DEF LoopTypeOK, TurnInv, DecideNone, DecideTool, ExecuteTool, Tools, Leavings, AboutAMessage
<1>1. CASE DecideNone
  <2>1. Goto("terminal", turn) /\ UNCHANGED <<diag, last, presented, settled, cache, clarifyAsked>>
    BY <1>1 DEF DecideNone
  <2>. QED BY <1>0, <2>1, GoingOnStep
<1>2. ASSUME NEW t \in Choices \cap Registry, DecideTool(t) PROVE LoopTypeOK' /\ TurnInv'
  <2>. DEFINE g == [turn EXCEPT !.tool = t, !.before = Snapshot(diag)]
  <2>1. /\ g \in Turns /\ g.update = turn.update /\ g.news = turn.news /\ g.terminal = turn.terminal
    BY <1>0, SnapshotType DEF Turns
  <2>2. Goto("execute_tool", g) /\ UNCHANGED <<diag, last, presented, settled, cache, clarifyAsked>>
    BY <1>2 DEF DecideTool
  <2>. QED BY <1>0, <2>1, <2>2, GoingOnStep DEF Tools
<1>3. CASE ExecuteTool
  <2>. DEFINE g == [turn EXCEPT !.iter = @ + 1, !.cached = Fresh(turn.tool)]
  <2>0. \A hit \in BOOLEAN : \A n \in Nat : LET h == [turn EXCEPT !.iter = n, !.cached = hit] IN
           h \in Turns /\ h.update = turn.update /\ h.news = turn.news /\ h.terminal = turn.terminal
    BY <1>0 DEF Turns
  <2>1. /\ g \in Turns /\ g.update = turn.update /\ g.news = turn.news /\ g.terminal = turn.terminal
    <3>1. Fresh(turn.tool) \in BOOLEAN
      BY DEF Fresh
    <3>2. turn.iter + 1 \in Nat
      BY <1>0 DEF Turns
    <3>. QED BY <2>0, <3>1, <3>2, Zenon
  <2>2. Goto("reflex_after_tool", g) /\ UNCHANGED <<last, presented, settled, clarifyAsked>>
    BY <1>3 DEF ExecuteTool
  <2>3. diag' = diag \/ diag' = [diag EXCEPT !.stuckAt = NextUnmet(diag)]
    BY <1>3 DEF ExecuteTool
  <2>4. ResolveCombination(UpdateState(settled, turn.update)) \in State
    BY <1>0, UpdateStateType, ResolveCombinationType DEF AboutAMessage, About, Concerns, LoopTypeOK
  <2>5. diag' \in Leavings
    BY <1>0, <2>3, <2>4, WorkedPositions DEF Leavings, Merged
  <2>6. diag' \in State
    BY <1>0, <2>5, MergedType DEF Leavings, AboutAMessage, LoopTypeOK
  <2>7. cache' \in [Registry -> Snapshots]
    BY <1>0, <1>3, <2>6, SnapshotType DEF ExecuteTool
  <2>. QED BY <1>0, <2>1, <2>2, <2>5, <2>7, GoingOnStep DEF Tools
<1>. QED BY <1>1, <1>2, <1>3

\* reassess: the answer, a reroute, the referral, or on with the loop.
LEMMA ReassessNodeStep ==
    ASSUME LoopTypeOK, TurnInv, ReassessNode
    PROVE  LoopTypeOK' /\ TurnInv'
<1>0. /\ turn \in Turns /\ AboutAMessage /\ diag \in Leavings /\ turn.terminal = NoTerminal
      /\ cache \in [Registry -> Snapshots] /\ diag \in State /\ diag.fault \in DOMAIN KB
      /\ UNCHANGED <<last, presented, settled, cache, clarifyAsked>>
  BY MergedType DEF LoopTypeOK, TurnInv, ReassessNode, Tools, Leavings, AboutAMessage
<1>1. ASSUME NEW why \in {"no_progress", "reassess"}, Conclude(why) PROVE LoopTypeOK' /\ TurnInv'
  <2>. DEFINE g == [turn EXCEPT !.terminal = Reassess(diag).terminal, !.stop = why]
  <2>1. Reassess(diag).terminal \in Told
    BY <1>0, ReassessType
  <2>2. /\ g \in Turns /\ g.update = turn.update /\ g.news = turn.news
        /\ g.terminal = Reassess(diag).terminal
    BY <1>0, <2>1 DEF Turns, Terminals
  <2>3. Goto("terminal", g) /\ diag' = Reassess(diag).diag
    BY <1>1 DEF Conclude
  <2>. QED BY <1>0, <2>2, <2>3, ConcludingStep
<1>2. ASSUME Combination # diag.fault, Combination \in DOMAIN KB, Reroute PROVE LoopTypeOK' /\ TurnInv'
  <2>1. Goto("reflex_after_tool", turn) /\ diag' = [diag EXCEPT !.fault = Combined(diag)]
        /\ Combined(diag) \in DOMAIN KB
    BY <1>2 DEF Reroute, Combination
  <2>2. ResolveCombination(UpdateState(settled, turn.update)) \in State
    BY <1>0, UpdateStateType, ResolveCombinationType DEF AboutAMessage, About, Concerns, LoopTypeOK
  <2>3. diag' \in Leavings
    BY <1>0, <2>1, <2>2, WorkedFollows DEF Leavings, Merged
  <2>. QED BY <1>0, <2>1, <2>3, GoingOnStep DEF Tools
<1>3. ASSUME Combination # diag.fault, Combination \notin DOMAIN KB, UNCHANGED diag,
             Goto("terminal", [turn EXCEPT !.stop = "reroute", !.terminal = DifferentProcedure(diag)])
      PROVE  LoopTypeOK' /\ TurnInv'
  <2>. DEFINE t == DifferentProcedure(diag)
              g == [turn EXCEPT !.stop = "reroute", !.terminal = t]
  <2>1. t \in Referrals /\ t # NoTerminal
    BY <1>0, ReferralType
  <2>2. /\ g \in Turns /\ g.update = turn.update /\ g.news = turn.news /\ g.terminal = t
    <3>. HIDE DEF t
    <3>. QED BY <1>0, <2>1 DEF Turns, Terminals
  <2>3. /\ pc' = "terminal" /\ turn' \in Turns /\ turn'.update = turn.update /\ turn'.news = turn.news
        /\ turn'.terminal = t
    <3>1. Goto("terminal", g)
      BY <1>3
    <3>. HIDE DEF g, t
    <3>. QED BY <2>2, <3>1, GotoFields
  <2>4. Combined(diag) \notin DOMAIN KB \cup {None}
    BY <1>0, <1>3, CombinedIsNamed DEF Combination
  <2>5. Concluded' /\ AboutAMessage'
    <3>1. Leavings' = Leavings /\ t' = t
      BY <1>0, <1>3, <2>3 DEF Leavings
    <3>2. AboutAMessage'
      BY <1>0, <2>3 DEF AboutAMessage
    <3>3. diag' \in Leavings' /\ Combined(diag)' \notin DOMAIN KB \cup {None} /\ turn'.terminal = t'
      BY <1>0, <1>3, <2>3, <2>4, <3>1
    <3>. QED BY <3>2, <3>3 DEF Concluded
  <2>6. LoopTypeOK'
    BY <1>0, <1>3, <2>3 DEF LoopTypeOK, Nodes
  <2>. QED BY <2>1, <2>3, <2>5, <2>6 DEF TurnInv, Tools
<1>4. ASSUME Goto("agent_decide", turn), UNCHANGED diag PROVE LoopTypeOK' /\ TurnInv'
  BY <1>0, <1>4, GoingOnStep DEF Tools
<1>. QED BY <1>1, <1>2, <1>3, <1>4 DEF ReassessNode

\* terminal: what was concluded is kept, and the engine is asked if nothing was.
LEMMA TerminalNodeStep ==
    ASSUME LoopTypeOK, TurnInv, TerminalNode
    PROVE  LoopTypeOK' /\ TurnInv'
<1>0. /\ turn \in Turns /\ AboutAMessage /\ pc = "terminal"
      /\ IF turn.terminal = NoTerminal THEN diag \in Leavings ELSE Concluded
      /\ UNCHANGED <<last, presented, settled, cache, clarifyAsked>>
  BY DEF LoopTypeOK, TurnInv, TerminalNode
<1>1. CASE turn.terminal = NoTerminal
  <2>. DEFINE g == [turn EXCEPT !.terminal = Reassess(diag).terminal]
  <2>1. Reassess(diag).terminal \in Told
    BY <1>0, <1>1, MergedType, ReassessType DEF LoopTypeOK, Leavings, AboutAMessage
  <2>2. /\ g \in Turns /\ g.update = turn.update /\ g.news = turn.news
        /\ g.terminal = Reassess(diag).terminal
    BY <1>0, <2>1 DEF Turns, Terminals
  <2>3. Goto("phrase", g) /\ diag' = Reassess(diag).diag
    BY <1>1 DEF TerminalNode
  <2>. QED BY <1>0, <1>1, <2>2, <2>3, ConcludingStep
<1>2. CASE turn.terminal # NoTerminal
  <2>1. Goto("phrase", turn) /\ UNCHANGED diag
    BY <1>2 DEF TerminalNode
  <2>2. /\ pc' = "phrase" /\ turn' \in Turns /\ turn'.update = turn.update /\ turn'.news = turn.news
        /\ turn'.terminal = turn.terminal
    BY <1>0, <2>1, GotoFields
  <2>3. Concluded' /\ AboutAMessage'
    BY <1>0, <1>2, <2>1, <2>2 DEF Concluded, AboutAMessage, Leavings
  <2>4. LoopTypeOK'
    BY <1>0, <2>1, <2>2 DEF LoopTypeOK, Nodes
  <2>. QED BY <2>2, <2>3, <2>4 DEF TurnInv, Tools
<1>. QED BY <1>1, <1>2

\* phrase: what is said is well formed, a check declined is a step of a checklist.
LEMMA PhraseStep ==
    ASSUME LoopTypeOK, TurnInv, PhraseNode
    PROVE  LoopTypeOK' /\ TurnInv'
<1>. DEFINE news == turn.news \/ turn.overview
            s == Deliver(diag, turn.terminal, last, news)
<1>0. /\ turn \in Turns /\ diag \in State
      /\ Echoed \/ (AboutAMessage /\ Concluded)
      /\ pc' = "idle" /\ turn' = NewTurn /\ diag' = s.diag /\ last' = s.terminal /\ settled' = s.diag
      /\ presented' = turn.update.presenting /\ UNCHANGED <<cache, clarifyAsked>>
  BY DEF LoopTypeOK, TurnInv, PhraseNode
<1>1. CASE Echoed
  <2>1. s = Answer(diag, turn.terminal)
    BY <1>1 DEF Echoed, Deliver, AskedAgain
  <2>2. turn.terminal \in Terminals /\ turn.update.presenting \in BOOLEAN
    <3>1. NoNews.presenting = FALSE
      BY DEF NoNews
    <3>2. turn.update.presenting = FALSE
      BY <1>1, <3>1 DEF Echoed
    <3>3. turn.terminal \in Terminals
      BY DEF LoopTypeOK, Turns
    <3>. QED BY <3>2, <3>3, Zenon
  <2>3. diag' = diag /\ settled' = diag /\ last' = turn.terminal
    BY <1>0, <2>1 DEF Answer
  <2>4. LoopTypeOK'
    BY <1>0, <2>2, <2>3, NewTurnType DEF LoopTypeOK, Nodes
  <2>. QED BY <1>0, <2>4 DEF TurnInv, Tools
<1>2. CASE AboutAMessage /\ Concluded
  <2>1. s.diag \in State /\ s.terminal \in Terminals
    BY <1>2, ConcludedType
  <2>2. turn.update.presenting \in BOOLEAN
    BY <1>2, MessagesAssumption DEF AboutAMessage, Update
  <2>. HIDE DEF s
  <2>3. LoopTypeOK'
    BY <1>0, <2>1, <2>2, NewTurnType DEF LoopTypeOK, Nodes
  <2>. QED BY <1>0, <2>3 DEF TurnInv, Tools
<1>. QED BY <1>0, <1>1, <1>2

\* agent_decide fails: the turn ends with the state as the loop had it.
LEMMA DecideFailsStep ==
    ASSUME LoopTypeOK, TurnInv, DecideFails
    PROVE  LoopTypeOK' /\ TurnInv'
<1>1. /\ AboutAMessage /\ diag \in State /\ pc' = "idle" /\ turn' = NewTurn /\ settled' = diag
      /\ presented' = turn.update.presenting /\ UNCHANGED <<diag, last, cache, clarifyAsked>>
  BY DEF LoopTypeOK, TurnInv, DecideFails, Tools
<1>2. turn.update.presenting \in BOOLEAN
  BY <1>1, MessagesAssumption DEF AboutAMessage, Update
<1>3. LoopTypeOK'
  BY <1>1, <1>2, NewTurnType DEF LoopTypeOK, Nodes
<1>. QED BY <1>1, <1>3 DEF TurnInv, Tools

\* The loop begins typed and with the invariant of its turns.
LEMMA TurnBegins == LoopInit => LoopTypeOK /\ TurnInv
<1>. SUFFICES ASSUME LoopInit PROVE LoopTypeOK /\ TurnInv
  OBVIOUS
<1>1. /\ diag = NewState /\ last = NoTerminal /\ presented = FALSE /\ pc = "idle" /\ settled = NewState
      /\ turn = NewTurn /\ clarifyAsked = 0 /\ cache = [t \in Registry |-> NoSnapshot]
  BY DEF LoopInit, Init
<1>2. /\ last \in Terminals /\ cache \in [Registry -> Snapshots] /\ diag \in State /\ settled \in State
      /\ pc \in Nodes /\ turn \in Turns /\ clarifyAsked \in 0..1
  BY <1>1, NewStateType, NewTurnType DEF Terminals, Snapshots, Nodes
<1>3. LoopTypeOK
  BY <1>1, <1>2, Zenon DEF LoopTypeOK
<1>. QED BY <1>1, <1>3 DEF TurnInv, Tools

\* Every node of the loop keeps both.
LEMMA TurnKept == LoopTypeOK /\ TurnInv /\ [LoopNext]_loopVars => LoopTypeOK' /\ TurnInv'
<1>. SUFFICES ASSUME LoopTypeOK, TurnInv, [LoopNext]_loopVars PROVE LoopTypeOK' /\ TurnInv'
  OBVIOUS
<1>1. CASE Message
  BY <1>1, ParseStep
<1>2. CASE UpdateStateNode
  BY <1>2, MergeStep
<1>3. CASE Reflex("reflex", "agent_decide") \/ Reflex("reflex_after_tool", "reassess")
  BY <1>3, ReflexStep DEF Tools
<1>4. CASE DecideNone \/ (\E t \in Choices \cap Registry : DecideTool(t)) \/ ExecuteTool
  BY <1>4, ToolStep
<1>5. CASE DecideFails
  BY <1>5, DecideFailsStep
<1>6. CASE ReassessNode
  BY <1>6, ReassessNodeStep
<1>7. CASE TerminalNode
  BY <1>7, TerminalNodeStep
<1>8. CASE PhraseNode
  BY <1>8, PhraseStep
<1>9. CASE UNCHANGED loopVars
  BY <1>9 DEF loopVars, LoopTypeOK, TurnInv, AboutAMessage, Leavings, Concluded, Echoed
<1>. QED BY <1>1, <1>2, <1>3, <1>4, <1>5, <1>6, <1>7, <1>8, <1>9 DEF LoopNext, Node

\* Types and the invariant of a turn hold at every node.
LEMMA TurnHolds == LoopSafety => [](LoopTypeOK /\ TurnInv)
BY TurnBegins, TurnKept, PTL DEF LoopSafety

\* Types: what the loop declines for the pilot is a step of some checklist, a reroute stays
\* within the KB, and what is cached are snapshots of states.
THEOREM LoopTypesCorrect == LoopSafety => []LoopTypeOK
BY TurnHolds, PTL

-----------------------------------------------------------------------------
(* The limits. *)

\* No node costs more than the budget grants it.
LEMMA BudgetKept == LoopTypeOK /\ Budget /\ [LoopNext]_loopVars => Budget'
<1>. SUFFICES ASSUME LoopTypeOK, Budget, [LoopNext]_loopVars PROVE Budget'
  OBVIOUS
<1>0. /\ turn \in Turns /\ turn.iter \in Nat /\ turn.steps \in Nat /\ MaxIter \in Nat
      /\ NewTurn \in Turns /\ NewTurn.iter = 0 /\ NewTurn.steps = 0
  BY LoopAssumption, NewTurnType DEF LoopTypeOK, Turns, NewTurn
<1>1. ASSUME NEW g \in Turns, NEW n, Goto(n, g)
      PROVE  /\ pc' = n /\ turn'.iter = g.iter /\ turn'.steps <= g.steps + 1
             /\ turn'.iter \in Nat /\ turn'.steps \in Nat
  BY <1>1, GotoFields DEF Turns
<1>2. CASE Message
  <2>. DEFINE Opened(n) == pc' = n /\ turn'.iter = 0 /\ turn'.steps \in Nat /\ turn'.steps <= 1
  <2>1. ASSUME NEW u \in Messages, NEW overview \in BOOLEAN, ParseUpdate(u, overview) PROVE Opened("update_state")
    BY <2>1, LoopAssumption DEF ParseUpdate, Goto, NewTurn
  <2>2. ASSUME NEW outside, ParseUnresolved(outside) PROVE Opened("phrase")
    BY <2>2, LoopAssumption DEF ParseUnresolved, Goto, NewTurn
  <2>3. ASSUME ParseDetail PROVE Opened("phrase")
    BY <2>3, LoopAssumption DEF ParseDetail, Goto, NewTurn
  <2>4. Opened("update_state") \/ Opened("phrase")
    BY <1>2, <2>1, <2>2, <2>3 DEF Message
  <2>. QED BY <1>0, <2>4 DEF Budget, Spent
<1>3. CASE UpdateStateNode
  <2>1. pc = "update_state" /\ Goto("reflex", turn)
    BY <1>3 DEF UpdateStateNode
  <2>. QED BY <1>0, <1>1, <2>1 DEF Budget, Spent
<1>4. ASSUME NEW here, NEW onward, Reflex(here, onward),
             <<here, onward>> \in {<<"reflex", "agent_decide">>, <<"reflex_after_tool", "reassess">>}
      PROVE  Budget'
  <2>1. pc = here /\ UNCHANGED cache
    BY <1>4 DEF Reflex
  <2>2. CASE EvaluateGates(diag).outcome # "NO_FIRE"
    <3>. DEFINE g == [turn EXCEPT !.terminal = Reassess(diag).terminal, !.stop = "gate"]
    <3>1. Goto("phrase", g)
      BY <1>4, <2>2 DEF Reflex
    <3>2. pc' = "phrase" /\ turn'.iter = turn.iter /\ turn'.steps <= turn.steps + 1 /\ turn'.steps \in Nat
      BY <1>0, <3>1, LoopAssumption DEF Goto, Turns
    <3>. QED BY <1>0, <1>4, <2>1, <3>2 DEF Budget, Spent
  <2>3. CASE EvaluateGates(diag).outcome = "NO_FIRE"
    <3>1. Goto(onward, turn) /\ UNCHANGED diag
      BY <1>4, <2>3 DEF Reflex
    <3>2. pc' = onward /\ turn'.iter = turn.iter /\ turn'.steps <= turn.steps + 1 /\ turn'.steps \in Nat
      BY <1>0, <1>1, <3>1
    <3>3. Fresh("check_combination")' = Fresh("check_combination")
      BY <2>1, <3>1 DEF Fresh, Snapshot
    <3>. QED BY <1>0, <1>4, <2>1, <3>2, <3>3 DEF Budget, Spent
  <2>. QED BY <2>2, <2>3
<1>5. CASE DecideNone
  <2>1. pc = "agent_decide" /\ Goto("terminal", turn)
    BY <1>5 DEF DecideNone
  <2>. QED BY <1>0, <1>1, <2>1 DEF Budget, Spent
<1>6. ASSUME NEW t, DecideTool(t) PROVE Budget'
  <2>. DEFINE g == [turn EXCEPT !.tool = t, !.before = Snapshot(diag)]
  <2>1. pc = "agent_decide" /\ Goto("execute_tool", g) /\ turn.iter < MaxIter
    BY <1>6 DEF DecideTool, Consults
  <2>2. pc' = "execute_tool" /\ turn'.iter = turn.iter /\ turn'.steps <= turn.steps + 1 /\ turn'.steps \in Nat
    BY <1>0, <2>1, LoopAssumption DEF Goto, Turns
  <2>. QED BY <1>0, <2>1, <2>2 DEF Budget, Spent
<1>7. CASE DecideFails \/ PhraseNode
  <2>1. pc' = "idle" /\ turn' = NewTurn
    BY <1>7 DEF DecideFails, PhraseNode
  <2>. QED BY <1>0, <2>1 DEF Budget, Spent
<1>8. CASE ExecuteTool
  <2>. DEFINE g == [turn EXCEPT !.iter = @ + 1, !.cached = Fresh(turn.tool)]
  <2>1. pc = "execute_tool" /\ Goto("reflex_after_tool", g)
    BY <1>8 DEF ExecuteTool
  <2>2. /\ pc' = "reflex_after_tool" /\ turn'.iter = turn.iter + 1
        /\ turn'.steps <= turn.steps + 1 /\ turn'.steps \in Nat
    BY <1>0, <2>1, LoopAssumption DEF Goto, Turns
  <2>. QED BY <1>0, <2>1, <2>2 DEF Budget, Spent
<1>9. CASE ReassessNode
  <2>0. pc = "reassess" /\ UNCHANGED cache
    BY <1>9 DEF ReassessNode
  <2>1. ASSUME NEW why, Conclude(why) PROVE Budget'
    <3>1. pc' = "terminal" /\ turn'.iter = turn.iter /\ turn'.steps <= turn.steps + 1 /\ turn'.steps \in Nat
      BY <1>0, <2>1, LoopAssumption DEF Conclude, Goto, Turns
    <3>. QED BY <1>0, <2>0, <3>1 DEF Budget, Spent
  <2>2. ASSUME Combination # diag.fault, Reroute PROVE Budget'
    <3>1. Fresh("check_combination") /\ diag' = [diag EXCEPT !.fault = Combination] /\ Goto("reflex_after_tool", turn)
      BY <2>2 DEF Combination, Reroute
    <3>2. /\ pc' = "reflex_after_tool" /\ turn'.iter = turn.iter
          /\ turn'.steps <= turn.steps + 1 /\ turn'.steps \in Nat
      BY <1>0, <1>1, <3>1
    <3>3. ~Fresh("check_combination")'
      <4>1. diag'.fault = Combination
        BY <3>1 DEF LoopTypeOK, State
      <4>2. cache["check_combination"].fault = diag.fault
        BY <3>1 DEF Fresh, Snapshot
      <4>3. Fresh("check_combination")' => cache["check_combination"].fault = diag'.fault
        BY <2>0 DEF Fresh, Snapshot
      <4>. QED BY <2>2, <4>1, <4>2, <4>3
    <3>. QED BY <1>0, <2>0, <3>1, <3>2, <3>3 DEF Budget, Spent
  <2>3. ASSUME Goto("terminal", [turn EXCEPT !.stop = "reroute", !.terminal = DifferentProcedure(diag)])
        PROVE  Budget'
    <3>1. pc' = "terminal" /\ turn'.iter = turn.iter /\ turn'.steps <= turn.steps + 1 /\ turn'.steps \in Nat
      BY <1>0, <2>3, LoopAssumption DEF Goto, Turns
    <3>. QED BY <1>0, <2>0, <3>1 DEF Budget, Spent
  <2>4. ASSUME Goto("agent_decide", turn) PROVE Budget'
    BY <1>0, <1>1, <2>0, <2>4 DEF Budget, Spent
  <2>. QED BY <1>9, <2>1, <2>2, <2>3, <2>4 DEF ReassessNode
<1>10. CASE TerminalNode
  <2>1. PICK t : Goto("phrase", [turn EXCEPT !.terminal = t])
    <3>1. [turn EXCEPT !.terminal = turn.terminal] = turn
      BY <1>0 DEF Turns
    <3>. QED BY <1>10, <3>1 DEF TerminalNode
  <2>2. pc' = "phrase" /\ turn'.iter = turn.iter /\ turn'.steps <= turn.steps + 1 /\ turn'.steps \in Nat
    BY <1>0, <2>1, LoopAssumption DEF Goto, Turns
  <2>3. pc = "terminal"
    BY <1>10 DEF TerminalNode
  <2>. QED BY <1>0, <2>2, <2>3 DEF Budget, Spent
<1>11. CASE UNCHANGED loopVars
  BY <1>11 DEF loopVars, Budget, Spent, Fresh, Snapshot
<1>. QED BY <1>2, <1>3, <1>4, <1>5, <1>6, <1>7, <1>8, <1>9, <1>10, <1>11 DEF LoopNext, Node

\* "MAX_ITER" (graph.py): no turn is granted more tools than that, and no turn comes near the
\* step limit at which the framework would raise instead of answering.
THEOREM StaysWithinLimits == LoopSafety => []WithinLimits
<1>1. LoopInit => Budget
  BY LoopAssumption DEF LoopInit, NewTurn, Budget
<1>2. LoopTypeOK /\ Budget => WithinLimits
  <2>. SUFFICES ASSUME LoopTypeOK, Budget PROVE WithinLimits
    OBVIOUS
  <2>1. /\ turn.iter \in Nat /\ turn.steps \in Nat /\ MaxIter \in Nat /\ RecursionLimit = 8 * (MaxIter + 2)
        /\ pc \in Nodes
    BY LoopAssumption DEF LoopTypeOK, Turns
  <2>2. turn.steps <= 6 * turn.iter + 5
    BY <2>1 DEF Budget, Spent, Nodes
  <2>. QED BY <2>1, <2>2 DEF WithinLimits, Budget
<1>. QED BY <1>1, <1>2, LoopTypesCorrect, BudgetKept, PTL DEF LoopSafety

-----------------------------------------------------------------------------
(* The reflex before every step. *)

\* A state that only answering has moved on since the reflex let it through is let through.
LEMMA ReflexKept == LoopTypeOK /\ TurnInv /\ ReflexComesFirst /\ [LoopNext]_loopVars => ReflexComesFirst'
<1>. SUFFICES ASSUME LoopTypeOK, TurnInv, ReflexComesFirst, [LoopNext]_loopVars PROVE ReflexComesFirst'
  OBVIOUS
<1>. DEFINE Silent == EvaluateGates(diag).outcome = "NO_FIRE"
<1>1. CASE Message \/ UpdateStateNode \/ DecideFails \/ PhraseNode \/ ExecuteTool
  <2>1. pc' \in {"idle", "update_state", "reflex", "phrase", "reflex_after_tool"}
    BY <1>1 DEF Message, ParseUpdate, ParseUnresolved, ParseDetail, UpdateStateNode, DecideFails, PhraseNode,
                ExecuteTool, Goto
  <2>. QED BY <2>1 DEF ReflexComesFirst
<1>2. ASSUME NEW here, NEW onward \in {"agent_decide", "reassess"}, Reflex(here, onward) PROVE ReflexComesFirst'
  <2>1. pc' = "phrase" \/ (pc' = onward /\ Silent /\ UNCHANGED diag)
    BY <1>2 DEF Reflex, Goto
  <2>. QED BY <2>1 DEF ReflexComesFirst
<1>3. CASE DecideNone
  <2>1. pc = "agent_decide" /\ pc' = "terminal" /\ UNCHANGED diag
    BY <1>3 DEF DecideNone, Goto
  <2>. QED BY <2>1 DEF ReflexComesFirst
<1>4. ASSUME NEW t, DecideTool(t) PROVE ReflexComesFirst'
  <2>1. pc = "agent_decide" /\ ~NeedsConfirm(diag) /\ pc' = "execute_tool" /\ UNCHANGED diag
    BY <1>4 DEF DecideTool, Consults, Goto
  <2>. QED BY <2>1 DEF ReflexComesFirst
<1>5. CASE ReassessNode
  <2>0. pc = "reassess" /\ Silent /\ diag \in State /\ diag.fault \in DOMAIN KB
    BY <1>5, MergedType DEF ReassessNode, ReflexComesFirst, LoopTypeOK, TurnInv, Tools, Leavings, AboutAMessage
  <2>1. ASSUME NEW why, Conclude(why) PROVE ReflexComesFirst'
    <3>1. pc' = "terminal" /\ diag' = Reassess(diag).diag
      BY <2>1 DEF Conclude, Goto
    <3>2. EvaluateGates(diag') = EvaluateGates(diag)
      BY <2>0, <3>1, AnswersAreAlike, AlikeReflex
    <3>. QED BY <2>0, <3>1, <3>2 DEF ReflexComesFirst
  <2>2. ASSUME Reroute PROVE ReflexComesFirst'
    BY <2>2 DEF Reroute, Goto, ReflexComesFirst
  <2>3. ASSUME NEW g, Goto("terminal", g), UNCHANGED diag PROVE ReflexComesFirst'
    BY <2>0, <2>3 DEF Goto, ReflexComesFirst
  <2>4. ASSUME NEW g, Goto("agent_decide", g), UNCHANGED diag PROVE ReflexComesFirst'
    BY <2>0, <2>4 DEF Goto, ReflexComesFirst
  <2>. QED BY <1>5, <2>1, <2>2, <2>3, <2>4 DEF ReassessNode
<1>6. CASE TerminalNode
  BY <1>6 DEF TerminalNode, Goto, ReflexComesFirst
<1>7. CASE UNCHANGED loopVars
  BY <1>7 DEF loopVars, ReflexComesFirst
<1>. QED BY <1>1, <1>2, <1>3, <1>4, <1>5, <1>6, <1>7 DEF LoopNext, Node

\* "Every state update is guarded" (graph.py): from the reflex to the next change of state
\* no gate fires, and no tool runs about a gated fault that is only a guess.
THEOREM EveryUpdateIsGuarded == LoopSafety => []ReflexComesFirst
<1>1. LoopInit => ReflexComesFirst
  BY DEF LoopInit, ReflexComesFirst
<1>. QED BY <1>1, TurnHolds, ReflexKept, PTL DEF LoopSafety

-----------------------------------------------------------------------------
(* The engine's answer. *)

\* The answer just taken from the engine is the answer it would give again.
LEMMA AnsweredIsStable ==
    ASSUME NEW d \in State, d.fault \in DOMAIN KB
    PROVE  Reassess(Reassess(d).diag) = Answer(Reassess(d).diag, Reassess(d).terminal)
BY ReassessTwice, ReassessShape

\* Every node keeps the answer that of the engine to a state the message may lead to.
LEMMA AnswerKept == LoopTypeOK /\ TurnInv /\ AnswerInv /\ [LoopNext]_loopVars => AnswerInv'
<1>. SUFFICES ASSUME LoopTypeOK, TurnInv, AnswerInv, [LoopNext]_loopVars PROVE AnswerInv'
  OBVIOUS
<1>0. turn \in Turns /\ settled \in State
  BY DEF LoopTypeOK
<1>1. ASSUME diag \in Leavings, AboutAMessage, NEW g \in Turns, NEW n, Goto(n, g),
             g.terminal = Reassess(diag).terminal, diag' = Reassess(diag).diag
      PROVE  AnswerInv'
  <2>1. turn'.terminal = Reassess(diag).terminal
    BY <1>1, GotoFields
  <2>2. Reassess(diag') = Answer(diag', turn'.terminal)
    BY <1>0, <1>1, <2>1, MergedType, AnsweredIsStable DEF Leavings, AboutAMessage
  <2>. QED BY <2>2 DEF AnswerInv
<1>2. ASSUME diag \in Leavings, AboutAMessage PROVE Reassess(diag).terminal \in Told
  BY <1>0, <1>2, MergedType, ReassessType DEF Leavings, AboutAMessage
<1>3. CASE Message
  <2>1. ASSUME NEW outside, ParseUnresolved(outside) PROVE turn'.terminal \in Unanswerable
    <3>. DEFINE gone == outside \/ clarifyAsked >= 1
                t == CHOOSE t \in Unanswerable : t.kind = IF gone THEN "defer_to_TLC" ELSE "clarify"
                g == [NewTurn EXCEPT !.terminal = t]
    <3>1. t \in Unanswerable
      BY FallbackType
    <3>2. Goto("phrase", g)
      BY <2>1 DEF ParseUnresolved
    <3>. HIDE DEF t
    <3>3. g \in Turns /\ g.terminal = t
      BY <3>1, NewTurnType DEF Turns, NewTurn, Terminals
    <3>. QED BY <3>1, <3>2, <3>3, GotoFields
  <2>2. ASSUME ParseDetail PROVE turn'.stop = "detail"
    BY <2>2 DEF ParseDetail, Goto, NewTurn
  <2>3. ASSUME NEW u, NEW overview, ParseUpdate(u, overview) PROVE pc' = "update_state"
    BY <2>3 DEF ParseUpdate, Goto
  <2>. QED BY <1>3, <2>1, <2>2, <2>3 DEF Message, AnswerInv
<1>4. CASE UpdateStateNode \/ DecideFails \/ PhraseNode \/ ExecuteTool
  <2>1. pc' \in {"idle", "reflex", "reflex_after_tool"}
    BY <1>4 DEF UpdateStateNode, DecideFails, PhraseNode, ExecuteTool, Goto
  <2>. QED BY <2>1 DEF AnswerInv
<1>5. ASSUME NEW here \in Tools, NEW onward \in {"agent_decide", "reassess"}, Reflex(here, onward)
      PROVE  AnswerInv'
  <2>. DEFINE g == [turn EXCEPT !.terminal = Reassess(diag).terminal, !.stop = "gate"]
  <2>0. diag \in Leavings /\ AboutAMessage
    BY <1>5 DEF TurnInv, Reflex, Tools
  <2>1. (pc' = onward) \/ (Goto("phrase", g) /\ diag' = Reassess(diag).diag)
    BY <1>5 DEF Reflex, Goto
  <2>2. g \in Turns /\ g.terminal = Reassess(diag).terminal
    BY <1>0, <1>2, <2>0 DEF Turns, Terminals
  <2>. HIDE DEF g
  <2>3. CASE pc' = onward
    BY <2>3 DEF AnswerInv
  <2>. QED BY <1>1, <2>0, <2>1, <2>2, <2>3
<1>6. CASE DecideNone
  <2>1. turn.terminal = NoTerminal /\ Goto("terminal", turn)
    BY <1>6 DEF DecideNone, TurnInv, Tools
  <2>2. turn'.terminal = NoTerminal
    BY <1>0, <2>1, GotoFields
  <2>. QED BY <2>2 DEF AnswerInv
<1>7. ASSUME NEW t, DecideTool(t) PROVE AnswerInv'
  BY <1>7 DEF DecideTool, Goto, AnswerInv
<1>8. CASE ReassessNode
  <2>0. diag \in Leavings /\ AboutAMessage
    BY <1>8 DEF TurnInv, ReassessNode, Tools
  <2>1. ASSUME NEW why \in {"no_progress", "reassess"}, Conclude(why) PROVE AnswerInv'
    <3>. DEFINE g == [turn EXCEPT !.terminal = Reassess(diag).terminal, !.stop = why]
    <3>1. Goto("terminal", g) /\ diag' = Reassess(diag).diag
      BY <2>1 DEF Conclude
    <3>2. g \in Turns /\ g.terminal = Reassess(diag).terminal
      BY <1>0, <1>2, <2>0 DEF Turns, Terminals
    <3>. HIDE DEF g
    <3>. QED BY <1>1, <2>0, <3>1, <3>2
  <2>2. ASSUME NEW g, Goto("agent_decide", g) \/ Goto("reflex_after_tool", g) PROVE AnswerInv'
    BY <2>2 DEF Goto, AnswerInv
  <2>3. ASSUME Goto("terminal", [turn EXCEPT !.stop = "reroute", !.terminal = DifferentProcedure(diag)])
        PROVE  AnswerInv'
    <3>1. turn'.stop = "reroute"
      BY <1>0, <2>3 DEF Goto, Turns
    <3>. QED BY <3>1 DEF AnswerInv
  <2>. QED BY <1>8, <2>1, <2>2, <2>3 DEF ReassessNode, Reroute
<1>9. CASE TerminalNode
  <2>0. pc = "terminal" /\ AboutAMessage
    BY <1>9 DEF TurnInv, TerminalNode, Tools
  <2>1. CASE turn.terminal = NoTerminal
    <3>. DEFINE g == [turn EXCEPT !.terminal = Reassess(diag).terminal]
    <3>1. diag \in Leavings
      BY <2>0, <2>1 DEF TurnInv
    <3>2. Goto("phrase", g) /\ diag' = Reassess(diag).diag
      BY <1>9, <2>1 DEF TerminalNode
    <3>3. g \in Turns /\ g.terminal = Reassess(diag).terminal
      BY <1>0, <1>2, <2>0, <3>1 DEF Turns, Terminals
    <3>. HIDE DEF g
    <3>. QED BY <1>1, <2>0, <3>1, <3>2, <3>3
  <2>2. CASE turn.terminal # NoTerminal
    <3>1. Goto("phrase", turn) /\ UNCHANGED diag
      BY <1>9, <2>2 DEF TerminalNode
    <3>2. turn'.terminal = turn.terminal /\ turn'.stop = turn.stop
      BY <1>0, <3>1, GotoFields
    <3>. QED BY <2>0, <3>1, <3>2 DEF AnswerInv
  <2>. QED BY <2>1, <2>2
<1>10. CASE UNCHANGED loopVars
  BY <1>10 DEF loopVars, AnswerInv
<1>. QED BY <1>3, <1>4, <1>5, <1>6, <1>7, <1>8, <1>9, <1>10 DEF LoopNext, Node, Tools

\* "Every guard degrades to the ENGINE's deterministic terminal" (graph.py): what is said is
\* the engine's answer to the state as it then is.
THEOREM EngineAnswers == LoopSafety => []SaysTheEnginesAnswer
<1>1. LoopInit => AnswerInv
  BY DEF LoopInit, AnswerInv
<1>2. LoopTypeOK /\ TurnInv /\ AnswerInv => SaysTheEnginesAnswer
  <2>. SUFFICES ASSUME LoopTypeOK, TurnInv, AnswerInv, pc = "phrase" PROVE SaysTheEnginesAnswer
    BY DEF SaysTheEnginesAnswer
  <2>1. turn.terminal # NoTerminal
    BY ConcludedType DEF TurnInv, Echoed
  <2>. QED BY <2>1 DEF AnswerInv, SaysTheEnginesAnswer
<1>. QED BY <1>1, <1>2, TurnHolds, AnswerKept, PTL DEF LoopSafety

-----------------------------------------------------------------------------
(* The promise. *)

\* The turn that ends with words is an answer to its message, or is said of none.
LEMMA PhraseKeepsPromise ==
    ASSUME LoopTypeOK, TurnInv, PhraseNode
    PROVE  Promised!Unresolved \/ \E u \in Messages : Promised!Answered(u)
<1>. DEFINE news == turn.news \/ turn.overview
            t == turn.terminal
            s == Deliver(diag, t, last, news)
<1>0. /\ turn \in Turns /\ diag \in State
      /\ Echoed \/ (AboutAMessage /\ Concluded)
      /\ last' = s.terminal /\ settled' = s.diag /\ presented' = turn.update.presenting
  BY DEF LoopTypeOK, TurnInv, PhraseNode
<1>1. CASE Echoed
  <2>1. s = Answer(diag, t)
    BY <1>1 DEF Echoed, Deliver, AskedAgain
  <2>2. NoNews.presenting = FALSE
    BY DEF NoNews
  <2>3. settled' = settled /\ last' \in Unanswerable \cup {last} /\ presented' = FALSE
    BY <1>0, <1>1, <2>1, <2>2 DEF Echoed, Answer
  <2>. QED BY <2>3 DEF Promised!Unresolved
<1>2. CASE AboutAMessage /\ Concluded
  <2>. DEFINE u == turn.update
              o == [diag |-> settled', terminal |-> last']
  <2>1. u \in Messages /\ About(u, settled) /\ turn.news = BringsNews(u, settled)
    BY <1>2 DEF AboutAMessage
  <2>2. s = o
    BY <1>0, <1>2, ConcludedType
  <2>3. news \in {TRUE, BringsNews(u, settled)}
    <3>1. turn.news \in BOOLEAN /\ turn.overview \in BOOLEAN
      BY DEF LoopTypeOK, Turns
    <3>2. CASE turn.overview
      BY <3>1, <3>2, Zenon
    <3>3. CASE ~turn.overview
      <4>1. news = turn.news
        BY <3>1, <3>3, Zenon
      <4>. HIDE DEF news
      <4>. QED BY <2>1, <4>1, Zenon
    <3>. QED BY <3>2, <3>3
  <2>. HIDE DEF news
  <2>4. CASE \E m \in Leavings : Reassess(m) = Answer(diag, t)
    <3>1. PICK m \in Merged(settled, u) : Reassess(m) = Answer(diag, t)
      BY <2>4 DEF Leavings
    <3>2. Reassess(m).diag = diag /\ Reassess(m).terminal = t
      BY <3>1 DEF Answer
    <3>3. o = Deliver(Reassess(m).diag, Reassess(m).terminal, last, news)
      BY <2>2, <3>2
    <3>4. Outcome(o, settled, last, u)
      BY <2>3, <3>3 DEF Outcome
    <3>. QED BY <1>0, <2>1, <3>4 DEF Promised!Answered
  <2>5. CASE diag \in Leavings /\ Combined(diag) \notin DOMAIN KB \cup {None} /\ t = DifferentProcedure(diag)
    <3>1. ~AskedAgain(t, last, news)
      BY <2>5 DEF AskedAgain, DifferentProcedure, Terminal
    <3>2. o = Answer(diag, DifferentProcedure(diag))
      BY <2>2, <2>5, <3>1 DEF Deliver
    <3>3. Outcome(o, settled, last, u)
      BY <2>5, <3>2 DEF Outcome, Leavings
    <3>. QED BY <1>0, <2>1, <3>3 DEF Promised!Answered
  <2>. QED BY <1>2, <2>4, <2>5 DEF Concluded
<1>. QED BY <1>0, <1>1, <1>2

\* The turn that is lost leaves a state its message leads to.
LEMMA LossKeepsPromise ==
    ASSUME LoopTypeOK, TurnInv, DecideFails
    PROVE  \E u \in Messages : Promised!Lost(u)
<1>1. AboutAMessage /\ diag \in Leavings
  BY DEF TurnInv, DecideFails, Tools
<1>2. settled' = diag /\ presented' = turn.update.presenting /\ UNCHANGED last
  BY DEF DecideFails
<1>. QED BY <1>1, <1>2 DEF Promised!Lost, AboutAMessage, Leavings

\* What the loop does inside a turn cannot be told from what the pilot hears: whatever the
\* model chooses, whatever is cached and wherever the cap cuts in, every turn is the
\* engine's answer to the message in one step, or the loss of it.
THEOREM LoopKeepsPromise == LoopSafety => ConversesAsPromised
<1>1. LoopInit => Promised!Begun
  BY DEF LoopInit, Init, Promised!Begun
<1>2. LoopTypeOK /\ TurnInv /\ [LoopNext]_loopVars
         => [Promised!Converse]_<<settled, last, presented>>
  <2>. SUFFICES ASSUME LoopTypeOK, TurnInv, [LoopNext]_loopVars
                PROVE  Promised!Converse \/ UNCHANGED <<settled, last, presented>>
    OBVIOUS
  <2>1. CASE PhraseNode
    BY <2>1, PhraseKeepsPromise DEF Promised!Converse
  <2>2. CASE DecideFails
    BY <2>2, LossKeepsPromise DEF Promised!Converse
  <2>3. CASE Message
    BY <2>3 DEF Message, ParseUpdate, ParseUnresolved, ParseDetail
  <2>4. CASE UpdateStateNode \/ ReassessNode \/ TerminalNode \/ ExecuteTool
    BY <2>4 DEF UpdateStateNode, ReassessNode, TerminalNode, ExecuteTool
  <2>5. CASE DecideNone \/ (\E t \in Choices \cap Registry : DecideTool(t))
    BY <2>5 DEF DecideNone, DecideTool
  <2>6. ASSUME NEW here, NEW onward, Reflex(here, onward) PROVE UNCHANGED <<settled, last, presented>>
    BY <2>6 DEF Reflex
  <2>7. CASE UNCHANGED loopVars
    BY <2>7 DEF loopVars
  <2>. QED BY <2>1, <2>2, <2>3, <2>4, <2>5, <2>6, <2>7 DEF LoopNext, Node
<1>. QED BY <1>1, <1>2, TurnHolds, PTL DEF LoopSafety, ConversesAsPromised, Promised!Conversing
=============================================================================
