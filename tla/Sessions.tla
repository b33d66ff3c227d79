------------------------------- MODULE Sessions -------------------------------
(***************************************************************************)
(* What the service promises about conversations: each session has one log  *)
(* of turns, a turn is answered at one instant, as the next entry of the    *)
(* log and in the light of the entry before it, and forgetting a session    *)
(* empties its log.  Only a turn whose session was forgotten meanwhile may  *)
(* be answered without leaving a trace.  How requests interleave is hidden. *)
(***************************************************************************)
EXTENDS Sequences, FiniteSets

CONSTANTS Turns, SessionIds, SessionOf

VARIABLES log,       \* session -> its turns, each with the turn whose answer it followed
          waiting,   \* the turns sent and without an outcome
          late,      \* those whose session was forgotten since they were sent
          answered   \* the turns the pilot has an answer to

sessionsVars == <<log, waiting, late, answered>>

Nobody == "nobody"

LastOf(entries) == IF entries = <<>> THEN Nobody ELSE entries[Len(entries)].turn

SessionsInit ==
    /\ log = [s \in SessionIds |-> <<>>]
    /\ waiting = {} /\ late = {} /\ answered = {}

Ask(t) ==
    /\ t \notin waiting \cup answered
    /\ waiting' = waiting \cup {t}
    /\ UNCHANGED <<log, late, answered>>

Served(t) == t \in waiting /\ waiting' = waiting \ {t} /\ late' = late \ {t}

Answer(t) ==
    /\ Served(t)
    /\ log' = [log EXCEPT ![SessionOf[t]] = Append(@, [turn |-> t, heard |-> LastOf(@)])]
    /\ answered' = answered \cup {t}

AnswerLate(t) == t \in late /\ Served(t) /\ answered' = answered \cup {t} /\ UNCHANGED log

\* The provider failed: the pilot is told so, and no answer is made up.
Fail(t) == Served(t) /\ UNCHANGED <<log, answered>>

Forget(s) ==
    /\ log' = [log EXCEPT ![s] = <<>>]
    /\ late' = late \cup {t \in waiting : SessionOf[t] = s}
    /\ UNCHANGED <<waiting, answered>>

SessionsNext ==
    \/ \E t \in Turns : Ask(t) \/ Answer(t) \/ AnswerLate(t) \/ Fail(t)
    \/ \E s \in SessionIds : Forget(s)

SessionsSpec == SessionsInit /\ [][SessionsNext]_sessionsVars
=============================================================================
