-------------------------------- MODULE Retry --------------------------------
(***************************************************************************)
(* The message that got no answer: the provider fails after the message was *)
(* merged, POST /diagnose returns 503 (api/server.py), and the pilot says   *)
(* the same thing again.                                                    *)
(***************************************************************************)
EXTENDS Conversation

VARIABLE unanswered  \* the message without an answer, and the kind of answer it was due

Promised == INSTANCE Promise WITH Opening <- NewState, Unsaid <- NoTerminal

retryVars == <<diag, last, presented, unanswered>>

Nothing == [message |-> NoNews, due |-> None]

\* The same words are parsed against the fault they have already established.
Resent(u) == IF SameFamily(u.fault, diag.fault) THEN [u EXCEPT !.fault = None] ELSE u

RetryInit == Init /\ unanswered = Nothing

Answers(u) == unanswered = Nothing /\ Turn(u) /\ UNCHANGED unanswered

Fails(u) ==
    /\ unanswered = Nothing
    /\ Promised!Lost(u)
    /\ unanswered' = [message |-> u,
                      due |-> Reassess(ResolveCombination(UpdateState(diag, u))).terminal.kind]

Resend ==
    /\ unanswered # Nothing
    /\ Turn(Resent(unanswered.message))
    /\ unanswered' = Nothing

RetryNext == Resend \/ \E u \in Messages : Answers(u) \/ Fails(u)

RetrySpec == RetryInit /\ [][RetryNext]_retryVars

\* "The reset and the presentation are the SAME occurrence; must confirm, not refuse"
\* (tests/test_recurrence.py): saying it twice is not a second occurrence.
RetryIsAnsweredTheSame == [][ Resend => last'.kind = unanswered.due ]_retryVars
=============================================================================
