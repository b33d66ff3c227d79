------------------------------- MODULE Promise -------------------------------
(***************************************************************************)
(* What the copilot promises: a message is answered in one step, by one of   *)
(* the outcomes the engine has for it, or it is lost with nothing said and   *)
(* its merge kept; one that is not understood changes nothing but the words. *)
(***************************************************************************)
CONSTANTS Messages, Opening, Unsaid, Unanswerable,
          About(_, _),         \* About(u, d): message u may be handed over in state d
          Merged(_, _),        \* Merged(d, u): what d may become before u is answered
          Outcome(_, _, _, _)  \* Outcome(o, d, t, u): o is an answer to u when t was last told

VARIABLES diag, last, presented

Answered(u) ==
    /\ About(u, diag)
    /\ presented' = u.presenting
    /\ Outcome([diag |-> diag', terminal |-> last'], diag, last, u)

\* The provider failed after the message was merged: no answer, the merge stays.
Lost(u) ==
    /\ About(u, diag)
    /\ presented' = u.presenting /\ UNCHANGED last
    /\ diag' \in Merged(diag, u)

\* No fault could be made out, or the last answer is only rendered again.
Unresolved ==
    /\ last' \in Unanswerable \cup {last}
    /\ presented' = FALSE
    /\ UNCHANGED diag

Converse == Unresolved \/ \E u \in Messages : Answered(u) \/ Lost(u)

Begun == diag = Opening /\ last = Unsaid /\ presented = FALSE

Conversing == Begun /\ [][Converse]_<<diag, last, presented>>
=============================================================================
