------------------------------ MODULE Guidance ------------------------------
(***************************************************************************)
(* A conversation with a pilot who does what the copilot says: opens one    *)
(* fault, perhaps with an intention, and then answers each terminal.  What  *)
(* the pilot finds on the loco is arbitrary; that the question is answered  *)
(* is all that is assumed of them.                                          *)
(***************************************************************************)
EXTENDS Diagnosis

VARIABLE message  \* what the pilot has said and has no answer to yet, or NoNews

Says(k, v)  == [NoNews EXCEPT !.facts[k] = v]
Stated      == Values \ {Unstated}

\* Facts a fault file branches, reroutes or defers on, or asks for.
Observations(f) ==
    UNION {   {f.steps[i].abnormality} \cup Conditions(f.steps[i]) \cup ({f.steps[i].elicits} \ {None})
            : i \in Indices(f)}
    \cup {f.routes[n].fact : n \in DOMAIN f.routes} \cup {f.defers[n].fact : n \in DOMAIN f.defers}

Actions(f) == {f.steps[i].gate.action : i \in GatedIndices(f)} \cup {None}

Opening(x) == {[NoNews EXCEPT !.fault = x, !.confirmed = sure, !.presenting = (sure = "yes"), !.intent = act] :
                  sure \in {"yes", "no"}, act \in Actions(KB[x])}

\* The step the last terminal was about.
AskedIndex == CHOOSE i \in Indices(Matched) : Matched.steps[i].id = last.step

\* The step reported done, or what it is there to observe; either way perhaps with one
\* more thing noticed on the way.
StepReplies(i) ==
    LET s == Matched.steps[i]
        noticed == {NoNews} \cup {Says(k, v) : k \in (Observations(Matched) \ Axes), v \in Stated}
    IN IF s.elicits # None THEN {Says(s.elicits, v) : v \in Stated}
       ELSE {[n EXCEPT !.claimed = {s.id}] : n \in noticed}

\* A gate's question, answered; what a caution is about, done or stated.
GateReplies(i) ==
    CASE last.kind = "caution" /\ i \in ResetIndices(Matched) ->
            {[n EXCEPT !.claimed = {last.step}] : n \in {NoNews} \cup {Says(FaultResolved, v) : v \in {"yes", "no"}}}
      [] last.text = "reset_earlier?" -> {Says(Matched.steps[i].gate.needs, v) : v \in {"yes", "no"}}
      [] OTHER -> {Says(p, v) : p \in Precondition(diag, Matched, i, Unstated), v \in {"yes", "no"}}

HistoryReplies(i) ==
    CASE last.text = "isolated?" -> {Says(Matched.steps[j].isolation, v) :
                                        j \in IsolationPending(diag, Matched), v \in {"yes", "no"}}
      [] last.text = "branch?" -> {Says(k, v) : k \in Conditions(Matched.steps[i]) \ Axes, v \in {"yes", "no"}}
      [] OTHER -> GateReplies(i)

Replies ==
    CASE last.kind = "ask_step"      -> StepReplies(AskedIndex)
      [] last.kind = "ask_history"   -> HistoryReplies(AskedIndex)
      [] last.kind = "caution"       -> GateReplies(AskedIndex)
      [] last.kind = "confirm_fault" -> {[NoNews EXCEPT !.confirmed = "yes"]}
      [] last.kind = "ask_config"    -> {[NoNews EXCEPT !.loco[a] = v] : a \in last.reasons, v \in Stated}
      [] OTHER -> {}

-----------------------------------------------------------------------------
GuidedInit == Init /\ message = NoNews

\* The pilot opens the conversation, or answers what they were last told.
Speak ==
    /\ message = NoNews
    /\ message' \in IF last = NoTerminal THEN UNION {Opening(x) : x \in DOMAIN KB} ELSE Replies
    /\ UNCHANGED vars

Respond == message # NoNews /\ Turn(message) /\ message' = NoNews

\* The copilot answers every message, and the pilot every question they are asked.
PilotIsDue == message = NoNews /\ (last = NoTerminal \/ Replies # {})
Cooperation == []<>(message = NoNews) /\ []<>(~PilotIsDue)

Guided == GuidedInit /\ [][Speak \/ Respond]_<<vars, message>> /\ Cooperation

-----------------------------------------------------------------------------
\* "Per-turn output is the minimum that moves them forward safely ...; never a re-ask
\* of settled ground" (BUILD_PLAN.md 2.2): a pilot who answers is led to an end, a
\* confirmation, a refusal or TLC, on every path through the procedure.
GuidanceEnds == <>(last.kind \in {"confirm", "refuse", "defer_to_TLC"})
=============================================================================
