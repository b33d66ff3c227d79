------------------------------ MODULE Copilot ------------------------------
(***************************************************************************)
(* The agentic loop (agent/graph.py): the nodes of one turn, run one after  *)
(* another under the store's lock.  What the parser makes of a message and  *)
(* which tool the model picks are nondeterministic; either provider may     *)
(* fail, which ends the turn with an error and no answer.                   *)
(***************************************************************************)
EXTENDS Conversation

CONSTANTS MaxIter,         \* MAX_ITER
          RecursionLimit,  \* graph.invoke's recursion_limit, 8 * (MaxIter + 2)
          Choices          \* what agent_decide's model may name

ASSUME LoopAssumption == MaxIter \in Nat /\ RecursionLimit = 8 * (MaxIter + 2)

VARIABLES pc,        \* the node that runs next; "idle" between turns
          settled,   \* diag as the last turn left it
          cache,     \* tool -> the snapshot its result was computed for
          clarifyAsked,
          turn       \* this turn's GraphState

loopVars == <<diag, last, presented, pc, settled, cache, clarifyAsked, turn>>

Registry == {"diff_completed_steps", "lookup_procedure", "check_combination",
             "get_required_observations", "resolve_config", "read_siv_screen"}

\* DiagnosisState.snapshot leaves the rb axis and the declined steps out.
Snapshot(d) == [fault |-> d.fault, confirmed |-> d.confirmed, loco |-> [a \in Axes \ {"loco_rb"} |-> d.loco[a]],
                claimed |-> d.claimed, facts |-> d.facts, relays |-> d.relays, intent |-> d.intent,
                stuckAt |-> d.stuckAt]

NoSnapshot == [fault |-> None]
Fresh(t) == cache[t] = Snapshot(diag)

NewTurn == [update |-> NoNews, news |-> TRUE, overview |-> FALSE, terminal |-> NoTerminal, tool |-> None,
            before |-> NoSnapshot, cached |-> FALSE, iter |-> 0, steps |-> 0, stop |-> None]

\* The node that runs hands over to node m, leaving g as the turn's state.
Goto(m, g) == pc' = m /\ turn' = [g EXCEPT !.steps = IF @ < RecursionLimit THEN @ + 1 ELSE @]

LoopInit ==
    /\ Init
    /\ pc = "idle" /\ settled = NewState /\ turn = NewTurn /\ clarifyAsked = 0
    /\ cache = [t \in Registry |-> NoSnapshot]

-----------------------------------------------------------------------------
(* parse: a message is understood, is not, or asks for the last check's list. *)

ParseUpdate(u, overview) ==
    /\ pc = "idle"
    /\ HandedOver(u)
    /\ Goto("update_state",
            [NewTurn EXCEPT !.update = u, !.news = BringsNews(u, diag), !.overview = overview])
    /\ clarifyAsked' = 0
    /\ UNCHANGED <<diag, last, presented, settled, cache>>

ParseUnresolved(outside) ==
    /\ pc = "idle"
    /\ Goto("phrase",
            [NewTurn EXCEPT !.terminal = CHOOSE t \in Unanswerable :
                                t.kind = IF outside \/ clarifyAsked >= 1 THEN "defer_to_TLC" ELSE "clarify"])
    /\ clarifyAsked' = IF outside \/ clarifyAsked >= 1 THEN clarifyAsked ELSE clarifyAsked + 1
    /\ UNCHANGED <<diag, last, presented, settled, cache>>

ParseDetail ==
    /\ pc = "idle" /\ last.kind = "ask_step"
    /\ Goto("phrase", [NewTurn EXCEPT !.terminal = last, !.stop = "detail"])
    /\ clarifyAsked' = 0
    /\ UNCHANGED <<diag, last, presented, settled, cache>>

\* Mutant: the merge leaves the reroute to the tools.
UpdateStateNodeUnresolved ==
    /\ pc = "update_state" /\ Goto("reflex", turn)
    /\ diag' = UpdateState(diag, turn.update)
    /\ UNCHANGED <<last, presented, settled, cache, clarifyAsked>>

UpdateStateNode ==
    /\ pc = "update_state" /\ Goto("reflex", turn)
    /\ diag' = ResolveCombination(UpdateState(diag, turn.update))
    /\ UNCHANGED <<last, presented, settled, cache, clarifyAsked>>

\* The reflex, after the update ("reflex") and after every tool ("reflex_after_tool").
Reflex(here, onward) ==
    LET r == Reassess(diag) IN
    /\ pc = here
    /\ IF EvaluateGates(diag).outcome # "NO_FIRE"
       THEN Goto("phrase", [turn EXCEPT !.terminal = r.terminal, !.stop = "gate"]) /\ diag' = r.diag
       ELSE Goto(onward, turn) /\ UNCHANGED diag
    /\ UNCHANGED <<last, presented, settled, cache, clarifyAsked>>

\* Mutant: one tool more than MaxIter.
ConsultsOnceMore == diag.fault # None /\ ~NeedsConfirm(diag) /\ turn.iter <= MaxIter

\* The model is consulted only about a matched and confirmed fault, MaxIter times.
Consults == diag.fault # None /\ ~NeedsConfirm(diag) /\ turn.iter < MaxIter

DecideNone ==
    /\ pc = "agent_decide"
    /\ ~Consults \/ \E c \in Choices : c \notin Registry
    /\ Goto("terminal", turn)
    /\ UNCHANGED <<diag, last, presented, settled, cache, clarifyAsked>>

DecideTool(t) ==
    /\ pc = "agent_decide" /\ Consults
    /\ Goto("execute_tool", [turn EXCEPT !.tool = t, !.before = Snapshot(diag)])
    /\ UNCHANGED <<diag, last, presented, settled, cache, clarifyAsked>>

ExecuteTool ==
    /\ pc = "execute_tool"
    /\ Goto("reflex_after_tool",
            [turn EXCEPT !.iter = @ + 1, !.cached = Fresh(turn.tool)])
    /\ IF Fresh(turn.tool) THEN UNCHANGED <<diag, cache>>
       ELSE /\ diag' = IF turn.tool = "diff_completed_steps" THEN [diag EXCEPT !.stuckAt = NextUnmet(diag)] ELSE diag
            /\ cache' = [cache EXCEPT ![turn.tool] = Snapshot(diag')]
    /\ UNCHANGED <<last, presented, settled, clarifyAsked>>

-----------------------------------------------------------------------------
(* reassess: what to do after a tool, in the node's order.                   *)

NoProgress == turn.cached /\ turn.before = Snapshot(diag)

\* check_combination's result for the current state, if it has been asked for.
Combination ==
    IF Fresh("check_combination") THEN Combined(diag) ELSE diag.fault

RelaysPending == diag.relays # {} /\ ~Fresh("check_combination") /\ Matched.combos # <<>>

Conclude(why) ==
    LET r == Reassess(diag) IN
    /\ Goto("terminal", [turn EXCEPT !.terminal = r.terminal, !.stop = why])
    /\ diag' = r.diag

\* Mutant: a reroute is taken without the reflex.
RerouteUnguarded == Goto("agent_decide", turn) /\ diag' = [diag EXCEPT !.fault = Combination]

Reroute == Goto("reflex_after_tool", turn) /\ diag' = [diag EXCEPT !.fault = Combination]

ReassessNode ==
    /\ pc = "reassess"
    /\ CASE NoProgress -> Conclude("no_progress")
         [] ~NoProgress /\ Combination # diag.fault /\ Combination \in DOMAIN KB -> Reroute
         [] ~NoProgress /\ Combination # diag.fault /\ Combination \notin DOMAIN KB ->
                /\ Goto("terminal", [turn EXCEPT !.stop = "reroute",
                                           !.terminal = DifferentProcedure(diag)])
                /\ UNCHANGED diag
         [] ~NoProgress /\ Combination = diag.fault /\ Fresh("diff_completed_steps") /\ ~RelaysPending ->
                Conclude("reassess")
         [] OTHER -> Goto("agent_decide", turn) /\ UNCHANGED diag
    /\ UNCHANGED <<last, presented, settled, cache, clarifyAsked>>

\* Mutants: a loop without an answer refers to TLC; it consults the model again.
TerminalNodeRefers ==
    /\ pc = "terminal"
    /\ Goto("phrase", [turn EXCEPT !.terminal = IF @ = NoTerminal THEN DifferentProcedure(diag) ELSE @])
    /\ UNCHANGED <<diag, last, presented, settled, cache, clarifyAsked>>
TerminalNodeRetries ==
    /\ pc = "terminal"
    /\ Goto(IF turn.terminal = NoTerminal THEN "agent_decide" ELSE "phrase", turn)
    /\ UNCHANGED <<diag, last, presented, settled, cache, clarifyAsked>>

\* A guard sent the loop here without a terminal: the engine's own is taken.
TerminalNode ==
    LET r == Reassess(diag) IN
    /\ pc = "terminal"
    /\ IF turn.terminal # NoTerminal THEN Goto("phrase", turn) /\ UNCHANGED diag
       ELSE Goto("phrase", [turn EXCEPT !.terminal = r.terminal]) /\ diag' = r.diag
    /\ UNCHANGED <<last, presented, settled, cache, clarifyAsked>>

\* phrase never fails: on a provider error the KB's own words are rendered.
PhraseNode ==
    LET s == Deliver(diag, turn.terminal, last, turn.news \/ turn.overview) IN
    /\ pc = "phrase" /\ pc' = "idle" /\ turn' = NewTurn
    /\ diag' = s.diag /\ last' = s.terminal /\ settled' = s.diag
    /\ presented' = turn.update.presenting
    /\ UNCHANGED <<cache, clarifyAsked>>

\* The decide model's provider fails: the request ends with 503, diag as it is.
DecideFails ==
    /\ pc = "agent_decide" /\ Consults
    /\ pc' = "idle" /\ turn' = NewTurn /\ settled' = diag
    /\ presented' = turn.update.presenting
    /\ UNCHANGED <<diag, last, cache, clarifyAsked>>

-----------------------------------------------------------------------------
Message ==
    \/ \E u \in Messages, overview \in BOOLEAN : ParseUpdate(u, overview)
    \/ \E outside \in BOOLEAN : ParseUnresolved(outside)
    \/ ParseDetail

Node ==
    \/ UpdateStateNode
    \/ Reflex("reflex", "agent_decide") \/ Reflex("reflex_after_tool", "reassess")
    \/ DecideNone \/ \E t \in Choices \cap Registry : DecideTool(t)
    \/ DecideFails
    \/ ExecuteTool \/ ReassessNode \/ TerminalNode \/ PhraseNode

LoopNext == Message \/ Node
LoopSafety == LoopInit /\ [][LoopNext]_loopVars

\* A turn runs to its end inside one call of graph.invoke, under the store's lock.
\* This is WF_loopVars(Node) with its ENABLED written out: a node can run, and moves pc,
\* exactly while pc is not "idle".
LoopSpec == LoopSafety /\ ([]<>(pc = "idle") \/ []<><<Node>>_loopVars)

-----------------------------------------------------------------------------
Nodes == {"idle", "update_state", "reflex", "agent_decide", "execute_tool", "reflex_after_tool", "reassess",
          "terminal", "phrase"}

Snapshots ==
    [fault : DOMAIN KB \cup {None}, confirmed : BOOLEAN, loco : [Axes \ {"loco_rb"} -> Values],
     claimed : SUBSET AllSteps, facts : [Keys -> Values], relays : SUBSET Relays, intent : Intents,
     stuckAt : AllSteps \cup {None}] \cup {NoSnapshot}

Referrals == {DifferentProcedure([fault |-> x]) : x \in DOMAIN KB}
Terminals == Told \cup {NoTerminal} \cup Unanswerable \cup Referrals

Turns == [update : Messages \cup {NoNews}, news : BOOLEAN, overview : BOOLEAN, terminal : Terminals,
          tool : Registry \cup {None}, before : Snapshots, cached : BOOLEAN, iter : Nat, steps : Nat,
          stop : {None, "gate", "detail", "no_progress", "reroute", "reassess"}]

\* Types: in particular what the loop declines for the pilot, having asked a check
\* twice, is a step of some checklist.
LoopTypeOK ==
    /\ diag \in State /\ settled \in State
    /\ last \in Terminals /\ presented \in BOOLEAN
    /\ pc \in Nodes /\ turn \in Turns
    /\ cache \in [Registry -> Snapshots]
    /\ clarifyAsked \in 0..1

\* Every turn ends, whatever the model asks for: the cap on tool calls, the cache
\* and the no-progress check leave it no way to loop (graph.py, section 6).
TurnEnds == pc # "idle" ~> pc = "idle"

\* The graph never runs into the framework's own step limit, which would raise
\* instead of answering; and the model is never granted more than MaxIter tools.
WithinLimits == turn.steps < RecursionLimit /\ turn.iter <= MaxIter

\* What is said is the engine's own answer to the state as it then is, however the
\* loop came to its end (graph.py: "every guard degrades to the ENGINE's
\* deterministic terminal").
SaysTheEnginesAnswer ==
    pc = "phrase" /\ turn.terminal \notin Unanswerable /\ turn.stop \notin {"detail", "reroute"}
        => Reassess(diag) = Answer(diag, turn.terminal)

\* From the reflex on to the next change of state no gate of the fault as it then is
\* fires, whichever way the state changed; and no tool runs about a gated fault that is
\* only a guess (sections 5.1 and 5.5: "every state update is guarded").
ReflexComesFirst ==
    /\ pc \in {"agent_decide", "execute_tool", "reassess", "terminal"} => EvaluateGates(diag).outcome = "NO_FIRE"
    /\ pc = "execute_tool" => ~NeedsConfirm(diag)

\* The loop hidden, every turn is the engine's one-step answer to the message or
\* the loss of it: no choice of tool, cached result or cap changes what is said.
Promised == INSTANCE Promise WITH diag <- settled, Opening <- NewState, Unsaid <- NoTerminal
ConversesAsPromised == Promised!Conversing

-----------------------------------------------------------------------------
(* What the documents say and the code does not keep.                       *)

\* "If identity waited on a discretionary tool, a gate could fire (and short-circuit
\* the loop) under the WRONG procedure" (state.py, resolve_combination): no gate
\* speaks while a relay the pilot reported calls for another procedure of the KB.
ReflexJudgesTheRightProcedure ==
    pc = "phrase" /\ turn.terminal.gate # None => Combined(diag) \notin DOMAIN KB \ {diag.fault}
=============================================================================
