-------------------------------- MODULE Service -------------------------------
(***************************************************************************)
(* The HTTP service (api/server.py) over the session store                  *)
(* (agent/session.py) and the session bar of locos (engine/state.py).       *)
(* Requests run in threads of their own; the store's one lock is held while *)
(* a session is looked up, forgotten, or answering a turn -- and not while  *)
(* its bar is set, swapped or read.                                         *)
(***************************************************************************)
EXTENDS Naturals, Sequences, FiniteSets

CONSTANTS SessionIds,
          Numbers,    \* the loco numbers pilots enter
          Requests,   \* request -> what it asks; each is sent at most once
          Threads     \* how many the server works on at a time

VARIABLES store,      \* session id -> position of its session in heap, 0 if there is none
          heap,       \* every Session object made
          lock,       \* the request that holds the store's lock
          req,        \* request -> how far it is
          late,       \* the requests whose session was forgotten after they were sent
          overlapped  \* the sessions whose bar two requests were changing at the same time

serviceVars == <<store, heap, lock, req, late, overlapped>>

Nobody  == "nobody"
Unknown == "unknown"
Config  == {Unknown, "siv", "arno"}
NoBar   == [locos |-> <<>>, active |-> 0]

\* LocoInfo: one row of the bar, known by its number.
Loco(n, c) == [number |-> n, config |-> c]
LocoInfo   == [number : Numbers \cup {""}, config : Config]

\* A request: what it asks, of which session, and for a turn or the bar what it brings.
Request(k, s) == [kind |-> k, session |-> s, bar |-> NoBar, says |-> Unknown]

ASSUME RequestsAssumption ==
    /\ Nobody \notin DOMAIN Requests
    /\ \A r \in DOMAIN Requests :
        /\ Requests[r] \in [kind : {"turn", "locos", "swap", "read", "forget"}, session : SessionIds,
                            bar : [locos : Seq(LocoInfo), active : 0..1], says : Config]
        /\ Requests[r].bar # NoBar => Requests[r].kind \in {"turn", "locos"} /\ Len(Requests[r].bar.locos) \in 1..2
        /\ Requests[r].says # Unknown => Requests[r].kind = "turn"
        /\ Requests[r].kind = "locos" => Requests[r].bar # NoBar

NewSession == [locos |-> << Loco("", Unknown) >>, active |-> 0, config |-> Unknown,
               lastAssistant |-> Nobody, transcript |-> <<>>]

NewRequest == [at |-> "unsent", sess |-> 0, absent |-> FALSE, applied |-> FALSE, heard |-> Nobody,
               before |-> Nobody, outcome |-> Nobody]

\* locos[active_loco], when there is one: otherwise Python raises.
HasActive(o) == o.active < Len(o.locos)
Active(o)    == o.locos[o.active + 1]

Sess(r)    == heap[req[r].sess]
In(r, at)  == req[r].at = at
Go(r, at)  == req' = [req EXCEPT ![r].at = at]
Done(r, outcome) == req' = [req EXCEPT ![r].at = "done", ![r].outcome = outcome]
Set(r, o)  == heap' = [heap EXCEPT ![req[r].sess] = o]

InFlight == {r \in DOMAIN Requests : req[r].at \notin {"unsent", "done"}}

\* The requests that change the bar, or a loco of it.
ChangesBar(r) == Requests[r].kind = "swap" \/ Requests[r].bar # NoBar \/ Requests[r].says # Unknown
Changing(s)   == {r \in InFlight : Requests[r].session = s /\ ChangesBar(r)}

-----------------------------------------------------------------------------
ServiceInit ==
    /\ store = [s \in SessionIds |-> 0]
    /\ heap = <<>>
    /\ lock = Nobody
    /\ req = [r \in DOMAIN Requests |-> NewRequest]
    /\ late = {} /\ overlapped = {}

Send(r) ==
    /\ In(r, "unsent") /\ Cardinality(InFlight) < Threads
    /\ Go(r, IF Requests[r].kind = "forget" THEN "forget" ELSE "find")
    /\ overlapped' = overlapped \cup {s \in {Requests[r].session} : ChangesBar(r) /\ Changing(s) # {}}
    /\ UNCHANGED <<store, heap, lock, late>>

-----------------------------------------------------------------------------
(* get_or_create and reset, under the lock.                                 *)

Find(r) ==
    /\ In(r, "find") /\ lock = Nobody
    /\ lock' = r
    /\ req' = [req EXCEPT ![r].at = "settle", ![r].absent = (store[Requests[r].session] = 0)]
    /\ UNCHANGED <<store, heap, late, overlapped>>

\* Mutant: a session that exists keeps the bar it has.
BringsBarToNew(r) == Requests[r].bar # NoBar /\ ~req[r].applied /\ req[r].absent

BringsBar(r) == Requests[r].bar # NoBar /\ ~req[r].applied

\* Where a request goes once it has its session.
Onward(r) ==
    IF BringsBar(r) THEN "rows"
    ELSE IF Requests[r].kind = "turn" THEN "enter"
    ELSE IF Requests[r].kind = "swap" THEN "count" ELSE "read"

Settle(r) ==
    /\ In(r, "settle")
    /\ IF req[r].absent
       THEN /\ heap' = Append(heap, NewSession)
            /\ store' = [store EXCEPT ![Requests[r].session] = Len(heap')]
       ELSE UNCHANGED <<heap, store>>
    /\ req' = [req EXCEPT ![r].at = Onward(r), ![r].sess = store'[Requests[r].session]]
    /\ lock' = Nobody
    /\ UNCHANGED <<late, overlapped>>

ForgetSession(r) ==
    /\ In(r, "forget") /\ lock = Nobody
    /\ store' = [store EXCEPT ![Requests[r].session] = 0]
    /\ late' = late \cup {q \in InFlight : Requests[q].session = Requests[r].session}
    /\ Done(r, "ok")
    /\ UNCHANGED <<heap, lock, overlapped>>

-----------------------------------------------------------------------------
(* set_locos and swap_locos, statement by statement and without the lock.   *)

Rows(r) ==
    /\ In(r, "rows") /\ Go(r, "attribute")
    /\ Set(r, [Sess(r) EXCEPT !.locos = Requests[r].bar.locos])
    /\ UNCHANGED <<store, lock, late, overlapped>>

\* Mutant: a second row is taken for granted.
AttributeUnclamped(r) ==
    /\ In(r, "attribute") /\ Go(r, "mirror")
    /\ Set(r, [Sess(r) EXCEPT !.active = Requests[r].bar.active])
    /\ UNCHANGED <<store, lock, late, overlapped>>

Attribute(r) ==
    LET last == Len(Requests[r].bar.locos) - 1 IN
    /\ In(r, "attribute") /\ Go(r, "mirror")
    /\ Set(r, [Sess(r) EXCEPT !.active = IF Requests[r].bar.active < last THEN Requests[r].bar.active ELSE last])
    /\ UNCHANGED <<store, lock, late, overlapped>>

\* config mirrors the active loco's; a turn then goes on to look its session up again.
Mirror(r) ==
    /\ In(r, "mirror")
    /\ IF HasActive(Sess(r))
       THEN /\ Set(r, [Sess(r) EXCEPT !.config = Active(Sess(r)).config])
            /\ IF Requests[r].kind = "turn"
               THEN req' = [req EXCEPT ![r].at = "find", ![r].applied = TRUE]
               ELSE Done(r, "ok")
       ELSE Done(r, "failed") /\ UNCHANGED heap
    /\ UNCHANGED <<store, lock, late, overlapped>>

Count(r) ==
    /\ In(r, "count")
    /\ IF Len(Sess(r).locos) = 2
       THEN req' = [req EXCEPT ![r].at = "reverse",
                               ![r].before = IF HasActive(Sess(r)) THEN Active(Sess(r)).number ELSE Nobody]
       ELSE Done(r, "conflict")
    /\ UNCHANGED <<store, heap, lock, late, overlapped>>

Reverse(r) ==
    /\ In(r, "reverse")
    /\ IF Len(Sess(r).locos) = 2
       THEN /\ Set(r, [Sess(r) EXCEPT !.locos = << @[2], @[1] >>])
            /\ Go(r, "flip")
       ELSE Done(r, "ok") /\ UNCHANGED heap
    /\ UNCHANGED <<store, lock, late, overlapped>>

\* Mutant: the attribution stays with the place, not with the loco.
FlipNothing(r) ==
    /\ In(r, "flip") /\ Go(r, "mirror")
    /\ UNCHANGED <<store, heap, lock, late, overlapped>>

Flip(r) ==
    /\ In(r, "flip") /\ Go(r, "mirror")
    /\ Set(r, [Sess(r) EXCEPT !.active = 1 - @])
    /\ UNCHANGED <<store, lock, late, overlapped>>

\* The view judges the state too, and raises like a turn if locos[active_loco] is missing.
Read(r) ==
    /\ In(r, "read")
    /\ Done(r, "ok") \/ (~HasActive(Sess(r)) /\ Done(r, "failed"))
    /\ UNCHANGED <<store, heap, lock, late, overlapped>>

-----------------------------------------------------------------------------
(* diagnose: one turn at a time, its engine state merged as it goes.        *)

Enter(r) ==
    /\ In(r, "enter") /\ lock = Nobody
    /\ lock' = r
    /\ req' = [req EXCEPT ![r].at = "parse", ![r].heard = Sess(r).lastAssistant]
    /\ UNCHANGED <<store, heap, late, overlapped>>

\* Mutant: the pilot's last answer is replaced before there is a new one.
MergeAnswersFirst(r) ==
    /\ In(r, "parse") /\ Go(r, "judge")
    /\ Set(r, [Sess(r) EXCEPT !.lastAssistant = r])
    /\ UNCHANGED <<store, lock, late, overlapped>>

\* The message is parsed; a config stated in it is merged, then mirrored in its loco.
Merge(r) ==
    /\ In(r, "parse")
    /\ IF Requests[r].says = Unknown
       THEN Go(r, "judge") /\ UNCHANGED heap
       ELSE Go(r, "merge_loco") /\ Set(r, [Sess(r) EXCEPT !.config = Requests[r].says])
    /\ UNCHANGED <<store, lock, late, overlapped>>

MergeLoco(r) ==
    /\ In(r, "merge_loco") /\ HasActive(Sess(r))
    /\ Go(r, "judge")
    /\ Set(r, [Sess(r) EXCEPT !.locos[Sess(r).active + 1].config = Requests[r].says])
    /\ UNCHANGED <<store, lock, late, overlapped>>

\* The engine judges the state, and the answer becomes what the next turn follows.
Judge(r) ==
    /\ In(r, "judge") /\ Go(r, "append")
    /\ Set(r, [Sess(r) EXCEPT !.lastAssistant = r])
    /\ UNCHANGED <<store, lock, late, overlapped>>

AppendTranscript(r) ==
    /\ In(r, "append") /\ Done(r, "ok")
    /\ Set(r, [Sess(r) EXCEPT !.transcript = Append(@, [turn |-> r, heard |-> req[r].heard])])
    /\ lock' = Nobody
    /\ UNCHANGED <<store, late, overlapped>>

\* Mutant: the lock is released only by a turn that succeeds.
OutageKeepsTheLock(r) ==
    /\ \/ In(r, "parse") \/ In(r, "judge")
       \/ In(r, "merge_loco") /\ ~HasActive(Sess(r))
    /\ Done(r, "failed")
    /\ UNCHANGED <<store, heap, lock, late, overlapped>>

\* A provider fails, or locos[active_loco] does not exist: 503, what was merged stays.
Outage(r) ==
    /\ \/ In(r, "parse") \/ In(r, "judge")
       \/ In(r, "merge_loco") /\ ~HasActive(Sess(r))
    /\ Done(r, "failed") /\ lock' = Nobody
    /\ UNCHANGED <<store, heap, late, overlapped>>

-----------------------------------------------------------------------------
Step(r) ==
    \/ Find(r) \/ Settle(r) \/ ForgetSession(r)
    \/ Rows(r) \/ Attribute(r) \/ Mirror(r)
    \/ Count(r) \/ Reverse(r) \/ Flip(r) \/ Read(r)
    \/ Enter(r) \/ Merge(r) \/ MergeLoco(r) \/ Judge(r) \/ AppendTranscript(r) \/ Outage(r)

ServiceNext == \E r \in DOMAIN Requests : Send(r) \/ Step(r)

\* Every thread keeps running.  Weak fairness is enough for the lock too, which Python
\* does not hand out in order: a request takes it at most three times.
ServiceSpec ==
    /\ ServiceInit /\ [][ServiceNext]_serviceVars
    /\ \A r \in DOMAIN Requests : WF_serviceVars(Step(r))

-----------------------------------------------------------------------------
\* However requests interleave, the conversations are those of Sessions: the turns of a
\* session are answered one after another, each in the light of the one before it, and
\* an answered turn is in the transcript unless its session was forgotten meanwhile
\* ("one turn at a time per store", session.py).
Turns == {r \in DOMAIN Requests : Requests[r].kind = "turn"}
Conversations ==
    INSTANCE Sessions WITH
        SessionOf <- [r \in DOMAIN Requests |-> Requests[r].session],
        log       <- [s \in SessionIds |-> IF store[s] = 0 THEN <<>> ELSE heap[store[s]].transcript],
        waiting   <- Turns \cap InFlight,
        late      <- late \cap Turns \cap InFlight,
        answered  <- {r \in Turns : req[r].outcome = "ok"}
TurnsAreOneConversation == Conversations!SessionsSpec

\* Every request gets its answer, a failing provider or a forgotten session
\* notwithstanding: the lock is always given back.
EveryRequestAnswered == \A r \in DOMAIN Requests : In(r, "find") \/ In(r, "forget") ~> In(r, "done")

\* With no change of the bar under way, and if no two ever ran side by side, the fault is
\* attributed to a loco of the bar and config is that loco's (state.py: "config (which
\* mirrors the active loco's config)"): no swap, apply, statement in free text, failed or
\* forgotten turn in any order leaves the two apart.
BarSettles ==
    \A s \in SessionIds :
        (store[s] # 0 /\ s \notin overlapped /\ Changing(s) = {})
        => HasActive(heap[store[s]]) /\ Active(heap[store[s]]).config = heap[store[s]].config

\* "The attributed loco follows its row" (server.py, swap_locos): what the pilot put the
\* fault on before the swap it is on after it, turns and failures running beside it.
SwapKeepsAttribution ==
    [][ \A r \in DOMAIN Requests :
          (Requests[r].kind = "swap" /\ In(r, "mirror") /\ req'[r].outcome = "ok"
              /\ Requests[r].session \notin overlapped)
          => Active(heap'[req[r].sess]).number = req[r].before ]_serviceVars

\* A turn that brings the bar with it is judged with that bar, although it is set before
\* the turn waits for the lock ("set the bar with the turn", server.py), unless another
\* change of the bar overlapped it or the session was forgotten in between.
TurnJudgedOnItsBar ==
    [][ \A r \in Turns :
          (In(r, "judge") /\ req'[r].at = "append" /\ Requests[r].bar # NoBar
              /\ Requests[r].session \notin overlapped /\ r \notin late)
          => /\ Len(Sess(r).locos) = Len(Requests[r].bar.locos)
             /\ \A n \in DOMAIN Sess(r).locos : Sess(r).locos[n].number = Requests[r].bar.locos[n].number ]_serviceVars
=============================================================================
