------------------------------ MODULE BarProofs -----------------------------
(***************************************************************************)
(* The session bar of locos is set, swapped and stated without the lock.    *)
(* However the requests of all sessions interleave: as long as no two       *)
(* changes of the same bar run side by side, it settles, the fault stays    *)
(* with its loco and a turn is judged on the bar it brought.                *)
(***************************************************************************)
EXTENDS ServiceProofs

\* Where a request is in the middle of a change of the bar, its session's config and the
\* attributed loco's apart; and where its next step may write the bar.
Amid    == {"attribute", "mirror", "flip", "merge_loco"}
Writing == {"rows", "reverse"} \cup Amid
Writes(r) == req[r].at \in Writing \/ (req[r].at = "parse" /\ Requests[r].says # Unknown)

Calm(r) == Requests[r].session \notin overlapped

Settled(o) == HasActive(o) /\ Active(o).config = o.config

SameBar(o, p) == p.locos = o.locos /\ p.active = o.active /\ p.config = o.config

\* Two bars with the same locos, row by row.
SameRows(l, m) == Len(l) = Len(m) /\ \A n \in DOMAIN l : l[n].number = m[n].number

\* A session object is a session's when its id leads there or a request found it there.
Owned(n, s)  == store[s] = n \/ \E r \in DOMAIN Requests : req[r].sess = n /\ Requests[r].session = s
AmidOn(n)    == \E r \in DOMAIN Requests : req[r].sess = n /\ req[r].at \in Amid

-----------------------------------------------------------------------------
(* The inductive invariant, on top of ServiceInv.                           *)

\* Where no two changes of a bar overlapped, at most one is under way.
OneChanges ==
    \A q, r \in InFlight :
        (ChangesBar(q) /\ ChangesBar(r) /\ Requests[q].session = Requests[r].session /\ Calm(r)) => q = r

\* The requests that work on one object are of one session, and a bar has a row or two.
OneOwner == \A q, r \in DOMAIN Requests :
                req[q].sess = req[r].sess /\ req[r].sess # 0 => Requests[q].session = Requests[r].session
RowsHold == \A n \in 1..Len(heap) : Len(heap[n].locos) \in 1..2

\* The places of a change, and of a turn that brings a bar.
ChangePlaces ==
    \A r \in DOMAIN Requests :
        /\ req[r].at \in {"count", "reverse", "flip"} => Requests[r].kind = "swap"
        /\ req[r].at = "mirror" => Requests[r].kind = "swap" \/ Requests[r].bar # NoBar
        /\ req[r].at = "merge_loco" => Requests[r].says # Unknown
        /\ req[r].at = "unsent" => ~req[r].applied
        /\ req[r].applied => Requests[r].kind = "turn" /\ Requests[r].bar # NoBar
        /\ req[r].at \in Turning /\ Requests[r].bar # NoBar => req[r].applied

\* How far the one change of a session's bar has got: what it has written, what it has
\* yet to write, and where the loco is that had the fault before a swap.
HowFar(r) ==
    /\ req[r].at = "attribute" => Sess(r).locos = Requests[r].bar.locos
    /\ req[r].at = "mirror" => /\ HasActive(Sess(r))
                               /\ Requests[r].bar # NoBar => Sess(r).locos = Requests[r].bar.locos
                               /\ Requests[r].kind = "swap" => Active(Sess(r)).number = req[r].before
    /\ req[r].at = "reverse" => Len(Sess(r).locos) = 2 /\ Active(Sess(r)).number = req[r].before
    /\ req[r].at = "flip" => Len(Sess(r).locos) = 2 /\ Sess(r).locos[2 - Sess(r).active].number = req[r].before
    /\ req[r].at = "merge_loco" => HasActive(Sess(r)) /\ Sess(r).config = Requests[r].says
Midway == \A r \in DOMAIN Requests : Calm(r) => HowFar(r)

\* Every other session has its config from the loco the fault is attributed to.
Apart == \A s \in SessionIds \ overlapped, n \in 1..Len(heap) : Owned(n, s) /\ ~AmidOn(n) => Settled(heap[n])

\* A turn that has set its bar still has that session, and that bar, when it comes back.
Kept(r) == req[r].applied /\ r \in InFlight /\ r \notin late
KeepsSession == \A r \in DOMAIN Requests : Kept(r) => req[r].sess # 0 /\ store[Requests[r].session] = req[r].sess
KeepsBar     == \A r \in DOMAIN Requests : Kept(r) /\ Calm(r) => SameRows(Sess(r).locos, Requests[r].bar.locos)

BarInv == OneChanges /\ OneOwner /\ RowsHold /\ ChangePlaces /\ Midway /\ Apart /\ KeepsSession /\ KeepsBar

-----------------------------------------------------------------------------
(* What a step does to a bar. *)

\* A request at a place of a change, or that brings or states something, is under way
\* and changes the bar.
LEMMA WriterChanges ==
    ASSUME ChangePlaces, RightPlace, NEW r \in DOMAIN Requests,
           Writes(r) \/ req[r].at \in {"count", "reverse", "flip"}
    PROVE  ChangesBar(r) /\ r \in InFlight
BY DEF ChangePlaces, RightPlace, Writes, Writing, Amid, ChangesBar, InFlight

\* The session a writing request works on, written or not.
LEMMA WriterHasSession ==
    ASSUME ServiceInv, NEW r \in DOMAIN Requests, req[r].at \in Working
    PROVE  /\ req[r].sess # 0 /\ req[r].sess \in 1..Len(heap) /\ Sess(r) \in Session
           /\ Len(Sess(r).locos) \in Nat /\ DOMAIN Sess(r).locos = 1..Len(Sess(r).locos)
           /\ Sess(r).active \in 0..1
           /\ \A o : Set(r, o) => /\ heap'[req[r].sess] = o
                                  /\ \A n \in 1..Len(heap) : n # req[r].sess => heap'[n] = heap[n]
<1>1. ServiceTypes /\ req[r].sess # 0
  BY DEF ServiceInv, Attached
<1>2. req[r].sess \in 1..Len(heap) /\ Sess(r) \in Session
  BY <1>1, SessionOfRequest
<1>3. DOMAIN heap = 1..Len(heap)
  BY <1>1, LenProperties DEF ServiceTypes
<1>4. \A o : Set(r, o) => /\ heap'[req[r].sess] = o
                          /\ \A n \in 1..Len(heap) : n # req[r].sess => heap'[n] = heap[n]
  BY <1>2, <1>3 DEF Set
<1>5. Len(Sess(r).locos) \in Nat /\ DOMAIN Sess(r).locos = 1..Len(Sess(r).locos) /\ Sess(r).active \in 0..1
  BY <1>2, LenProperties DEF Session
<1>. QED BY <1>1, <1>2, <1>4, <1>5

\* A step leaves every bar alone but the one its request is about to write.
LEMMA OtherBarsKept ==
    ASSUME ServiceInv, NEW r \in DOMAIN Requests, Send(r) \/ Step(r),
           NEW n \in 1..Len(heap), ~(n = req[r].sess /\ Writes(r))
    PROVE  SameBar(heap[n], heap'[n])
<1>0. ServiceTypes /\ heap[n] \in Session
  BY ElementOfSeq DEF ServiceInv, ServiceTypes
<1>1. CASE Judge(r)
  <2>1. heap'[n] = heap[n] \/ (n = req[r].sess /\ heap'[n] = [Sess(r) EXCEPT !.lastAssistant = r])
    BY <1>1, JudgeSetsAnswer
  <2>2. SameBar(heap[n], [heap[n] EXCEPT !.lastAssistant = r])
    BY <1>0 DEF Session, SameBar
  <2>. QED BY <2>1, <2>2 DEF SameBar, Sess
<1>2. CASE AppendTranscript(r)
  <2>. DEFINE e == [turn |-> r, heard |-> req[r].heard]
  <2>1. heap'[n] = heap[n] \/ (n = req[r].sess /\ heap'[n] = [Sess(r) EXCEPT !.transcript = Append(@, e)])
    BY <1>2, AppendAddsEntry
  <2>. HIDE DEF e
  <2>2. SameBar(heap[n], [heap[n] EXCEPT !.transcript = Append(@, e)])
    BY <1>0 DEF Session, SameBar
  <2>. QED BY <2>1, <2>2 DEF SameBar, Sess
<1>3. CASE Settle(r)
  BY <1>3, SettleFindsSession DEF SameBar
<1>4. CASE Rows(r) \/ Attribute(r) \/ Mirror(r) \/ Reverse(r) \/ Flip(r) \/ MergeLoco(r)
  <2>1. req[r].at \in Writing /\ req[r].at \in Working
    BY <1>4 DEF Rows, Attribute, Mirror, Reverse, Flip, MergeLoco, In, Writing, Amid, Working, Turning
  <2>2. n # req[r].sess
    BY <2>1 DEF Writes
  <2>3. (\E o : Set(r, o)) \/ UNCHANGED heap
    BY <1>4 DEF Rows, Attribute, Mirror, Reverse, Flip, MergeLoco
  <2>. QED BY <2>1, <2>2, <2>3, WriterHasSession DEF SameBar
<1>5. CASE Merge(r)
  <2>1. CASE Requests[r].says = Unknown
    BY <1>5, <2>1 DEF Merge, SameBar
  <2>2. CASE Requests[r].says # Unknown
    <3>1. n # req[r].sess /\ req[r].at \in Working /\ \E o : Set(r, o)
      BY <1>5, <2>2 DEF Merge, In, Writes, Working, Turning
    <3>. QED BY <3>1, WriterHasSession DEF SameBar
  <2>. QED BY <2>1, <2>2
<1>6. CASE Send(r) \/ Find(r) \/ ForgetSession(r) \/ Count(r) \/ Read(r) \/ Enter(r) \/ Outage(r)
  BY <1>6 DEF Send, Find, ForgetSession, Count, Read, Enter, Outage, SameBar
<1>. QED BY <1>1, <1>2, <1>3, <1>4, <1>5, <1>6 DEF Step

\* What the writing steps make of the bar.
LEMMA BarWrites ==
    ASSUME ServiceInv, NEW r \in DOMAIN Requests, Writes(r)
    PROVE  LET o == Sess(r)  p == heap'[req[r].sess]  bar == Requests[r].bar IN
           /\ Rows(r) => p.locos = bar.locos
           /\ Attribute(r) => /\ p.locos = o.locos
                              /\ p.active = IF bar.active < Len(bar.locos) - 1 THEN bar.active ELSE Len(bar.locos) - 1
           /\ Mirror(r) => IF HasActive(o)
                           THEN p.locos = o.locos /\ p.active = o.active /\ p.config = Active(o).config
                           ELSE p = o
           /\ Reverse(r) => IF Len(o.locos) = 2
                            THEN p.locos = << o.locos[2], o.locos[1] >> /\ p.active = o.active
                            ELSE p = o
           /\ Flip(r) => p.locos = o.locos /\ p.active = 1 - o.active
           /\ Merge(r) => p.locos = o.locos /\ p.active = o.active /\ p.config = Requests[r].says
           /\ MergeLoco(r) => /\ p.active = o.active /\ p.config = o.config /\ HasActive(o)
                              /\ p.locos = [o.locos EXCEPT ![o.active + 1].config = Requests[r].says]
<1>. DEFINE o == Sess(r)
<1>1. /\ o \in [locos : Seq(LocoInfo), active : 0..1, config : Config, lastAssistant : Names, transcript : Seq(Entry)]
      /\ \A q : Set(r, q) => heap'[req[r].sess] = q
  BY WriterHasSession DEF Writes, Writing, Amid, Working, Turning, Session
<1>2. ASSUME NEW x
      PROVE  /\ [o EXCEPT !.locos = x].locos = x /\ [o EXCEPT !.locos = x].active = o.active
             /\ [o EXCEPT !.locos = x].config = o.config
             /\ [o EXCEPT !.active = x].active = x /\ [o EXCEPT !.active = x].locos = o.locos
             /\ [o EXCEPT !.config = x].config = x /\ [o EXCEPT !.config = x].active = o.active
             /\ [o EXCEPT !.config = x].locos = o.locos
  BY <1>1
<1>3. Rows(r) => heap'[req[r].sess].locos = Requests[r].bar.locos
  BY <1>1, <1>2 DEF Rows
<1>4. Attribute(r) =>
        /\ heap'[req[r].sess].locos = o.locos
        /\ heap'[req[r].sess].active = IF Requests[r].bar.active < Len(Requests[r].bar.locos) - 1
                                       THEN Requests[r].bar.active ELSE Len(Requests[r].bar.locos) - 1
  BY <1>1, <1>2 DEF Attribute
<1>5. Mirror(r) => IF HasActive(o)
                   THEN /\ heap'[req[r].sess].locos = o.locos /\ heap'[req[r].sess].active = o.active
                        /\ heap'[req[r].sess].config = Active(o).config
                   ELSE heap'[req[r].sess] = o
  BY <1>1, <1>2 DEF Mirror, Sess
<1>6. Reverse(r) => IF Len(o.locos) = 2
                    THEN /\ heap'[req[r].sess].locos = << o.locos[2], o.locos[1] >>
                         /\ heap'[req[r].sess].active = o.active
                    ELSE heap'[req[r].sess] = o
  <2>. DEFINE l == << o.locos[2], o.locos[1] >>
  <2>1. Reverse(r) => IF Len(o.locos) = 2 THEN heap'[req[r].sess] = [o EXCEPT !.locos = l] ELSE heap'[req[r].sess] = o
    BY <1>1 DEF Reverse, Sess
  <2>. HIDE DEF l
  <2>2. [o EXCEPT !.locos = l].locos = l /\ [o EXCEPT !.locos = l].active = o.active
    BY <1>2
  <2>3. Reverse(r) => IF Len(o.locos) = 2
                      THEN heap'[req[r].sess].locos = l /\ heap'[req[r].sess].active = o.active
                      ELSE heap'[req[r].sess] = o
    BY <2>1, <2>2
  <2>. QED BY <2>3 DEF l
<1>7. Flip(r) => heap'[req[r].sess].locos = o.locos /\ heap'[req[r].sess].active = 1 - o.active
  <2>1. Flip(r) => heap'[req[r].sess] = [o EXCEPT !.active = 1 - o.active]
    BY <1>1 DEF Flip
  <2>2. [o EXCEPT !.active = 1 - o.active].active = 1 - o.active /\ [o EXCEPT !.active = 1 - o.active].locos = o.locos
    BY <1>2
  <2>. QED BY <2>1, <2>2
<1>8. Merge(r) => /\ heap'[req[r].sess].locos = o.locos /\ heap'[req[r].sess].active = o.active
                  /\ heap'[req[r].sess].config = Requests[r].says
  BY <1>1, <1>2 DEF Merge, In, Writes, Writing, Amid
<1>9. MergeLoco(r) =>
        /\ heap'[req[r].sess].active = o.active /\ heap'[req[r].sess].config = o.config /\ HasActive(o)
        /\ heap'[req[r].sess].locos = [o.locos EXCEPT ![o.active + 1].config = Requests[r].says]
  <2>. DEFINE l == [o.locos EXCEPT ![o.active + 1].config = Requests[r].says]
  <2>1. MergeLoco(r) => HasActive(o) /\ heap'[req[r].sess] = [o EXCEPT !.locos = l]
    BY <1>1 DEF MergeLoco
  <2>. HIDE DEF l
  <2>2. /\ [o EXCEPT !.locos = l].locos = l /\ [o EXCEPT !.locos = l].active = o.active
        /\ [o EXCEPT !.locos = l].config = o.config
    BY <1>2
  <2>3. MergeLoco(r) => HasActive(o) /\ heap'[req[r].sess].locos = l /\ heap'[req[r].sess].active = o.active
                        /\ heap'[req[r].sess].config = o.config
    BY <2>1, <2>2
  <2>. QED BY <2>3 DEF l
<1>. QED BY <1>3, <1>4, <1>5, <1>6, <1>7, <1>8, <1>9

\* What a step leaves of a request's progress: only a counted swap notes its loco, and
\* only a mirrored bar is applied.
LEMMA ProgressKept ==
    ASSUME ServiceTypes, NEW r \in DOMAIN Requests, Send(r) \/ Step(r)
    PROVE  /\ ~Count(r) => req'[r].before = req[r].before
           /\ ~Mirror(r) => req'[r].applied = req[r].applied
           /\ Mirror(r) => \/ /\ HasActive(Sess(r)) /\ Requests[r].kind = "turn"
                              /\ req'[r].at = "find" /\ req'[r].applied
                           \/ req'[r].at = "done" /\ req'[r].applied = req[r].applied
           /\ Count(r) => \/ /\ Len(Sess(r).locos) = 2 /\ req'[r].at = "reverse"
                             /\ req'[r].before = IF HasActive(Sess(r)) THEN Active(Sess(r)).number ELSE Nobody
                          \/ req'[r].at = "done"
<1>0. req \in [DOMAIN Requests -> Progress] /\ req[r] \in Progress
  BY DEF ServiceTypes
<1>2. ASSUME NEW at, NEW v,
             \/ req' = [req EXCEPT ![r].at = at]
             \/ req' = [req EXCEPT ![r].at = at, ![r].outcome = v]
             \/ req' = [req EXCEPT ![r].at = at, ![r].absent = v]
             \/ req' = [req EXCEPT ![r].at = at, ![r].sess = v]
             \/ req' = [req EXCEPT ![r].at = at, ![r].heard = v]
      PROVE  req'[r].before = req[r].before /\ req'[r].applied = req[r].applied
  <2>1. \/ req'[r] = [req[r] EXCEPT !.at = at]
        \/ req'[r] = [req[r] EXCEPT !.at = at, !.outcome = v]
        \/ req'[r] = [req[r] EXCEPT !.at = at, !.absent = v]
        \/ req'[r] = [req[r] EXCEPT !.at = at, !.sess = v]
        \/ req'[r] = [req[r] EXCEPT !.at = at, !.heard = v]
    BY <1>0, <1>2
  <2>. QED BY <1>0, <2>1 DEF Progress
<1>3. ASSUME NEW at, Go(r, at)
      PROVE  req'[r].before = req[r].before /\ req'[r].applied = req[r].applied
  BY <1>2, <1>3 DEF Go
<1>4. ASSUME NEW outcome, Done(r, outcome)
      PROVE  req'[r].before = req[r].before /\ req'[r].applied = req[r].applied
  BY <1>2, <1>4 DEF Done
<1>5. CASE Send(r) \/ Rows(r) \/ Attribute(r) \/ Reverse(r) \/ Flip(r) \/ Merge(r) \/ MergeLoco(r) \/ Judge(r)
  <2>1. (\E at : Go(r, at)) \/ Done(r, "ok")
    BY <1>5 DEF Send, Rows, Attribute, Reverse, Flip, Merge, MergeLoco, Judge
  <2>2. req[r].at \notin {"mirror", "count"}
    BY <1>5 DEF Send, Rows, Attribute, Reverse, Flip, Merge, MergeLoco, Judge, In
  <2>. QED BY <1>3, <1>4, <2>1, <2>2 DEF Mirror, Count, In
<1>6. CASE ForgetSession(r) \/ Read(r) \/ AppendTranscript(r) \/ Outage(r)
  <2>1. Done(r, "ok") \/ Done(r, "failed")
    BY <1>6 DEF ForgetSession, Read, AppendTranscript, Outage
  <2>2. req[r].at \notin {"mirror", "count"}
    BY <1>6 DEF ForgetSession, Read, AppendTranscript, Outage, In
  <2>. QED BY <1>4, <2>1, <2>2 DEF Mirror, Count, In
<1>7. CASE Find(r) \/ Settle(r) \/ Enter(r)
  <2>1. \E at, v : \/ req' = [req EXCEPT ![r].at = at, ![r].absent = v]
                   \/ req' = [req EXCEPT ![r].at = at, ![r].sess = v]
                   \/ req' = [req EXCEPT ![r].at = at, ![r].heard = v]
    BY <1>7 DEF Find, Settle, Enter
  <2>2. req[r].at \notin {"mirror", "count"}
    BY <1>7 DEF Find, Settle, Enter, In
  <2>. QED BY <1>2, <2>1, <2>2 DEF Mirror, Count, In
<1>8. CASE Mirror(r)
  <2>1. ~Count(r)
    BY <1>8 DEF Mirror, Count, In
  <2>2. CASE HasActive(Sess(r)) /\ Requests[r].kind = "turn"
    <3>1. req' = [req EXCEPT ![r].at = "find", ![r].applied = TRUE]
      BY <1>8, <2>2 DEF Mirror
    <3>2. req'[r] = [req[r] EXCEPT !.at = "find", !.applied = TRUE]
      BY <1>0, <3>1
    <3>3. req'[r].at = "find" /\ req'[r].before = req[r].before
      BY <1>0, <3>2 DEF Progress
    <3>4. req'[r].applied
      BY <1>0, <3>2, Zenon DEF Progress
    <3>. QED BY <1>8, <2>1, <2>2, <3>3, <3>4
  <2>3. CASE ~(HasActive(Sess(r)) /\ Requests[r].kind = "turn")
    <3>1. Done(r, "ok") \/ Done(r, "failed")
      BY <1>8, <2>3 DEF Mirror
    <3>2. req'[r].at = "done"
      BY <3>1, WhereTo
    <3>. QED BY <1>4, <1>8, <2>1, <3>1, <3>2
  <2>. QED BY <2>2, <2>3
<1>9. CASE Count(r)
  <2>. DEFINE b == IF HasActive(Sess(r)) THEN Active(Sess(r)).number ELSE Nobody
  <2>1. ~Mirror(r)
    BY <1>9 DEF Mirror, Count, In
  <2>2. CASE Len(Sess(r).locos) = 2
    <3>1. req' = [req EXCEPT ![r].at = "reverse", ![r].before = b]
      BY <1>9, <2>2 DEF Count
    <3>. HIDE DEF b
    <3>2. req'[r] = [req[r] EXCEPT !.at = "reverse", !.before = b]
      BY <1>0, <3>1
    <3>3. req'[r].at = "reverse" /\ req'[r].before = b /\ req'[r].applied = req[r].applied
      BY <1>0, <3>2 DEF Progress
    <3>. QED BY <1>9, <2>1, <2>2, <3>3 DEF b
  <2>3. CASE Len(Sess(r).locos) # 2
    <3>1. Done(r, "conflict")
      BY <1>9, <2>3 DEF Count
    <3>2. req'[r].at = "done"
      BY <3>1, WhereTo
    <3>. QED BY <1>4, <1>9, <2>1, <3>1, <3>2
  <2>. QED BY <2>2, <2>3
<1>. QED BY <1>5, <1>6, <1>7, <1>8, <1>9 DEF Step

\* A request comes under way when it is sent, and only then.
LEMMA FlightStep ==
    ASSUME ServiceTypes, NEW r \in DOMAIN Requests, Send(r) \/ Step(r)
    PROVE  /\ \A q \in DOMAIN Requests \ {r} : q \in InFlight' <=> q \in InFlight
           /\ ~In(r, "unsent") => /\ overlapped' = overlapped
                                  /\ r \in InFlight
           /\ In(r, "unsent") => /\ overlapped' = overlapped \cup {s \in {Requests[r].session} : ChangesBar(r) /\ Changing(s) # {}}
                                 /\ r \notin InFlight
           /\ overlapped \subseteq overlapped'
           /\ InFlight \subseteq DOMAIN Requests
<1>1. \A q \in DOMAIN Requests \ {r} : q \in InFlight' <=> q \in InFlight
  BY OthersStandStill DEF InFlight
<1>2. In(r, "unsent") => Send(r)
  BY DEF Step, Find, Settle, ForgetSession, Rows, Attribute, Mirror, Count, Reverse, Flip, Read,
         Enter, Merge, MergeLoco, Judge, AppendTranscript, Outage, In
<1>3. ~In(r, "unsent") => overlapped' = overlapped
  BY DEF Send, Step, Find, Settle, ForgetSession, Rows, Attribute, Mirror, Count, Reverse, Flip, Read,
         Enter, Merge, MergeLoco, Judge, AppendTranscript, Outage
<1>4. req[r].at # "done"
  BY Transitions DEF Onward
<1>. QED BY <1>1, <1>2, <1>3, <1>4 DEF Send, In, InFlight

\* A change of a bar that another is beside is counted as overlapped when it is sent.
LEMMA OneChangesKept ==
    ASSUME ServiceInv, OneChanges, NEW r \in DOMAIN Requests, Send(r) \/ Step(r)
    PROVE  OneChanges'
<1>. SUFFICES ASSUME NEW q \in InFlight', NEW p \in InFlight', ChangesBar(q), ChangesBar(p),
                     Requests[q].session = Requests[p].session, Calm(p)'
              PROVE  q = p
  BY DEF OneChanges, ChangesBar
<1>0. /\ ServiceTypes /\ q \in DOMAIN Requests /\ p \in DOMAIN Requests
      /\ Calm(p) /\ Requests[p].session \notin overlapped'
  BY FlightStep DEF Calm, ServiceInv, InFlight
<1>1. CASE q \in InFlight /\ p \in InFlight
  BY <1>0, <1>1 DEF OneChanges
<1>2. CASE ~(q \in InFlight /\ p \in InFlight)
  <2>1. In(r, "unsent") /\ (q = r \/ p = r) /\ r \notin InFlight
    BY <1>0, <1>2, FlightStep
  <2>2. ChangesBar(r) => Changing(Requests[r].session) = {}
    BY <1>0, <2>1, FlightStep
  <2>3. \A u \in InFlight : ~(ChangesBar(u) /\ Requests[u].session = Requests[r].session /\ ChangesBar(r))
    BY <2>2 DEF Changing
  <2>. QED BY <1>0, <2>1, <2>3, FlightStep
<1>. QED BY <1>1, <1>2

-----------------------------------------------------------------------------
(* The parts of the invariant, one by one.                                  *)

\* A new session has one unnamed loco, of a configuration unknown to both.
LEMMA NewSessionSettled == Settled(NewSession) /\ Len(NewSession.locos) = 1
<1>. DEFINE row == Loco("", Unknown)
<1>1. NewSession.locos = << row >> /\ NewSession.active = 0 /\ NewSession.config = Unknown
  BY DEF NewSession
<1>2. row.config = Unknown
  BY DEF Loco
<1>. HIDE DEF row, Unknown
<1>3. Len(<< row >>) = 1 /\ << row >>[0 + 1] = row
  OBVIOUS
<1>4. HasActive(NewSession)
  BY <1>1, <1>3 DEF HasActive
<1>5. Active(NewSession) = row
  BY <1>1, <1>3, Zenon DEF Active
<1>. QED BY <1>1, <1>2, <1>3, <1>4, <1>5 DEF Settled

\* Only its lookup gives a request a session: the one its id leads to, or a new one.
LEMMA SessStep ==
    ASSUME ServiceInv, NEW r \in DOMAIN Requests, Send(r) \/ Step(r), NEW q \in DOMAIN Requests
    PROVE  /\ req'[q].sess = req[q].sess \/ (q = r /\ Settle(r))
           /\ Settle(r) => /\ req'[r].sess = store'[Requests[r].session]
                           /\ store'[Requests[r].session] # 0
                           /\ \A s \in SessionIds : s # Requests[r].session => store'[s] = store[s]
                           /\ \/ store' = store /\ heap' = heap
                              \/ /\ store[Requests[r].session] = 0 /\ req'[r].sess = Len(heap) + 1
                                 /\ heap' = Append(heap, NewSession)
<1>0. ServiceTypes /\ Requests[r].session \in SessionIds /\ Len(heap) \in Nat
  BY RequestTypes, HeapIsKept DEF ServiceInv
<1>1. req'[q].sess = req[q].sess \/ (q = r /\ Settle(r))
  BY <1>0, OthersStandStill, ProgressIsTyped
<1>2. CASE Settle(r)
  <2>1. /\ req'[r].sess = store'[Requests[r].session]
        /\ req[r].absent <=> store[Requests[r].session] = 0
    BY <1>0, <1>2, WhereTo DEF ServiceInv, Attached, Settle, In
  <2>2. CASE req[r].absent
    <3>1. heap' = Append(heap, NewSession) /\ Len(heap') = Len(heap) + 1
      BY <1>2, <2>2, SettleFindsSession
    <3>2. store' = [store EXCEPT ![Requests[r].session] = Len(heap')]
      BY <1>2, <2>2 DEF Settle
    <3>3. \A s \in SessionIds : store'[s] = IF s = Requests[r].session THEN Len(heap) + 1 ELSE store[s]
      BY <1>0, <3>1, <3>2 DEF ServiceTypes
    <3>. QED BY <1>0, <1>1, <2>1, <2>2, <3>1, <3>3
  <2>3. CASE ~req[r].absent
    <3>1. heap' = heap /\ store' = store
      BY <1>2, <2>3 DEF Settle
    <3>. QED BY <1>1, <2>1, <2>3, <3>1
  <2>. QED BY <2>2, <2>3
<1>. QED BY <1>1, <1>2

\* Every request's session is one that was made.
LEMMA SessInHeap ==
    ASSUME ServiceTypes, NEW q \in DOMAIN Requests, NEW s \in SessionIds
    PROVE  req[q].sess \in 0..Len(heap) /\ store[s] \in 0..Len(heap) /\ Len(heap) \in Nat
BY LenProperties DEF ServiceTypes

\* A lookup finds an object of its own session or one no request works on.
LEMMA OneOwnerKept ==
    ASSUME ServiceInv, OneOwner, NEW r \in DOMAIN Requests, Send(r) \/ Step(r)
    PROVE  OneOwner'
<1>0. ServiceTypes
  BY DEF ServiceInv
<1>1. ASSUME NEW q \in DOMAIN Requests, req'[q].sess = req'[r].sess, req'[r].sess # 0
      PROVE  Requests[q].session = Requests[r].session
  <2>1. CASE ~Settle(r)
    BY <1>1, <2>1, SessStep DEF OneOwner
  <2>2. CASE Settle(r) /\ q # r
    <3>1. req[q].sess = store'[Requests[r].session] /\ req[q].sess # 0
      BY <1>1, <2>2, SessStep
    <3>2. store' = store
      <4>1. Requests[r].session \in SessionIds
        BY RequestTypes
      <4>2. req[q].sess \in 0..Len(heap) /\ Len(heap) \in Nat
        BY <1>0, <4>1, SessInHeap
      <4>3. req[q].sess # Len(heap) + 1
        BY <4>2
      <4>. QED BY <1>1, <2>2, <3>1, <4>3, SessStep
    <3>. QED BY <3>1, <3>2, RequestTypes DEF ServiceInv, Attached
  <2>. QED BY <2>1, <2>2
<1>2. \A q \in DOMAIN Requests \ {r} : req'[q].sess = req[q].sess
  BY SessStep
<1>3. ASSUME NEW p \in DOMAIN Requests, NEW q \in DOMAIN Requests,
             req'[p].sess = req'[q].sess, req'[q].sess # 0
      PROVE  Requests[p].session = Requests[q].session
  <2>1. CASE p = r
    BY <1>1, <1>3, <2>1
  <2>2. CASE q = r
    BY <1>1, <1>3, <2>2
  <2>3. CASE p # r /\ q # r
    BY <1>2, <1>3, <2>3 DEF OneOwner
  <2>. QED BY <2>1, <2>2, <2>3
<1>. QED BY <1>3 DEF OneOwner

\* An object that was not there before is a new session.
LEMMA NewObject ==
    ASSUME ServiceInv, NEW r \in DOMAIN Requests, Send(r) \/ Step(r),
           NEW n \in 1..Len(heap'), n \notin 1..Len(heap)
    PROVE  heap'[n] = NewSession
<1>0. Len(heap) \in Nat /\ Len(heap') \in Nat /\ Len(heap') # Len(heap)
  BY HeapIsKept
<1>1. Settle(r)
  <2>1. CASE Judge(r) \/ AppendTranscript(r)
    BY <1>0, <2>1, JudgeSetsAnswer, AppendAddsEntry
  <2>2. CASE Rows(r) \/ Attribute(r) \/ Mirror(r) \/ Reverse(r) \/ Flip(r) \/ Merge(r) \/ MergeLoco(r)
    BY <1>0, <2>2, BarStepSaysNothing DEF NothingSaid
  <2>3. CASE Send(r) \/ Find(r) \/ ForgetSession(r) \/ Count(r) \/ Read(r) \/ Enter(r) \/ Outage(r)
    BY <1>0, <2>3 DEF Send, Find, ForgetSession, Count, Read, Enter, Outage
  <2>. QED BY <2>1, <2>2, <2>3 DEF Step
<1>2. n = Len(heap) + 1 /\ heap'[n] = NewSession
  BY <1>0, <1>1, SettleFindsSession
<1>. QED BY <1>2

\* A configuration stated for one row leaves the rows, and their numbers, as they are.
LEMMA RestatedRow ==
    ASSUME NEW l \in Seq(LocoInfo), NEW i \in 1..Len(l), NEW c \in Config,
           NEW m, m = [l EXCEPT ![i].config = c]
    PROVE  Len(m) = Len(l) /\ m[i].config = c /\ \A k \in 1..Len(l) : m[k].number = l[k].number
<1>1. l[i] \in LocoInfo
  BY ElementOfSeq
<1>2. /\ [l[i] EXCEPT !.config = c] \in LocoInfo
      /\ [l[i] EXCEPT !.config = c].config = c /\ [l[i] EXCEPT !.config = c].number = l[i].number
  BY <1>1 DEF LocoInfo
<1>. DEFINE row == [l[i] EXCEPT !.config = c]
<1>3. m = [l EXCEPT ![i] = row]
  OBVIOUS
<1>. HIDE DEF row
<1>4. /\ Len(m) = Len(l) /\ \A k \in 1..Len(l) : m[k] = IF k = i THEN row ELSE l[k]
  BY <1>2, <1>3, ExceptSeq DEF row
<1>. QED BY <1>2, <1>4 DEF row

\* No step leaves a bar without a row, or with three.
LEMMA RowsHoldKept ==
    ASSUME ServiceInv, RowsHold, NEW r \in DOMAIN Requests, Send(r) \/ Step(r)
    PROVE  RowsHold'
<1>. SUFFICES ASSUME NEW n \in 1..Len(heap') PROVE Len(heap'[n].locos) \in 1..2
  BY DEF RowsHold
<1>1. CASE n \notin 1..Len(heap)
  BY <1>1, NewObject, NewSessionSettled
<1>2. CASE n \in 1..Len(heap) /\ ~(n = req[r].sess /\ Writes(r))
  BY <1>2, OtherBarsKept DEF SameBar, RowsHold
<1>3. CASE n \in 1..Len(heap) /\ n = req[r].sess /\ Writes(r)
  <2>. DEFINE o == Sess(r)
  <2>0. req[r].at \in Working
    BY <1>3 DEF Writes, Writing, Amid, Working, Turning
  <2>1. Len(o.locos) \in 1..2 /\ heap[n] = o
    BY <1>3 DEF RowsHold, Sess
  <2>2. CASE Rows(r)
    <3>1. Requests[r].bar # NoBar
      BY <2>2 DEF Rows, In, ServiceInv, RightPlace
    <3>2. Len(Requests[r].bar.locos) \in 1..2
      BY <3>1, RequestsAssumption
    <3>. QED BY <1>3, <2>2, <3>2, BarWrites
  <2>3. CASE Attribute(r) \/ Flip(r) \/ Merge(r)
    BY <1>3, <2>1, <2>3, BarWrites
  <2>4. CASE Mirror(r)
    BY <1>3, <2>1, <2>4, BarWrites
  <2>5. CASE Reverse(r)
    <3>1. CASE Len(o.locos) = 2
      <4>1. heap'[n].locos = << o.locos[2], o.locos[1] >>
        BY <1>3, <2>5, <3>1, BarWrites
      <4>. QED BY <4>1
    <3>2. CASE Len(o.locos) # 2
      BY <1>3, <2>1, <2>5, <3>2, BarWrites
    <3>. QED BY <3>1, <3>2
  <2>6. CASE MergeLoco(r)
    <3>1. heap'[n].locos = [o.locos EXCEPT ![o.active + 1].config = Requests[r].says]
      BY <1>3, <2>6, BarWrites
    <3>2. /\ o.locos \in Seq(LocoInfo) /\ o.active + 1 \in 1..Len(o.locos) /\ Requests[r].says \in Config
      BY <2>0, <2>6, WriterHasSession, RequestTypes DEF Session, MergeLoco, HasActive
    <3>3. Len(heap'[n].locos) = Len(o.locos)
      BY <3>1, <3>2, RestatedRow
    <3>. QED BY <2>1, <3>3
  <2>7. CASE Outage(r)
    BY <2>1, <2>7 DEF Outage
  <2>. QED
    BY <1>3, <2>2, <2>3, <2>4, <2>5, <2>6, <2>7 DEF Writes, Writing, Amid, Step, Send, Find, Settle, ForgetSession,
       Count, Read, Enter, Judge, AppendTranscript, In
<1>. QED BY <1>1, <1>2, <1>3

\* A step takes a request from one place of a change to the next.
LEMMA ChangePlacesKept ==
    ASSUME ServiceInv, ChangePlaces, NEW r \in DOMAIN Requests, Send(r) \/ Step(r)
    PROVE  ChangePlaces'
<1>0. /\ ServiceTypes /\ RightPlace
      /\ Requests[r].kind = "locos" => Requests[r].bar # NoBar
      /\ Requests[r].bar # NoBar => Requests[r].kind \in {"turn", "locos"}
  BY RequestsAssumption DEF ServiceInv
<1>1. \A q \in DOMAIN Requests \ {r} : req'[q] = req[q]
  BY <1>0, OthersStandStill
<1>2. req'[r].applied => Requests[r].kind = "turn" /\ Requests[r].bar # NoBar
  <2>1. CASE req[r].applied
    BY <2>1 DEF ChangePlaces
  <2>2. CASE Mirror(r)
    <3>1. req[r].at = "mirror" /\ (req'[r].applied => req[r].applied \/ Requests[r].kind = "turn")
      BY <1>0, <2>2, ProgressKept DEF Mirror, In
    <3>. QED BY <3>1 DEF ChangePlaces
  <2>3. CASE ~req[r].applied /\ ~Mirror(r)
    BY <1>0, <2>3, ProgressKept
  <2>. QED BY <2>1, <2>2, <2>3
<1>3. req[r].applied => req'[r].applied
  BY <1>0, ProgressKept
<1>4. req'[r].at \in {"count", "reverse", "flip"} => Requests[r].kind = "swap"
  BY <1>0, Transitions DEF ChangePlaces, Onward
<1>5. req'[r].at = "mirror" => Requests[r].kind = "swap" \/ Requests[r].bar # NoBar
  BY <1>0, Transitions DEF ChangePlaces, RightPlace, Onward
<1>6. req'[r].at = "merge_loco" => Requests[r].says # Unknown
  <2>1. req'[r].at = "merge_loco" => req[r].at = "parse"
    BY <1>0, Transitions DEF Onward
  <2>2. req[r].at = "parse" => Merge(r) \/ Outage(r)
    BY DEF Step, Send, Find, Settle, ForgetSession, Rows, Attribute, Mirror, Count, Reverse, Flip, Read,
           Enter, MergeLoco, Judge, AppendTranscript, In
  <2>3. Outage(r) => req'[r].at = "done"
    BY <1>0, WhereTo DEF Outage
  <2>4. Merge(r) /\ Requests[r].says = Unknown => req'[r].at = "judge"
    BY <1>0, WhereTo DEF Merge
  <2>. QED BY <2>1, <2>2, <2>3, <2>4
<1>7. req'[r].at # "unsent"
  BY <1>0, Transitions DEF Onward
<1>8. req'[r].at \in Turning /\ Requests[r].bar # NoBar => req'[r].applied
  <2>1. Onward(r) \in Turning /\ Requests[r].bar # NoBar => req[r].applied
    BY DEF Onward, BringsBar, Turning
  <2>2. req'[r].at \in Turning => req[r].at \in Turning \/ (req[r].at = "settle" /\ req'[r].at = Onward(r))
    BY <1>0, Transitions DEF Turning
  <2>. QED BY <1>3, <2>1, <2>2 DEF ChangePlaces
<1>9. ASSUME NEW q \in DOMAIN Requests
      PROVE  /\ req'[q].at \in {"count", "reverse", "flip"} => Requests[q].kind = "swap"
             /\ req'[q].at = "mirror" => Requests[q].kind = "swap" \/ Requests[q].bar # NoBar
             /\ req'[q].at = "merge_loco" => Requests[q].says # Unknown
             /\ req'[q].at = "unsent" => ~req'[q].applied
             /\ req'[q].applied => Requests[q].kind = "turn" /\ Requests[q].bar # NoBar
             /\ req'[q].at \in Turning /\ Requests[q].bar # NoBar => req'[q].applied
  <2>1. CASE q = r
    BY <1>2, <1>4, <1>5, <1>6, <1>7, <1>8, <2>1
  <2>2. CASE q # r
    <3>1. req'[q] = req[q]
      BY <1>1, <2>2
    <3>. QED BY <3>1 DEF ChangePlaces
  <2>. QED BY <2>1, <2>2
<1>. QED BY <1>9 DEF ChangePlaces

\* Whoever is about to write a calm session's bar is its only change under way.
LEMMA WriterAlone ==
    ASSUME ServiceInv, BarInv, NEW q \in InFlight, NEW r \in DOMAIN Requests,
           ChangesBar(q), Calm(q), Writes(r), req[q].sess = req[r].sess
    PROVE  q = r
<1>1. r \in InFlight /\ ChangesBar(r) /\ q \in DOMAIN Requests
  BY WriterChanges DEF ServiceInv, BarInv, InFlight
<1>2. req[r].sess # 0
  BY WriterHasSession DEF Writes, Writing, Amid, Working, Turning
<1>3. Requests[q].session = Requests[r].session
  BY <1>1, <1>2 DEF BarInv, OneOwner
<1>. QED BY <1>1, <1>3 DEF BarInv, OneChanges, Calm

\* An object no request is amid a change of: the bar of a calm session that is its own
\* when its change begins.
LEMMA OwnChangeOnly ==
    ASSUME ServiceInv, BarInv, NEW r \in DOMAIN Requests, Calm(r), Writes(r), req[r].at \notin Amid
    PROVE  Settled(Sess(r))
<1>1. r \in InFlight /\ ChangesBar(r)
  BY WriterChanges DEF ServiceInv, BarInv
<1>2. ~AmidOn(req[r].sess)
  <2>. SUFFICES ASSUME NEW u \in DOMAIN Requests, req[u].sess = req[r].sess, req[u].at \in Amid
                PROVE  FALSE
    BY DEF AmidOn
  <2>1. u = r
    BY <1>1, WriterAlone DEF Writes, Writing
  <2>. QED BY <2>1
<1>3. Requests[r].session \in SessionIds \ overlapped /\ Owned(req[r].sess, Requests[r].session)
  BY RequestTypes DEF Calm, Owned
<1>4. req[r].sess \in 1..Len(heap)
  BY WriterHasSession DEF Writes, Writing, Amid, Working, Turning
<1>. QED BY <1>2, <1>3, <1>4 DEF BarInv, Apart, Sess

\* What has become of the object a request works on when its own step did not write it.
LEMMA HowFarStands ==
    ASSUME NEW q \in DOMAIN Requests, HowFar(q), req'[q] = req[q],
           SameBar(heap[req[q].sess], heap'[req[q].sess])
    PROVE  HowFar(q)'
BY DEF HowFar, SameBar, HasActive, Active, Sess

\* One row for the other, and the place of the attributed one with it.
LEMMA Reversed ==
    ASSUME NEW l, NEW a \in 0..1, NEW m, m = << l[2], l[1] >>
    PROVE  Len(m) = 2 /\ m[2 - a] = l[a + 1]
<1>1. Len(m) = 2 /\ m[1] = l[2] /\ m[2] = l[1]
  OBVIOUS
<1>2. CASE a = 0
  BY <1>1, <1>2
<1>3. CASE a = 1
  BY <1>1, <1>3
<1>. QED BY <1>2, <1>3

\* The steps of a change of the bar, one after the other.
LEMMA MidwayKept ==
    ASSUME ServiceInv, BarInv, NEW r \in DOMAIN Requests, Send(r) \/ Step(r)
    PROVE  Midway'
<1>. SUFFICES ASSUME NEW q \in DOMAIN Requests, Calm(q)' PROVE HowFar(q)'
  BY DEF Midway
<1>0. ServiceTypes /\ RightPlace /\ Calm(q) /\ HowFar(q)
  BY FlightStep DEF ServiceInv, BarInv, Midway, Calm
<1>1. CASE q # r
  <2>1. req'[q] = req[q]
    BY <1>0, <1>1, OthersStandStill
  <2>2. CASE req[q].at \notin Writing
    BY <2>1, <2>2 DEF HowFar, Writing, Amid
  <2>3. CASE req[q].at \in Writing
    <3>1. req[q].sess \in 1..Len(heap)
      BY <2>3, WriterHasSession DEF Writing, Amid, Working, Turning
    <3>2. ChangesBar(q) /\ q \in InFlight
      BY <2>3, WriterChanges DEF ServiceInv, BarInv, Writes
    <3>3. ~(req[q].sess = req[r].sess /\ Writes(r))
      BY <1>0, <1>1, <3>2, WriterAlone
    <3>. QED BY <1>0, <2>1, <3>1, <3>3, OtherBarsKept, HowFarStands
  <2>. QED BY <2>2, <2>3
<1>2. CASE q = r
  <2>. DEFINE o == Sess(r)
              p == heap'[req[r].sess]
  <2>1. CASE Rows(r)
    <3>1. Writes(r) /\ req'[r].at = "attribute" /\ req'[r].sess = req[r].sess
      BY <1>0, <2>1, WhereTo, ProgressIsTyped DEF Rows, In, Writes, Writing, Settle
    <3>2. p.locos = Requests[r].bar.locos
      BY <2>1, <3>1, BarWrites
    <3>. QED BY <1>2, <3>1, <3>2 DEF HowFar, Sess
  <2>2. CASE Attribute(r)
    <3>1. /\ Writes(r) /\ req[r].at = "attribute" /\ req'[r].at = "mirror" /\ req'[r].sess = req[r].sess
      BY <1>0, <2>2, WhereTo, ProgressIsTyped DEF Attribute, In, Writes, Writing, Amid, Settle
    <3>2. /\ p.locos = Requests[r].bar.locos
          /\ p.active = IF Requests[r].bar.active < Len(Requests[r].bar.locos) - 1
                        THEN Requests[r].bar.active ELSE Len(Requests[r].bar.locos) - 1
      BY <1>0, <1>2, <2>2, <3>1, BarWrites DEF HowFar
    <3>3. Requests[r].bar # NoBar
      BY <1>0, <3>1 DEF RightPlace
    <3>4. Len(Requests[r].bar.locos) \in 1..2 /\ Requests[r].kind # "swap" /\ Requests[r].bar.active \in 0..1
      BY <3>3, RequestsAssumption
    <3>5. HasActive(p)
      BY <3>2, <3>4 DEF HasActive
    <3>. QED BY <1>2, <3>1, <3>2, <3>4, <3>5 DEF HowFar, Sess
  <2>3. CASE Count(r)
    <3>1. req'[r].sess = req[r].sess /\ heap' = heap /\ req[r].at \in Working
      BY <2>3, ProgressIsTyped DEF Count, In, Settle, Working
    <3>2. \/ /\ Len(Sess(r).locos) = 2 /\ req'[r].at = "reverse"
             /\ req'[r].before = IF HasActive(Sess(r)) THEN Active(Sess(r)).number ELSE Nobody
          \/ req'[r].at = "done"
      BY <1>0, <2>3, ProgressKept
    <3>3. Len(Sess(r).locos) = 2 => HasActive(Sess(r))
      BY <3>1, WriterHasSession DEF HasActive
    <3>. QED BY <1>2, <3>1, <3>2, <3>3 DEF HowFar, Sess
  <2>4. CASE Reverse(r)
    <3>1. /\ Writes(r) /\ req[r].at = "reverse" /\ req'[r].sess = req[r].sess /\ req'[r].before = req[r].before
          /\ req[r].at \in Working
      BY <1>0, <2>4, ProgressIsTyped, ProgressKept DEF Reverse, In, Writes, Writing, Settle, Count, Working
    <3>2. Len(o.locos) = 2 /\ Active(o).number = req[r].before /\ o.active \in 0..1
      BY <1>0, <1>2, <3>1, WriterHasSession DEF HowFar
    <3>3. p.locos = << o.locos[2], o.locos[1] >> /\ p.active = o.active /\ req'[r].at = "flip"
      BY <1>0, <2>4, <3>1, <3>2, BarWrites, WhereTo DEF Reverse
    <3>4. Len(p.locos) = 2 /\ p.locos[2 - p.active].number = req[r].before
      <4>1. Len(p.locos) = 2 /\ p.locos[2 - o.active] = o.locos[o.active + 1]
        BY <3>2, <3>3, Reversed, Zenon
      <4>. QED BY <3>2, <3>3, <4>1, Zenon DEF Active
    <3>. QED BY <1>2, <3>1, <3>3, <3>4 DEF HowFar, Sess
  <2>5. CASE Flip(r)
    <3>1. /\ Writes(r) /\ req[r].at = "flip" /\ req'[r].at = "mirror" /\ req'[r].sess = req[r].sess
          /\ req'[r].before = req[r].before /\ req[r].at \in Working
      BY <1>0, <2>5, WhereTo, ProgressIsTyped, ProgressKept DEF Flip, In, Writes, Writing, Amid, Settle, Count, Working
    <3>2. Len(o.locos) = 2 /\ o.locos[2 - o.active].number = req[r].before /\ o.active \in 0..1
      BY <1>0, <1>2, <3>1, WriterHasSession DEF HowFar
    <3>3. p.locos = o.locos /\ p.active = 1 - o.active
      BY <2>5, <3>1, BarWrites
    <3>4. p.active + 1 = 2 - o.active /\ p.active < 2
      BY <3>2, <3>3
    <3>5. HasActive(p) /\ Active(p).number = req[r].before
      BY <3>2, <3>3, <3>4 DEF HasActive, Active
    <3>6. Requests[r].bar = NoBar
      BY <3>1, RequestsAssumption DEF BarInv, ChangePlaces
    <3>. QED BY <1>2, <3>1, <3>5, <3>6 DEF HowFar, Sess
  <2>6. CASE Merge(r) /\ Requests[r].says # Unknown
    <3>1. /\ Writes(r) /\ req[r].at = "parse" /\ req'[r].at = "merge_loco" /\ req'[r].sess = req[r].sess
          /\ req[r].at \in Working
      BY <1>0, <2>6, WhereTo, ProgressIsTyped DEF Merge, In, Writes, Settle, Working, Turning
    <3>2. p.locos = o.locos /\ p.active = o.active /\ p.config = Requests[r].says
      BY <2>6, <3>1, BarWrites
    <3>3. Settled(o)
      BY <1>0, <1>2, <3>1, OwnChangeOnly DEF Amid
    <3>4. HasActive(p)
      BY <3>2, <3>3 DEF Settled, HasActive
    <3>. QED BY <1>2, <3>1, <3>2, <3>4 DEF HowFar, Sess
  <2>7. CASE Merge(r) /\ Requests[r].says = Unknown
    <3>1. req'[r].at = "judge"
      BY <1>0, <2>7, WhereTo DEF Merge
    <3>. QED BY <1>2, <3>1 DEF HowFar
  <2>8. CASE \/ Send(r) \/ Find(r) \/ Settle(r) \/ ForgetSession(r) \/ Mirror(r) \/ Read(r) \/ Enter(r)
             \/ MergeLoco(r) \/ Judge(r) \/ AppendTranscript(r) \/ Outage(r)
    <3>1. req'[r].at \notin {"attribute", "mirror", "reverse", "flip", "merge_loco"}
      <4>1. CASE Send(r) \/ MergeLoco(r) \/ Judge(r)
        BY <1>0, <4>1, WhereTo DEF Send, MergeLoco, Judge
      <4>2. CASE Find(r) \/ Settle(r) \/ Mirror(r) \/ Enter(r)
        BY <1>0, <4>2, WhereTo DEF Onward
      <4>3. CASE ForgetSession(r) \/ Read(r) \/ AppendTranscript(r) \/ Outage(r)
        BY <1>0, <4>3, WhereTo DEF ForgetSession, Read, AppendTranscript, Outage
      <4>. QED BY <2>8, <4>1, <4>2, <4>3
    <3>. QED BY <1>2, <3>1 DEF HowFar
  <2>. QED BY <2>1, <2>2, <2>3, <2>4, <2>5, <2>6, <2>7, <2>8 DEF Step
<1>. QED BY <1>1, <1>2

\* A lookup apart, a session owns what it owned.
LEMMA OwnedStep ==
    ASSUME ServiceInv, NEW r \in DOMAIN Requests, Send(r) \/ Step(r),
           NEW s \in SessionIds, NEW n \in 1..Len(heap), Owned(n, s)'
    PROVE  Owned(n, s)
<1>0. Len(heap) \in Nat /\ ServiceTypes /\ n # 0 /\ n # Len(heap) + 1 /\ Requests[r].session \in SessionIds
  BY HeapIsKept, RequestTypes DEF ServiceInv
<1>1. store'[s] = n => store[s] = n
  <2>1. CASE Settle(r)
    BY <1>0, <2>1, SessStep
  <2>2. CASE ForgetSession(r)
    <3>1. store'[s] = IF s = Requests[r].session THEN 0 ELSE store[s]
      BY <1>0, <2>2 DEF ForgetSession, ServiceTypes
    <3>. QED BY <1>0, <3>1
  <2>3. CASE ~Settle(r) /\ ~ForgetSession(r)
    BY <2>3, StoreIsTyped
  <2>. QED BY <2>1, <2>2, <2>3
<1>2. ASSUME NEW q \in DOMAIN Requests, req'[q].sess = n, Requests[q].session = s
      PROVE  Owned(n, s)
  <2>1. CASE req'[q].sess = req[q].sess
    BY <1>2, <2>1 DEF Owned
  <2>2. CASE q = r /\ Settle(r)
    BY <1>1, <1>2, <2>2, SessStep DEF Owned
  <2>. QED BY <2>1, <2>2, SessStep
<1>. QED BY <1>1, <1>2 DEF Owned

\* A change that ends leaves config and the attributed loco's one; nothing else parts them.
LEMMA ApartKept ==
    ASSUME ServiceInv, BarInv, NEW r \in DOMAIN Requests, Send(r) \/ Step(r)
    PROVE  Apart'
<1>. SUFFICES ASSUME NEW s \in SessionIds, s \notin overlapped', NEW n \in 1..Len(heap'),
                     Owned(n, s)', ~AmidOn(n)'
              PROVE  Settled(heap'[n])
  BY DEF Apart, Settled, HasActive, Active
<1>0. ServiceTypes /\ s \notin overlapped
  BY FlightStep DEF ServiceInv
<1>1. CASE n \notin 1..Len(heap)
  BY <1>1, NewObject, NewSessionSettled
<1>2. CASE n \in 1..Len(heap) /\ ~(n = req[r].sess /\ Writes(r))
  <2>1. Owned(n, s) /\ SameBar(heap[n], heap'[n])
    BY <1>2, OwnedStep, OtherBarsKept
  <2>2. ~AmidOn(n)
    <3>. SUFFICES ASSUME NEW u \in DOMAIN Requests, req[u].sess = n, req[u].at \in Amid PROVE FALSE
      BY DEF AmidOn
    <3>1. u # r
      BY <1>2 DEF Writes, Writing
    <3>2. req'[u] = req[u]
      BY <1>0, <3>1, OthersStandStill
    <3>. QED BY <3>2 DEF AmidOn
  <2>3. Settled(heap[n])
    BY <1>0, <1>2, <2>1, <2>2 DEF BarInv, Apart
  <2>. QED BY <2>1, <2>3 DEF SameBar, Settled, HasActive, Active
<1>3. CASE n \in 1..Len(heap) /\ n = req[r].sess /\ Writes(r)
  <2>. DEFINE o == Sess(r)
              p == heap'[req[r].sess]
  <2>0. req[r].at \in Working /\ o \in Session /\ req[r].sess # 0 /\ ~Settle(r)
    BY <1>3, WriterHasSession DEF Writes, Writing, Amid, Working, Turning, Settle, In
  <2>1. Requests[r].session = s
    <3>1. Owned(n, s)
      BY <1>3, OwnedStep
    <3>. QED BY <1>3, <2>0, <3>1 DEF Owned, BarInv, OneOwner, ServiceInv, Attached
  <2>2. Calm(r) /\ HowFar(r)
    BY <1>0, <2>1 DEF Calm, BarInv, Midway
  <2>3. req'[r].at \notin Amid
    <3>1. req'[r].sess = n
      BY <1>3, <2>0, ProgressIsTyped
    <3>. QED BY <3>1 DEF AmidOn
  <2>4. ~Rows(r) /\ ~Attribute(r) /\ ~Flip(r) /\ ~Reverse(r)
    <3>1. ~Rows(r) /\ ~Attribute(r) /\ ~Flip(r)
      BY <1>0, <2>3, WhereTo DEF Rows, Attribute, Flip, Amid
    <3>2. ~Reverse(r)
      BY <1>0, <2>2, <2>3, WhereTo DEF Reverse, Amid, In, HowFar
    <3>. QED BY <3>1, <3>2
  <2>5. ~Merge(r)
    BY <1>0, <1>3, <2>3, WhereTo DEF Merge, Amid, In, Writes, Writing
  <2>6. CASE Mirror(r)
    <3>1. HasActive(o)
      BY <2>2, <2>6 DEF Mirror, In, HowFar
    <3>2. p.locos = o.locos /\ p.active = o.active /\ p.config = Active(o).config
      BY <1>3, <2>6, <3>1, BarWrites
    <3>. QED BY <1>3, <3>1, <3>2 DEF Settled, HasActive, Active
  <2>7. CASE MergeLoco(r)
    <3>1. /\ p.active = o.active /\ p.config = o.config /\ HasActive(o)
          /\ p.locos = [o.locos EXCEPT ![o.active + 1].config = Requests[r].says]
      BY <1>3, <2>7, BarWrites
    <3>2. o.config = Requests[r].says
      BY <2>2, <2>7 DEF MergeLoco, In, HowFar
    <3>3. /\ o.locos \in Seq(LocoInfo) /\ o.active + 1 \in 1..Len(o.locos) /\ Requests[r].says \in Config
      BY <2>0, <3>1, WriterHasSession, RequestTypes DEF Session, HasActive
    <3>4. Len(p.locos) = Len(o.locos) /\ p.locos[o.active + 1].config = Requests[r].says
      BY <3>1, <3>3, RestatedRow
    <3>. QED BY <1>3, <3>1, <3>2, <3>4 DEF Settled, HasActive, Active
  <2>8. CASE Outage(r)
    <3>1. req[r].at = "parse" /\ heap' = heap
      BY <1>3, <2>2, <2>8 DEF Outage, In, HowFar, Writes, Writing, Amid
    <3>2. Settled(o)
      BY <1>3, <2>2, <3>1, OwnChangeOnly DEF Amid
    <3>. QED BY <1>3, <3>1, <3>2 DEF Sess
  <2>. QED
    BY <1>3, <2>4, <2>5, <2>6, <2>7, <2>8 DEF Writes, Writing, Amid, Step, Send, Find, Settle, ForgetSession,
       Count, Read, Enter, Judge, AppendTranscript, In
<1>. QED BY <1>1, <1>2, <1>3

\* Only a forgotten session is not where a turn that set its bar left it.
LEMMA KeepsSessionKept ==
    ASSUME ServiceInv, BarInv, NEW r \in DOMAIN Requests, Send(r) \/ Step(r)
    PROVE  KeepsSession'
<1>. SUFFICES ASSUME NEW q \in DOMAIN Requests, Kept(q)'
              PROVE  req'[q].sess # 0 /\ store'[Requests[q].session] = req'[q].sess
  BY DEF KeepsSession
<1>. DEFINE id == Requests[q].session
<1>0. /\ ServiceTypes /\ id \in SessionIds /\ q \notin late
      /\ Requests[r].session \in SessionIds
  <2>1. late \subseteq late'
    BY DEF Step, Send, Find, Settle, ForgetSession, Rows, Attribute, Mirror, Count, Reverse, Flip, Read,
           Enter, Merge, MergeLoco, Judge, AppendTranscript, Outage
  <2>. QED BY <2>1, RequestTypes DEF Kept, ServiceInv
<1>1. CASE q = r /\ Settle(r)
  BY <1>1, SessStep
<1>2. CASE q = r /\ Mirror(r)
  <2>1. req[r].at \in Working
    BY <1>2 DEF Mirror, In, Working
  <2>2. req[r].sess # 0 /\ store[id] = req[r].sess
    BY <1>0, <1>2, <2>1 DEF ServiceInv, Attached
  <2>3. store' = store /\ req'[r].sess = req[r].sess
    BY <1>2, ProgressIsTyped DEF Mirror, Settle, In
  <2>. QED BY <1>2, <2>2, <2>3
<1>3. CASE q = r /\ ~Settle(r) /\ ~Mirror(r)
  <2>1. req[r].applied
    BY <1>0, <1>3, ProgressKept DEF Kept
  <2>2. r \in InFlight
    BY <1>0, <2>1, FlightStep DEF BarInv, ChangePlaces, In
  <2>3. req[r].sess # 0 /\ store[id] = req[r].sess
    BY <1>0, <1>3, <2>1, <2>2 DEF BarInv, KeepsSession, Kept
  <2>4. ~ForgetSession(r)
    <3>1. req[r].applied => Requests[r].kind = "turn"
      BY DEF BarInv, ChangePlaces
    <3>. QED BY <2>1, <3>1 DEF ServiceInv, RightPlace, ForgetSession, In
  <2>5. store' = store /\ req'[r].sess = req[r].sess
    BY <1>3, <2>4, StoreIsTyped, ProgressIsTyped
  <2>. QED BY <1>3, <2>3, <2>5
<1>4. CASE q # r
  <2>1. req'[q] = req[q] /\ q \in InFlight
    BY <1>0, <1>4, OthersStandStill, FlightStep DEF Kept
  <2>2. req[q].sess # 0 /\ store[id] = req[q].sess
    BY <1>0, <2>1 DEF BarInv, KeepsSession, Kept
  <2>3. store'[id] = store[id]
    <3>1. CASE Settle(r)
      BY <1>0, <2>2, <3>1, SessStep
    <3>2. CASE ForgetSession(r)
      <4>1. Requests[r].session # id
        BY <2>1, <3>2 DEF ForgetSession, Kept
      <4>. QED BY <1>0, <3>2, <4>1 DEF ForgetSession, ServiceTypes
    <3>3. CASE ~Settle(r) /\ ~ForgetSession(r)
      BY <3>3, StoreIsTyped
    <3>. QED BY <3>1, <3>2, <3>3
  <2>. QED BY <2>1, <2>2, <2>3
<1>. QED BY <1>1, <1>2, <1>3, <1>4

\* Nobody but its own statement writes the bar of a turn that set it, and that leaves
\* the locos as they are.
LEMMA KeepsBarKept ==
    ASSUME ServiceInv, BarInv, NEW r \in DOMAIN Requests, Send(r) \/ Step(r)
    PROVE  KeepsBar'
<1>. SUFFICES ASSUME NEW q \in DOMAIN Requests, Kept(q)', Calm(q)'
              PROVE  SameRows(heap'[req'[q].sess].locos, Requests[q].bar.locos)
  BY DEF KeepsBar, Sess, SameRows
<1>0. ServiceTypes /\ Calm(q) /\ HowFar(q) /\ q \notin late
  <2>1. late \subseteq late'
    BY DEF Step, Send, Find, Settle, ForgetSession, Rows, Attribute, Mirror, Count, Reverse, Flip, Read,
           Enter, Merge, MergeLoco, Judge, AppendTranscript, Outage
  <2>. QED BY <2>1, FlightStep DEF Kept, ServiceInv, BarInv, Midway, Calm
<1>1. CASE q = r /\ Mirror(r) /\ ~req[r].applied
  <2>1. Writes(r) /\ req[r].at = "mirror" /\ req'[r].sess = req[r].sess
    BY <1>1, ProgressIsTyped DEF Mirror, In, Writes, Writing, Amid, Settle
  <2>2. Requests[r].kind = "turn" /\ HasActive(Sess(r))
    BY <1>0, <1>1, ProgressKept DEF Kept
  <2>3. Requests[r].bar # NoBar
    BY <2>1, <2>2 DEF BarInv, ChangePlaces
  <2>4. heap'[req[r].sess].locos = Requests[r].bar.locos
    BY <1>0, <1>1, <2>1, <2>2, <2>3, BarWrites DEF HowFar
  <2>. QED BY <1>1, <2>1, <2>4 DEF SameRows
<1>2. CASE ~(q = r /\ Mirror(r) /\ ~req[r].applied)
  <2>1. req[q].applied
    BY <1>0, <1>2, OthersStandStill, ProgressKept DEF Kept
  <2>2. q \in InFlight
    BY <1>0, <2>1, FlightStep DEF Kept, BarInv, ChangePlaces, In
  <2>3. Kept(q) /\ Requests[q].kind = "turn" /\ Requests[q].bar # NoBar /\ ChangesBar(q)
    BY <1>0, <2>1, <2>2 DEF Kept, BarInv, ChangePlaces, ChangesBar
  <2>4. /\ SameRows(Sess(q).locos, Requests[q].bar.locos)
        /\ req[q].sess # 0 /\ store[Requests[q].session] = req[q].sess
    BY <1>0, <2>3 DEF BarInv, KeepsBar, KeepsSession
  <2>5. req'[q].sess = req[q].sess /\ req[q].sess \in 1..Len(heap)
    <3>1. req[q].sess \in 1..Len(heap)
      BY <1>0, <2>4, SessionOfRequest
    <3>2. CASE q = r /\ Settle(r)
      BY <2>4, <3>1, <3>2, SessStep
    <3>. QED BY <3>1, <3>2, SessStep
  <2>6. CASE ~(req[q].sess = req[r].sess /\ Writes(r))
    BY <2>4, <2>5, <2>6, OtherBarsKept DEF SameBar, Sess
  <2>7. CASE req[q].sess = req[r].sess /\ Writes(r)
    <3>1. q = r
      BY <1>0, <2>2, <2>3, <2>7, WriterAlone
    <3>. DEFINE o == Sess(r)
                p == heap'[req[r].sess]
    <3>2. CASE Rows(r)
      <4>1. p.locos = Requests[r].bar.locos
        BY <2>7, <3>2, BarWrites
      <4>. QED BY <2>5, <3>1, <4>1 DEF SameRows
    <3>3. CASE Attribute(r) \/ Mirror(r) \/ Merge(r)
      <4>1. p.locos = o.locos
        BY <2>7, <3>3, BarWrites
      <4>. QED BY <2>4, <2>5, <3>1, <4>1
    <3>4. CASE MergeLoco(r)
      <4>1. HasActive(o) /\ p.locos = [o.locos EXCEPT ![o.active + 1].config = Requests[r].says]
        BY <2>7, <3>4, BarWrites
      <4>2. /\ o.locos \in Seq(LocoInfo) /\ o.active + 1 \in 1..Len(o.locos) /\ Requests[r].says \in Config
            /\ DOMAIN o.locos = 1..Len(o.locos)
        BY <3>4, <4>1, WriterHasSession, RequestTypes DEF Session, HasActive, MergeLoco, In, Working, Turning
      <4>3. Len(p.locos) = Len(o.locos) /\ \A k \in 1..Len(o.locos) : p.locos[k].number = o.locos[k].number
        BY <4>1, <4>2, RestatedRow
      <4>4. DOMAIN p.locos = DOMAIN o.locos
        BY <4>1
      <4>. QED BY <2>4, <2>5, <3>1, <4>2, <4>3, <4>4 DEF SameRows
    <3>5. CASE Outage(r)
      BY <2>4, <2>5, <3>5 DEF Outage, Sess
    <3>6. ~Reverse(r) /\ ~Flip(r)
      BY <2>3, <3>1 DEF BarInv, ChangePlaces, Reverse, Flip, In
    <3>. QED
      BY <2>7, <3>2, <3>3, <3>4, <3>5, <3>6 DEF Writes, Writing, Amid, Step, Send, Find, Settle, ForgetSession,
         Count, Read, Enter, Judge, AppendTranscript, In
  <2>. QED BY <2>6, <2>7
<1>. QED BY <1>1, <1>2

-----------------------------------------------------------------------------
(* The invariant, and what it says of the bar. *)

\* Before the first request there is no bar.
LEMMA BarInvInitially ==
    ServiceInit => BarInv
<1>. SUFFICES ASSUME ServiceInit PROVE BarInv
  OBVIOUS
<1>1. heap = << >> /\ Len(heap) = 0
  BY DEF ServiceInit
<1>2. \A r \in DOMAIN Requests : req[r].at = "unsent" /\ req[r].sess = 0 /\ ~req[r].applied
  BY DEF ServiceInit, NewRequest
<1>3. InFlight = {}
  BY <1>2 DEF InFlight
<1>4. OneChanges /\ OneOwner /\ RowsHold
  BY <1>1, <1>2, <1>3 DEF OneChanges, OneOwner, RowsHold
<1>5. ChangePlaces /\ Midway
  BY <1>2 DEF ChangePlaces, Midway, HowFar, Turning
<1>6. Apart /\ KeepsSession /\ KeepsBar
  BY <1>1, <1>2 DEF Apart, KeepsSession, KeepsBar, Kept
<1>. QED BY <1>4, <1>5, <1>6 DEF BarInv

\* The invariant of the bar is inductive relative to that of the service.
LEMMA BarInvKept ==
    ServiceInv /\ BarInv /\ [ServiceNext]_serviceVars => BarInv'
<1>. SUFFICES ASSUME ServiceInv, BarInv, [ServiceNext]_serviceVars PROVE BarInv'
  OBVIOUS
<1>1. ASSUME NEW r \in DOMAIN Requests, Send(r) \/ Step(r)
      PROVE  BarInv'
  <2>1. OneChanges' /\ OneOwner' /\ RowsHold' /\ ChangePlaces'
    BY <1>1, OneChangesKept, OneOwnerKept, RowsHoldKept, ChangePlacesKept DEF BarInv
  <2>2. Midway' /\ Apart' /\ KeepsSession' /\ KeepsBar'
    BY <1>1, MidwayKept, ApartKept, KeepsSessionKept, KeepsBarKept
  <2>. QED BY <2>1, <2>2 DEF BarInv
<1>2. CASE UNCHANGED serviceVars
  <2>1. OneChanges' /\ OneOwner' /\ RowsHold' /\ ChangePlaces'
    BY <1>2 DEF serviceVars, BarInv, OneChanges, OneOwner, RowsHold, ChangePlaces, InFlight, Calm
  <2>2. Midway'
    BY <1>2 DEF serviceVars, BarInv, Midway, Calm, HowFar, HasActive, Active, Sess
  <2>3. Apart'
    BY <1>2 DEF serviceVars, BarInv, Apart, Owned, AmidOn, Settled, HasActive, Active
  <2>4. KeepsSession' /\ KeepsBar'
    BY <1>2 DEF serviceVars, BarInv, KeepsSession, KeepsBar, Kept, InFlight, Calm, SameRows, Sess
  <2>. QED BY <2>1, <2>2, <2>3, <2>4 DEF BarInv
<1>. QED BY <1>1, <1>2 DEF ServiceNext

\* The invariants hold for ever, whatever the requests and however their threads run.
LEMMA BarInvHolds ==
    ServiceSpec => []ServiceInv /\ []BarInv
BY ServiceInvInitially, ServiceInvKept, BarInvInitially, BarInvKept, PTL DEF ServiceSpec

\* Whatever the requests: a session whose changes of the bar never ran side by side has,
\* between them, the fault on a loco of its bar and that loco's configuration for its own.
THEOREM BarComesToRest == ServiceSpec => []BarSettles
<1>1. ServiceInv /\ BarInv => BarSettles
  <2>. SUFFICES ASSUME ServiceInv, BarInv, NEW s \in SessionIds,
                       store[s] # 0, s \notin overlapped, Changing(s) = {}
                PROVE  Settled(heap[store[s]])
    BY DEF BarSettles, Settled
  <2>1. store[s] \in 1..Len(heap)
    BY SessInHeap, LenProperties DEF ServiceInv, ServiceTypes
  <2>2. ~AmidOn(store[s])
    <3>. SUFFICES ASSUME NEW u \in DOMAIN Requests, req[u].sess = store[s], req[u].at \in Amid PROVE FALSE
      BY DEF AmidOn
    <3>1. ChangesBar(u) /\ u \in InFlight
      BY WriterChanges DEF ServiceInv, BarInv, Writes, Writing
    <3>2. Requests[u].session = s
      BY DEF ServiceInv, Attached
    <3>. QED BY <3>1, <3>2 DEF Changing
  <2>3. Owned(store[s], s)
    BY DEF Owned
  <2>. QED BY <2>1, <2>2, <2>3 DEF BarInv, Apart
<1>. QED BY <1>1, BarInvHolds, PTL

\* A swap that is not beside another change leaves the fault with the loco it was on,
\* whatever turns, failures and forgotten sessions come between its steps.
THEOREM SwapsKeepAttribution == ServiceSpec => SwapKeepsAttribution
<1>. DEFINE Keeps ==
       \A r \in DOMAIN Requests :
          (Requests[r].kind = "swap" /\ In(r, "mirror") /\ req'[r].outcome = "ok"
              /\ Requests[r].session \notin overlapped)
          => Active(heap'[req[r].sess]).number = req[r].before
<1>1. ServiceInv /\ BarInv /\ [ServiceNext]_serviceVars => Keeps
  <2>. SUFFICES ASSUME ServiceInv, BarInv, [ServiceNext]_serviceVars, NEW r \in DOMAIN Requests,
                       Requests[r].kind = "swap", In(r, "mirror"), req'[r].outcome = "ok",
                       Requests[r].session \notin overlapped
                PROVE  Active(heap'[req[r].sess]).number = req[r].before
    OBVIOUS
  <2>0. ServiceTypes /\ req[r].outcome # "ok"
    BY DEF ServiceInv, RightPlace, In, Nobody
  <2>1. Send(r) \/ Step(r)
    BY <2>0, OthersStandStill DEF ServiceNext, serviceVars
  <2>2. Mirror(r) /\ Writes(r)
    BY <2>1 DEF Step, Send, Find, Settle, ForgetSession, Rows, Attribute, Count, Reverse, Flip, Read,
           Enter, Merge, MergeLoco, Judge, AppendTranscript, Outage, In, Writes, Writing, Amid
  <2>3. HasActive(Sess(r)) /\ Active(Sess(r)).number = req[r].before
    BY DEF BarInv, Midway, Calm, HowFar, In
  <2>4. heap'[req[r].sess].locos = Sess(r).locos /\ heap'[req[r].sess].active = Sess(r).active
    BY <2>2, <2>3, BarWrites
  <2>. QED BY <2>3, <2>4 DEF Active
<1>. QED BY <1>1, BarInvHolds, PTL DEF ServiceSpec, SwapKeepsAttribution

\* A turn that brought a bar is judged on the locos of that bar, although it let go of the
\* session and waited for its lock in between.
THEOREM TurnsAreJudgedOnTheirBar == ServiceSpec => TurnJudgedOnItsBar
<1>. DEFINE Judged ==
       \A r \in Turns :
          (In(r, "judge") /\ req'[r].at = "append" /\ Requests[r].bar # NoBar
              /\ Requests[r].session \notin overlapped /\ r \notin late)
          => /\ Len(Sess(r).locos) = Len(Requests[r].bar.locos)
             /\ \A n \in DOMAIN Sess(r).locos : Sess(r).locos[n].number = Requests[r].bar.locos[n].number
<1>1. BarInv => Judged
  <2>. SUFFICES ASSUME BarInv, NEW r \in Turns, In(r, "judge"), Requests[r].bar # NoBar,
                       Requests[r].session \notin overlapped, r \notin late
                PROVE  SameRows(Sess(r).locos, Requests[r].bar.locos)
    BY DEF SameRows
  <2>1. r \in DOMAIN Requests /\ r \in InFlight /\ req[r].applied
    BY DEF Turns, InFlight, In, BarInv, ChangePlaces, Turning
  <2>. QED BY <2>1 DEF BarInv, KeepsBar, Kept, Calm
<1>. QED BY <1>1, BarInvHolds, PTL DEF ServiceSpec, TurnJudgedOnItsBar
=============================================================================
