---------------------------- MODULE ServiceProofs ----------------------------
(***************************************************************************)
(* However many requests come in, in whatever order their threads run, the  *)
(* conversations of the service are those of Sessions.                      *)
(***************************************************************************)
EXTENDS Service, SequenceTheorems, TLAPS

Places == {"unsent", "find", "settle", "forget", "rows", "attribute", "mirror", "count", "reverse", "flip",
           "read", "enter", "parse", "merge_loco", "judge", "append", "done"}

\* The places of a request that holds the lock, of a turn past its lookup, and of any
\* request that works on a session it has looked up.
Holding == {"settle", "parse", "merge_loco", "judge", "append"}
Turning == {"enter", "parse", "merge_loco", "judge", "append"}
Working == {"rows", "attribute", "mirror", "count", "reverse", "flip", "read"} \cup Turning

Names == DOMAIN Requests \cup {Nobody}
Entry == [turn : DOMAIN Requests, heard : Names]

Session == [locos : Seq(LocoInfo), active : 0..1, config : Config, lastAssistant : Names,
            transcript : Seq(Entry)]

Progress == [at : Places, sess : Nat, absent : BOOLEAN, applied : BOOLEAN, heard : Names,
             before : Numbers \cup {"", Nobody}, outcome : {Nobody, "ok", "failed", "conflict"}]

-----------------------------------------------------------------------------
(* The inductive invariant, part by part.                                   *)

ServiceTypes ==
    /\ heap \in Seq(Session)
    /\ store \in [SessionIds -> 0..Len(heap)]
    /\ lock \in Names
    /\ req \in [DOMAIN Requests -> Progress]
    /\ \A r \in DOMAIN Requests : req[r].sess \in 0..Len(heap)
    /\ late \subseteq DOMAIN Requests

\* The lock is held by the one request that is in a critical section.
OneHolds == \A r \in DOMAIN Requests : lock = r <=> req[r].at \in Holding

\* What each place says of the request that is there.
RightPlace ==
    \A r \in DOMAIN Requests :
        /\ req[r].at \in Turning => Requests[r].kind = "turn"
        /\ req[r].at \in {"count", "reverse", "flip", "read"} => Requests[r].kind # "turn"
        /\ req[r].at \in {"rows", "attribute"} => Requests[r].bar # NoBar
        /\ req[r].at = "forget" => Requests[r].kind = "forget"
        /\ req[r].at = "unsent" => r \notin late
        /\ req[r].at # "done" => req[r].outcome = Nobody

\* An id leads to one session object and the object belongs to one id; a request works on
\* the object its id leads to unless that was forgotten since it was sent.
Attached ==
    /\ \A s, t \in SessionIds : store[s] = store[t] /\ store[s] # 0 => s = t
    /\ \A r \in DOMAIN Requests :
        /\ req[r].at \in Working => req[r].sess # 0
        /\ \A s \in SessionIds : req[r].sess # 0 /\ store[s] = req[r].sess => s = Requests[r].session
        /\ req[r].at \in Working /\ r \notin late => store[Requests[r].session] = req[r].sess
        /\ req[r].at = "settle" => (req[r].absent <=> store[Requests[r].session] = 0)

\* The last answer of a session is the last of its transcript, but for the turn that is
\* about to be appended; and a turn is judged in the light of that answer.
InOrder ==
    /\ \A n \in 1..Len(heap) :
          \/ heap[n].lastAssistant = Conversations!LastOf(heap[n].transcript)
          \/ \E r \in DOMAIN Requests : req[r].at = "append" /\ req[r].sess = n
    /\ \A r \in DOMAIN Requests :
          /\ req[r].at \in {"parse", "merge_loco", "judge", "append"} =>
                req[r].heard = Conversations!LastOf(heap[req[r].sess].transcript)
          /\ req[r].at = "append" => heap[req[r].sess].lastAssistant = r

ServiceInv == ServiceTypes /\ OneHolds /\ RightPlace /\ Attached /\ InOrder

-----------------------------------------------------------------------------
(* Types. *)

\* The session a request works on, and what writing it does to the others.
LEMMA SessionOfRequest ==
    ASSUME ServiceTypes, NEW r \in DOMAIN Requests, req[r].sess # 0
    PROVE  req[r].sess \in 1..Len(heap) /\ Sess(r) \in Session
<1>1. req[r].sess \in 1..Len(heap)
  BY LenProperties DEF ServiceTypes
<1>. QED BY <1>1, ElementOfSeq DEF ServiceTypes, Sess

\* Writing the session a request works on writes that session alone.
LEMMA SetsOneSession ==
    ASSUME ServiceTypes, NEW r \in DOMAIN Requests, req[r].sess # 0, NEW o \in Session, Set(r, o)
    PROVE  /\ heap' \in Seq(Session) /\ Len(heap') = Len(heap)
           /\ \A n \in 1..Len(heap) : heap'[n] = IF n = req[r].sess THEN o ELSE heap[n]
BY SessionOfRequest, ExceptSeq DEF ServiceTypes, Set

\* Nothing is said in any session, and no session is made.
NothingSaid ==
    /\ heap' \in Seq(Session) /\ Len(heap') = Len(heap)
    /\ \A n \in 1..Len(heap) : /\ heap'[n].transcript = heap[n].transcript
                               /\ heap'[n].lastAssistant = heap[n].lastAssistant

\* A session whose bar alone is written.
BarWritten(o, p) ==
    p \in Session /\ p.transcript = o.transcript /\ p.lastAssistant = o.lastAssistant

\* A write of the bar leaves transcripts and last answers as they are.
LEMMA BarWrittenSaysNothing ==
    ASSUME ServiceTypes, NEW r \in DOMAIN Requests, req[r].sess # 0,
           NEW o, BarWritten(Sess(r), o), Set(r, o)
    PROVE  NothingSaid
BY SessionOfRequest, SetsOneSession DEF BarWritten, NothingSaid, Sess

\* A bar of one row is a bar.
LEMMA SeqOfOne ==
    ASSUME NEW S, NEW x \in S
    PROVE  << x >> \in Seq(S)
OBVIOUS

\* The requests are of the kinds the service knows.
LEMMA RequestTypes ==
    ASSUME NEW r \in DOMAIN Requests
    PROVE  /\ Requests[r].session \in SessionIds /\ Requests[r].says \in Config
           /\ Requests[r].bar.locos \in Seq(LocoInfo) /\ Requests[r].bar.active \in 0..1
BY RequestsAssumption

\* Setting, swapping or mirroring the bar says nothing.
LEMMA BarStepSaysNothing ==
    ASSUME ServiceInv, NEW r \in DOMAIN Requests,
           Rows(r) \/ Attribute(r) \/ Mirror(r) \/ Reverse(r) \/ Flip(r) \/ Merge(r) \/ MergeLoco(r)
    PROVE  NothingSaid
<1>1. req[r].at \in Working
  BY DEF Rows, Attribute, Mirror, Reverse, Flip, Merge, MergeLoco, In, Working, Turning
<1>2. /\ ServiceTypes /\ req[r].sess # 0 /\ Sess(r) \in Session
  BY <1>1, SessionOfRequest DEF ServiceInv, Attached
<1>. DEFINE o == Sess(r)
<1>3. o \in [locos : Seq(LocoInfo), active : 0..1, config : Config, lastAssistant : Names, transcript : Seq(Entry)]
  BY <1>2 DEF Session
<1>4. CASE UNCHANGED heap
  BY <1>2, <1>4 DEF NothingSaid, ServiceTypes
<1>5. CASE Rows(r)
  <2>1. BarWritten(o, [o EXCEPT !.locos = Requests[r].bar.locos])
    BY <1>3, RequestTypes DEF BarWritten, Session
  <2>. QED BY <1>2, <1>5, <2>1, BarWrittenSaysNothing DEF Rows
<1>6. CASE Attribute(r)
  <2>. DEFINE last == Len(Requests[r].bar.locos) - 1
              act == IF Requests[r].bar.active < last THEN Requests[r].bar.active ELSE last
  <2>1. act \in 0..1
    <3>1. Requests[r].bar # NoBar /\ Requests[r].bar.active \in 0..1
      BY <1>6, RequestTypes DEF Attribute, In, ServiceInv, RightPlace
    <3>2. last \in 0..1
      BY <3>1, RequestsAssumption
    <3>. QED BY <3>1, <3>2
  <2>2. BarWritten(o, [o EXCEPT !.active = act])
    BY <1>3, <2>1 DEF BarWritten, Session
  <2>. QED BY <1>2, <1>6, <2>2, BarWrittenSaysNothing DEF Attribute
<1>7. CASE Mirror(r) /\ HasActive(o)
  <2>1. Active(o).config \in Config
    <3>1. o.active + 1 \in 1..Len(o.locos)
      BY <1>3, <1>7, LenProperties DEF HasActive
    <3>2. o.locos[o.active + 1] \in LocoInfo
      BY <1>3, <3>1, ElementOfSeq
    <3>. QED BY <3>2 DEF Active, LocoInfo
  <2>2. BarWritten(o, [o EXCEPT !.config = Active(o).config])
    BY <1>3, <2>1 DEF BarWritten, Session
  <2>. QED BY <1>2, <1>7, <2>2, BarWrittenSaysNothing DEF Mirror
<1>8. CASE Reverse(r) /\ Len(o.locos) = 2
  <2>1. BarWritten(o, [o EXCEPT !.locos = << @[2], @[1] >>])
    <3>1. o.locos[1] \in LocoInfo /\ o.locos[2] \in LocoInfo
      BY <1>3, <1>8, ElementOfSeq
    <3>2. << o.locos[2], o.locos[1] >> \in Seq(LocoInfo)
      BY <3>1
    <3>. QED BY <1>3, <3>2 DEF BarWritten, Session
  <2>. QED BY <1>2, <1>8, <2>1, BarWrittenSaysNothing DEF Reverse
<1>9. CASE Flip(r)
  <2>1. BarWritten(o, [o EXCEPT !.active = 1 - @])
    BY <1>3 DEF BarWritten, Session
  <2>. QED BY <1>2, <1>9, <2>1, BarWrittenSaysNothing DEF Flip
<1>10. CASE Merge(r) /\ Requests[r].says # Unknown
  <2>1. BarWritten(o, [o EXCEPT !.config = Requests[r].says])
    BY <1>3, RequestTypes DEF BarWritten, Session
  <2>. QED BY <1>2, <1>10, <2>1, BarWrittenSaysNothing DEF Merge
<1>11. CASE MergeLoco(r)
  <2>1. BarWritten(o, [o EXCEPT !.locos[o.active + 1].config = Requests[r].says])
    <3>1. o.active + 1 \in 1..Len(o.locos)
      BY <1>3, <1>11, LenProperties DEF MergeLoco, HasActive
    <3>2. [o.locos[o.active + 1] EXCEPT !.config = Requests[r].says] \in LocoInfo
      <4>1. o.locos[o.active + 1] \in LocoInfo /\ Requests[r].says \in Config
        BY <1>3, <3>1, ElementOfSeq, RequestTypes
      <4>2. \A row \in LocoInfo, c \in Config : [row EXCEPT !.config = c] \in LocoInfo
        BY DEF LocoInfo
      <4>. QED BY <4>1, <4>2
    <3>3. [o.locos EXCEPT ![o.active + 1].config = Requests[r].says] \in Seq(LocoInfo)
      BY <1>3, <3>1, <3>2, ExceptSeq
    <3>. QED BY <1>3, <3>3 DEF BarWritten, Session
  <2>. QED BY <1>2, <1>11, <2>1, BarWrittenSaysNothing DEF MergeLoco
<1>. QED BY <1>4, <1>5, <1>6, <1>7, <1>8, <1>9, <1>10, <1>11 DEF Mirror, Reverse, Merge

\* What a turn says is its answer, and what is appended its entry; a lookup may make a
\* session, with nothing in it.
LEMMA JudgeSetsAnswer ==
    ASSUME ServiceInv, NEW r \in DOMAIN Requests, Judge(r)
    PROVE  /\ heap' \in Seq(Session) /\ Len(heap') = Len(heap) /\ req[r].sess \in 1..Len(heap)
           /\ \A n \in 1..Len(heap) : heap'[n] = IF n = req[r].sess THEN [Sess(r) EXCEPT !.lastAssistant = r] ELSE heap[n]
<1>1. req[r].sess \in 1..Len(heap) /\ Sess(r) \in Session /\ ServiceTypes /\ req[r].sess # 0
  BY SessionOfRequest DEF Judge, In, ServiceInv, Attached, Working, Turning
<1>2. [Sess(r) EXCEPT !.lastAssistant = r] \in Session
  BY <1>1 DEF Session, Names
<1>. QED BY <1>1, <1>2, SetsOneSession DEF Judge

\* The last step of an answered turn adds its entry to its session's transcript alone.
LEMMA AppendAddsEntry ==
    ASSUME ServiceInv, NEW r \in DOMAIN Requests, AppendTranscript(r)
    PROVE  /\ heap' \in Seq(Session) /\ Len(heap') = Len(heap) /\ req[r].sess \in 1..Len(heap)
           /\ \A n \in 1..Len(heap) :
                heap'[n] = IF n = req[r].sess
                           THEN [Sess(r) EXCEPT !.transcript = Append(@, [turn |-> r, heard |-> req[r].heard])]
                           ELSE heap[n]
<1>1. req[r].sess \in 1..Len(heap) /\ Sess(r) \in Session /\ ServiceTypes /\ req[r].sess # 0
  BY SessionOfRequest DEF AppendTranscript, In, ServiceInv, Attached, Working, Turning
<1>2. [turn |-> r, heard |-> req[r].heard] \in Entry
  BY <1>1 DEF ServiceTypes, Progress, Entry
<1>3. Append(Sess(r).transcript, [turn |-> r, heard |-> req[r].heard]) \in Seq(Entry)
  BY <1>1, <1>2, AppendProperties DEF Session
<1>4. [Sess(r) EXCEPT !.transcript = Append(@, [turn |-> r, heard |-> req[r].heard])] \in Session
  BY <1>1, <1>3 DEF Session
<1>. QED BY <1>1, <1>4, SetsOneSession DEF AppendTranscript

\* A lookup finds the session, or makes one at the end of the heap with nothing said in it.
LEMMA SettleFindsSession ==
    ASSUME ServiceInv, NEW r \in DOMAIN Requests, Settle(r)
    PROVE  \/ req[r].absent /\ heap' = Append(heap, NewSession) /\ heap' \in Seq(Session)
              /\ Len(heap') = Len(heap) + 1 /\ heap'[Len(heap) + 1] = NewSession
              /\ \A n \in 1..Len(heap) : heap'[n] = heap[n]
           \/ ~req[r].absent /\ UNCHANGED heap
<1>1. CASE req[r].absent
  <2>1. << Loco("", Unknown) >> \in Seq(LocoInfo)
    <3>1. Loco("", Unknown) \in LocoInfo
      BY DEF Loco, LocoInfo, Config
    <3>. QED BY <3>1, SeqOfOne
  <2>2. << >> \in Seq(Entry)
    BY EmptySeq
  <2>3. NewSession \in Session
    <3>1. 0 \in 0..1 /\ Unknown \in Config /\ Nobody \in Names
      BY DEF Config, Names
    <3>. HIDE DEF Unknown, Nobody, Names, Entry, LocoInfo
    <3>. QED BY <2>1, <2>2, <3>1 DEF NewSession, Session
  <2>4. heap \in Seq(Session) /\ heap' = Append(heap, NewSession)
    BY <1>1 DEF Settle, ServiceInv, ServiceTypes
  <2>5. /\ heap' \in Seq(Session) /\ Len(heap') = Len(heap) + 1 /\ heap'[Len(heap) + 1] = NewSession
        /\ \A n \in 1..Len(heap) : heap'[n] = heap[n]
    <3>. HIDE DEF NewSession, Session
    <3>. QED BY <2>3, <2>4, AppendProperties
  <2>. QED BY <1>1, <2>4, <2>5
<1>. QED BY <1>1 DEF Settle

\* Sessions are typed after every step, and none is ever unmade.
LEMMA HeapIsKept ==
    ASSUME ServiceInv, NEW r \in DOMAIN Requests, Send(r) \/ Step(r)
    PROVE  heap' \in Seq(Session) /\ Len(heap) \in Nat /\ Len(heap') \in Nat /\ Len(heap') >= Len(heap)
<1>0. heap \in Seq(Session) /\ Len(heap) \in Nat
  BY LenProperties DEF ServiceInv, ServiceTypes
<1>1. CASE Judge(r)
  <2>1. heap' \in Seq(Session) /\ Len(heap') = Len(heap)
    BY <1>1, JudgeSetsAnswer
  <2>. QED BY <1>0, <2>1
<1>5. CASE AppendTranscript(r)
  <2>1. heap' \in Seq(Session) /\ Len(heap') = Len(heap)
    BY <1>5, AppendAddsEntry
  <2>. QED BY <1>0, <2>1
<1>2. CASE Settle(r)
  BY <1>0, <1>2, SettleFindsSession
<1>3. CASE Rows(r) \/ Attribute(r) \/ Mirror(r) \/ Reverse(r) \/ Flip(r) \/ Merge(r) \/ MergeLoco(r)
  BY <1>0, <1>3, BarStepSaysNothing DEF NothingSaid
<1>4. CASE Send(r) \/ Find(r) \/ ForgetSession(r) \/ Count(r) \/ Read(r) \/ Enter(r) \/ Outage(r)
  BY <1>0, <1>4 DEF Send, Find, ForgetSession, Count, Read, Enter, Outage
<1>. QED BY <1>1, <1>2, <1>3, <1>4, <1>5 DEF Step

\* A step moves the request it is of, and no other.
LEMMA OthersStandStill ==
    ASSUME ServiceTypes, NEW r \in DOMAIN Requests, Send(r) \/ Step(r), NEW q \in DOMAIN Requests, q # r
    PROVE  req'[q] = req[q]
<1>1. CASE Send(r) \/ Rows(r) \/ Attribute(r) \/ Mirror(r) \/ Reverse(r) \/ Flip(r) \/ Read(r)
  BY <1>1 DEF ServiceTypes, Send, Rows, Attribute, Mirror, Reverse, Flip, Read, Go, Done
<1>2. CASE Find(r) \/ Settle(r) \/ ForgetSession(r) \/ Count(r) \/ Enter(r)
  BY <1>2 DEF ServiceTypes, Find, Settle, ForgetSession, Count, Enter, Done
<1>3. CASE Merge(r) \/ MergeLoco(r) \/ Judge(r) \/ AppendTranscript(r) \/ Outage(r)
  BY <1>3 DEF ServiceTypes, Merge, MergeLoco, Judge, AppendTranscript, Outage, Go, Done
<1>. QED BY <1>1, <1>2, <1>3 DEF Step

\* Where a step takes its request, but for the lookup's end.
LEMMA WhereTo ==
    ASSUME ServiceTypes, NEW r \in DOMAIN Requests
    PROVE  /\ \A at : Go(r, at) => req'[r].at = at /\ req'[r].outcome = req[r].outcome
           /\ \A outcome : Done(r, outcome) => req'[r].at = "done"
           /\ Find(r) => req'[r].at = "settle" /\ (req'[r].absent <=> store[Requests[r].session] = 0)
           /\ Settle(r) => req'[r].at = Onward(r) /\ req'[r].sess = store'[Requests[r].session]
           /\ Mirror(r) => req'[r].at \in {"find", "done"}
           /\ Count(r) => req'[r].at \in {"reverse", "done"}
           /\ Enter(r) => req'[r].at = "parse" /\ req'[r].heard = Sess(r).lastAssistant
<1>1. req \in [DOMAIN Requests -> Progress] /\ req[r] \in Progress
  BY DEF ServiceTypes
<1>2. /\ \A at : Go(r, at) => req'[r].at = at /\ req'[r].outcome = req[r].outcome
      /\ \A outcome : Done(r, outcome) => req'[r].at = "done"
  BY <1>1 DEF Go, Done, Progress
<1>3. Find(r) => req'[r].at = "settle" /\ (req'[r].absent <=> store[Requests[r].session] = 0)
  <2>. DEFINE b == (store[Requests[r].session] = 0)
  <2>1. Find(r) => req' = [req EXCEPT ![r].at = "settle", ![r].absent = b]
    BY DEF Find
  <2>. HIDE DEF b
  <2>2. req' = [req EXCEPT ![r].at = "settle", ![r].absent = b] => req'[r].at = "settle" /\ req'[r].absent = b
    BY <1>1 DEF Progress
  <2>3. Find(r) => req'[r].at = "settle" /\ req'[r].absent = b
    BY <2>1, <2>2
  <2>. QED BY <2>3 DEF b
<1>4. Settle(r) => req'[r].at = Onward(r) /\ req'[r].sess = store'[Requests[r].session]
  BY <1>1, ZenonT(40) DEF Settle, Progress
<1>5. Mirror(r) => req'[r].at \in {"find", "done"}
  <2>1. req' = [req EXCEPT ![r].at = "find", ![r].applied = TRUE] => req'[r].at = "find"
    BY <1>1 DEF Progress
  <2>. QED BY <1>2, <2>1 DEF Mirror
<1>6. Count(r) => req'[r].at \in {"reverse", "done"}
  <2>. DEFINE b == IF HasActive(Sess(r)) THEN Active(Sess(r)).number ELSE Nobody
  <2>1. Count(r) => req' = [req EXCEPT ![r].at = "reverse", ![r].before = b] \/ Done(r, "conflict")
    BY DEF Count
  <2>. HIDE DEF b
  <2>2. req' = [req EXCEPT ![r].at = "reverse", ![r].before = b] => req'[r].at = "reverse"
    BY <1>1 DEF Progress
  <2>. QED BY <1>2, <2>1, <2>2
<1>7. Enter(r) => req'[r].at = "parse" /\ req'[r].heard = Sess(r).lastAssistant
  BY <1>1, ZenonT(40) DEF Enter, Progress
<1>. QED BY <1>2, <1>3, <1>4, <1>5, <1>6, <1>7

\* The table of the program: from where to where each step goes.
LEMMA Transitions ==
    ASSUME ServiceTypes, NEW r \in DOMAIN Requests, Send(r) \/ Step(r)
    PROVE  LET from == req[r].at  to == req'[r].at IN
           \/ from = "unsent" /\ to = (IF Requests[r].kind = "forget" THEN "forget" ELSE "find") /\ lock' = lock
           \/ from = "find" /\ to = "settle" /\ lock = Nobody /\ lock' = r
           \/ from = "settle" /\ to = Onward(r) /\ lock' = Nobody
           \/ from = "enter" /\ to = "parse" /\ lock = Nobody /\ lock' = r
           \/ from = "parse" /\ to \in {"merge_loco", "judge"} /\ lock' = lock
           \/ from = "merge_loco" /\ to = "judge" /\ lock' = lock
           \/ from = "judge" /\ to = "append" /\ lock' = lock
           \/ from \in {"parse", "merge_loco", "judge", "append"} /\ to = "done" /\ lock' = Nobody
           \/ from = "rows" /\ to = "attribute" /\ lock' = lock
           \/ from = "attribute" /\ to = "mirror" /\ lock' = lock
           \/ from = "mirror" /\ to = "find" /\ lock' = lock
           \/ from = "count" /\ to = "reverse" /\ lock' = lock
           \/ from = "reverse" /\ to = "flip" /\ lock' = lock
           \/ from = "flip" /\ to = "mirror" /\ lock' = lock
           \/ from \in {"forget", "mirror", "count", "reverse", "read"} /\ to = "done" /\ lock' = lock
<1>. USE WhereTo DEF In
<1>1. CASE Send(r)
  BY <1>1 DEF Send
<1>2. CASE Find(r) \/ Settle(r)
  BY <1>2 DEF Find, Settle
<1>3. CASE ForgetSession(r) \/ Read(r) \/ Rows(r) \/ Attribute(r)
  BY <1>3 DEF ForgetSession, Read, Rows, Attribute
<1>4. CASE Mirror(r) \/ Count(r)
  BY <1>4 DEF Mirror, Count
<1>5. CASE Reverse(r) \/ Flip(r)
  BY <1>5 DEF Reverse, Flip
<1>6. CASE Enter(r)
  BY <1>6 DEF Enter
<1>7. CASE Merge(r) \/ MergeLoco(r) \/ Judge(r)
  BY <1>7 DEF Merge, MergeLoco, Judge
<1>8. CASE AppendTranscript(r) \/ Outage(r)
  BY <1>8 DEF AppendTranscript, Outage
<1>. QED BY <1>1, <1>2, <1>3, <1>4, <1>5, <1>6, <1>7, <1>8 DEF Step

\* Where an id leads after a step.
LEMMA StoreIsTyped ==
    ASSUME ServiceInv, NEW r \in DOMAIN Requests, Send(r) \/ Step(r)
    PROVE  /\ store' \in [SessionIds -> 0..Len(heap')]
           /\ ~Settle(r) /\ ~ForgetSession(r) => UNCHANGED store
<1>1. /\ store \in [SessionIds -> 0..Len(heap)] /\ Len(heap) \in Nat /\ Len(heap') \in Nat /\ Len(heap') >= Len(heap)
  BY HeapIsKept DEF ServiceInv, ServiceTypes
<1>2. CASE Settle(r)
  <2>1. CASE req[r].absent
    BY <1>1, <1>2, <2>1 DEF Settle
  <2>2. CASE ~req[r].absent
    BY <1>1, <1>2, <2>2 DEF Settle
  <2>. QED BY <2>1, <2>2
<1>3. CASE ForgetSession(r)
  <2>1. store' = [store EXCEPT ![Requests[r].session] = 0] /\ heap' = heap
    BY <1>3 DEF ForgetSession
  <2>2. store' \in [SessionIds -> 0..Len(heap')]
    <3>1. 0 \in 0..Len(heap)
      BY <1>1
    <3>. QED BY <1>1, <2>1, <3>1
  <2>. QED BY <1>3, <2>2
<1>4. CASE ~Settle(r) /\ ~ForgetSession(r)
  <2>1. UNCHANGED store
    BY <1>4 DEF Step, Send, Find, Rows, Attribute, Mirror, Count, Reverse, Flip, Read, Enter, Merge, MergeLoco,
                Judge, AppendTranscript, Outage
  <2>. QED BY <1>1, <2>1
<1>. QED BY <1>2, <1>3, <1>4

\* Where a step takes its request; only a lookup gives it a session.
LEMMA ProgressIsTyped ==
    ASSUME ServiceInv, NEW r \in DOMAIN Requests, Send(r) \/ Step(r)
    PROVE  /\ req' \in [DOMAIN Requests -> Progress]
           /\ ~Settle(r) => req'[r].sess = req[r].sess
<1>0. req \in [DOMAIN Requests -> Progress] /\ req[r] \in Progress
  BY DEF ServiceInv, ServiceTypes
<1>1. ASSUME NEW at \in Places, Go(r, at)
      PROVE  req' \in [DOMAIN Requests -> Progress] /\ req'[r].sess = req[r].sess
  <2>1. [req[r] EXCEPT !.at = at] \in Progress
    BY <1>0 DEF Progress
  <2>. QED BY <1>0, <1>1, <2>1 DEF Go, Progress
<1>2. ASSUME NEW outcome \in {"ok", "failed", "conflict"}, Done(r, outcome)
      PROVE  req' \in [DOMAIN Requests -> Progress] /\ req'[r].sess = req[r].sess
  BY <1>0, <1>2 DEF Done, Progress, Places
<1>3. CASE Send(r) \/ Rows(r) \/ Attribute(r) \/ Flip(r) \/ Merge(r) \/ MergeLoco(r) \/ Judge(r)
  BY <1>1, <1>3 DEF Send, Rows, Attribute, Flip, Merge, MergeLoco, Judge, Places
<1>4. CASE ForgetSession(r) \/ Read(r) \/ AppendTranscript(r) \/ Outage(r)
  <2>1. Done(r, "ok") \/ Done(r, "failed")
    BY <1>4 DEF ForgetSession, Read, AppendTranscript, Outage
  <2>. QED BY <1>2, <2>1
<1>11. CASE Reverse(r)
  <2>1. Done(r, "ok") \/ Go(r, "flip")
    BY <1>11 DEF Reverse
  <2>. QED BY <1>1, <1>2, <2>1 DEF Places
<1>5. CASE Find(r)
  BY <1>0, <1>5 DEF Find, Progress, Places
<1>6. CASE Settle(r)
  <2>1. Onward(r) \in Places
    BY DEF Onward, Places
  <2>2. store'[Requests[r].session] \in Nat
    <3>1. store' \in [SessionIds -> 0..Len(heap')] /\ Len(heap') \in Nat
      BY StoreIsTyped, HeapIsKept
    <3>. QED BY <3>1, RequestTypes
  <2>. QED BY <1>0, <1>6, <2>1, <2>2 DEF Settle, Progress
<1>7. CASE Mirror(r)
  <2>1. CASE HasActive(Sess(r)) /\ Requests[r].kind = "turn"
    <3>1. req' = [req EXCEPT ![r].at = "find", ![r].applied = TRUE]
      BY <1>7, <2>1 DEF Mirror
    <3>. QED BY <1>0, <3>1 DEF Progress, Places
  <2>2. CASE ~(HasActive(Sess(r)) /\ Requests[r].kind = "turn")
    <3>1. Done(r, "ok") \/ Done(r, "failed")
      BY <1>7, <2>2 DEF Mirror
    <3>. QED BY <1>2, <3>1
  <2>. QED BY <2>1, <2>2
<1>8. CASE Count(r) /\ Len(Sess(r).locos) # 2
  BY <1>2, <1>8 DEF Count
<1>9. CASE Count(r) /\ Len(Sess(r).locos) = 2
  <2>1. HasActive(Sess(r)) => Active(Sess(r)).number \in Numbers \cup {""}
    <3>1. Sess(r) \in Session
      BY <1>9, SessionOfRequest DEF Count, In, ServiceInv, Attached, Working
    <3>2. HasActive(Sess(r)) => Sess(r).active + 1 \in 1..Len(Sess(r).locos) /\ Sess(r).locos \in Seq(LocoInfo)
      BY <3>1, LenProperties DEF HasActive, Session
    <3>3. HasActive(Sess(r)) => Sess(r).locos[Sess(r).active + 1] \in LocoInfo
      BY <3>2, ElementOfSeq
    <3>. QED BY <3>3 DEF Active, LocoInfo
  <2>. DEFINE b == IF HasActive(Sess(r)) THEN Active(Sess(r)).number ELSE Nobody
  <2>2. b \in Numbers \cup {"", Nobody} /\ req' = [req EXCEPT ![r].at = "reverse", ![r].before = b]
    BY <1>9, <2>1 DEF Count
  <2>. HIDE DEF b
  <2>. QED BY <1>0, <1>9, <2>2 DEF Progress, Places
<1>10. CASE Enter(r)
  <2>1. Sess(r).lastAssistant \in Names
    BY <1>10, SessionOfRequest DEF Enter, In, ServiceInv, Attached, Working, Turning, Session
  <2>. QED BY <1>0, <1>10, <2>1 DEF Enter, Progress, Places
<1>. QED BY <1>3, <1>4, <1>5, <1>6, <1>7, <1>8, <1>9, <1>10, <1>11 DEF Step

\* Every step keeps the types.
LEMMA TypesKept ==
    ASSUME ServiceInv, NEW r \in DOMAIN Requests, Send(r) \/ Step(r)
    PROVE  ServiceTypes'
<1>1. /\ heap' \in Seq(Session) /\ store' \in [SessionIds -> 0..Len(heap')]
      /\ req' \in [DOMAIN Requests -> Progress]
  BY HeapIsKept, StoreIsTyped, ProgressIsTyped
<1>2. lock' \in Names
  BY DEF ServiceInv, ServiceTypes, Names, Step, Send, Find, Settle, ForgetSession, Rows, Attribute, Mirror, Count,
         Reverse, Flip, Read, Enter, Merge, MergeLoco, Judge, AppendTranscript, Outage
<1>3. late' \subseteq DOMAIN Requests
  BY DEF ServiceInv, ServiceTypes, InFlight, Step, Send, Find, Settle, ForgetSession, Rows, Attribute, Mirror, Count,
         Reverse, Flip, Read, Enter, Merge, MergeLoco, Judge, AppendTranscript, Outage
<1>4. ASSUME NEW q \in DOMAIN Requests
      PROVE  req'[q].sess \in 0..Len(heap')
  <2>1. /\ req[q].sess \in 0..Len(heap)
        /\ Len(heap) \in Nat /\ Len(heap') \in Nat /\ Len(heap') >= Len(heap) /\ ServiceTypes
    BY HeapIsKept DEF ServiceInv, ServiceTypes
  <2>2. CASE q # r \/ ~Settle(r)
    <3>1. req'[q].sess = req[q].sess
      BY <2>1, <2>2, OthersStandStill, ProgressIsTyped
    <3>. QED BY <2>1, <3>1
  <2>3. CASE q = r /\ Settle(r)
    <3>1. req'[r].sess = store'[Requests[r].session]
      BY <2>1, <2>3 DEF Settle, ServiceTypes
    <3>. QED BY <1>1, <2>3, <3>1, RequestTypes
  <2>. QED BY <2>2, <2>3
<1>. QED BY <1>1, <1>2, <1>3, <1>4 DEF ServiceTypes

-----------------------------------------------------------------------------
(* The lock, and the places. *)

\* Every step keeps the lock with the one request that is in a critical section.
LEMMA OneHoldsKept ==
    ASSUME ServiceInv, NEW r \in DOMAIN Requests, Send(r) \/ Step(r)
    PROVE  OneHolds'
<1>0. ServiceTypes /\ OneHolds /\ Nobody \notin DOMAIN Requests
  BY RequestsAssumption DEF ServiceInv
<1>1. \A q \in DOMAIN Requests \ {r} : req'[q] = req[q]
  BY <1>0, OthersStandStill
<1>2. lock' = r <=> req'[r].at \in Holding
  <2>1. Onward(r) \in {"rows", "enter", "count", "read"}
    BY DEF Onward
  <2>. QED BY <1>0, <2>1, Transitions DEF OneHolds, Holding
<1>3. lock' = lock \/ (lock = Nobody /\ lock' = r) \/ (lock = r /\ lock' = Nobody)
  BY <1>0, Transitions DEF OneHolds, Holding
<1>4. ASSUME NEW q \in DOMAIN Requests, q # r
      PROVE  lock' = q <=> req'[q].at \in Holding
  BY <1>0, <1>1, <1>3, <1>4 DEF OneHolds
<1>. QED BY <1>2, <1>4 DEF OneHolds

\* A request has no outcome before its last step; a turn is "ok" from there only by its entry.
LEMMA OutcomeStep ==
    ASSUME ServiceInv, NEW r \in DOMAIN Requests, Send(r) \/ Step(r)
    PROVE  /\ req'[r].at # "done" => req'[r].outcome = req[r].outcome
           /\ Requests[r].kind = "turn" /\ req'[r].at = "done" =>
                req'[r].outcome = IF req[r].at = "append" THEN "ok" ELSE "failed"
<1>0. ServiceTypes /\ RightPlace /\ req \in [DOMAIN Requests -> Progress] /\ req[r] \in Progress
  BY DEF ServiceInv, ServiceTypes
<1>1. \A outcome : Done(r, outcome) => req'[r].at = "done" /\ req'[r].outcome = outcome
  <2>1. ASSUME NEW outcome, NEW f, f = [req[r] EXCEPT !.at = "done", !.outcome = outcome]
        PROVE  f.at = "done" /\ f.outcome = outcome
    BY <1>0, <2>1 DEF Progress
  <2>2. \A outcome : Done(r, outcome) => req'[r] = [req[r] EXCEPT !.at = "done", !.outcome = outcome]
    BY <1>0 DEF Done
  <2>. QED BY <2>1, <2>2
<1>2. \A at : Go(r, at) => req'[r].at = at /\ req'[r].outcome = req[r].outcome
  BY <1>0 DEF Go, Progress
<1>3. CASE Send(r) \/ Rows(r) \/ Attribute(r) \/ Flip(r) \/ Merge(r) \/ MergeLoco(r) \/ Judge(r)
  BY <1>2, <1>3 DEF Send, Rows, Attribute, Flip, Merge, MergeLoco, Judge
<1>4. CASE ForgetSession(r) \/ Read(r) \/ Reverse(r)
  BY <1>0, <1>1, <1>2, <1>4 DEF ForgetSession, Read, Reverse, RightPlace, In
<1>5. CASE AppendTranscript(r) \/ Outage(r)
  BY <1>1, <1>5 DEF AppendTranscript, Outage, In
<1>6. CASE Find(r) \/ Settle(r) \/ Enter(r)
  <2>1. req'[r].at # "done"
    BY <1>0, <1>6, WhereTo DEF Onward
  <2>2. req'[r].outcome = req[r].outcome
    <3>1. \E absent, sess, heard, at :
             \/ req' = [req EXCEPT ![r].at = at, ![r].absent = absent]
             \/ req' = [req EXCEPT ![r].at = at, ![r].sess = sess]
             \/ req' = [req EXCEPT ![r].at = at, ![r].heard = heard]
      BY <1>6 DEF Find, Settle, Enter
    <3>2. ASSUME NEW at, NEW v
          PROVE  /\ req' = [req EXCEPT ![r].at = at, ![r].absent = v] => req'[r].outcome = req[r].outcome
                 /\ req' = [req EXCEPT ![r].at = at, ![r].sess = v] => req'[r].outcome = req[r].outcome
                 /\ req' = [req EXCEPT ![r].at = at, ![r].heard = v] => req'[r].outcome = req[r].outcome
      <4>1. ASSUME NEW f, \/ f = [req[r] EXCEPT !.at = at, !.absent = v]
                          \/ f = [req[r] EXCEPT !.at = at, !.sess = v]
                          \/ f = [req[r] EXCEPT !.at = at, !.heard = v]
            PROVE  f.outcome = req[r].outcome
        BY <1>0, <4>1 DEF Progress
      <4>. QED BY <1>0, <4>1
    <3>. QED BY <3>1, <3>2
  <2>. QED BY <2>1, <2>2
<1>7. CASE Mirror(r)
  <2>1. \/ req' = [req EXCEPT ![r].at = "find", ![r].applied = TRUE]
        \/ Done(r, "failed")
        \/ Done(r, "ok") /\ Requests[r].kind # "turn"
    BY <1>7 DEF Mirror
  <2>2. req' = [req EXCEPT ![r].at = "find", ![r].applied = TRUE]
          => req'[r].at = "find" /\ req'[r].outcome = req[r].outcome
    <3>1. ASSUME NEW f, f = [req[r] EXCEPT !.at = "find", !.applied = TRUE]
          PROVE  f.at = "find" /\ f.outcome = req[r].outcome
      BY <1>0, <3>1 DEF Progress
    <3>. QED BY <1>0, <3>1
  <2>. QED BY <1>1, <1>7, <2>1, <2>2 DEF Mirror, In
<1>8. CASE Count(r)
  <2>. DEFINE b == IF HasActive(Sess(r)) THEN Active(Sess(r)).number ELSE Nobody
  <2>1. req' = [req EXCEPT ![r].at = "reverse", ![r].before = b] \/ Done(r, "conflict")
    BY <1>8 DEF Count
  <2>. HIDE DEF b
  <2>2. req' = [req EXCEPT ![r].at = "reverse", ![r].before = b]
          => req'[r].at = "reverse" /\ req'[r].outcome = req[r].outcome
    <3>1. ASSUME NEW f, f = [req[r] EXCEPT !.at = "reverse", !.before = b]
          PROVE  f.at = "reverse" /\ f.outcome = req[r].outcome
      BY <1>0, <3>1 DEF Progress
    <3>. QED BY <1>0, <3>1
  <2>. QED BY <1>0, <1>1, <1>8, <2>1, <2>2 DEF Count, In, RightPlace
<1>. QED BY <1>3, <1>4, <1>5, <1>6, <1>7, <1>8 DEF Step

\* Every step takes its request only to a place that is right for its kind.
LEMMA RightPlaceKept ==
    ASSUME ServiceInv, NEW r \in DOMAIN Requests, Send(r) \/ Step(r)
    PROVE  RightPlace'
<1>0. ServiceTypes /\ RightPlace /\ OneHolds
  BY DEF ServiceInv
<1>1. \A q \in DOMAIN Requests \ {r} : req'[q] = req[q]
  BY <1>0, OthersStandStill
<1>2. \A q \in DOMAIN Requests : q \in late' => q \in late \/ req[q].at # "unsent"
  BY DEF InFlight, Step, Send, Find, Settle, ForgetSession, Rows, Attribute, Mirror, Count,
         Reverse, Flip, Read, Enter, Merge, MergeLoco, Judge, AppendTranscript, Outage
<1>3. req'[r].at # "unsent"
  BY <1>0, Transitions DEF Onward
<1>4. /\ req'[r].at \in Turning => Requests[r].kind = "turn"
      /\ req'[r].at \in {"count", "reverse", "flip", "read"} => Requests[r].kind # "turn"
      /\ req'[r].at \in {"rows", "attribute"} => Requests[r].bar # NoBar
      /\ req'[r].at = "forget" => Requests[r].kind = "forget"
  <2>1. CASE req[r].at = "settle" /\ req'[r].at = Onward(r)
    BY <2>1 DEF Onward, BringsBar, Turning
  <2>2. CASE ~(req[r].at = "settle" /\ req'[r].at = Onward(r))
    BY <1>0, <2>2, Transitions DEF RightPlace, Turning
  <2>. QED BY <2>1, <2>2
<1>5. req'[r].at # "done" => req'[r].outcome = Nobody
  <2>1. req[r].at # "done"
    BY <1>0, Transitions DEF Onward
  <2>. QED BY <1>0, <2>1, OutcomeStep DEF RightPlace
<1>. QED BY <1>0, <1>1, <1>2, <1>3, <1>4, <1>5 DEF RightPlace

-----------------------------------------------------------------------------
(* The sessions requests work on, and the order of answers. *)

\* What a step does to the lookup: nothing, or the session of its id is found, made or
\* forgotten.
LEMMA LookupStep ==
    ASSUME ServiceInv, NEW r \in DOMAIN Requests, Send(r) \/ Step(r)
    PROVE  \/ /\ req[r].at = "settle" /\ req'[r].at = Onward(r) /\ late' = late
              /\ req'[r].sess = store'[Requests[r].session]
              /\ \/ /\ store[Requests[r].session] = 0
                    /\ store' = [store EXCEPT ![Requests[r].session] = Len(heap) + 1]
                 \/ store[Requests[r].session] # 0 /\ store' = store
           \/ /\ req[r].at = "forget" /\ req'[r].at = "done" /\ req'[r].sess = req[r].sess
              /\ store' = [store EXCEPT ![Requests[r].session] = 0]
              /\ late' = late \cup {q \in InFlight : Requests[q].session = Requests[r].session}
           \/ /\ req[r].at \notin {"settle", "forget"}
              /\ req'[r].sess = req[r].sess /\ store' = store /\ late' = late
<1>0. ServiceTypes
  BY DEF ServiceInv
<1>1. CASE Settle(r)
  <2>1. req[r].at = "settle" /\ late' = late /\ (req[r].absent <=> store[Requests[r].session] = 0)
    BY <1>1 DEF Settle, In, ServiceInv, Attached
  <2>2. req'[r].at = Onward(r) /\ req'[r].sess = store'[Requests[r].session]
    BY <1>0, <1>1, WhereTo
  <2>3. CASE req[r].absent
    <3>1. store' = [store EXCEPT ![Requests[r].session] = Len(heap')] /\ Len(heap') = Len(heap) + 1
      BY <1>1, <2>3, SettleFindsSession DEF Settle
    <3>. QED BY <2>1, <2>2, <2>3, <3>1
  <2>4. CASE ~req[r].absent
    BY <1>1, <2>1, <2>2, <2>4 DEF Settle
  <2>. QED BY <2>3, <2>4
<1>2. CASE ForgetSession(r)
  <2>1. req'[r].sess = req[r].sess /\ req'[r].at = "done"
    BY <1>0, <1>2, ProgressIsTyped, WhereTo DEF ForgetSession, Settle, In
  <2>. QED BY <1>2, <2>1 DEF ForgetSession, In
<1>3. CASE ~Settle(r) /\ ~ForgetSession(r)
  <2>1. req'[r].sess = req[r].sess /\ store' = store
    BY <1>3, ProgressIsTyped, StoreIsTyped
  <2>2. req[r].at \notin {"settle", "forget"} /\ late' = late
    BY <1>3 DEF In, Step, Send, Find, Rows, Attribute, Mirror, Count, Reverse, Flip, Read, Enter, Merge, MergeLoco,
                Judge, AppendTranscript, Outage
  <2>. QED BY <2>1, <2>2
<1>. QED BY <1>1, <1>2, <1>3

\* Every step keeps requests attached to the session of their id, or notes them as late.
LEMMA AttachedKept ==
    ASSUME ServiceInv, NEW r \in DOMAIN Requests, Send(r) \/ Step(r)
    PROVE  Attached'
<1>. DEFINE id == Requests[r].session
<1>0. /\ ServiceTypes /\ Attached /\ OneHolds /\ id \in SessionIds
      /\ store \in [SessionIds -> 0..Len(heap)] /\ Len(heap) \in Nat
      /\ \A q \in DOMAIN Requests : req[q].sess \in 0..Len(heap)
  BY RequestTypes, HeapIsKept DEF ServiceInv, ServiceTypes
<1>1. \A q \in DOMAIN Requests \ {r} : req'[q] = req[q]
  BY <1>0, OthersStandStill
<1>2. CASE req[r].at = "settle" /\ req'[r].at = Onward(r) /\ late' = late /\ req'[r].sess = store'[id]
  <2>1. \A q \in DOMAIN Requests \ {r} : req[q].at # "settle"
    BY <1>0, <1>2 DEF OneHolds, Holding
  <2>2. Onward(r) # "settle"
    BY DEF Onward
  <2>3. CASE store[id] = 0 /\ store' = [store EXCEPT ![id] = Len(heap) + 1]
    <3>1. \A s \in SessionIds : store'[s] = IF s = id THEN Len(heap) + 1 ELSE store[s]
      BY <1>0, <2>3
    <3>2. \A s \in SessionIds : store[s] \in 0..Len(heap)
      BY <1>0
    <3>3. \A s, t \in SessionIds : store'[s] = store'[t] /\ store'[s] # 0 => s = t
      BY <1>0, <3>1, <3>2 DEF Attached
    <3>4. ASSUME NEW q \in DOMAIN Requests, q # r
          PROVE  /\ req'[q].at \in Working => req'[q].sess # 0
                 /\ \A s \in SessionIds : req'[q].sess # 0 /\ store'[s] = req'[q].sess => s = Requests[q].session
                 /\ req'[q].at \in Working /\ q \notin late' => store'[Requests[q].session] = req'[q].sess
                 /\ req'[q].at # "settle"
      <4>1. req'[q] = req[q] /\ Requests[q].session \in SessionIds /\ req[q].sess \in 0..Len(heap)
        BY <1>0, <1>1, <3>4, RequestTypes
      <4>. QED BY <1>0, <1>2, <2>1, <2>3, <3>1, <3>2, <3>4, <4>1 DEF Attached
    <3>5. req'[r].sess = Len(heap) + 1 /\ req'[r].at # "settle"
      BY <1>0, <1>2, <2>2, <3>1
    <3>. QED BY <1>0, <3>1, <3>2, <3>3, <3>4, <3>5 DEF Attached
  <2>4. CASE store[id] # 0 /\ store' = store
    BY <1>0, <1>1, <1>2, <2>1, <2>2, <2>4 DEF Attached
  <2>. QED BY <1>2, <2>3, <2>4, LookupStep
<1>3. CASE /\ req[r].at = "forget" /\ req'[r].at = "done" /\ req'[r].sess = req[r].sess
           /\ store' = [store EXCEPT ![id] = 0]
           /\ late' = late \cup {q \in InFlight : Requests[q].session = id}
  <2>1. \A s \in SessionIds : store'[s] = IF s = id THEN 0 ELSE store[s]
    BY <1>0, <1>3
  <2>2. \A q \in DOMAIN Requests : req[q].at # "settle"
    <3>1. lock = Nobody
      BY <1>0, <1>3 DEF Step, Send, Find, Settle, ForgetSession, Rows, Attribute, Mirror, Count, Reverse, Flip, Read,
                 Enter, Merge, MergeLoco, Judge, AppendTranscript, Outage, In
    <3>. QED BY <1>0, <3>1, RequestsAssumption DEF OneHolds, Holding
  <2>3. \A q \in DOMAIN Requests : q \notin late' => q \notin late /\ (req[q].at \in Working => Requests[q].session # id)
    BY <1>3 DEF InFlight, Working, Turning
  <2>4. req'[r].at \notin Working /\ req'[r].at # "settle"
    BY <1>3 DEF Working, Turning
  <2>5. \A s, t \in SessionIds : store'[s] = store'[t] /\ store'[s] # 0 => s = t
    BY <1>0, <2>1 DEF Attached
  <2>6. ASSUME NEW q \in DOMAIN Requests, q # r
        PROVE  /\ req'[q].at \in Working => req'[q].sess # 0
               /\ \A s \in SessionIds : req'[q].sess # 0 /\ store'[s] = req'[q].sess => s = Requests[q].session
               /\ req'[q].at \in Working /\ q \notin late' => store'[Requests[q].session] = req'[q].sess
               /\ req'[q].at # "settle"
    <3>1. req'[q] = req[q] /\ Requests[q].session \in SessionIds
      BY <1>1, <2>6, RequestTypes
    <3>. QED BY <1>0, <2>1, <2>2, <2>3, <3>1 DEF Attached
  <2>7. \A s \in SessionIds : req'[r].sess # 0 /\ store'[s] = req'[r].sess => s = id
    BY <1>0, <1>3, <2>1 DEF Attached
  <2>. QED BY <2>4, <2>5, <2>6, <2>7 DEF Attached
<1>4. CASE req[r].at \notin {"settle", "forget"} /\ req'[r].sess = req[r].sess /\ store' = store /\ late' = late
  <2>1. req'[r].at \in Working => req[r].at \in Working
    BY <1>0, <1>4, Transitions DEF Working, Turning
  <2>2. req'[r].at = "settle" => (req'[r].absent <=> store'[id] = 0)
    <3>1. req'[r].at = "settle" => req[r].at = "find"
      BY <1>0, <1>4, Transitions DEF Onward
    <3>2. req[r].at = "find" => Find(r)
      BY DEF Step, Send, Find, Settle, ForgetSession, Rows, Attribute, Mirror, Count, Reverse,
                 Flip, Read, Enter, Merge, MergeLoco, Judge, AppendTranscript, Outage, In
    <3>. QED BY <1>0, <1>4, <3>1, <3>2, WhereTo
  <2>. QED BY <1>0, <1>1, <1>4, <2>1, <2>2 DEF Attached
<1>. QED BY <1>2, <1>3, <1>4, LookupStep

\* What a step says, and to whom.
LEMMA TalkStep ==
    ASSUME ServiceInv, NEW r \in DOMAIN Requests, Send(r) \/ Step(r)
    PROVE  \/ /\ NothingSaid /\ req[r].at # "append" /\ req'[r].at # "append"
              /\ (req'[r].heard = req[r].heard /\ req'[r].at # "parse") \/ Enter(r)
           \/ Settle(r)
           \/ Judge(r) /\ req'[r].at = "append" /\ req'[r].heard = req[r].heard
           \/ AppendTranscript(r) /\ req'[r].at = "done"
<1>0. ServiceTypes /\ req \in [DOMAIN Requests -> Progress] /\ req[r] \in Progress
  BY DEF ServiceInv, ServiceTypes
<1>1. /\ \A at : Go(r, at) => req'[r].heard = req[r].heard
      /\ \A outcome : Done(r, outcome) => req'[r].heard = req[r].heard
  BY <1>0, ZenonT(40) DEF Go, Done, Progress
<1>2. UNCHANGED heap => NothingSaid
  BY <1>0 DEF NothingSaid, ServiceTypes
<1>3. CASE Send(r) \/ ForgetSession(r) \/ Read(r) \/ Outage(r)
  BY <1>0, <1>1, <1>2, <1>3, WhereTo DEF In, Send, ForgetSession, Read, Outage
<1>4. CASE Find(r)
  <2>1. req'[r].heard = req[r].heard
    BY <1>0, <1>4 DEF Find, Progress
  <2>. QED BY <1>0, <1>2, <1>4, <2>1, WhereTo DEF In, Find
<1>5. CASE Enter(r)
  BY <1>0, <1>2, <1>5, WhereTo DEF In, Enter
<1>6. CASE Rows(r) \/ Attribute(r) \/ Reverse(r) \/ Flip(r) \/ Merge(r) \/ MergeLoco(r)
  <2>1. NothingSaid
    BY <1>6, BarStepSaysNothing
  <2>. QED BY <1>0, <1>1, <1>6, <2>1, WhereTo DEF In, Rows, Attribute, Reverse, Flip, Merge, MergeLoco
<1>7. CASE Mirror(r)
  <2>1. NothingSaid
    BY <1>7, BarStepSaysNothing
  <2>2. req' = [req EXCEPT ![r].at = "find", ![r].applied = TRUE] => req'[r].heard = req[r].heard
    BY <1>0 DEF Progress
  <2>. QED BY <1>0, <1>1, <1>7, <2>1, <2>2, WhereTo DEF In, Mirror
<1>8. CASE Count(r)
  <2>. DEFINE b == IF HasActive(Sess(r)) THEN Active(Sess(r)).number ELSE Nobody
  <2>1. /\ req' = [req EXCEPT ![r].at = "reverse", ![r].before = b] \/ Done(r, "conflict")
        /\ UNCHANGED heap
    BY <1>8 DEF Count
  <2>. HIDE DEF b
  <2>2. req' = [req EXCEPT ![r].at = "reverse", ![r].before = b] => req'[r].heard = req[r].heard
    BY <1>0 DEF Progress
  <2>. QED BY <1>0, <1>1, <1>2, <1>8, <2>1, <2>2, WhereTo DEF Count, In
<1>9. CASE Judge(r)
  BY <1>0, <1>1, <1>9, WhereTo DEF In, Judge
<1>10. CASE AppendTranscript(r)
  BY <1>0, <1>10, WhereTo DEF In, AppendTranscript
<1>. QED BY <1>3, <1>4, <1>5, <1>6, <1>7, <1>8, <1>9, <1>10 DEF Step

\* While no turn is about to be appended, every session's last answer is its last entry.
LEMMA LastIsLast ==
    ASSUME ServiceInv, NEW n \in 1..Len(heap),
           \A r \in DOMAIN Requests : req[r].at = "append" => req[r].sess # n
    PROVE  heap[n].lastAssistant = Conversations!LastOf(heap[n].transcript)
BY DEF ServiceInv, InOrder

\* The last turn of a transcript is the one appended.
LEMMA LastOfAppended ==
    ASSUME NEW entries \in Seq(Entry), NEW e \in Entry
    PROVE  Conversations!LastOf(Append(entries, e)) = e.turn
<1>1. Append(entries, e) # <<>> /\ Append(entries, e)[Len(Append(entries, e))] = e
  BY AppendProperties
<1>. QED BY <1>1 DEF Conversations!LastOf

\* Every step keeps the order: a turn in the lock has heard the last entry of its session.
LEMMA InOrderKept ==
    ASSUME ServiceInv, NEW r \in DOMAIN Requests, Send(r) \/ Step(r)
    PROVE  InOrder'
<1>. DEFINE Answering == {"parse", "merge_loco", "judge", "append"}
            EndsWell(n)  == heap'[n].lastAssistant = Conversations!LastOf(heap'[n].transcript)
            Pending(n)   == \E q \in DOMAIN Requests : req'[q].at = "append" /\ req'[q].sess = n
            Heard(q)     == /\ req'[q].at \in Answering =>
                                  req'[q].heard = Conversations!LastOf(heap'[req'[q].sess].transcript)
                            /\ req'[q].at = "append" => heap'[req'[q].sess].lastAssistant = q
<1>. SUFFICES /\ \A n \in 1..Len(heap') : EndsWell(n) \/ Pending(n)
              /\ \A q \in DOMAIN Requests : Heard(q)
  BY DEF InOrder
<1>0. /\ ServiceTypes /\ InOrder /\ OneHolds /\ Attached
      /\ \A q \in DOMAIN Requests : req[q].at \in Working => req[q].sess \in 1..Len(heap) /\ Sess(q) \in Session
  BY SessionOfRequest DEF ServiceInv, Attached
<1>1. \A q \in DOMAIN Requests \ {r} : req'[q] = req[q]
  BY <1>0, OthersStandStill
<1>2. \A q \in DOMAIN Requests \ {r} : req[q].at \in Holding => req[r].at \notin Holding /\ lock # Nobody
  BY <1>0, RequestsAssumption DEF OneHolds
<1>3. \A q \in DOMAIN Requests \ {r} : req[r].at \in Holding => Heard(q)
  BY <1>1, <1>2 DEF Holding
<1>4. CASE /\ NothingSaid /\ req[r].at # "append" /\ req'[r].at # "append"
           /\ (req'[r].heard = req[r].heard /\ req'[r].at # "parse") \/ Enter(r)
  <2>1. Len(heap') = Len(heap) /\ \A n \in 1..Len(heap) :
           /\ heap'[n].transcript = heap[n].transcript /\ heap'[n].lastAssistant = heap[n].lastAssistant
    BY <1>4 DEF NothingSaid
  <2>2. ASSUME NEW n \in 1..Len(heap')
        PROVE  EndsWell(n) \/ Pending(n)
    BY <1>0, <1>1, <1>4, <2>1 DEF InOrder
  <2>3. ASSUME NEW q \in DOMAIN Requests, q # r
        PROVE  Heard(q)
    <3>1. req[q].at \in Answering => req[q].sess \in 1..Len(heap)
      BY <1>0 DEF Working, Turning
    <3>. QED BY <1>0, <1>1, <2>1, <2>3, <3>1 DEF InOrder
  <2>4. Heard(r)
    <3>1. req'[r].at \in Answering => /\ req[r].at \in Working /\ req'[r].sess = req[r].sess
                                      /\ req[r].sess \in 1..Len(heap)
      <4>1. req'[r].at \in Answering => req[r].at \in Turning
        BY <1>0, Transitions DEF Onward, Turning
      <4>. QED BY <1>0, <4>1, LookupStep DEF Working, Turning
    <3>2. CASE Enter(r)
      <4>1. req'[r].at = "parse" /\ req'[r].heard = heap[req[r].sess].lastAssistant /\ lock = Nobody
        BY <1>0, <3>2, WhereTo DEF Enter, Sess
      <4>2. \A q \in DOMAIN Requests : req[q].at # "append"
        BY <1>0, <4>1, RequestsAssumption DEF OneHolds, Holding
      <4>3. heap[req[r].sess].lastAssistant = Conversations!LastOf(heap[req[r].sess].transcript)
        BY <3>1, <4>1, <4>2, LastIsLast
      <4>. QED BY <2>1, <3>1, <4>1, <4>3
    <3>3. CASE req'[r].heard = req[r].heard /\ req'[r].at # "parse"
      <4>1. req'[r].at \in Answering => req[r].at \in Answering
        BY <1>0, <3>3, Transitions DEF Onward
      <4>. QED BY <1>0, <1>4, <2>1, <3>1, <3>3, <4>1 DEF InOrder
    <3>. QED BY <1>4, <3>2, <3>3
  <2>. QED BY <2>2, <2>3, <2>4
<1>5. CASE Settle(r)
  <2>1. req[r].at \in Holding /\ \A q \in DOMAIN Requests : req[q].at # "append"
    BY <1>2, <1>5 DEF Settle, In, Holding
  <2>2. \A n \in 1..Len(heap) : heap[n].lastAssistant = Conversations!LastOf(heap[n].transcript)
    BY <2>1, LastIsLast
  <2>3. NewSession.lastAssistant = Conversations!LastOf(NewSession.transcript)
    BY DEF NewSession, Conversations!LastOf, Conversations!Nobody, Nobody
  <2>4. ASSUME NEW n \in 1..Len(heap')
        PROVE  EndsWell(n)
    <3>1. CASE UNCHANGED heap
      BY <2>2, <3>1
    <3>2. CASE ~UNCHANGED heap
      <4>1. /\ Len(heap') = Len(heap) + 1 /\ heap'[Len(heap) + 1] = NewSession
            /\ \A m \in 1..Len(heap) : heap'[m] = heap[m]
        BY <1>5, <3>2, SettleFindsSession
      <4>2. n = Len(heap) + 1 \/ n \in 1..Len(heap)
        BY <4>1, HeapIsKept
      <4>. QED BY <2>2, <2>3, <4>1, <4>2
    <3>. QED BY <3>1, <3>2
  <2>5. Heard(r)
    BY <1>0, <1>5, WhereTo DEF Onward
  <2>. QED BY <1>3, <2>1, <2>4, <2>5
<1>6. CASE Judge(r) /\ req'[r].at = "append" /\ req'[r].heard = req[r].heard
  <2>1. req[r].at = "judge" /\ req'[r].sess = req[r].sess
    BY <1>6, LookupStep DEF Judge, In
  <2>2. /\ Len(heap') = Len(heap) /\ req[r].sess \in 1..Len(heap) /\ Sess(r) \in Session
        /\ \A n \in 1..Len(heap) : heap'[n] = IF n = req[r].sess THEN [Sess(r) EXCEPT !.lastAssistant = r] ELSE heap[n]
    BY <1>0, <1>6, <2>1, JudgeSetsAnswer DEF Working, Turning
  <2>3. heap'[req[r].sess].lastAssistant = r /\ heap'[req[r].sess].transcript = heap[req[r].sess].transcript
    BY <2>2 DEF Session, Sess
  <2>4. Heard(r)
    BY <1>0, <1>6, <2>1, <2>3 DEF InOrder
  <2>5. ASSUME NEW n \in 1..Len(heap')
        PROVE  EndsWell(n) \/ Pending(n)
    <3>1. CASE n = req[r].sess
      BY <1>6, <2>1, <3>1
    <3>2. CASE n # req[r].sess
      <4>1. \A q \in DOMAIN Requests : req[q].at # "append"
        BY <1>2, <2>1 DEF Holding
      <4>. QED BY <2>2, <2>5, <3>2, <4>1, LastIsLast
    <3>. QED BY <3>1, <3>2
  <2>. QED BY <1>3, <2>1, <2>4, <2>5 DEF Holding
<1>7. CASE AppendTranscript(r) /\ req'[r].at = "done"
  <2>1. req[r].at = "append"
    BY <1>7 DEF AppendTranscript, In
  <2>. DEFINE e == [turn |-> r, heard |-> req[r].heard]
  <2>2. /\ Len(heap') = Len(heap) /\ req[r].sess \in 1..Len(heap) /\ Sess(r) \in Session
        /\ \A n \in 1..Len(heap) :
             heap'[n] = IF n = req[r].sess THEN [Sess(r) EXCEPT !.transcript = Append(@, e)] ELSE heap[n]
    BY <1>0, <1>7, <2>1, AppendAddsEntry DEF Working, Turning
  <2>3. e \in Entry /\ e.turn = r
    BY <1>0 DEF ServiceTypes, Progress, Entry
  <2>4. /\ heap'[req[r].sess].lastAssistant = r
        /\ heap'[req[r].sess].transcript = Append(heap[req[r].sess].transcript, e)
        /\ heap[req[r].sess].transcript \in Seq(Entry)
    <3>. HIDE DEF e
    <3>. QED BY <1>0, <2>1, <2>2, ZenonT(40) DEF InOrder, Session, Sess
  <2>5. ASSUME NEW n \in 1..Len(heap')
        PROVE  EndsWell(n)
    <3>1. CASE n = req[r].sess
      <4>. HIDE DEF e
      <4>. QED BY <2>3, <2>4, <3>1, LastOfAppended
    <3>2. CASE n # req[r].sess
      <4>1. \A q \in DOMAIN Requests : req[q].at = "append" => req[q].sess # n
        BY <1>2, <2>1, <3>2 DEF Holding
      <4>. QED BY <2>2, <2>5, <3>2, <4>1, LastIsLast
    <3>. QED BY <3>1, <3>2
  <2>. QED BY <1>3, <1>7, <2>1, <2>5 DEF Holding
<1>. QED BY <1>4, <1>5, <1>6, <1>7, TalkStep
-----------------------------------------------------------------------------
(* The invariant, and the step of Sessions each step of the service is. *)

\* The service starts with no sessions and no requests under way.
LEMMA ServiceInvInitially ==
    ServiceInit => ServiceInv
<1>. SUFFICES ASSUME ServiceInit PROVE ServiceInv
  OBVIOUS
<1>0. Nobody \notin DOMAIN Requests
  BY RequestsAssumption
<1>1. ServiceTypes
  <2>1. NewRequest \in Progress /\ NewRequest.sess = 0 /\ NewRequest.at = "unsent"
    BY DEF NewRequest, Progress, Places, Names
  <2>2. heap = <<>> /\ heap \in Seq(Session) /\ Len(heap) = 0
    BY EmptySeq DEF ServiceInit
  <2>. QED BY <2>1, <2>2 DEF ServiceInit, ServiceTypes, Names
<1>2. \A r \in DOMAIN Requests : req[r] = NewRequest
  BY DEF ServiceInit
<1>3. OneHolds /\ RightPlace
  BY <1>0, <1>2 DEF ServiceInit, OneHolds, RightPlace, NewRequest, Holding, Turning
<1>4. Attached
  BY <1>2 DEF ServiceInit, Attached, NewRequest, Working, Turning
<1>5. InOrder
  BY <1>2 DEF ServiceInit, InOrder, NewRequest
<1>. QED BY <1>1, <1>3, <1>4, <1>5 DEF ServiceInv

\* The invariant is inductive.
LEMMA ServiceInvKept ==
    ServiceInv /\ [ServiceNext]_serviceVars => ServiceInv'
<1>. SUFFICES ASSUME ServiceInv, [ServiceNext]_serviceVars PROVE ServiceInv'
  OBVIOUS
<1>1. ASSUME NEW r \in DOMAIN Requests, Send(r) \/ Step(r)
      PROVE  ServiceInv'
  BY <1>1, TypesKept, OneHoldsKept, RightPlaceKept, AttachedKept, InOrderKept DEF ServiceInv
<1>2. CASE UNCHANGED serviceVars
  BY <1>2 DEF serviceVars, ServiceInv, ServiceTypes, OneHolds, RightPlace, Attached, InOrder
<1>. QED BY <1>1, <1>2 DEF ServiceNext

\* The variables of Sessions, as the service keeps them.
Log      == [s \in SessionIds |-> IF store[s] = 0 THEN <<>> ELSE heap[store[s]].transcript]
Waiting  == Turns \cap InFlight
Late     == late \cap Turns \cap InFlight
Answered == {r \in Turns : req[r].outcome = "ok"}

\* Only two things change what the sessions' logs are: an entry appended, and a session
\* forgotten.
LEMMA LogKept ==
    ASSUME ServiceInv, NEW r \in DOMAIN Requests, Send(r) \/ Step(r),
           req[r].at # "append", req[r].at # "forget"
    PROVE  Log' = Log
<1>. DEFINE id == Requests[r].session
<1>0. /\ id \in SessionIds /\ Len(heap) \in Nat
      /\ \A s \in SessionIds : store[s] # 0 => store[s] \in 1..Len(heap)
  BY RequestTypes, HeapIsKept DEF ServiceInv, ServiceTypes
<1>1. \A n \in 1..Len(heap) : heap'[n].transcript = heap[n].transcript
  <2>1. CASE Settle(r)
    BY <2>1, SettleFindsSession
  <2>2. CASE Judge(r)
    <3>1. req[r].sess # 0 /\ Sess(r) \in Session
      BY <2>2, SessionOfRequest DEF Judge, In, ServiceInv, Attached, Working, Turning
    <3>. QED BY <2>2, <3>1, JudgeSetsAnswer, ZenonT(40) DEF Session, Sess
  <2>. QED BY <2>1, <2>2, TalkStep DEF NothingSaid, AppendTranscript, In
<1>2. CASE UNCHANGED store
  BY <1>0, <1>1, <1>2 DEF Log
<1>3. CASE ~UNCHANGED store
  <2>1. /\ Settle(r) /\ store[id] = 0 /\ store' = [store EXCEPT ![id] = Len(heap) + 1]
        /\ store \in [SessionIds -> 0..Len(heap)]
    BY <1>3, LookupStep, StoreIsTyped DEF ServiceInv, ServiceTypes, Settle, ForgetSession, In
  <2>2. heap'[Len(heap) + 1].transcript = <<>>
    <3>1. req[r].absent
      BY <2>1 DEF ServiceInv, Attached, Settle, In
    <3>2. heap'[Len(heap) + 1] = NewSession
      BY <2>1, <3>1, SettleFindsSession
    <3>3. NewSession.transcript = <<>>
      BY DEF NewSession
    <3>. QED BY <3>2, <3>3
  <2>3. \A s \in SessionIds : store'[s] = IF s = id THEN Len(heap) + 1 ELSE store[s]
    BY <2>1
  <2>4. ASSUME NEW s \in SessionIds
        PROVE  (IF store'[s] = 0 THEN <<>> ELSE heap'[store'[s]].transcript)
                 = (IF store[s] = 0 THEN <<>> ELSE heap[store[s]].transcript)
    <3>1. CASE s = id
      BY <1>0, <2>1, <2>2, <2>3, <3>1
    <3>2. CASE s # id
      BY <1>0, <1>1, <2>3, <3>2
    <3>. QED BY <3>1, <3>2
  <2>. QED BY <2>4 DEF Log
<1>. QED BY <1>2, <1>3

\* An entry appended is the next of its session's log, in the light of the one before,
\* unless the session was forgotten.
LEMMA LogAppended ==
    ASSUME ServiceInv, NEW r \in DOMAIN Requests, AppendTranscript(r)
    PROVE  LET id == Requests[r].session
               e  == [turn |-> r, heard |-> Conversations!LastOf(Log[id])]
           IN  \/ Log' = [Log EXCEPT ![id] = Append(@, e)]
               \/ r \in late /\ Log' = Log
<1>. DEFINE id == Requests[r].session
            e  == [turn |-> r, heard |-> req[r].heard]
<1>0. /\ id \in SessionIds /\ store' = store /\ req[r].at = "append"
      /\ \A s \in SessionIds : store[s] # 0 => store[s] \in 1..Len(heap)
  BY RequestTypes DEF ServiceInv, ServiceTypes, AppendTranscript, In
<1>1. /\ req[r].sess \in 1..Len(heap) /\ Sess(r) \in Session
      /\ \A n \in 1..Len(heap) :
           heap'[n] = IF n = req[r].sess THEN [Sess(r) EXCEPT !.transcript = Append(@, e)] ELSE heap[n]
  BY <1>0, AppendAddsEntry, SessionOfRequest DEF ServiceInv, Attached, Working, Turning
<1>2. heap'[req[r].sess].transcript = Append(heap[req[r].sess].transcript, e)
  <2>. HIDE DEF e
  <2>. QED BY <1>1 DEF Session, Sess
<1>3. \A s \in SessionIds : store[s] = req[r].sess => s = id
  BY <1>1 DEF ServiceInv, Attached
<1>4. \A s \in SessionIds \ {id} : Log'[s] = Log[s]
  BY <1>0, <1>1, <1>3 DEF Log
<1>5. CASE store[id] = req[r].sess
  <2>1. Log[id] = heap[req[r].sess].transcript /\ Log'[id] = Append(Log[id], e)
    <3>. HIDE DEF e
    <3>1. store[id] # 0 /\ store'[id] = req[r].sess
      BY <1>0, <1>1, <1>5
    <3>2. Log[id] = heap[req[r].sess].transcript
      BY <1>0, <1>5, <3>1 DEF Log
    <3>3. Log'[id] = heap'[req[r].sess].transcript
      BY <1>0, <3>1 DEF Log
    <3>. QED BY <1>2, <3>2, <3>3
  <2>2. e = [turn |-> r, heard |-> Conversations!LastOf(Log[id])]
    BY <1>0, <2>1 DEF ServiceInv, InOrder
  <2>3. Log' = [Log EXCEPT ![id] = Append(@, e)]
    <3>. HIDE DEF e
    <3>. QED BY <1>0, <1>4, <2>1 DEF Log
  <2>. QED BY <2>2, <2>3
<1>6. CASE store[id] # req[r].sess
  <2>1. r \in late
    BY <1>0, <1>6 DEF ServiceInv, Attached, Working, Turning
  <2>2. Log'[id] = Log[id]
    BY <1>0, <1>1, <1>6 DEF Log
  <2>3. Log' = Log
    BY <1>4, <2>2 DEF Log
  <2>. QED BY <2>1, <2>3
<1>. QED BY <1>5, <1>6

\* Every step of the service is a step of Sessions or leaves its variables alone.
LEMMA StepOfSessions ==
    ASSUME ServiceInv, ServiceInv', NEW r \in DOMAIN Requests, Send(r) \/ Step(r)
    PROVE  Conversations!SessionsNext \/ UNCHANGED <<Log, Waiting, Late, Answered>>
<1>. DEFINE id == Requests[r].session
            of == [q \in DOMAIN Requests |-> Requests[q].session]
            Ends == Waiting' = Waiting \ {r} /\ Late' = Late \ {r}
            e    == [turn |-> r, heard |-> Conversations!LastOf(Log[id])]
<1>0. /\ ServiceTypes /\ RightPlace /\ id \in SessionIds /\ of[r] = id
      /\ \A q \in DOMAIN Requests \ {r} : req'[q] = req[q]
      /\ "ok" # Nobody /\ Turns \subseteq DOMAIN Requests
  BY RequestTypes, OthersStandStill DEF ServiceInv, Nobody, Turns
<1>1. InFlight' \ {r} = InFlight \ {r} /\ Answered' \ {r} = Answered \ {r}
  BY <1>0 DEF InFlight, Answered
<1>2. /\ r \in InFlight <=> req[r].at \notin {"unsent", "done"}
      /\ r \in InFlight' <=> req'[r].at \notin {"unsent", "done"}
      /\ r \in Answered <=> r \in Turns /\ req[r].outcome = "ok"
      /\ r \in Answered' <=> r \in Turns /\ req'[r].outcome = "ok"
  BY DEF InFlight, Answered
<1>3. req[r].at # "done" /\ req[r].outcome = Nobody
  <2>1. req[r].at # "done"
    BY <1>0, Transitions DEF Onward
  <2>. QED BY <1>0, <2>1 DEF RightPlace
<1>4. CASE req[r].at = "forget"
  <2>1. /\ store' = [store EXCEPT ![id] = 0] /\ req'[r].at = "done" /\ r \notin Turns /\ heap' = heap
        /\ late' = late \cup {q \in InFlight : Requests[q].session = id}
    BY <1>0, <1>4, LookupStep DEF RightPlace, Turns, Step, Send, Find, Settle, ForgetSession, Rows, Attribute, Mirror,
           Count, Reverse, Flip, Read, Enter, Merge, MergeLoco, Judge, AppendTranscript, Outage, In
  <2>2. Log' = [Log EXCEPT ![id] = <<>>]
    <3>1. \A s \in SessionIds : store'[s] = IF s = id THEN 0 ELSE store[s]
      BY <1>0, <2>1 DEF ServiceTypes
    <3>2. \A s \in SessionIds :
             (IF store'[s] = 0 THEN <<>> ELSE heap'[store'[s]].transcript) = IF s = id THEN <<>> ELSE Log[s]
      BY <2>1, <3>1 DEF Log
    <3>3. Log' = [s \in SessionIds |-> IF s = id THEN <<>> ELSE Log[s]]
      BY <3>2 DEF Log
    <3>4. [Log EXCEPT ![id] = <<>>] = [s \in SessionIds |-> IF s = id THEN <<>> ELSE Log[s]]
      BY DEF Log
    <3>. QED BY <3>3, <3>4
  <2>3. Waiting' = Waiting /\ Answered' = Answered
    <3>1. r \notin Answered /\ r \notin Answered'
      BY <1>2, <2>1
    <3>2. Answered' = Answered
      BY <1>1, <3>1
    <3>. QED BY <1>1, <2>1, <3>2 DEF Waiting
  <2>4. Late' = Late \cup {q \in Waiting : of[q] = id}
    BY <1>0, <1>1, <2>1 DEF Late, Waiting
  <2>5. Conversations!Forget(id)
    BY <2>2, <2>3, <2>4 DEF Conversations!Forget, Log, Waiting, Late, Answered
  <2>. QED BY <1>0, <2>5 DEF Conversations!SessionsNext
<1>5. CASE req[r].at # "forget" /\ r \notin Turns
  <2>1. late' = late /\ Log' = Log
    BY <1>0, <1>5, LookupStep, LogKept DEF RightPlace, Turning, Turns
  <2>2. Waiting' = Waiting /\ Late' = Late /\ Answered' = Answered
    BY <1>1, <1>2, <1>5, <2>1 DEF Waiting, Late
  <2>. QED BY <2>1, <2>2
<1>6. CASE req[r].at # "forget" /\ r \in Turns
  <2>1. late' = late /\ Requests[r].kind = "turn"
    BY <1>6, LookupStep DEF Turns
  <2>2. CASE req[r].at = "unsent"
    <3>1. Log' = Log /\ r \notin late /\ req'[r].at = "find"
      BY <1>0, <2>1, <2>2, LogKept, Transitions DEF RightPlace
    <3>2. Waiting' = Waiting \cup {r} /\ Late' = Late /\ Answered' = Answered
      BY <1>0, <1>1, <1>2, <1>3, <1>6, <2>1, <2>2, <3>1, OutcomeStep DEF Waiting, Late
    <3>3. r \notin Waiting \cup Answered
      BY <1>0, <1>2, <1>3, <2>2 DEF Waiting
    <3>4. Conversations!Ask(r)
      BY <3>1, <3>2, <3>3 DEF Conversations!Ask, Log, Waiting, Late, Answered
    <3>. QED BY <1>6, <3>4 DEF Conversations!SessionsNext
  <2>3. CASE req[r].at # "unsent" /\ req'[r].at # "done"
    <3>1. Log' = Log /\ req'[r].at # "unsent"
      BY <1>0, <1>6, <2>3, LogKept, Transitions DEF Onward
    <3>2. Waiting' = Waiting /\ Late' = Late /\ Answered' = Answered
      <4>1. r \in InFlight /\ r \in InFlight'
        BY <1>2, <1>3, <2>3, <3>1
      <4>2. InFlight' = InFlight
        BY <1>1, <4>1
      <4>3. r \notin Answered /\ r \notin Answered'
        BY <1>0, <1>2, <1>3, <2>3, OutcomeStep
      <4>4. Answered' = Answered
        BY <1>1, <4>3
      <4>. QED BY <2>1, <4>2, <4>4 DEF Waiting, Late
    <3>. QED BY <3>1, <3>2
  <2>4. CASE req[r].at # "unsent" /\ req'[r].at = "done"
    <3>1. r \in Waiting /\ Waiting' = Waiting \ {r} /\ Late' = Late \ {r}
      BY <1>1, <1>2, <1>3, <1>6, <2>1, <2>4 DEF Waiting, Late
    <3>2. CASE req[r].at = "append"
      <4>1. AppendTranscript(r)
        BY <3>2 DEF Step, Send, Find, Settle, ForgetSession, Rows, Attribute, Mirror, Count, Reverse, Flip, Read,
                    Enter, Merge, MergeLoco, Judge, AppendTranscript, Outage, In
      <4>2. Answered' = Answered \cup {r}
        BY <1>1, <1>2, <1>6, <2>1, <2>4, <3>2, OutcomeStep
      <4>3. CASE Log' = [Log EXCEPT ![id] = Append(@, e)]
        <5>1. Conversations!Answer(r)
          BY <1>0, <3>1, <4>2, <4>3 DEF Conversations!Answer, Conversations!Served, Log, Waiting, Late, Answered
        <5>. QED BY <1>6, <5>1 DEF Conversations!SessionsNext
      <4>4. CASE r \in late /\ Log' = Log
        <5>1. r \in Late
          BY <3>1, <4>4 DEF Late, Waiting
        <5>2. Conversations!AnswerLate(r)
          BY <3>1, <4>2, <4>4, <5>1 DEF Conversations!AnswerLate, Conversations!Served, Log, Waiting, Late, Answered
        <5>. QED BY <1>6, <5>2 DEF Conversations!SessionsNext
      <4>. QED BY <4>1, <4>3, <4>4, LogAppended
    <3>3. CASE req[r].at # "append"
      <4>1. Log' = Log /\ Answered' = Answered
        BY <1>1, <1>2, <1>3, <1>0, <1>6, <2>1, <2>4, <3>3, OutcomeStep, LogKept
      <4>2. Conversations!Fail(r)
        BY <3>1, <4>1 DEF Conversations!Fail, Conversations!Served, Log, Waiting, Late, Answered
      <4>. QED BY <1>6, <4>2 DEF Conversations!SessionsNext
    <3>. QED BY <3>2, <3>3
  <2>. QED BY <2>2, <2>3, <2>4
<1>. QED BY <1>4, <1>5, <1>6

\* However many sessions, requests and threads: the conversations are those of Sessions.
\* A turn is answered as the next entry of its session's log and in the light of the entry
\* before it, although its request takes many steps and releases the lock in between, and
\* only a turn whose session was forgotten is answered without an entry.
THEOREM ServiceKeepsConversations == ServiceSpec => TurnsAreOneConversation
<1>1. ServiceInit => Conversations!SessionsInit
  BY DEF ServiceInit, Conversations!SessionsInit, NewRequest, InFlight, Turns, Nobody
<1>2. ServiceInv /\ ServiceInv' /\ [ServiceNext]_serviceVars => [Conversations!SessionsNext]_(Conversations!sessionsVars)
  <2>1. CASE UNCHANGED serviceVars
    BY <2>1 DEF serviceVars, Conversations!sessionsVars, Turns, InFlight
  <2>2. ASSUME ServiceInv, ServiceInv', NEW r \in DOMAIN Requests, Send(r) \/ Step(r)
        PROVE  Conversations!SessionsNext \/ UNCHANGED Conversations!sessionsVars
    BY <2>2, StepOfSessions DEF Conversations!sessionsVars, Log, Waiting, Late, Answered
  <2>. QED BY <2>1, <2>2 DEF ServiceNext
<1>. QED
  BY <1>1, <1>2, ServiceInvInitially, ServiceInvKept, PTL DEF ServiceSpec, TurnsAreOneConversation, Conversations!SessionsSpec
=============================================================================
