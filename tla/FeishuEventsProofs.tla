-------------------------- MODULE FeishuEventsProofs --------------------------
(***************************************************************************)
(* Proofs about how the Feishu gateway takes messages to agents            *)
(* (FeishuEvents), for any number of messages, agents, re-pushed events    *)
(* and crashes, any policies and any ages.                                 *)
(***************************************************************************)
EXTENDS FeishuEvents, TLAPS

Entry   == [id: Nat, at: Nat, media: Nat]
Working == [st: {"dedup", "route", "switch", "enqueue", "put", "download"}, msg: Nat,
            agent: Agents \cup {NoAgent}, at: Nat]

TypeOK ==
    /\ inbox \in Seq(Shape)
    /\ handlers \in Seq(Working \cup {Done})
    /\ DOMAIN seen \subseteq Nat /\ \A i \in DOMAIN seen : seen[i] \in Nat
    /\ registered \subseteq Agents /\ active \in Agents \cup {NoAgent}
    /\ queue \in [Agents -> Seq(Entry)]
    /\ calls \in [Agents -> [st: {"none", "activate", "save"}, active: Agents \cup {NoAgent}]]
    /\ DOMAIN ctxs \subseteq Nat /\ \A i \in DOMAIN ctxs : ctxs[i] \in Nat
    /\ savedActive \in Agents \cup {NoAgent}
    /\ now \in Nat

\* A message the platform delivered that was addressed to the bot, and one whose
\* sender the policies admit as well.
Heard(i)    == i \in 1..Len(inbox) /\ Addressed(inbox[i])
Admitted(i) == Heard(i) /\ Allowed(inbox[i])

\* What a handler knows of its message at each stage.
HandlerOK(h) ==
    /\ h.st # "done" => h \in Working /\ Heard(h.msg)
    /\ h.st = "switch" => inbox[h.msg].arg \in Agents
    /\ h.st \in {"enqueue", "put", "download"} => h.agent \in Agents /\ Admitted(h.msg)

EntryOK(e) == Admitted(e.id) /\ (e.media # 0 => Admitted(e.media))

EventsInv ==
    /\ TypeOK
    /\ \A k \in 1..Len(handlers) : HandlerOK(handlers[k])
    /\ \A a \in Agents : \A j \in 1..Len(queue[a]) : EntryOK(queue[a][j])

----------------------------------------------------------------------------

\* What the steps do to the handlers: one of them moves on, or all are lost.
LEMMA HandlerMoves ==
    ASSUME TypeOK, NEW k \in DOMAIN handlers, NEW h \in Working \cup {Done},
           handlers' = [handlers EXCEPT ![k] = h]
    PROVE  /\ k \in 1..Len(handlers) /\ handlers' \in Seq(Working \cup {Done})
           /\ Len(handlers') = Len(handlers) /\ handlers'[k] = h
           /\ \A l \in 1..Len(handlers) : l # k => handlers'[l] = handlers[l]
  BY DEF TypeOK

\* A handler that has not ended is at one of the working stages.
LEMMA HandlerWorks ==
    ASSUME TypeOK, NEW k \in DOMAIN handlers, handlers[k].st # "done"
    PROVE  handlers[k] \in Working
<1>1. handlers[k] \in Working \cup {Done}
  BY DEF TypeOK
<1>2. QED
  BY <1>1 DEF Done

\* A handler that moves on and keeps its message.
LEMMA GotoShape ==
    ASSUME TypeOK, NEW k \in DOMAIN handlers, handlers[k].st # "done",
           NEW step \in {"dedup", "route", "switch", "enqueue", "put", "download"}, Goto(k, step)
    PROVE  LET h == [handlers[k] EXCEPT !.st = step] IN
           /\ handlers' = [handlers EXCEPT ![k] = h]
           /\ h \in Working /\ h.st = step /\ h.msg = Msg(k)
           /\ h.agent = handlers[k].agent /\ h.at = handlers[k].at
<1>1. handlers[k] \in Working
  BY HandlerWorks
<1>2. handlers' = [handlers EXCEPT ![k] = [handlers[k] EXCEPT !.st = step]]
  BY DEF Goto, TypeOK
<1>3. QED
  BY <1>1, <1>2 DEF Working, Msg

\* Appending an entry to a queue, and changing the files of its last.
LEMMA AppendShape ==
    ASSUME TypeOK, NEW a \in Agents, NEW e \in Entry,
           queue' = [queue EXCEPT ![a] = Append(queue[a], e)]
    PROVE  /\ queue' \in [Agents -> Seq(Entry)]
           /\ \A b \in Agents : \A j \in 1..Len(queue'[b]) :
                 \/ j \in 1..Len(queue[b]) /\ queue'[b][j] = queue[b][j]
                 \/ b = a /\ j = Len(queue[a]) + 1 /\ queue'[b][j] = e
<1>1. queue[a] \in Seq(Entry) /\ queue \in [Agents -> Seq(Entry)]
  BY DEF TypeOK
<1>2. \A b \in Agents : b # a => queue'[b] = queue[b]
  BY <1>1
<1>3. queue'[a] = Append(queue[a], e)
  BY <1>1
<1>4. QED
  BY <1>1, <1>2, <1>3

LEMMA LastMediaShape ==
    ASSUME TypeOK, NEW a \in Agents, NEW m \in Nat
    PROVE  /\ LastMedia(a, m) \in [Agents -> Seq(Entry)]
           /\ \A b \in Agents : \A j \in 1..Len(LastMedia(a, m)[b]) :
                 /\ j \in 1..Len(queue[b])
                 /\ LastMedia(a, m)[b][j].id = queue[b][j].id
                 /\ LastMedia(a, m)[b][j].at = queue[b][j].at
                 /\ LastMedia(a, m)[b][j].media \in {m, queue[b][j].media}
<1>1. queue \in [Agents -> Seq(Entry)]
  BY DEF TypeOK
<1>2. CASE queue[a] = <<>>
  BY <1>1, <1>2 DEF LastMedia
<1>3. CASE queue[a] # <<>>
  <2> DEFINE q == queue[a]
             l == [q[Len(q)] EXCEPT !.media = m]
             r == [q EXCEPT ![Len(q)] = l]
  <2>1. q \in Seq(Entry) /\ Len(q) \in 1..Len(q)
    BY <1>1, <1>3
  <2>2. q[Len(q)] \in Entry
    BY <2>1
  <2>3. l \in Entry /\ l.id = q[Len(q)].id /\ l.at = q[Len(q)].at /\ l.media = m
    BY <2>2 DEF Entry
  <2> HIDE DEF l
  <2>4. r \in Seq(Entry) /\ Len(r) = Len(q) /\ \A j \in 1..Len(q) : r[j] = IF j = Len(q) THEN l ELSE q[j]
    BY <2>1, <2>3
  <2>5. LastMedia(a, m) = [queue EXCEPT ![a] = r]
    BY <1>3, Zenon DEF LastMedia, l
  <2> HIDE DEF r
  <2>6. LastMedia(a, m)[a] = r /\ \A b \in Agents : b # a => LastMedia(a, m)[b] = queue[b]
    BY <1>1, <2>5
  <2>7. QED
    BY <1>1, <2>3, <2>4, <2>5, <2>6
<1>4. QED
  BY <1>2, <1>3

\* What the platform delivered stays.
LEMMA InboxGrows ==
    ASSUME TypeOK, [Next]_vars
    PROVE  \A i \in 1..Len(inbox) : i \in 1..Len(inbox') /\ inbox'[i] = inbox[i]
<1>1. inbox \in Seq(Shape)
  BY DEF TypeOK
<1>2. CASE Push
  BY <1>1, <1>2 DEF Push
<1>3. Push \/ UNCHANGED inbox
  BY DEF Next, PushAgain, Handle, SkipDuplicate, RecordNew, Answer, FindAgent, Switch, ReadActive,
         Enqueue, PutContext, Backfill, DownloadFails, AgentStep, Register, Activate, Save, Poll,
         Tick, Cleanup, CrashRestart, vars
<1>4. QED
  BY <1>2, <1>3

LEMMA EventsInit == Init => EventsInv
  BY DEF Init, EventsInv, TypeOK, NoCall, Empty

\* Whatever leaves handlers, queues and messages as they are.
LEMMA ParallelFrame ==
    ASSUME EventsInv, UNCHANGED <<inbox, handlers, queue>>, TypeOK'
    PROVE  EventsInv'
  BY DEF EventsInv, HandlerOK, EntryOK, Admitted, Heard

\* One handler moves, and the queues stay.
LEMMA HandlerFrame ==
    ASSUME EventsInv, UNCHANGED <<inbox, queue>>, TypeOK', NEW k \in DOMAIN handlers,
           NEW h \in Working \cup {Done}, handlers' = [handlers EXCEPT ![k] = h], HandlerOK(h)
    PROVE  EventsInv'
<1>1. TypeOK
  BY DEF EventsInv
<1>2. \A l \in 1..Len(handlers') : HandlerOK(handlers'[l])
  BY <1>1, HandlerMoves DEF EventsInv
<1>3. QED
  BY <1>2 DEF EventsInv, HandlerOK, EntryOK, Admitted, Heard

\* An event is pushed, for the first time or again.
LEMMA PushKeeps ==
    ASSUME EventsInv, Push \/ PushAgain
    PROVE  EventsInv'
<1> DEFINE grows == \A i \in 1..Len(inbox) : i \in 1..Len(inbox') /\ inbox'[i] = inbox[i]
<1>1. grows
  BY InboxGrows DEF Next, EventsInv
<1>2. PICK i \in 1..Len(inbox') : handlers' = Append(handlers, Started(i, inbox'[i]))
  <2>1. CASE Push
    <3>1. PICK s \in Shapes : inbox' = Append(inbox, s) /\ handlers' = Append(handlers, Started(Len(inbox'), s))
      BY <2>1 DEF Push
    <3>2. Len(inbox') \in 1..Len(inbox') /\ inbox'[Len(inbox')] = s
      BY <3>1 DEF EventsInv, TypeOK
    <3>3. QED
      BY <3>1, <3>2
  <2>2. CASE PushAgain
    BY <2>2 DEF PushAgain, EventsInv, TypeOK
  <2>3. QED
    BY <2>1, <2>2
<1>3. inbox' \in Seq(Shape)
  <2>1. CASE Push
    <3>1. PICK s \in Shape : inbox' = Append(inbox, s)
      BY <2>1, EventsAssumption DEF Push
    <3>2. QED
      BY <3>1 DEF EventsInv, TypeOK
  <2>2. CASE PushAgain
    BY <2>2 DEF PushAgain, EventsInv, TypeOK
  <2>3. QED
    BY <2>1, <2>2
<1> DEFINE n == Started(i, inbox'[i])
<1>4. n \in Working \cup {Done} /\ (n.st # "done" => n.st = "dedup" /\ n.msg = i /\ Addressed(inbox'[i]))
  <2>1. CASE Addressed(inbox'[i])
    BY <1>2, <1>3, <2>1 DEF Started, Working
  <2>2. CASE ~Addressed(inbox'[i])
    BY <2>2 DEF Started, Done
  <2>3. QED
    BY <2>1, <2>2
<1> HIDE DEF n
<1>5. handlers' \in Seq(Working \cup {Done}) /\ \A k \in 1..Len(handlers') :
         (k \in 1..Len(handlers) /\ handlers'[k] = handlers[k]) \/ handlers'[k] = n
  BY <1>2, <1>4 DEF n, EventsInv, TypeOK
<1>6. UNCHANGED <<seen, routerVars, calls, ctxs, savedActive, clockVars>>
  BY DEF Push, PushAgain
<1>7. TypeOK'
  BY <1>3, <1>5, <1>6 DEF EventsInv, TypeOK, routerVars, clockVars
<1>8. ASSUME NEW k \in 1..Len(handlers') PROVE HandlerOK(handlers[k])'
  <2>1. CASE k \in 1..Len(handlers) /\ handlers'[k] = handlers[k]
    <3>1. HandlerOK(handlers[k])
      BY <2>1 DEF EventsInv
    <3>2. QED
      BY <1>1, <2>1, <3>1 DEF HandlerOK, Admitted, Heard
  <2>2. CASE handlers'[k] = n
    BY <1>4, <2>2 DEF HandlerOK, Heard, Done
  <2>3. QED
    BY <1>5, <2>1, <2>2
<1>9. ASSUME NEW a \in Agents, NEW j \in 1..Len(queue'[a]) PROVE EntryOK(queue[a][j])'
  BY <1>1, <1>6 DEF EventsInv, EntryOK, Admitted, Heard, routerVars
<1>10. QED
  BY <1>7, <1>8, <1>9 DEF EventsInv

\* The dedup cache evicts and records.
LEMMA SeenShape ==
    ASSUME TypeOK, NEW m \in Nat
    PROVE  /\ DOMAIN Keep(seen, Fresh) = Fresh /\ Fresh \subseteq Nat
           /\ \A i \in Fresh : i \in DOMAIN seen /\ Keep(seen, Fresh)[i] = seen[i] /\ seen[i] \in Nat
           /\ DOMAIN Put(Keep(seen, Fresh), m, now) = Fresh \cup {m}
           /\ Put(Keep(seen, Fresh), m, now)[m] = now
           /\ \A i \in Fresh \ {m} : Put(Keep(seen, Fresh), m, now)[i] = seen[i]
<1>1. Fresh \subseteq DOMAIN seen /\ DOMAIN seen \subseteq Nat /\ \A i \in DOMAIN seen : seen[i] \in Nat
  BY DEF Fresh, TypeOK
<1>2. DOMAIN Keep(seen, Fresh) = Fresh /\ \A i \in Fresh : Keep(seen, Fresh)[i] = seen[i]
  BY <1>1, Zenon DEF Keep
<1>3. QED
  BY <1>1, <1>2, Zenon DEF Put

\* A handler's step.
LEMMA HandleKeeps ==
    ASSUME EventsInv, NEW k \in DOMAIN handlers, Handle(k)
    PROVE  EventsInv'
<1> DEFINE h == handlers[k]
<1>0. TypeOK /\ HandlerOK(h) /\ now \in Nat
  BY DEF EventsInv, TypeOK
<1> USE DEF routerVars, clockVars
<1>1. CASE SkipDuplicate(k)
  <2>1. Msg(k) \in Nat
    BY <1>0, <1>1, HandlerWorks DEF SkipDuplicate, At, Msg, Working
  <2>2. handlers' = [handlers EXCEPT ![k] = Done] /\ HandlerOK(Done)
    BY <1>1 DEF SkipDuplicate, End, HandlerOK, Done
  <2>3. handlers' \in Seq(Working \cup {Done})
    BY <1>0, <2>2, HandlerMoves
  <2>4. TypeOK'
    BY <1>0, <1>1, <2>1, <2>3, SeenShape DEF SkipDuplicate, TypeOK
  <2>5. QED
    BY <1>1, <2>2, <2>4, HandlerFrame DEF SkipDuplicate
<1>2. CASE RecordNew(k)
  <2>1. h \in Working
    BY <1>0, <1>2, HandlerWorks DEF RecordNew, At
  <2> DEFINE n == [h EXCEPT !.st = "route", !.at = now]
  <2>2. n \in Working /\ n.st = "route" /\ n.msg = h.msg
    BY <1>0, <2>1 DEF Working
  <2>3. handlers' = [handlers EXCEPT ![k] = n]
    BY <1>0, <1>2 DEF RecordNew, TypeOK
  <2>4. HandlerOK(n)
    BY <1>0, <1>2, <2>1, <2>2 DEF HandlerOK, RecordNew, At
  <2> HIDE DEF n
  <2>5. handlers' \in Seq(Working \cup {Done}) /\ Msg(k) \in Nat
    BY <1>0, <2>1, <2>2, <2>3, HandlerMoves DEF Working, Msg
  <2>6. DOMAIN seen' \subseteq Nat /\ \A i \in DOMAIN seen' : seen'[i] \in Nat
    <3>1. seen' = Put(Keep(seen, Fresh), Msg(k), now)
      BY <1>2 DEF RecordNew
    <3>2. /\ DOMAIN seen' = Fresh \cup {Msg(k)} /\ Fresh \subseteq Nat
          /\ \A i \in Fresh : seen[i] \in Nat
          /\ seen'[Msg(k)] = now
          /\ \A i \in Fresh \ {Msg(k)} : seen'[i] = seen[i]
      BY <1>0, <2>5, <3>1, SeenShape
    <3>3. QED
      BY <1>0, <2>5, <3>2
  <2>7. TypeOK'
    BY <1>0, <1>2, <2>5, <2>6 DEF RecordNew, TypeOK
  <2>8. QED
    BY <1>2, <2>2, <2>3, <2>4, <2>7, HandlerFrame DEF RecordNew
<1>3. CASE Answer(k) \/ DownloadFails(k)
  <2>1. handlers' = [handlers EXCEPT ![k] = Done] /\ HandlerOK(Done)
    BY <1>3 DEF Answer, DownloadFails, End, HandlerOK, Done
  <2>2. TypeOK'
    BY <1>0, <1>3, <2>1, HandlerMoves DEF Answer, DownloadFails, TypeOK
  <2>3. QED
    BY <1>3, <2>1, <2>2, HandlerFrame DEF Answer, DownloadFails
<1>4. CASE FindAgent(k)
  <2> DEFINE n == [h EXCEPT !.st = "switch"]
  <2>1. h.st = "route" /\ Goto(k, "switch") /\ Sent(k).arg \in registered
    BY <1>4 DEF FindAgent, At, Answered
  <2>2. handlers' = [handlers EXCEPT ![k] = n] /\ n \in Working /\ n.st = "switch" /\ n.msg = Msg(k)
    BY <1>0, <2>1, GotoShape
  <2>3. Heard(Msg(k)) /\ inbox[Msg(k)].arg \in Agents
    BY <1>0, <2>1 DEF HandlerOK, Msg, Sent, TypeOK
  <2> HIDE DEF n
  <2>4. HandlerOK(n)
    BY <2>2, <2>3 DEF HandlerOK
  <2>5. TypeOK'
    BY <1>0, <1>4, <2>2, HandlerMoves DEF FindAgent, TypeOK
  <2>6. QED
    BY <1>4, <2>2, <2>4, <2>5, HandlerFrame DEF FindAgent
<1>5. CASE Switch(k)
  <2>1. handlers' = [handlers EXCEPT ![k] = Done] /\ HandlerOK(Done)
    BY <1>5 DEF Switch, End, HandlerOK, Done
  <2>2. active' \in Agents
    BY <1>0, <1>5 DEF Switch, At, HandlerOK, Sent, Msg
  <2>3. TypeOK'
    BY <1>0, <1>5, <2>1, <2>2, HandlerMoves DEF Switch, TypeOK
  <2>4. QED
    BY <1>5, <2>1, <2>3, HandlerFrame DEF Switch
<1>6. CASE ReadActive(k)
  <2> DEFINE n == [h EXCEPT !.st = "enqueue", !.agent = active]
  <2>1. h \in Working /\ h.st = "route" /\ active \in Agents /\ Allowed(inbox[h.msg])
    BY <1>0, <1>6, HandlerWorks DEF ReadActive, At, Answered, Sent, Msg, TypeOK
  <2>2. n \in Working /\ n.st = "enqueue" /\ n.msg = h.msg /\ n.agent = active
    BY <2>1 DEF Working
  <2>3. handlers' = [handlers EXCEPT ![k] = n]
    BY <1>0, <1>6 DEF ReadActive, TypeOK
  <2>4. HandlerOK(n)
    BY <1>0, <2>1, <2>2 DEF HandlerOK, Admitted
  <2> HIDE DEF n
  <2>5. TypeOK'
    BY <1>0, <1>6, <2>2, <2>3, HandlerMoves DEF ReadActive, TypeOK
  <2>6. QED
    BY <1>6, <2>2, <2>3, <2>4, <2>5, HandlerFrame DEF ReadActive
<1>7. CASE Enqueue(k)
  <2> DEFINE n == [h EXCEPT !.st = "put"]
             e == [id |-> Msg(k), at |-> h.at, media |-> 0]
  <2>1. h \in Working /\ h.st = "enqueue" /\ Goto(k, "put") /\ h.agent \in Agents /\ Admitted(Msg(k))
    BY <1>0, <1>7, HandlerWorks DEF Enqueue, At, HandlerOK, Msg
  <2>2. handlers' = [handlers EXCEPT ![k] = n] /\ n \in Working /\ n.st = "put" /\ n.msg = Msg(k)
        /\ n.agent = h.agent
    BY <1>0, <2>1, GotoShape
  <2>3. e \in Entry /\ EntryOK(e)
    BY <2>1 DEF Entry, Working, Msg, EntryOK
  <2>4. queue' = [queue EXCEPT ![h.agent] = Append(queue[h.agent], e)]
    BY <1>7, Zenon DEF Enqueue
  <2> HIDE DEF n, e
  <2>5. HandlerOK(n)
    BY <2>1, <2>2 DEF HandlerOK, Admitted
  <2>6. queue' \in [Agents -> Seq(Entry)] /\ handlers' \in Seq(Working \cup {Done})
    BY <1>0, <2>1, <2>2, <2>3, <2>4, AppendShape, HandlerMoves
  <2>7. TypeOK'
    BY <1>0, <1>7, <2>6 DEF Enqueue, TypeOK
  <2>8. \A l \in 1..Len(handlers') : HandlerOK(handlers'[l])
    BY <1>0, <2>2, <2>5, HandlerMoves DEF EventsInv
  <2>9. \A a \in Agents : \A j \in 1..Len(queue'[a]) : EntryOK(queue'[a][j])
    BY <1>0, <2>1, <2>3, <2>4, AppendShape DEF EventsInv
  <2>10. UNCHANGED inbox
    BY <1>7 DEF Enqueue
  <2>11. QED
    BY <2>7, <2>8, <2>9, <2>10 DEF EventsInv, HandlerOK, EntryOK, Admitted, Heard
<1>8. CASE PutContext(k)
  <2>1. h \in Working /\ h.st = "put" /\ Msg(k) \in Nat
    BY <1>0, <1>8, HandlerWorks DEF PutContext, At, Working, Msg
  <2>2. DOMAIN ctxs' \subseteq Nat /\ \A i \in DOMAIN ctxs' : ctxs'[i] \in Nat
    BY <1>0, <1>8, <2>1, Zenon DEF PutContext, Put, TypeOK
  <2>3. PICK n \in Working \cup {Done} : handlers' = [handlers EXCEPT ![k] = n] /\ HandlerOK(n)
    <3>1. CASE Goto(k, "download")
      <4> DEFINE n == [h EXCEPT !.st = "download"]
      <4>1. handlers' = [handlers EXCEPT ![k] = n] /\ n \in Working /\ n.st = "download"
            /\ n.msg = Msg(k) /\ n.agent = h.agent
        BY <1>0, <2>1, <3>1, GotoShape
      <4> HIDE DEF n
      <4>2. HandlerOK(n)
        BY <1>0, <2>1, <4>1 DEF HandlerOK, Msg
      <4>3. QED
        BY <4>1, <4>2
    <3>2. CASE End(k)
      <4>1. handlers' = [handlers EXCEPT ![k] = Done] /\ Done \in Working \cup {Done}
        BY <3>2 DEF End
      <4>2. HandlerOK(Done)
        BY DEF HandlerOK, Done
      <4>3. QED
        BY <4>1, <4>2
    <3>3. QED
      BY <1>8, <3>1, <3>2 DEF PutContext
  <2>4. TypeOK'
    BY <1>0, <1>8, <2>2, <2>3, HandlerMoves DEF PutContext, TypeOK
  <2>5. QED
    BY <1>8, <2>3, <2>4, HandlerFrame DEF PutContext
<1>9. CASE Backfill(k)
  <2>1. h.agent \in Agents /\ Admitted(Msg(k)) /\ queue' = LastMedia(h.agent, Msg(k)) /\ Msg(k) \in Nat
    BY <1>0, <1>9, HandlerWorks DEF Backfill, At, HandlerOK, Msg, Working
  <2>2. handlers' = [handlers EXCEPT ![k] = Done] /\ HandlerOK(Done)
    BY <1>9 DEF Backfill, End, HandlerOK, Done
  <2>3. queue' \in [Agents -> Seq(Entry)]
    BY <1>0, <2>1, LastMediaShape
  <2>4. TypeOK'
    BY <1>0, <1>9, <2>2, <2>3, HandlerMoves DEF Backfill, TypeOK
  <2>5. \A l \in 1..Len(handlers') : HandlerOK(handlers'[l])
    BY <1>0, <2>2, HandlerMoves DEF EventsInv
  <2>6. ASSUME NEW a \in Agents, NEW j \in 1..Len(queue'[a]) PROVE EntryOK(queue'[a][j])
    <3>1. /\ j \in 1..Len(queue[a]) /\ queue'[a][j].id = queue[a][j].id
          /\ queue'[a][j].media \in {Msg(k), queue[a][j].media}
      BY <1>0, <2>1, LastMediaShape
    <3>2. QED
      BY <2>1, <3>1 DEF EventsInv, EntryOK
  <2>7. UNCHANGED inbox
    BY <1>9 DEF Backfill
  <2>8. QED
    BY <2>4, <2>5, <2>6, <2>7 DEF EventsInv, HandlerOK, EntryOK, Admitted, Heard
<1>10. QED
  BY <1>1, <1>2, <1>3, <1>4, <1>5, <1>6, <1>7, <1>8, <1>9 DEF Handle

LEMMA EventsStep == EventsInv /\ [Next]_vars => EventsInv'
<1> SUFFICES ASSUME EventsInv, [Next]_vars PROVE EventsInv'
  OBVIOUS
<1> USE DEF routerVars, clockVars
<1>1. CASE Push \/ PushAgain
  BY <1>1, PushKeeps
<1>2. CASE \E k \in DOMAIN handlers : Handle(k)
  BY <1>2, HandleKeeps
<1>3. CASE \E a \in Agents : Register(a) \/ Activate(a) \/ Save(a)
  <2>1. PICK a \in Agents : Register(a) \/ Activate(a) \/ Save(a)
    BY <1>3
  <2>2. UNCHANGED <<inbox, handlers, queue>>
    BY <2>1 DEF Register, Activate, Save
  <2>3. TypeOK'
    <3>1. TypeOK /\ calls[a].st \in {"none", "activate", "save"}
          /\ calls[a].active \in Agents \cup {NoAgent}
      BY DEF EventsInv, TypeOK
    <3>2. CASE Register(a)
      <4>1. calls' \in [Agents -> [st: {"none", "activate", "save"}, active: Agents \cup {NoAgent}]]
        BY <3>1, <3>2 DEF Register, TypeOK
      <4>2. QED
        BY <3>1, <3>2, <4>1 DEF Register, TypeOK
    <3>3. CASE Activate(a)
      <4>1. active' \in Agents \cup {NoAgent}
        BY <3>1, <3>3 DEF Activate, TypeOK
      <4>2. calls' \in [Agents -> [st: {"none", "activate", "save"}, active: Agents \cup {NoAgent}]]
        BY <3>1, <3>3, <4>1 DEF Activate, TypeOK
      <4>3. QED
        BY <3>1, <3>3, <4>1, <4>2 DEF Activate, TypeOK
    <3>4. CASE Save(a)
      <4>1. savedActive' \in Agents \cup {NoAgent}
        BY <3>1, <3>4 DEF Save, TypeOK
      <4>2. calls' \in [Agents -> [st: {"none", "activate", "save"}, active: Agents \cup {NoAgent}]]
        BY <3>1, <3>4 DEF Save, TypeOK, NoCall
      <4>3. QED
        BY <3>1, <3>4, <4>1, <4>2 DEF Save, TypeOK
    <3>5. QED
      BY <2>1, <3>2, <3>3, <3>4
  <2>4. QED
    BY <2>2, <2>3, ParallelFrame
<1>4. CASE \E a \in Agents : Poll(a)
  <2>1. PICK a \in Agents : Poll(a)
    BY <1>4
  <2>2. \A b \in Agents : queue'[b] = <<>> \/ queue'[b] = queue[b]
    BY <2>1 DEF Poll, EventsInv, TypeOK
  <2>3. TypeOK' /\ UNCHANGED <<inbox, handlers>>
    BY <2>1 DEF Poll, EventsInv, TypeOK
  <2>4. QED
    BY <2>2, <2>3 DEF EventsInv, HandlerOK, EntryOK, Admitted, Heard
<1>5. CASE Tick
  BY <1>5, ParallelFrame DEF Tick, memoryVars, EventsInv, TypeOK
<1>6. CASE Cleanup
  <2>1. \A i \in DOMAIN ctxs' : i \in DOMAIN ctxs /\ ctxs'[i] = ctxs[i]
    BY <1>6, Zenon DEF Cleanup, Keep
  <2>2. QED
    BY <1>6, <2>1, ParallelFrame DEF Cleanup, EventsInv, TypeOK
<1>7. CASE CrashRestart
  <2>1. handlers' \in Seq(Working \cup {Done}) /\ \A k \in 1..Len(handlers') : handlers'[k] = Done
    BY <1>7 DEF CrashRestart, EventsInv, TypeOK
  <2>2. TypeOK' /\ \A a \in Agents : queue'[a] = <<>>
    BY <1>7, <2>1 DEF CrashRestart, EventsInv, TypeOK, NoCall, Empty
  <2>3. QED
    BY <2>1, <2>2 DEF EventsInv, HandlerOK, Done
<1>8. CASE UNCHANGED vars
  BY <1>8, ParallelFrame DEF vars, memoryVars, EventsInv, TypeOK
<1>9. QED
  BY <1>1, <1>2, <1>3, <1>4, <1>5, <1>6, <1>7, <1>8 DEF Next, AgentStep

\* What the handlers and the queues hold is what the platform delivered, the
\* policies admitted and, in a group, addressed the bot.
THEOREM EventsInvariant == Spec => []EventsInv
<1>1. QED
  BY EventsInit, EventsStep, PTL DEF Spec

\* No message and no file of a refused sender, or of a group that did not
\* mention the bot, gets into a queue, however handlers interleave (handleEvent,
\* HandleIncoming, UpdateLastMedia).
THEOREM AdmittedOnly == Spec => []OnlyAdmittedQueued
<1>1. EventsInv => OnlyAdmittedQueued
  <2> SUFFICES ASSUME EventsInv, NEW e \in Entries, NEW i \in {e.id, e.media} \ {0}
               PROVE  inbox[i].user \notin Blocked /\ (inbox[i].group => inbox[i].mention)
    BY DEF OnlyAdmittedQueued
  <2>1. EntryOK(e)
    <3>1. PICK a \in Agents : e \in {queue[a][j] : j \in DOMAIN queue[a]}
      BY DEF Entries
    <3>2. PICK j \in DOMAIN queue[a] : e = queue[a][j]
      BY <3>1
    <3>3. DOMAIN queue[a] = 1..Len(queue[a])
      BY DEF EventsInv, TypeOK
    <3>4. QED
      BY <3>2, <3>3 DEF EventsInv
  <2>2. Admitted(i)
    BY <2>1 DEF EntryOK
  <2>3. QED
    BY <2>2 DEF Admitted, Heard, Addressed, Allowed
<1>2. QED
  BY EventsInvariant, <1>1, PTL

----------------------------------------------------------------------------
(* Duplicates, and contexts.                                               *)

\* The handler has passed the dedup cache and may yet queue its message.
Pending(h) == h.st \in {"route", "switch", "enqueue"}

\* The cache knows that message m passed at time t, or it is too long ago.
Recorded(m, t) == t <= now /\ ((m \in DOMAIN seen /\ seen[m] >= t) \/ now > t + DedupTtl)

Apart(t, u) == t > u + DedupTtl \/ u > t + DedupTtl

DupInv ==
    /\ \A k \in 1..Len(handlers) : Pending(handlers[k]) => Recorded(Msg(k), handlers[k].at)
    /\ \A k, l \in 1..Len(handlers) :
          Pending(handlers[k]) /\ Pending(handlers[l]) /\ k # l /\ Msg(k) = Msg(l)
          => Apart(handlers[k].at, handlers[l].at)
    /\ \A k \in 1..Len(handlers), a \in Agents : \A j \in 1..Len(queue[a]) :
          Pending(handlers[k]) /\ Msg(k) = queue[a][j].id
          => Apart(handlers[k].at, queue[a][j].at)
    /\ \A a \in Agents : \A j \in 1..Len(queue[a]) : Recorded(queue[a][j].id, queue[a][j].at)
    /\ \A a, b \in Agents : \A i \in 1..Len(queue[a]), j \in 1..Len(queue[b]) :
          queue[a][i].id = queue[b][j].id /\ (a # b \/ i # j)
          => Apart(queue[a][i].at, queue[b][j].at)

\* The context of a message queued at time t outlives it, is about to be
\* recorded, or was lost for its age.
Kept(m, t) ==
    \/ m \in DOMAIN ctxs /\ ctxs[m] >= t
    \/ \E k \in 1..Len(handlers) : handlers[k].st = "put" /\ Msg(k) = m
    \/ now > t + CtxTtl

AnswerInv == \A a \in Agents : \A j \in 1..Len(queue[a]) : Kept(queue[a][j].id, queue[a][j].at)

\* Every time that f holds for an index is as late in g, or lies ttl back.
Survives(f, g, ttl) ==
    \A i \in DOMAIN f : \/ i \in DOMAIN g /\ (g[i] >= f[i] \/ g[i] >= now)
                       \/ now > f[i] + ttl

\* A step leaves the pending handlers, those about to record a context, and the
\* entries of the queues as they were, or ends them.
PendingStay ==
    \A k \in 1..Len(handlers') : Pending(handlers'[k]) =>
        /\ k \in 1..Len(handlers) /\ Pending(handlers[k])
        /\ handlers'[k].msg = handlers[k].msg /\ handlers'[k].at = handlers[k].at

PutsStay ==
    \A k \in 1..Len(handlers) : handlers[k].st = "put" =>
        \/ /\ k \in 1..Len(handlers') /\ handlers'[k].st = "put"
           /\ handlers'[k].msg = handlers[k].msg
        \/ handlers[k].msg \in DOMAIN ctxs' /\ ctxs'[handlers[k].msg] >= now

EntriesStay ==
    \A a \in Agents : \A j \in 1..Len(queue'[a]) :
        j \in 1..Len(queue[a]) /\ queue'[a][j].id = queue[a][j].id /\ queue'[a][j].at = queue[a][j].at

\* The types of what a handler and an entry hold.
LEMMA PendingTypes ==
    ASSUME TypeOK, NEW k \in 1..Len(handlers), handlers[k].st # "done"
    PROVE  handlers[k] \in Working /\ Msg(k) \in Nat /\ handlers[k].at \in Nat /\ Msg(k) = handlers[k].msg
<1>1. DOMAIN handlers = 1..Len(handlers)
  BY DEF TypeOK
<1>2. handlers[k] \in Working
  BY <1>1, HandlerWorks
<1>3. QED
  BY <1>2 DEF Working, Msg

LEMMA EntryTypes ==
    ASSUME TypeOK, NEW a \in Agents, NEW j \in 1..Len(queue[a])
    PROVE  queue[a][j] \in Entry /\ queue[a][j].id \in Nat /\ queue[a][j].at \in Nat
<1>1. queue[a] \in Seq(Entry)
  BY DEF TypeOK
<1>2. queue[a][j] \in Entry
  BY <1>1
<1>3. QED
  BY <1>2 DEF Entry

LEMMA RecordedStays ==
    ASSUME TypeOK, TypeOK', now <= now', Survives(seen, seen', DedupTtl),
           NEW m \in Nat, NEW t \in Nat, Recorded(m, t)
    PROVE  Recorded(m, t)'
<1>1. now \in Nat /\ now' \in Nat /\ DedupTtl \in Nat /\ t <= now
  BY EventsAssumption DEF TypeOK, Recorded
<1>2. CASE m \in DOMAIN seen /\ seen[m] >= t
  <2>1. seen[m] \in Nat /\ (m \in DOMAIN seen' => seen'[m] \in Nat)
    BY <1>2 DEF TypeOK
  <2>2. \/ m \in DOMAIN seen' /\ (seen'[m] >= seen[m] \/ seen'[m] >= now)
        \/ now > seen[m] + DedupTtl
    BY <1>2 DEF Survives
  <2>3. QED
    BY <1>1, <1>2, <2>1, <2>2 DEF Recorded
<1>3. CASE now > t + DedupTtl
  BY <1>1, <1>3 DEF Recorded
<1>4. QED
  BY <1>2, <1>3 DEF Recorded

LEMMA KeptStays ==
    ASSUME TypeOK, TypeOK', now <= now', Survives(ctxs, ctxs', CtxTtl), PutsStay,
           NEW m \in Nat, NEW t \in Nat, t <= now, Kept(m, t)
    PROVE  Kept(m, t)'
<1>1. now \in Nat /\ now' \in Nat /\ CtxTtl \in Nat
  BY EventsAssumption DEF TypeOK
<1>2. CASE m \in DOMAIN ctxs /\ ctxs[m] >= t
  <2>1. ctxs[m] \in Nat /\ (m \in DOMAIN ctxs' => ctxs'[m] \in Nat)
    BY <1>2 DEF TypeOK
  <2>2. \/ m \in DOMAIN ctxs' /\ (ctxs'[m] >= ctxs[m] \/ ctxs'[m] >= now)
        \/ now > ctxs[m] + CtxTtl
    BY <1>2 DEF Survives
  <2>3. QED
    BY <1>1, <1>2, <2>1, <2>2 DEF Kept
<1>3. CASE \E k \in 1..Len(handlers) : handlers[k].st = "put" /\ Msg(k) = m
  <2>1. PICK k \in 1..Len(handlers) : handlers[k].st = "put" /\ Msg(k) = m
    BY <1>3
  <2>2. CASE k \in 1..Len(handlers') /\ handlers'[k].st = "put" /\ handlers'[k].msg = handlers[k].msg
    BY <2>1, <2>2 DEF Kept, Msg
  <2>3. CASE handlers[k].msg \in DOMAIN ctxs' /\ ctxs'[handlers[k].msg] >= now
    <3>1. m \in DOMAIN ctxs' /\ ctxs'[m] >= now /\ ctxs'[m] \in Nat
      BY <2>1, <2>3 DEF Msg, TypeOK
    <3>2. QED
      BY <1>1, <3>1 DEF Kept
  <2>4. QED
    BY <2>1, <2>2, <2>3 DEF PutsStay
<1>4. CASE now > t + CtxTtl
  BY <1>1, <1>4 DEF Kept
<1>5. QED
  BY <1>2, <1>3, <1>4 DEF Kept

\* Steps that leave what is pending and queued as it is, or end it.
LEMMA DupFrame ==
    ASSUME TypeOK, TypeOK', DupInv, now <= now', Survives(seen, seen', DedupTtl),
           PendingStay, EntriesStay
    PROVE  DupInv'
<1>1. ASSUME NEW k \in 1..Len(handlers'), Pending(handlers'[k])
      PROVE  /\ k \in 1..Len(handlers) /\ Pending(handlers[k])
             /\ Msg(k)' = Msg(k) /\ handlers'[k].at = handlers[k].at
             /\ Msg(k) \in Nat /\ handlers[k].at \in Nat
  <2>1. k \in 1..Len(handlers) /\ Pending(handlers[k])
        /\ Msg(k)' = Msg(k) /\ handlers'[k].at = handlers[k].at
    BY <1>1 DEF PendingStay, Msg
  <2>2. QED
    BY <2>1, PendingTypes DEF Pending
<1>2. ASSUME NEW k \in 1..Len(handlers'), Pending(handlers'[k])
      PROVE  Recorded(Msg(k), handlers[k].at)'
  <2>1. Recorded(Msg(k), handlers[k].at)
    BY <1>1, <1>2 DEF DupInv
  <2>2. PICK m \in Nat, t \in Nat : m = Msg(k) /\ t = handlers[k].at
    BY <1>1, <1>2
  <2>3. Recorded(m, t)'
    BY <2>1, <2>2, RecordedStays
  <2>4. QED
    BY <1>1, <1>2, <2>2, <2>3
<1>3. ASSUME NEW a \in Agents, NEW j \in 1..Len(queue'[a])
      PROVE  Recorded(queue[a][j].id, queue[a][j].at)'
  <2>1. j \in 1..Len(queue[a]) /\ queue'[a][j].id = queue[a][j].id /\ queue'[a][j].at = queue[a][j].at
    BY DEF EntriesStay
  <2>2. Recorded(queue[a][j].id, queue[a][j].at)
    BY <2>1 DEF DupInv
  <2>3. PICK m \in Nat, t \in Nat : m = queue[a][j].id /\ t = queue[a][j].at
    BY <2>1, EntryTypes
  <2>4. Recorded(m, t)'
    BY <2>2, <2>3, RecordedStays
  <2>5. QED
    BY <2>1, <2>3, <2>4
<1>4. ASSUME NEW k \in 1..Len(handlers'), NEW l \in 1..Len(handlers'),
             Pending(handlers'[k]), Pending(handlers'[l]), k # l, Msg(k)' = Msg(l)'
      PROVE  Apart(handlers'[k].at, handlers'[l].at)
  BY <1>1, <1>4 DEF DupInv
<1>5. ASSUME NEW k \in 1..Len(handlers'), NEW a \in Agents, NEW j \in 1..Len(queue'[a]),
             Pending(handlers'[k]), Msg(k)' = queue'[a][j].id
      PROVE  Apart(handlers'[k].at, queue'[a][j].at)
  BY <1>1, <1>5 DEF DupInv, EntriesStay
<1>6. ASSUME NEW a \in Agents, NEW b \in Agents, NEW i \in 1..Len(queue'[a]),
             NEW j \in 1..Len(queue'[b]), queue'[a][i].id = queue'[b][j].id, a # b \/ i # j
      PROVE  Apart(queue'[a][i].at, queue'[b][j].at)
  BY <1>6 DEF DupInv, EntriesStay
<1>7. QED
  BY <1>2, <1>3, <1>4, <1>5, <1>6 DEF DupInv, Pending, Apart

LEMMA AnswerFrame ==
    ASSUME TypeOK, TypeOK', DupInv, AnswerInv, now <= now', Survives(ctxs, ctxs', CtxTtl),
           PutsStay, EntriesStay
    PROVE  AnswerInv'
<1> SUFFICES ASSUME NEW a \in Agents, NEW j \in 1..Len(queue'[a])
             PROVE  Kept(queue[a][j].id, queue[a][j].at)'
  BY DEF AnswerInv
<1>1. j \in 1..Len(queue[a]) /\ queue'[a][j].id = queue[a][j].id /\ queue'[a][j].at = queue[a][j].at
  BY DEF EntriesStay
<1>2. Kept(queue[a][j].id, queue[a][j].at) /\ queue[a][j].at <= now
  BY <1>1 DEF AnswerInv, DupInv, Recorded
<1>3. PICK m \in Nat, t \in Nat : m = queue[a][j].id /\ t = queue[a][j].at
  BY <1>1, EntryTypes
<1>4. Kept(m, t)'
  BY <1>2, <1>3, KeptStays
<1>5. QED
  BY <1>1, <1>3, <1>4

\* What is evicted, cleaned up and recorded.
LEMMA TimesSurvive ==
    ASSUME TypeOK
    PROVE  /\ Survives(seen, seen, DedupTtl) /\ Survives(ctxs, ctxs, CtxTtl)
           /\ Survives(seen, Keep(seen, Fresh), DedupTtl)
           /\ Survives(ctxs, Keep(ctxs, Current), CtxTtl)
           /\ \A m \in Nat : /\ Survives(seen, Put(Keep(seen, Fresh), m, now), DedupTtl)
                             /\ Survives(ctxs, Put(ctxs, m, now), CtxTtl)
                             /\ m \in DOMAIN Put(ctxs, m, now) /\ Put(ctxs, m, now)[m] = now
<1>1. now \in Nat /\ DedupTtl \in Nat /\ CtxTtl \in Nat
  BY EventsAssumption DEF TypeOK
<1>2. \A i \in DOMAIN seen : seen[i] \in Nat /\ (i \notin Fresh => now > seen[i] + DedupTtl)
  BY <1>1 DEF TypeOK, Fresh
<1>3. \A i \in DOMAIN ctxs : ctxs[i] \in Nat /\ (i \notin Current => now > ctxs[i] + CtxTtl)
  BY <1>1 DEF TypeOK, Current
<1>4. DOMAIN Keep(ctxs, Current) = DOMAIN ctxs \cap Current
      /\ \A i \in DOMAIN ctxs \cap Current : Keep(ctxs, Current)[i] = ctxs[i]
  BY Zenon DEF Keep
<1>5. ASSUME NEW m \in Nat
      PROVE  /\ DOMAIN Put(ctxs, m, now) = DOMAIN ctxs \cup {m} /\ Put(ctxs, m, now)[m] = now
             /\ \A i \in DOMAIN ctxs \ {m} : Put(ctxs, m, now)[i] = ctxs[i]
  BY Zenon DEF Put
<1>6. Survives(seen, seen, DedupTtl) /\ Survives(ctxs, ctxs, CtxTtl)
  BY <1>2, <1>3 DEF Survives
<1>7. Survives(seen, Keep(seen, Fresh), DedupTtl)
  <2>1. DOMAIN Keep(seen, Fresh) = Fresh /\ \A i \in Fresh : Keep(seen, Fresh)[i] = seen[i]
    BY SeenShape
  <2>2. QED
    BY <1>2, <2>1 DEF Survives
<1>8. Survives(ctxs, Keep(ctxs, Current), CtxTtl)
  BY <1>3, <1>4 DEF Survives
<1>9. ASSUME NEW m \in Nat
      PROVE  Survives(seen, Put(Keep(seen, Fresh), m, now), DedupTtl)
  <2>1. /\ DOMAIN Put(Keep(seen, Fresh), m, now) = Fresh \cup {m}
        /\ Put(Keep(seen, Fresh), m, now)[m] = now
        /\ \A i \in Fresh \ {m} : Put(Keep(seen, Fresh), m, now)[i] = seen[i]
    BY SeenShape
  <2>2. QED
    BY <1>1, <1>2, <2>1 DEF Survives
<1>10. ASSUME NEW m \in Nat
       PROVE  Survives(ctxs, Put(ctxs, m, now), CtxTtl)
  <2>1. ASSUME NEW i \in DOMAIN ctxs
        PROVE  i \in DOMAIN Put(ctxs, m, now) /\ (Put(ctxs, m, now)[i] >= ctxs[i] \/ Put(ctxs, m, now)[i] >= now)
    <3>1. ctxs[i] \in Nat
      BY <1>3
    <3>2. i \in DOMAIN Put(ctxs, m, now) /\ (Put(ctxs, m, now)[i] = now \/ Put(ctxs, m, now)[i] = ctxs[i])
      BY <1>5, Zenon
    <3>3. QED
      BY <1>1, <3>1, <3>2
  <2>2. QED
    BY <2>1 DEF Survives
<1>11. QED
  BY <1>5, <1>6, <1>7, <1>8, <1>9, <1>10

\* A handler keeps its message and the time at which that passed.
LEMMA HandlerKeepsMessage ==
    ASSUME EventsInv, NEW k \in DOMAIN handlers, Handle(k), ~RecordNew(k)
    PROVE  \E n \in Working \cup {Done} :
              /\ handlers' = [handlers EXCEPT ![k] = n]
              /\ n.st # "done" => n.msg = handlers[k].msg /\ n.at = handlers[k].at
              /\ Pending(n) => Pending(handlers[k])
              /\ Enqueue(k) => n.st = "put"
<1> DEFINE h == handlers[k]
<1>0. TypeOK
  BY DEF EventsInv
<1>1. CASE End(k)
  <2>1. Done \in Working \cup {Done} /\ ~Pending(Done) /\ Done.st = "done"
    BY DEF Done, Pending
  <2>2. handlers' = [handlers EXCEPT ![k] = Done]
    BY <1>1 DEF End
  <2>3. ~Enqueue(k)
    <3>1. SUFFICES ASSUME Enqueue(k) PROVE FALSE
      OBVIOUS
    <3>2. h.st = "enqueue" /\ Goto(k, "put")
      BY <3>1 DEF Enqueue, At
    <3>3. handlers' = [handlers EXCEPT ![k] = [h EXCEPT !.st = "put"]] /\ [h EXCEPT !.st = "put"].st = "put"
      BY <1>0, <3>2, GotoShape
    <3>4. QED
      BY <1>0, <2>1, <2>2, <3>3, HandlerMoves DEF TypeOK
  <2>4. QED
    BY <2>1, <2>2, <2>3
<1>2. CASE FindAgent(k) \/ Enqueue(k) \/ PutContext(k)
  <2>1. PICK step \in {"switch", "put", "download"} :
           /\ Goto(k, step) \/ End(k)
           /\ step = "switch" => FindAgent(k)
           /\ Enqueue(k) => step = "put" /\ Goto(k, step)
    BY <1>2 DEF FindAgent, Enqueue, PutContext, At
  <2>2. h.st # "done" /\ (FindAgent(k) => h.st = "route")
    BY <1>2 DEF FindAgent, Enqueue, PutContext, At
  <2>3. CASE Goto(k, step)
    <3> DEFINE n == [h EXCEPT !.st = step]
    <3>0. step \in {"dedup", "route", "switch", "enqueue", "put", "download"} /\ h.st # "done"
      BY <2>2
    <3>1. handlers' = [handlers EXCEPT ![k] = n] /\ n \in Working /\ n.st = step
          /\ n.msg = Msg(k) /\ n.at = h.at
      BY <1>0, <2>3, <3>0, GotoShape
    <3> HIDE DEF n
    <3>2. (n.st # "done" => n.msg = h.msg /\ n.at = h.at)
          /\ (Pending(n) => Pending(h)) /\ (Enqueue(k) => n.st = "put")
      BY <2>1, <2>2, <3>1 DEF Pending, Msg
    <3>3. QED
      BY <3>1, <3>2
  <2>4. QED
    BY <1>1, <2>1, <2>3
<1>3. CASE ReadActive(k)
  <2> DEFINE n == [h EXCEPT !.st = "enqueue", !.agent = active]
  <2>1. h \in Working /\ h.st = "route" /\ active \in Agents \cup {NoAgent}
    BY <1>0, <1>3, HandlerWorks DEF ReadActive, At, TypeOK
  <2>2. n \in Working /\ n.st = "enqueue" /\ n.msg = h.msg /\ n.at = h.at
    BY <2>1 DEF Working
  <2>3. handlers' = [handlers EXCEPT ![k] = n]
    BY <1>0, <1>3 DEF ReadActive, TypeOK
  <2> HIDE DEF n
  <2>4. Pending(h) /\ ~Enqueue(k)
    BY <2>1 DEF Pending, Enqueue, At
  <2>5. QED
    BY <2>2, <2>3, <2>4
<1>4. QED
  BY <1>1, <1>2, <1>3 DEF Handle, SkipDuplicate, Answer, Switch, Backfill, DownloadFails

LEMMA PendingStaysPut ==
    ASSUME EventsInv, NEW k \in DOMAIN handlers, Handle(k), ~RecordNew(k)
    PROVE  PendingStay
<1>0. TypeOK
  BY DEF EventsInv
<1>1. PICK n \in Working \cup {Done} :
         /\ handlers' = [handlers EXCEPT ![k] = n]
         /\ n.st # "done" => n.msg = handlers[k].msg /\ n.at = handlers[k].at
         /\ Pending(n) => Pending(handlers[k])
  BY HandlerKeepsMessage
<1>2. /\ k \in 1..Len(handlers) /\ Len(handlers') = Len(handlers) /\ handlers'[k] = n
      /\ \A l \in 1..Len(handlers) : l # k => handlers'[l] = handlers[l]
  BY <1>0, <1>1, HandlerMoves
<1>3. Pending(n) => n.st # "done"
  BY DEF Pending
<1>4. QED
  BY <1>1, <1>2, <1>3 DEF PendingStay

LEMMA DupHandle ==
    ASSUME EventsInv, EventsInv', DupInv, NEW k \in DOMAIN handlers, Handle(k)
    PROVE  DupInv'
<1> DEFINE h == handlers[k]
<1>0. TypeOK /\ TypeOK' /\ now \in Nat /\ now' = now /\ DedupTtl \in Nat
  BY EventsAssumption DEF EventsInv, TypeOK, Handle, SkipDuplicate, RecordNew, Answer, FindAgent, Switch,
     ReadActive, Enqueue, PutContext, Backfill, DownloadFails, clockVars
<1>1. CASE RecordNew(k)
  <2>1. k \in 1..Len(handlers) /\ h.st = "dedup" /\ h.st # "done" /\ Msg(k) \notin Fresh
        /\ seen' = Put(Keep(seen, Fresh), Msg(k), now) /\ UNCHANGED queue
    BY <1>0, <1>1 DEF RecordNew, At, routerVars, TypeOK
  <2>2. h \in Working /\ Msg(k) \in Nat /\ Msg(k) = h.msg
    BY <1>0, <2>1, PendingTypes
  <2> DEFINE n == [h EXCEPT !.st = "route", !.at = now]
  <2>3. n \in Working /\ n.st = "route" /\ n.msg = h.msg /\ n.at = now
    BY <1>0, <2>2 DEF Working
  <2>4. handlers' = [handlers EXCEPT ![k] = n]
    BY <1>0, <1>1 DEF RecordNew, TypeOK
  <2> HIDE DEF n
  <2>5. /\ Len(handlers') = Len(handlers) /\ handlers'[k] = n
        /\ \A l \in 1..Len(handlers) : l # k => handlers'[l] = handlers[l]
    BY <1>0, <2>3, <2>4, HandlerMoves
  <2>6. Survives(seen, seen', DedupTtl) /\ seen'[Msg(k)] = now /\ Msg(k) \in DOMAIN seen'
    BY <1>0, <2>1, <2>2, TimesSurvive, SeenShape
  \* Whatever passed before with the same message, passed long ago.
  <2>7. ASSUME NEW t \in Nat, Recorded(Msg(k), t) PROVE now > t + DedupTtl
    BY <1>0, <2>1, <2>7 DEF Recorded, Fresh, TypeOK
  <2>8. ASSUME NEW l \in 1..Len(handlers), l # k, Pending(handlers[l])
        PROVE  /\ Recorded(Msg(l), handlers[l].at)'
               /\ Msg(l) = Msg(k) => now > handlers[l].at + DedupTtl
               /\ handlers'[l] = handlers[l] /\ Msg(l)' = Msg(l) /\ handlers[l].at \in Nat
    <3>1. Msg(l) \in Nat /\ handlers[l].at \in Nat
      BY <1>0, <2>8, PendingTypes DEF Pending
    <3>2. Recorded(Msg(l), handlers[l].at)
      BY <2>8 DEF DupInv
    <3>3. PICK m \in Nat, t \in Nat : m = Msg(l) /\ t = handlers[l].at
      BY <3>1
    <3>4. Recorded(m, t)'
      BY <1>0, <2>6, <3>2, <3>3, RecordedStays
    <3>5. handlers'[l] = handlers[l] /\ Msg(l)' = Msg(l)
      BY <2>5, <2>8 DEF Msg
    <3>6. QED
      BY <2>7, <3>1, <3>2, <3>3, <3>4, <3>5
  <2>9. ASSUME NEW a \in Agents, NEW j \in 1..Len(queue[a])
        PROVE  /\ Recorded(queue[a][j].id, queue[a][j].at)'
               /\ queue[a][j].id = Msg(k) => now > queue[a][j].at + DedupTtl
               /\ queue[a][j].at \in Nat
    <3>1. PICK m \in Nat, t \in Nat : m = queue[a][j].id /\ t = queue[a][j].at
      BY <1>0, EntryTypes
    <3>2. Recorded(m, t)
      BY <3>1 DEF DupInv
    <3>3. Recorded(m, t)'
      BY <1>0, <2>6, <3>2, RecordedStays
    <3>4. QED
      BY <2>1, <2>7, <3>1, <3>2, <3>3
  <2>10. Msg(k)' = Msg(k) /\ Pending(handlers'[k]) /\ handlers'[k].at = now /\ Recorded(Msg(k), handlers[k].at)'
    BY <1>0, <2>2, <2>3, <2>5, <2>6 DEF Msg, Pending, Recorded
  <2>11. \A l \in 1..Len(handlers') : Pending(handlers'[l]) => Recorded(Msg(l), handlers[l].at)'
    BY <2>5, <2>8, <2>10
  <2>12. ASSUME NEW l \in 1..Len(handlers'), NEW p \in 1..Len(handlers'),
                Pending(handlers'[l]), Pending(handlers'[p]), l # p, Msg(l)' = Msg(p)'
         PROVE  Apart(handlers'[l].at, handlers'[p].at)
    BY <2>5, <2>8, <2>10, <2>12 DEF DupInv, Apart
  <2>13. ASSUME NEW l \in 1..Len(handlers'), NEW a \in Agents, NEW j \in 1..Len(queue'[a]),
                Pending(handlers'[l]), Msg(l)' = queue'[a][j].id
         PROVE  Apart(handlers'[l].at, queue'[a][j].at)
    <3>1. queue' = queue /\ queue'[a][j] = queue[a][j]
      BY <2>1
    <3>2. CASE l = k
      BY <2>9, <2>10, <2>13, <3>1, <3>2 DEF Apart
    <3>3. CASE l # k
      BY <2>5, <2>8, <2>13, <3>1, <3>3 DEF DupInv
    <3>4. QED
      BY <3>2, <3>3
  <2>14. \A a \in Agents : \A j \in 1..Len(queue'[a]) : Recorded(queue[a][j].id, queue[a][j].at)'
    BY <2>1, <2>9
  <2>15. ASSUME NEW a \in Agents, NEW b \in Agents, NEW i \in 1..Len(queue'[a]),
                NEW j \in 1..Len(queue'[b]), queue'[a][i].id = queue'[b][j].id, a # b \/ i # j
         PROVE  Apart(queue'[a][i].at, queue'[b][j].at)
    BY <2>1, <2>15 DEF DupInv
  <2>16. QED
    BY <2>11, <2>12, <2>13, <2>14, <2>15 DEF DupInv, Pending, Apart
<1>2. CASE Enqueue(k)
  <2> DEFINE e == [id |-> Msg(k), at |-> h.at, media |-> 0]
  <2>1. k \in 1..Len(handlers) /\ h.st = "enqueue" /\ h.st # "done" /\ Pending(h) /\ UNCHANGED seen
        /\ h.agent \in Agents
    BY <1>0, <1>2 DEF Enqueue, At, Pending, TypeOK, EventsInv, HandlerOK
  <2>2. h \in Working /\ Msg(k) \in Nat /\ Msg(k) = h.msg /\ h.at \in Nat
    BY <1>0, <2>1, PendingTypes
  <2>3. e \in Entry /\ e.id = Msg(k) /\ e.at = h.at
    BY <2>2 DEF Entry
  <2>4. queue' = [queue EXCEPT ![h.agent] = Append(queue[h.agent], e)]
    BY <1>2, Zenon DEF Enqueue
  <2> HIDE DEF e
  <2>5. ASSUME NEW b \in Agents, NEW j \in 1..Len(queue'[b])
        PROVE  \/ j \in 1..Len(queue[b]) /\ queue'[b][j] = queue[b][j]
               \/ b = h.agent /\ j = Len(queue[h.agent]) + 1 /\ queue'[b][j] = e
    BY <1>0, <2>1, <2>3, <2>4, AppendShape
  <2>6. PICK n \in Working \cup {Done} : handlers' = [handlers EXCEPT ![k] = n] /\ n.st = "put"
    BY <1>1, <1>2, HandlerKeepsMessage DEF RecordNew, Enqueue, At
  <2>7. /\ Len(handlers') = Len(handlers) /\ ~Pending(handlers'[k])
        /\ \A l \in 1..Len(handlers) : l # k => handlers'[l] = handlers[l] /\ Msg(l)' = Msg(l)
    BY <1>0, <2>6, HandlerMoves DEF Pending, Msg
  <2>8. \A m, t : Recorded(m, t) => Recorded(m, t)'
    BY <1>0, <2>1 DEF Recorded
  <2>9. Recorded(Msg(k), h.at)
    BY <2>1 DEF DupInv
  <2>10. \A l \in 1..Len(handlers') : Pending(handlers'[l]) => Recorded(Msg(l), handlers[l].at)'
    <3>1. ASSUME NEW l \in 1..Len(handlers'), Pending(handlers'[l]) PROVE Recorded(Msg(l), handlers[l].at)'
      <4>1. l \in 1..Len(handlers) /\ l # k /\ handlers'[l] = handlers[l]
        BY <2>7, <3>1
      <4>2. Recorded(Msg(l), handlers[l].at)
        BY <3>1, <4>1 DEF DupInv
      <4>3. QED
        BY <2>1, <1>0, <2>7, <4>1, <4>2 DEF Recorded
    <3>2. QED
      BY <3>1
  <2>11. ASSUME NEW l \in 1..Len(handlers'), NEW p \in 1..Len(handlers'),
                Pending(handlers'[l]), Pending(handlers'[p]), l # p, Msg(l)' = Msg(p)'
         PROVE  Apart(handlers'[l].at, handlers'[p].at)
    BY <2>7, <2>11 DEF DupInv
  <2>12. ASSUME NEW l \in 1..Len(handlers'), NEW a \in Agents, NEW j \in 1..Len(queue'[a]),
                Pending(handlers'[l]), Msg(l)' = queue'[a][j].id
         PROVE  Apart(handlers'[l].at, queue'[a][j].at)
    <3>1. l \in 1..Len(handlers) /\ l # k /\ handlers'[l] = handlers[l] /\ Msg(l)' = Msg(l)
      BY <2>7, <2>12
    <3>2. CASE j \in 1..Len(queue[a]) /\ queue'[a][j] = queue[a][j]
      BY <2>12, <3>1, <3>2 DEF DupInv
    <3>3. CASE queue'[a][j] = e
      <4>1. Pending(handlers[l]) /\ Msg(l) = Msg(k)
        BY <2>3, <2>12, <3>1, <3>3
      <4>2. Apart(handlers[l].at, h.at)
        BY <2>1, <3>1, <4>1 DEF DupInv
      <4>3. QED
        BY <2>3, <3>1, <3>3, <4>2
    <3>4. QED
      BY <2>5, <3>2, <3>3
  <2>13. \A a \in Agents : \A j \in 1..Len(queue'[a]) : Recorded(queue[a][j].id, queue[a][j].at)'
    <3>1. ASSUME NEW a \in Agents, NEW j \in 1..Len(queue'[a]) PROVE Recorded(queue[a][j].id, queue[a][j].at)'
      <4>1. Recorded(queue'[a][j].id, queue'[a][j].at)
        BY <2>3, <2>5, <2>9 DEF DupInv
      <4>2. QED
        BY <1>0, <2>1, <4>1 DEF Recorded
    <3>2. QED
      BY <3>1
  <2>14. ASSUME NEW a \in Agents, NEW b \in Agents, NEW i \in 1..Len(queue'[a]),
                NEW j \in 1..Len(queue'[b]), queue'[a][i].id = queue'[b][j].id, a # b \/ i # j
         PROVE  Apart(queue'[a][i].at, queue'[b][j].at)
    \* The new entry passed long after, or before, any other of its message.
    <3>1. ASSUME NEW c \in Agents, NEW p \in 1..Len(queue[c]), queue[c][p].id = e.id
          PROVE  Apart(e.at, queue[c][p].at) /\ Apart(queue[c][p].at, e.at)
      BY <2>1, <2>3, <3>1 DEF DupInv, Apart
    <3>2. CASE /\ i \in 1..Len(queue[a]) /\ queue'[a][i] = queue[a][i]
               /\ j \in 1..Len(queue[b]) /\ queue'[b][j] = queue[b][j]
      BY <2>14, <3>2 DEF DupInv
    <3>3. CASE i \in 1..Len(queue[a]) /\ queue'[a][i] = queue[a][i] /\ queue'[b][j] = e
      BY <2>14, <3>1, <3>3
    <3>4. CASE queue'[a][i] = e /\ j \in 1..Len(queue[b]) /\ queue'[b][j] = queue[b][j]
      BY <2>14, <3>1, <3>4
    <3>5. QED
      BY <2>5, <2>14, <3>2, <3>3, <3>4
  <2>15. QED
    BY <2>10, <2>11, <2>12, <2>13, <2>14 DEF DupInv, Pending, Apart
<1>3. CASE ~RecordNew(k) /\ ~Enqueue(k)
  <2>1. Survives(seen, seen', DedupTtl)
    <3>1. seen' = seen \/ seen' = Keep(seen, Fresh)
      BY <1>3 DEF Handle, SkipDuplicate, Answer, FindAgent, Switch, ReadActive, PutContext, Backfill,
         DownloadFails
    <3>2. QED
      BY <1>0, <3>1, TimesSurvive
  <2>2. EntriesStay
    <3>1. CASE Backfill(k)
      <4>1. handlers[k].agent \in Agents /\ Msg(k) \in Nat /\ queue' = LastMedia(handlers[k].agent, Msg(k))
        <5>1. k \in 1..Len(handlers) /\ h.st = "download" /\ h.st # "done"
          BY <1>0, <3>1 DEF Backfill, At, TypeOK
        <5>2. h.agent \in Agents
          BY <5>1 DEF EventsInv, HandlerOK
        <5>3. Msg(k) \in Nat
          BY <1>0, <5>1, PendingTypes
        <5>4. QED
          BY <3>1, <5>2, <5>3 DEF Backfill
      <4>2. QED
        BY <1>0, <4>1, LastMediaShape DEF EntriesStay
    <3>2. CASE UNCHANGED queue
      BY <3>2 DEF EntriesStay
    <3>3. QED
      BY <1>3, <3>1, <3>2 DEF Handle, SkipDuplicate, Answer, FindAgent, Switch, ReadActive, PutContext,
         DownloadFails, routerVars
  <2>3. QED
    BY <1>0, <1>3, <2>1, <2>2, PendingStaysPut, DupFrame
<1>4. QED
  BY <1>1, <1>2, <1>3

LEMMA AnswerHandle ==
    ASSUME EventsInv, EventsInv', DupInv, AnswerInv, NEW k \in DOMAIN handlers, Handle(k)
    PROVE  AnswerInv'
<1> DEFINE h == handlers[k]
<1>0. TypeOK /\ TypeOK' /\ now \in Nat /\ now' = now /\ k \in 1..Len(handlers)
  BY DEF EventsInv, TypeOK, Handle, SkipDuplicate, RecordNew, Answer, FindAgent, Switch,
     ReadActive, Enqueue, PutContext, Backfill, DownloadFails, clockVars
<1>1. CASE Enqueue(k)
  <2> DEFINE e == [id |-> Msg(k), at |-> h.at, media |-> 0]
  <2>1. h.st = "enqueue" /\ h.st # "done" /\ UNCHANGED ctxs /\ h.agent \in Agents
    BY <1>0, <1>1 DEF Enqueue, At, EventsInv, HandlerOK
  <2>2. Msg(k) \in Nat /\ h.at \in Nat
    BY <1>0, <2>1, PendingTypes
  <2>3. e \in Entry /\ e.id = Msg(k)
    BY <2>2 DEF Entry
  <2>4. queue' = [queue EXCEPT ![h.agent] = Append(queue[h.agent], e)]
    BY <1>1, Zenon DEF Enqueue
  <2> HIDE DEF e
  <2>5. PICK n \in Working \cup {Done} :
           /\ handlers' = [handlers EXCEPT ![k] = n] /\ n.st = "put"
           /\ n.st # "done" => n.msg = h.msg
    BY <1>1, HandlerKeepsMessage DEF RecordNew, Enqueue, At
  <2>6. /\ Len(handlers') = Len(handlers) /\ handlers'[k].st = "put" /\ Msg(k)' = Msg(k)
        /\ \A l \in 1..Len(handlers) : l # k => handlers'[l] = handlers[l] /\ Msg(l)' = Msg(l)
    BY <1>0, <2>5, HandlerMoves DEF Msg
  <2>7. ASSUME NEW a \in Agents, NEW j \in 1..Len(queue'[a])
        PROVE  Kept(queue[a][j].id, queue[a][j].at)'
    <3>1. CASE j \in 1..Len(queue[a]) /\ queue'[a][j] = queue[a][j]
      <4>1. Kept(queue'[a][j].id, queue'[a][j].at)
        BY <3>1 DEF AnswerInv
      <4>2. QED
        BY <1>0, <2>1, <2>6, <4>1 DEF Kept
    <3>2. CASE queue'[a][j] = e
      BY <1>0, <2>3, <2>6, <3>2 DEF Kept
    <3>3. QED
      BY <1>0, <2>1, <2>3, <2>4, <3>1, <3>2, AppendShape
  <2>8. QED
    BY <2>7 DEF AnswerInv
<1>2. CASE ~Enqueue(k)
  <2>1. Survives(ctxs, ctxs', CtxTtl)
    <3>1. CASE PutContext(k)
      <4>1. Msg(k) \in Nat /\ ctxs' = Put(ctxs, Msg(k), now)
        BY <1>0, <3>1, PendingTypes DEF PutContext, At
      <4>2. QED
        BY <1>0, <4>1, TimesSurvive
    <3>2. CASE UNCHANGED ctxs
      BY <1>0, <3>2, TimesSurvive
    <3>3. QED
      BY <3>1, <3>2 DEF Handle, SkipDuplicate, RecordNew, Answer, FindAgent, Switch, ReadActive,
         Enqueue, Backfill, DownloadFails
  <2>2. PutsStay
    <3>1. PICK n \in Working \cup {Done} : handlers' = [handlers EXCEPT ![k] = n]
      <4>1. CASE RecordNew(k)
        <5>1. h \in Working
          BY <1>0, <4>1, HandlerWorks DEF RecordNew, At
        <5>2. [h EXCEPT !.st = "route", !.at = now] \in Working
          BY <1>0, <5>1 DEF Working
        <5>3. handlers' = [handlers EXCEPT ![k] = [h EXCEPT !.st = "route", !.at = now]]
          BY <1>0, <4>1 DEF RecordNew, TypeOK
        <5>4. QED
          BY <5>2, <5>3
      <4>2. QED
        BY <4>1, HandlerKeepsMessage
    <3>2. Len(handlers') = Len(handlers) /\ \A l \in 1..Len(handlers) : l # k => handlers'[l] = handlers[l]
      BY <1>0, <3>1, HandlerMoves
    <3>3. h.st = "put" => h.msg \in DOMAIN ctxs' /\ ctxs'[h.msg] >= now
      <4>1. SUFFICES ASSUME h.st = "put" PROVE h.msg \in DOMAIN ctxs' /\ ctxs'[h.msg] >= now
        OBVIOUS
      <4>2. PutContext(k)
        BY <4>1 DEF Handle, SkipDuplicate, RecordNew, Answer, FindAgent, Switch, ReadActive, Enqueue,
           Backfill, DownloadFails, At
      <4>3. h.msg \in Nat /\ ctxs' = Put(ctxs, h.msg, now)
        BY <1>0, <4>1, <4>2, PendingTypes DEF PutContext, Msg
      <4>4. ctxs'[h.msg] = now /\ h.msg \in DOMAIN ctxs'
        BY <1>0, <4>3, TimesSurvive
      <4>5. QED
        BY <1>0, <4>4
    <3>4. QED
      BY <3>2, <3>3 DEF PutsStay
  <2>3. EntriesStay
    <3>1. CASE Backfill(k)
      <4>1. h.st = "download" /\ h.st # "done"
        BY <3>1 DEF Backfill, At
      <4>2. h.agent \in Agents
        BY <1>0, <4>1 DEF EventsInv, HandlerOK
      <4>3. Msg(k) \in Nat
        BY <1>0, <4>1, PendingTypes
      <4>4. queue' = LastMedia(h.agent, Msg(k))
        BY <3>1 DEF Backfill
      <4>5. QED
        BY <1>0, <4>2, <4>3, <4>4, LastMediaShape DEF EntriesStay
    <3>2. CASE UNCHANGED queue
      BY <3>2 DEF EntriesStay
    <3>3. QED
      BY <1>2, <3>1, <3>2 DEF Handle, SkipDuplicate, RecordNew, Answer, FindAgent, Switch, ReadActive,
         PutContext, DownloadFails, routerVars
  <2>4. now <= now'
    BY <1>0
  <2>5. QED
    BY <1>0, <2>1, <2>2, <2>3, <2>4, AnswerFrame
<1>3. QED
  BY <1>1, <1>2

LEMMA AgesStep == EventsInv /\ EventsInv' /\ DupInv /\ AnswerInv /\ [Next]_vars => DupInv' /\ AnswerInv'
<1> SUFFICES ASSUME EventsInv, EventsInv', DupInv, AnswerInv, [Next]_vars PROVE DupInv' /\ AnswerInv'
  OBVIOUS
<1>0. TypeOK /\ TypeOK' /\ now \in Nat /\ now' \in Nat
  BY DEF EventsInv, TypeOK
<1> USE DEF routerVars, clockVars
<1>1. CASE \E k \in DOMAIN handlers : Handle(k)
  BY <1>1, DupHandle, AnswerHandle
<1>2. CASE Push \/ PushAgain
  <2>1. UNCHANGED <<seen, ctxs, queue, now>>
    BY <1>2 DEF Push, PushAgain
  <2>2. PICK n : handlers' = Append(handlers, n) /\ n.st \in {"dedup", "done"}
    <3>1. \A i, s : Started(i, s).st \in {"dedup", "done"}
      BY DEF Started, Done
    <3>2. QED
      BY <1>2, <3>1 DEF Push, PushAgain
  <2>3. /\ Len(handlers) \in Nat /\ Len(handlers') = Len(handlers) + 1
        /\ \A k \in 1..Len(handlers) : handlers'[k] = handlers[k]
        /\ handlers'[Len(handlers) + 1] = n
    BY <1>0, <2>2 DEF TypeOK
  <2>4. PendingStay /\ PutsStay
    <3>1. ~Pending(n)
      BY <2>2 DEF Pending
    <3>2. ASSUME NEW k \in 1..Len(handlers'), Pending(handlers'[k])
          PROVE  k \in 1..Len(handlers) /\ handlers'[k] = handlers[k]
      <4>1. k # Len(handlers) + 1
        BY <2>3, <3>1, <3>2
      <4>2. k \in Nat /\ k >= 1 /\ k <= Len(handlers) + 1
        BY <2>3
      <4>3. QED
        BY <2>3, <4>1, <4>2
    <3>3. \A k \in 1..Len(handlers) : k \in 1..Len(handlers')
      BY <2>3
    <3>4. QED
      BY <2>3, <3>2, <3>3 DEF PendingStay, PutsStay
  <2>5. EntriesStay
    BY <2>1 DEF EntriesStay
  <2>6. QED
    BY <1>0, <2>1, <2>4, <2>5, TimesSurvive, DupFrame, AnswerFrame
<1>3. CASE AgentStep
  <2>1. UNCHANGED <<handlers, seen, ctxs, now>>
    BY <1>3 DEF AgentStep, Register, Activate, Save, Poll
  <2>2. PendingStay /\ PutsStay
    BY <1>0, <2>1 DEF PendingStay, PutsStay
  <2>3. EntriesStay
    <3>1. \A a \in Agents : queue'[a] = <<>> \/ queue'[a] = queue[a]
      BY <1>0, <1>3 DEF AgentStep, Register, Activate, Save, Poll, TypeOK
    <3>2. QED
      BY <3>1 DEF EntriesStay
  <2>4. QED
    BY <1>0, <2>1, <2>2, <2>3, TimesSurvive, DupFrame, AnswerFrame
<1>4. CASE Tick \/ Cleanup \/ UNCHANGED vars
  <2>1. UNCHANGED <<handlers, seen, queue>> /\ now <= now'
    BY <1>0, <1>4 DEF Tick, Cleanup, memoryVars, vars
  <2>2. Survives(ctxs, ctxs', CtxTtl)
    BY <1>0, <1>4, TimesSurvive DEF Tick, Cleanup, memoryVars, vars
  <2>3. PendingStay /\ PutsStay /\ EntriesStay
    BY <1>0, <2>1 DEF PendingStay, PutsStay, EntriesStay
  <2>4. QED
    BY <1>0, <2>1, <2>2, <2>3, TimesSurvive, DupFrame, AnswerFrame
<1>5. CASE CrashRestart
  <2>1. handlers' \in Seq(Working \cup {Done}) /\ \A k \in 1..Len(handlers') : handlers'[k] = Done
    BY <1>0, <1>5 DEF CrashRestart, TypeOK
  <2>2. \A k \in 1..Len(handlers') : ~Pending(handlers'[k])
    BY <2>1 DEF Done, Pending
  <2>3. \A a \in Agents : queue'[a] = <<>>
    BY <1>5 DEF CrashRestart
  <2>4. DupInv'
    BY <2>2, <2>3 DEF DupInv, Pending
  <2>5. AnswerInv'
    BY <2>3 DEF AnswerInv
  <2>6. QED
    BY <2>4, <2>5
<1>6. QED
  BY <1>1, <1>2, <1>3, <1>4, <1>5 DEF Next

LEMMA AgesInvariant == Spec => [](DupInv /\ AnswerInv)
<1>1. Init => DupInv /\ AnswerInv
  BY DEF Init, DupInv, AnswerInv
<1>2. QED
  BY <1>1, EventsInvariant, AgesStep, PTL DEF Spec

\* A message is queued twice only if the dedup cache had forgotten it in
\* between, however many of its events are pushed again while the handler of the
\* first is at work (CheckAndRecord in handleEvent).
THEOREM QueuedOnceATtl == Spec => []DuplicatesAreLate
<1>1. EventsInv /\ DupInv => DuplicatesAreLate
  <2> SUFFICES ASSUME EventsInv, DupInv, NEW a \in Agents, NEW b \in Agents,
                      NEW i \in DOMAIN queue[a], NEW j \in DOMAIN queue[b],
                      queue[a][i].id = queue[b][j].id, <<a, i>> # <<b, j>>
               PROVE  Apart(queue[a][i].at, queue[b][j].at)
    BY DEF DuplicatesAreLate, Apart
  <2>1. DOMAIN queue[a] = 1..Len(queue[a]) /\ DOMAIN queue[b] = 1..Len(queue[b])
    BY DEF EventsInv, TypeOK
  <2>2. a # b \/ i # j
    OBVIOUS
  <2>3. QED
    BY <2>1, <2>2 DEF DupInv
<1>2. QED
  BY <1>1, EventsInvariant, AgesInvariant, PTL

\* What an agent may poll it can answer: the context is there, or about to be
\* recorded, or so old that the cleanup may have taken it (handleEvent queues
\* first and calls msgctx.Store.Put then).
THEOREM FeishuQueuedIsAnswerable == Spec => []AnswerableWhileQueued
<1>1. EventsInv /\ AnswerInv => AnswerableWhileQueued
  <2> SUFFICES ASSUME EventsInv, AnswerInv, NEW e \in Entries
               PROVE  \/ e.id \in DOMAIN ctxs
                      \/ \E k \in DOMAIN handlers : At(k, "put") /\ Msg(k) = e.id
                      \/ now - e.at > CtxTtl
    BY DEF AnswerableWhileQueued
  <2>1. PICK a \in Agents : e \in {queue[a][j] : j \in DOMAIN queue[a]}
    BY DEF Entries
  <2>2. PICK j \in DOMAIN queue[a] : e = queue[a][j]
    BY <2>1
  <2>3. DOMAIN queue[a] = 1..Len(queue[a]) /\ DOMAIN handlers = 1..Len(handlers) /\ now \in Nat /\ CtxTtl \in Nat
    BY EventsAssumption DEF EventsInv, TypeOK
  <2>4. Kept(e.id, e.at) /\ e.at \in Nat
    BY <2>2, <2>3, EntryTypes DEF AnswerInv, EventsInv
  <2>5. QED
    BY <2>3, <2>4 DEF Kept, At
<1>2. QED
  BY <1>1, EventsInvariant, AgesInvariant, PTL
=============================================================================
