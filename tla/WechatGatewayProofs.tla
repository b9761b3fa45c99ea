------------------------- MODULE WechatGatewayProofs -------------------------
(***************************************************************************)
(* Theorems about WechatGateway, for every value of its constants.         *)
(***************************************************************************)
EXTENDS WechatGateway, FiniteSetTheorems, TLAPS

\* What the types alone do not carry from one step of the loop to the next: a
\* message is routed only after it was recorded in the dedup cache, and files
\* are downloaded only for an agent.
StepOK ==
    /\ pc = "route" => next \in DOMAIN seen
    /\ pc = "media" => target \in Agents

TypeInv == TypeOK /\ StepOK

\* What an action does not touch keeps its type.
LEMMA TypeFrame ==
    ASSUME TypeInv
    PROVE  /\ UNCHANGED <<platformVars, handled>> => PlatformOK'
           /\ UNCHANGED <<inbox, pc, cursor, next, upto>> => PositionOK'
           /\ UNCHANGED <<refAgent, target, wakeAt, seen>> => LocalsOK'
           /\ UNCHANGED routerVars => RouterOK'
           /\ UNCHANGED <<ctxs, replyVars, posted>> => ReplyOK'
           /\ UNCHANGED storeVars => StoreOK'
           /\ UNCHANGED clockVars => ClockOK'
           /\ UNCHANGED <<saved, excused>> => HistoryOK'
           /\ UNCHANGED <<pc, next, seen, target>> => StepOK'
<1> USE DEF TypeInv, TypeOK
<1>1. UNCHANGED <<platformVars, handled>> => PlatformOK'
  BY DEF PlatformOK, platformVars
<1>2. UNCHANGED <<inbox, pc, cursor, next, upto>> => PositionOK'
  BY DEF PositionOK
<1>3. UNCHANGED <<refAgent, target, wakeAt, seen>> => LocalsOK'
  BY DEF LocalsOK
<1>4. UNCHANGED routerVars => RouterOK'
  BY DEF RouterOK, routerVars
<1>5. UNCHANGED <<ctxs, replyVars, posted>> => ReplyOK'
  BY DEF ReplyOK, replyVars
<1>6. UNCHANGED storeVars => StoreOK'
  BY DEF StoreOK, storeVars
<1>7. UNCHANGED clockVars => ClockOK'
  BY DEF ClockOK, clockVars
<1>8. UNCHANGED <<pc, next, seen, target>> => StepOK'
  BY DEF StepOK
<1>9. UNCHANGED <<saved, excused>> => HistoryOK'
  BY DEF HistoryOK
<1> QED
  BY <1>1, <1>2, <1>3, <1>4, <1>5, <1>6, <1>7, <1>8, <1>9

\* The message being processed is one the platform delivered.
LEMMA CurrentMessage ==
    ASSUME TypeInv, next <= upto
    PROVE  next \in 1..Len(inbox) /\ next \in MsgIds /\ cur \in Message /\ shape \in Shape
<1> USE DEF TypeInv, TypeOK, PlatformOK, PositionOK
<1>1. next \in 1..Len(inbox) /\ next \in MsgIds
  BY GatewayAssumption DEF MsgIds
<1>2. cur \in Message
  BY <1>1 DEF cur
<1> QED
  BY <1>1, <1>2, GatewayAssumption DEF shape, Message

\* Going on to the next message.
LEMMA FinishType ==
    ASSUME TypeInv, next <= upto, Finish, UNCHANGED <<platformVars, cursor, upto>>
    PROVE  PlatformOK' /\ PositionOK' /\ StepOK'
<1>1. next \in 1..Len(inbox)
  BY CurrentMessage
<1>2. PlatformOK'
  BY <1>1, Zenon DEF TypeInv, TypeOK, PlatformOK, Finish, platformVars
<1>3. PositionOK'
  BY <1>1 DEF TypeInv, TypeOK, PositionOK, Finish, platformVars
<1>4. StepOK'
  BY DEF StepOK, Finish
<1> QED
  BY <1>2, <1>3, <1>4

\* The context recorded for a message names the user who sent it.
LEMMA WithContextType ==
    ASSUME TypeInv, next <= upto
    PROVE  /\ DOMAIN WithContext \subseteq MsgIds
           /\ \A i \in DOMAIN WithContext : WithContext[i] \in Context
<1>1. next \in MsgIds /\ shape.user \in Users
  BY CurrentMessage DEF Shape
<1>2. [user |-> shape.user, at |-> now] \in Context
  BY <1>1 DEF TypeInv, TypeOK, ClockOK, Context
<1>3. /\ DOMAIN ctxs \subseteq MsgIds
      /\ \A i \in DOMAIN ctxs : ctxs[i] \in Context
  BY DEF TypeInv, TypeOK, ReplyOK
<1> QED
  BY <1>1, <1>2, <1>3, Zenon DEF WithContext, Put

\* What enqueue appends is a queue entry.
LEMMA EnqueueType ==
    ASSUME TypeInv, pc = "route", NEW a \in Agents, NEW ctx \in Agents \cup {NoAgent}
    PROVE  Enqueue(a, ctx) \in [Agents -> Seq(Entry)]
<1>1. next \in MsgIds
  BY CurrentMessage DEF TypeInv, TypeOK, PositionOK
<1>2. seen[next] \in Times
  BY DEF TypeInv, TypeOK, LocalsOK, StepOK
<1>3. [id |-> next, at |-> seen[next], media |-> 0, ctx |-> ctx] \in Entry
  BY <1>1, <1>2 DEF Entry
<1>4. queue \in [Agents -> Seq(Entry)]
  BY DEF TypeInv, TypeOK, RouterOK
<1>5. Append(queue[a], [id |-> next, at |-> seen[next], media |-> 0, ctx |-> ctx]) \in Seq(Entry)
  BY <1>3, <1>4
<1> QED
  BY <1>4, <1>5, Zenon DEF Enqueue

\* update_last_media changes the files of an entry only.
LEMMA LastMediaType ==
    ASSUME TypeInv, NEW a \in Agents, NEW m \in MsgIds
    PROVE  LastMedia(a, m) \in [Agents -> Seq(Entry)]
<1>1. queue \in [Agents -> Seq(Entry)]
  BY DEF TypeInv, TypeOK, RouterOK
<1>2. CASE queue[a] = <<>>
  BY <1>1, <1>2 DEF LastMedia
<1>3. CASE queue[a] # <<>>
  <2> DEFINE q == queue[a]
             e == [q[Len(q)] EXCEPT !.media = m]
  <2>1. q \in Seq(Entry) /\ Len(q) \in 1..Len(q)
    BY <1>1, <1>3
  <2>2. q[Len(q)] \in Entry
    BY <2>1
  <2>3. e \in Entry
    BY <2>2 DEF Entry
  <2>4. [q EXCEPT ![Len(q)] = e] \in Seq(Entry)
    BY <2>1, <2>3
  <2>5. LastMedia(a, m) = [queue EXCEPT ![a] = [q EXCEPT ![Len(q)] = e]]
    BY <1>3, Zenon DEF LastMedia
  <2> QED
    BY <1>1, <2>4, <2>5
<1> QED
  BY <1>2, <1>3

\* The initial state has the types.
LEMMA TypeInit == Init => TypeInv
<1> SUFFICES ASSUME Init PROVE TypeInv
  OBVIOUS
<1> USE GatewayAssumption DEF Init
<1>1. PlatformOK /\ PositionOK
  BY DEF PlatformOK, PositionOK
<1>2. LocalsOK /\ ClockOK /\ HistoryOK
  BY DEF LocalsOK, ClockOK, HistoryOK, Times, Empty
<1>3. RouterOK /\ ReplyOK /\ StoreOK
  BY DEF RouterOK, ReplyOK, StoreOK, Empty
<1>4. StepOK
  BY DEF StepOK
<1> QED
  BY <1>1, <1>2, <1>3, <1>4 DEF TypeInv, TypeOK
\* The reply being sent stays a job until its last message is sent.
LEMMA NextPartType ==
    ASSUME TypeInv, proc # Idle
    PROVE  proc \in Job /\ NextPart \in Job \cup {Idle}
<1>1. proc \in Job
  BY DEF TypeInv, TypeOK, ReplyOK
<1>2. CASE proc.left = 1
  BY <1>1, <1>2 DEF NextPart
<1>3. CASE proc.left # 1
  <2>1. proc.left - 1 \in 1..MaxParts
    BY <1>1, <1>3, GatewayAssumption DEF Job
  <2> QED
    BY <1>1, <1>3, <2>1 DEF NextPart, Job
<1> QED
  BY <1>1, <1>2, <1>3

\* What the platform accepts from the reply processor.
LEMMA AcceptedType ==
    ASSUME TypeInv, proc \in Job
    PROVE  Accepted \in Seq(SentMsg)
<1>1. [re |-> proc.re, to |-> proc.to, by |-> proc.by] \in SentMsg
  BY DEF Job, SentMsg
<1> QED
  BY <1>1 DEF Accepted, TypeInv, TypeOK, PlatformOK

\* Saving an agent_context, and dropping the oldest, keep the table's type.
LEMMA StoredType ==
    ASSUME TypeInv, proc \in Job
    PROVE  LET s == Trim(Put(stored, Len(sent), proc.by)) IN
           DOMAIN s \subseteq Nat /\ \A k \in DOMAIN s : s[k] \in Agents
<1> DEFINE p == Put(stored, Len(sent), proc.by)
<1>1. /\ DOMAIN stored \subseteq Nat /\ \A k \in DOMAIN stored : stored[k] \in Agents
      /\ Len(sent) \in Nat /\ proc.by \in Agents
  BY DEF TypeInv, TypeOK, StoreOK, PlatformOK, Job
<1>2. DOMAIN p \subseteq Nat /\ \A k \in DOMAIN p : p[k] \in Agents
  BY <1>1, Zenon DEF Put
<1> HIDE DEF p
<1>3. DOMAIN Trim(p) \subseteq DOMAIN p /\ \A k \in DOMAIN Trim(p) : Trim(p)[k] = p[k]
  BY Zenon DEF Trim, Keep
<1>4. DOMAIN Trim(p) \subseteq Nat /\ \A k \in DOMAIN Trim(p) : Trim(p)[k] \in Agents
  BY <1>2, <1>3
<1> QED
  BY <1>4 DEF p

\* What is noted of a message that is taken.
LEMMA ExcuseType ==
    ASSUME TypeInv, NEW untraced, next \in MsgIds, NEW at \in Times
    PROVE  Excuse(untraced, at) \subseteq MsgIds \X Times
<1>1. <<next, at>> \in MsgIds \X Times
  OBVIOUS
<1> QED
  BY <1>1 DEF Excuse, TypeInv, TypeOK, HistoryOK

\* Every step of the long-poll loop keeps the types.
LEMMA LoopType ==
    ASSUME TypeInv, Loop \/ SessionTimeout
    PROVE  TypeInv'
<1> SUFFICES PlatformOK' /\ PositionOK' /\ LocalsOK' /\ RouterOK' /\ ReplyOK' /\ StoreOK'
                /\ ClockOK' /\ HistoryOK' /\ StepOK'
  BY DEF TypeInv, TypeOK
<1> USE TypeFrame DEF platformVars, loopVars, routerVars, replyVars, storeVars, clockVars, history
<1>1. CASE GetUpdates
  <2>1. PlatformOK'
    BY <1>1, GatewayAssumption DEF GetUpdates, TypeInv, TypeOK, PlatformOK, PositionOK, MaxOf
  <2>2. PositionOK'
    BY <1>1 DEF GetUpdates, TypeInv, TypeOK, PlatformOK, PositionOK, LoopIdle, ResponseStart, NewCursors
  <2>3. StepOK'
    BY <1>1 DEF GetUpdates, StepOK, LoopIdle
  <2>4. LocalsOK' /\ RouterOK' /\ ReplyOK' /\ StoreOK' /\ ClockOK' /\ HistoryOK'
    BY <1>1 DEF GetUpdates
  <2> QED
    BY <2>1, <2>2, <2>3, <2>4
<1>2. CASE SessionTimeout
  <2>1. PlatformOK'
    BY <1>2, GatewayAssumption DEF SessionTimeout, TypeInv, TypeOK, PlatformOK, PositionOK, MaxOf
  <2>2. PositionOK'
    BY <1>2 DEF SessionTimeout, TypeInv, TypeOK, PositionOK, PlatformOK
  <2>3. LocalsOK'
    BY <1>2, GatewayAssumption DEF SessionTimeout, TypeInv, TypeOK, LocalsOK, ClockOK, Times
  <2>4. StepOK'
    BY <1>2 DEF SessionTimeout, StepOK
  <2>5. RouterOK' /\ ReplyOK' /\ StoreOK' /\ ClockOK' /\ HistoryOK'
    BY <1>2 DEF SessionTimeout
  <2> QED
    BY <2>1, <2>2, <2>3, <2>4, <2>5
<1>3. CASE Wake
  <2>1. PositionOK'
    BY <1>3 DEF Wake, TypeInv, TypeOK, PositionOK
  <2>2. LocalsOK'
    BY <1>3, GatewayAssumption DEF Wake, TypeInv, TypeOK, LocalsOK, Times
  <2>3. StepOK'
    BY <1>3 DEF Wake, StepOK
  <2>4. PlatformOK' /\ RouterOK' /\ ReplyOK' /\ StoreOK' /\ ClockOK' /\ HistoryOK'
    BY <1>3 DEF Wake
  <2> QED
    BY <2>1, <2>2, <2>3, <2>4
<1>4. CASE SkipBot
  <2>1. PlatformOK' /\ PositionOK' /\ StepOK'
    BY <1>4, FinishType DEF SkipBot
  <2>2. LocalsOK'
    BY <1>4 DEF SkipBot, Finish, TypeInv, TypeOK, LocalsOK
  <2>3. RouterOK' /\ ReplyOK' /\ StoreOK' /\ ClockOK' /\ HistoryOK'
    BY <1>4 DEF SkipBot, Finish
  <2> QED
    BY <2>1, <2>2, <2>3
<1>5. CASE SkipDuplicate
  <2>1. PositionOK'
    BY <1>5 DEF SkipDuplicate, TypeInv, TypeOK, PositionOK
  <2>2. LocalsOK'
    <3>1. /\ DOMAIN seen \subseteq MsgIds /\ \A i \in DOMAIN seen : seen[i] \in Times
          /\ seen' = Keep(seen, Fresh) /\ UNCHANGED <<refAgent, target, wakeAt>>
      BY <1>5 DEF SkipDuplicate, TypeInv, TypeOK, LocalsOK
    <3>2. DOMAIN seen' \subseteq MsgIds /\ \A i \in DOMAIN seen' : seen'[i] \in Times
      BY <3>1, Zenon DEF Keep
    <3> QED
      BY <3>1, <3>2 DEF TypeInv, TypeOK, LocalsOK, Times
  <2>3. StepOK'
    BY <1>5 DEF SkipDuplicate, StepOK
  <2>4. PlatformOK' /\ RouterOK' /\ ReplyOK' /\ StoreOK' /\ ClockOK' /\ HistoryOK'
    BY <1>5 DEF SkipDuplicate
  <2> QED
    BY <2>1, <2>2, <2>3, <2>4
<1>6. CASE TakeMessage
  <2>1. PositionOK'
    BY <1>6 DEF TakeMessage, TypeInv, TypeOK, PositionOK
  <2>2. LocalsOK'
    <3>1. /\ DOMAIN seen \subseteq MsgIds /\ \A i \in DOMAIN seen : seen[i] \in Times
          /\ refAgent \in Agents \cup {NoAgent} /\ wakeAt \in Times /\ now \in Times
          /\ target \in Agents \cup {NoAgent}
      BY DEF TypeInv, TypeOK, LocalsOK, ClockOK
    <3>2. next \in MsgIds
      BY <1>6, CurrentMessage DEF TakeMessage
    <3>3. DOMAIN seen' \subseteq MsgIds /\ \A i \in DOMAIN seen' : seen'[i] \in Times
      BY <1>6, <3>1, <3>2, Zenon DEF TakeMessage, Put, Keep
    <3>4. refAgent' \in Agents \cup {NoAgent}
      BY <1>6 DEF TakeMessage, TypeInv, TypeOK, StoreOK
    <3> QED
      BY <1>6, <3>1, <3>3, <3>4 DEF TakeMessage, LocalsOK, Times
  <2>3. StepOK'
    <3>1. pc' = "route" /\ next' = next /\ seen' = Put(Keep(seen, Fresh), next, now)
      BY <1>6 DEF TakeMessage
    <3>2. next \in DOMAIN seen'
      BY <3>1, Zenon DEF Put
    <3> QED
      BY <3>1, <3>2 DEF StepOK
  <2>4. HistoryOK'
    <3>1. next \in MsgIds /\ now \in Times
      BY <1>6, CurrentMessage DEF TakeMessage, TypeInv, TypeOK, ClockOK
    <3> QED
      BY <1>6, <3>1, ExcuseType DEF TakeMessage, TypeInv, TypeOK, HistoryOK
  <2>5. PlatformOK' /\ RouterOK' /\ ReplyOK' /\ StoreOK' /\ ClockOK'
    BY <1>6 DEF TakeMessage
  <2> QED
    BY <2>1, <2>2, <2>3, <2>4, <2>5
<1>7. CASE RouteQuoted
  <2>1. PlatformOK' /\ PositionOK' /\ StepOK'
    BY <1>7, FinishType DEF RouteQuoted, TypeInv, TypeOK, PositionOK
  <2>2. LocalsOK'
    BY <1>7 DEF RouteQuoted, Finish, TypeInv, TypeOK, LocalsOK
  <2>3. RouterOK'
    BY <1>7, EnqueueType DEF RouteQuoted, TypeInv, TypeOK, RouterOK, Quoted
  <2>4. ReplyOK'
    BY <1>7, WithContextType DEF RouteQuoted, TypeInv, TypeOK, PositionOK, ReplyOK
  <2>5. StoreOK' /\ ClockOK' /\ HistoryOK'
    BY <1>7 DEF RouteQuoted, Finish
  <2> QED
    BY <2>1, <2>2, <2>3, <2>4, <2>5
<1>8. CASE RefuseQuoted
  <2>1. PlatformOK' /\ PositionOK' /\ StepOK'
    BY <1>8, FinishType DEF RefuseQuoted, TypeInv, TypeOK, PositionOK
  <2>2. LocalsOK'
    BY <1>8 DEF RefuseQuoted, Finish, TypeInv, TypeOK, LocalsOK
  <2>3. ReplyOK'
    BY <1>8, WithContextType DEF RefuseQuoted, TypeInv, TypeOK, PositionOK, ReplyOK
  <2>4. RouterOK' /\ StoreOK' /\ ClockOK' /\ HistoryOK'
    BY <1>8 DEF RefuseQuoted, Finish
  <2> QED
    BY <2>1, <2>2, <2>3, <2>4
<1>9. CASE Refuse
  <2>1. PositionOK'
    BY <1>9 DEF Refuse, TypeInv, TypeOK, PositionOK
  <2>2. LocalsOK'
    BY <1>9 DEF Refuse, TypeInv, TypeOK, LocalsOK, RouterOK
  <2>3. StepOK'
    BY <1>9 DEF Refuse, StepOK
  <2>4. PlatformOK' /\ RouterOK' /\ ReplyOK' /\ StoreOK' /\ ClockOK' /\ HistoryOK'
    BY <1>9 DEF Refuse
  <2> QED
    BY <2>1, <2>2, <2>3, <2>4
<1>10. CASE AnswerInline
  <2>1. PositionOK'
    BY <1>10 DEF AnswerInline, TypeInv, TypeOK, PositionOK
  <2>2. LocalsOK'
    BY <1>10 DEF AnswerInline, TypeInv, TypeOK, LocalsOK, RouterOK
  <2>3. RouterOK'
    BY <1>10 DEF AnswerInline, TypeInv, TypeOK, RouterOK
  <2>4. StepOK'
    BY <1>10 DEF AnswerInline, StepOK
  <2>5. PlatformOK' /\ ReplyOK' /\ StoreOK' /\ ClockOK' /\ HistoryOK'
    BY <1>10 DEF AnswerInline
  <2> QED
    BY <2>1, <2>2, <2>3, <2>4, <2>5
<1>11. CASE RouteToActive
  <2>1. PositionOK'
    BY <1>11 DEF RouteToActive, TypeInv, TypeOK, PositionOK
  <2>2. LocalsOK'
    BY <1>11 DEF RouteToActive, TypeInv, TypeOK, LocalsOK, RouterOK
  <2>3. RouterOK'
    BY <1>11, EnqueueType DEF RouteToActive, TypeInv, TypeOK, RouterOK
  <2>4. StepOK'
    BY <1>11 DEF RouteToActive, StepOK
  <2>5. HistoryOK'
    <3>1. next \in MsgIds /\ seen[next] \in Times
      BY <1>11, CurrentMessage
         DEF RouteToActive, TypeInv, TypeOK, PositionOK, LocalsOK, StepOK
    <3> QED
      BY <1>11, <3>1, ExcuseType DEF RouteToActive, TypeInv, TypeOK, HistoryOK
  <2>6. PlatformOK' /\ ReplyOK' /\ StoreOK' /\ ClockOK'
    BY <1>11 DEF RouteToActive
  <2> QED
    BY <2>1, <2>2, <2>3, <2>4, <2>5, <2>6
<1>12. CASE SendInline
  <2>1. PlatformOK' /\ PositionOK' /\ StepOK'
    BY <1>12, FinishType DEF SendInline, TypeInv, TypeOK, PositionOK
  <2>2. LocalsOK'
    BY <1>12 DEF SendInline, Finish, TypeInv, TypeOK, LocalsOK
  <2>3. RouterOK' /\ ReplyOK' /\ StoreOK' /\ ClockOK' /\ HistoryOK'
    BY <1>12 DEF SendInline, Finish
  <2> QED
    BY <2>1, <2>2, <2>3
<1>13. CASE Record
  <2>1. PositionOK'
    BY <1>13 DEF Record, TypeInv, TypeOK, PositionOK
  <2>2. ReplyOK'
    BY <1>13, WithContextType DEF Record, TypeInv, TypeOK, PositionOK, ReplyOK
  <2>3. StepOK'
    BY <1>13 DEF Record, TypeInv, TypeOK, LocalsOK, StepOK
  <2>4. PlatformOK' /\ LocalsOK' /\ RouterOK' /\ StoreOK' /\ ClockOK' /\ HistoryOK'
    BY <1>13 DEF Record
  <2> QED
    BY <2>1, <2>2, <2>3, <2>4
<1>14. CASE AttachMedia
  <2>1. PositionOK'
    BY <1>14 DEF AttachMedia, TypeInv, TypeOK, PositionOK
  <2>2. RouterOK'
    BY <1>14, LastMediaType, CurrentMessage DEF AttachMedia, TypeInv, TypeOK, RouterOK, PositionOK, StepOK
  <2>3. StepOK'
    BY <1>14 DEF AttachMedia, StepOK
  <2>4. PlatformOK' /\ LocalsOK' /\ ReplyOK' /\ StoreOK' /\ ClockOK' /\ HistoryOK'
    BY <1>14 DEF AttachMedia
  <2> QED
    BY <2>1, <2>2, <2>3, <2>4
<1>15. CASE MediaFailed
  <2>1. PositionOK'
    BY <1>15 DEF MediaFailed, TypeInv, TypeOK, PositionOK
  <2>2. StepOK'
    BY <1>15 DEF MediaFailed, StepOK
  <2>3. PlatformOK' /\ LocalsOK' /\ RouterOK' /\ ReplyOK' /\ StoreOK' /\ ClockOK' /\ HistoryOK'
    BY <1>15 DEF MediaFailed
  <2> QED
    BY <2>1, <2>2, <2>3
<1>16. CASE Push
  <2>1. PlatformOK' /\ PositionOK' /\ StepOK'
    BY <1>16, FinishType DEF Push, TypeInv, TypeOK, PositionOK
  <2>2. LocalsOK'
    BY <1>16 DEF Push, Finish, TypeInv, TypeOK, LocalsOK
  <2>3. RouterOK' /\ ReplyOK' /\ StoreOK' /\ ClockOK' /\ HistoryOK'
    BY <1>16 DEF Push, Finish
  <2> QED
    BY <2>1, <2>2, <2>3
<1>17. CASE NoTarget
  <2>1. PlatformOK' /\ PositionOK' /\ StepOK'
    BY <1>17, FinishType DEF NoTarget, TypeInv, TypeOK, PositionOK
  <2>2. LocalsOK'
    BY <1>17 DEF NoTarget, Finish, TypeInv, TypeOK, LocalsOK
  <2>3. RouterOK' /\ ReplyOK' /\ StoreOK' /\ ClockOK' /\ HistoryOK'
    BY <1>17 DEF NoTarget, Finish
  <2> QED
    BY <2>1, <2>2, <2>3
<1> QED
  BY <1>1, <1>2, <1>3, <1>4, <1>5, <1>6, <1>7, <1>8, <1>9, <1>10, <1>11, <1>12, <1>13, <1>14, <1>15, <1>16, <1>17 DEF Loop, Process

\* Every request of an agent keeps the types.
LEMMA AgentType ==
    ASSUME TypeInv, AgentStep
    PROVE  TypeInv'
<1> SUFFICES PlatformOK' /\ PositionOK' /\ LocalsOK' /\ RouterOK' /\ ReplyOK' /\ StoreOK'
                /\ ClockOK' /\ HistoryOK' /\ StepOK'
  BY DEF TypeInv, TypeOK
<1> USE TypeFrame DEF platformVars, loopVars, routerVars, replyVars, storeVars, clockVars, history
<1>1. ASSUME NEW a \in Agents, Register(a)
      PROVE  PlatformOK' /\ PositionOK' /\ LocalsOK' /\ RouterOK' /\ ReplyOK' /\ StoreOK'
             /\ ClockOK' /\ HistoryOK' /\ StepOK'
  <2>1. RouterOK'
    BY <1>1 DEF Register, TypeInv, TypeOK, RouterOK
  <2>2. StoreOK'
    BY <1>1 DEF Register, TypeInv, TypeOK, RouterOK, StoreOK
  <2>3. PlatformOK' /\ PositionOK' /\ LocalsOK' /\ ReplyOK' /\ ClockOK' /\ HistoryOK' /\ StepOK'
    BY <1>1 DEF Register
  <2> QED
    BY <2>1, <2>2, <2>3
<1>2. ASSUME NEW a \in Agents, Poll(a)
      PROVE  PlatformOK' /\ PositionOK' /\ LocalsOK' /\ RouterOK' /\ ReplyOK' /\ StoreOK'
             /\ ClockOK' /\ HistoryOK' /\ StepOK'
  <2>1. RouterOK'
    BY <1>2 DEF Poll, TypeInv, TypeOK, RouterOK, Drained
  <2>2. PlatformOK' /\ PositionOK' /\ LocalsOK' /\ ReplyOK' /\ StoreOK' /\ ClockOK' /\ HistoryOK' /\ StepOK'
    BY <1>2 DEF Poll
  <2> QED
    BY <2>1, <2>2
<1>3. ASSUME NEW a \in Agents, Answer(a)
      PROVE  PlatformOK' /\ PositionOK' /\ LocalsOK' /\ RouterOK' /\ ReplyOK' /\ StoreOK'
             /\ ClockOK' /\ HistoryOK' /\ StepOK'
  <2>1. ReplyOK'
    <3>1. PICK i \in DOMAIN inbox, n \in 1..MaxParts :
            /\ replies' = Append(replies, [re |-> i, to |-> NoUser, by |-> a, parts |-> n])
            /\ posted' = posted + 1
      BY <1>3 DEF Answer, Send
    <3>2. i \in MsgIds
      BY <3>1, GatewayAssumption DEF TypeInv, TypeOK, PlatformOK, MsgIds
    <3>3. [re |-> i, to |-> NoUser, by |-> a, parts |-> n] \in Reply
      BY <3>1, <3>2 DEF Reply
    <3>4. UNCHANGED <<ctxs, proc>>
      BY <1>3 DEF Answer
    <3> QED
      BY <3>1, <3>3, <3>4 DEF TypeInv, TypeOK, ReplyOK
  <2>2. PlatformOK' /\ PositionOK' /\ LocalsOK' /\ RouterOK' /\ StoreOK' /\ ClockOK' /\ HistoryOK' /\ StepOK'
    BY <1>3 DEF Answer
  <2> QED
    BY <2>1, <2>2
<1>4. ASSUME NEW a \in Agents, SendFirst(a)
      PROVE  PlatformOK' /\ PositionOK' /\ LocalsOK' /\ RouterOK' /\ ReplyOK' /\ StoreOK'
             /\ ClockOK' /\ HistoryOK' /\ StepOK'
  <2>1. ReplyOK'
    <3>1. PICK u \in Users, n \in 1..MaxParts :
            /\ replies' = Append(replies, [re |-> 0, to |-> u, by |-> a, parts |-> n])
            /\ posted' = posted + 1
      BY <1>4 DEF SendFirst, Send
    <3>2. [re |-> 0, to |-> u, by |-> a, parts |-> n] \in Reply
      BY <3>1 DEF Reply, TypeInv, TypeOK, PlatformOK, MsgIds
    <3>3. UNCHANGED <<ctxs, proc>>
      BY <1>4 DEF SendFirst
    <3> QED
      BY <3>1, <3>2, <3>3 DEF TypeInv, TypeOK, ReplyOK
  <2>2. PlatformOK' /\ PositionOK' /\ LocalsOK' /\ RouterOK' /\ StoreOK' /\ ClockOK' /\ HistoryOK' /\ StepOK'
    BY <1>4 DEF SendFirst
  <2> QED
    BY <2>1, <2>2
<1> QED
  BY <1>1, <1>2, <1>3, <1>4 DEF AgentStep

\* Every step of the reply processor keeps the types.
LEMMA ProcessorType ==
    ASSUME TypeInv, Processor
    PROVE  TypeInv'
<1> SUFFICES PlatformOK' /\ PositionOK' /\ LocalsOK' /\ RouterOK' /\ ReplyOK' /\ StoreOK'
                /\ ClockOK' /\ HistoryOK' /\ StepOK'
  BY DEF TypeInv, TypeOK
<1> USE TypeFrame DEF platformVars, loopVars, routerVars, replyVars, storeVars, clockVars, history
<1>1. CASE TakeReply
  <2>1. ReplyOK'
    <3>1. replies \in Seq(Reply) /\ Head(replies) \in Reply /\ Tail(replies) \in Seq(Reply)
      BY <1>1 DEF TakeReply, TypeInv, TypeOK, ReplyOK
    <3>2. \A i \in DOMAIN ctxs : ctxs[i].user \in Users
      BY DEF TypeInv, TypeOK, ReplyOK, Context
    <3>3. PICK to \in Users : proc' = JobFor(Head(replies), to)
      <4>1. Head(replies).re = 0 => Head(replies).to \in Users
        BY <3>1 DEF Reply, MsgIds
      <4> QED
        BY <1>1, <3>2, <4>1, Zenon DEF TakeReply, Asker
    <3>4. proc' \in Job
      BY <3>1, <3>3 DEF JobFor, Reply, Job
    <3> QED
      BY <1>1, <3>1, <3>4 DEF TakeReply, TypeInv, TypeOK, ReplyOK
  <2>2. PlatformOK' /\ PositionOK' /\ LocalsOK' /\ RouterOK' /\ StoreOK' /\ ClockOK' /\ HistoryOK' /\ StepOK'
    BY <1>1 DEF TakeReply
  <2> QED
    BY <2>1, <2>2
<1>2. CASE DropReply
  <2>1. ReplyOK'
    BY <1>2 DEF DropReply, TypeInv, TypeOK, ReplyOK
  <2>2. PlatformOK' /\ PositionOK' /\ LocalsOK' /\ RouterOK' /\ StoreOK' /\ ClockOK' /\ HistoryOK' /\ StepOK'
    BY <1>2 DEF DropReply
  <2> QED
    BY <2>1, <2>2
<1>3. CASE SendKeep
  <2>1. PlatformOK'
    BY <1>3, NextPartType, AcceptedType DEF SendKeep, TypeInv, TypeOK, PlatformOK, Idle
  <2>2. ReplyOK'
    BY <1>3, NextPartType DEF SendKeep, TypeInv, TypeOK, ReplyOK, Job, Idle
  <2>3. PositionOK' /\ LocalsOK' /\ RouterOK' /\ StoreOK' /\ ClockOK' /\ HistoryOK' /\ StepOK'
    BY <1>3 DEF SendKeep
  <2> QED
    BY <2>1, <2>2, <2>3
<1>4. CASE SendForget
  <2>1. PlatformOK'
    BY <1>4, NextPartType, AcceptedType DEF SendForget, TypeInv, TypeOK, PlatformOK, Idle
  <2>2. ReplyOK'
    BY <1>4, NextPartType DEF SendForget, TypeInv, TypeOK, ReplyOK, Idle
  <2>3. PositionOK' /\ LocalsOK' /\ RouterOK' /\ StoreOK' /\ ClockOK' /\ HistoryOK' /\ StepOK'
    BY <1>4 DEF SendForget
  <2> QED
    BY <2>1, <2>2, <2>3
<1>5. CASE SendFails
  <2>1. ReplyOK'
    BY <1>5, NextPartType DEF SendFails, TypeInv, TypeOK, ReplyOK, Idle
  <2>2. PlatformOK' /\ PositionOK' /\ LocalsOK' /\ RouterOK' /\ StoreOK' /\ ClockOK' /\ HistoryOK' /\ StepOK'
    BY <1>5 DEF SendFails
  <2> QED
    BY <2>1, <2>2
<1>6. CASE SaveContext
  <2>1. ReplyOK'
    BY <1>6, NextPartType DEF SaveContext, TypeInv, TypeOK, ReplyOK, Idle
  <2>2. StoreOK'
    BY <1>6, NextPartType, StoredType DEF SaveContext, TypeInv, TypeOK, StoreOK, Idle
  <2>3. HistoryOK'
    <3>1. Len(sent) \in Nat /\ saved \subseteq Nat /\ excused \subseteq MsgIds \X Times
      BY DEF TypeInv, TypeOK, HistoryOK, PlatformOK
    <3>2. saved' = saved \cup {Len(sent)} /\ excused' = excused
      BY <1>6 DEF SaveContext
    <3> QED
      BY <3>1, <3>2 DEF HistoryOK, MsgIds, Times
  <2>4. PlatformOK' /\ PositionOK' /\ LocalsOK' /\ RouterOK' /\ ClockOK' /\ StepOK'
    BY <1>6 DEF SaveContext
  <2> QED
    BY <2>1, <2>2, <2>3, <2>4
<1> QED
  BY <1>1, <1>2, <1>3, <1>4, <1>5, <1>6 DEF Processor

\* Users, time, the purge of contexts and crashes keep the types.
LEMMA EnvironmentType ==
    ASSUME TypeInv, Post \/ Tick \/ PurgeContexts \/ CrashRestart
    PROVE  TypeInv'
<1> SUFFICES PlatformOK' /\ PositionOK' /\ LocalsOK' /\ RouterOK' /\ ReplyOK' /\ StoreOK'
                /\ ClockOK' /\ HistoryOK' /\ StepOK'
  BY DEF TypeInv, TypeOK
<1> USE TypeFrame DEF platformVars, loopVars, routerVars, replyVars, storeVars, clockVars, history
<1>1. CASE Post
  <2>1. PlatformOK'
    <3>1. PICK s \in Shapes, r \in 0..Len(sent) :
            inbox' = Append(inbox, [shape |-> s, ref |-> r])
      BY <1>1 DEF Post
    <3>2. [shape |-> s, ref |-> r] \in Message
      BY <3>1 DEF Message, TypeInv, TypeOK, PlatformOK
    <3>3. inbox' \in Seq(Message) /\ Len(inbox') = Len(inbox) + 1
      BY <3>1, <3>2 DEF TypeInv, TypeOK, PlatformOK
    <3> QED
      BY <1>1, <3>3, GatewayAssumption DEF Post, TypeInv, TypeOK, PlatformOK
  <2>2. PositionOK'
    BY <1>1 DEF Post, TypeInv, TypeOK, PlatformOK, PositionOK
  <2>3. LocalsOK' /\ RouterOK' /\ ReplyOK' /\ StoreOK' /\ ClockOK' /\ HistoryOK' /\ StepOK'
    BY <1>1 DEF Post
  <2> QED
    BY <2>1, <2>2, <2>3
<1>2. CASE Tick
  <2>1. ClockOK'
    BY <1>2, GatewayAssumption DEF Tick, TypeInv, TypeOK, ClockOK, Times
  <2>2. /\ PlatformOK' /\ PositionOK' /\ LocalsOK' /\ RouterOK' /\ ReplyOK' /\ StoreOK'
        /\ HistoryOK' /\ StepOK'
    BY <1>2 DEF Tick
  <2> QED
    BY <2>1, <2>2
<1>3. CASE PurgeContexts
  <2>1. ReplyOK'
    <3>1. DOMAIN ctxs \subseteq MsgIds /\ \A i \in DOMAIN ctxs : ctxs[i] \in Context
      BY DEF TypeInv, TypeOK, ReplyOK
    <3>2. DOMAIN ctxs' \subseteq MsgIds /\ \A i \in DOMAIN ctxs' : ctxs'[i] \in Context
      BY <1>3, <3>1, Zenon DEF PurgeContexts, Keep
    <3> QED
      BY <1>3, <3>2 DEF PurgeContexts, TypeInv, TypeOK, ReplyOK
  <2>2. PlatformOK' /\ PositionOK' /\ LocalsOK' /\ RouterOK' /\ StoreOK' /\ ClockOK' /\ HistoryOK' /\ StepOK'
    BY <1>3 DEF PurgeContexts
  <2> QED
    BY <2>1, <2>2
<1>4. CASE CrashRestart
  <2>1. PositionOK'
    BY <1>4 DEF CrashRestart, TypeInv, TypeOK, PositionOK, PlatformOK, RestartCursor
  <2>2. LocalsOK'
    BY <1>4, GatewayAssumption DEF CrashRestart, TypeInv, TypeOK, LocalsOK, Empty, Times
  <2>3. RouterOK'
    BY <1>4 DEF CrashRestart, TypeInv, TypeOK, RouterOK, StoreOK
  <2>4. ReplyOK'
    BY <1>4 DEF CrashRestart, TypeInv, TypeOK, ReplyOK, Empty
  <2>5. ClockOK'
    BY <1>4 DEF CrashRestart, TypeInv, TypeOK, ClockOK
  <2>6. StepOK'
    BY <1>4 DEF CrashRestart, StepOK
  <2>7. HistoryOK'
    BY <1>4 DEF CrashRestart, TypeInv, TypeOK, HistoryOK
  <2>8. PlatformOK' /\ StoreOK'
    BY <1>4 DEF CrashRestart
  <2> QED
    BY <2>1, <2>2, <2>3, <2>4, <2>5, <2>6, <2>7, <2>8
<1> QED
  BY <1>1, <1>2, <1>3, <1>4

\* Every step keeps the types.
LEMMA TypeStep == TypeInv /\ [Next]_vars => TypeInv'
<1> SUFFICES ASSUME TypeInv, [Next]_vars PROVE TypeInv'
  OBVIOUS
<1>1. CASE Loop \/ SessionTimeout
  BY <1>1, LoopType
<1>2. CASE AgentStep
  BY <1>2, AgentType
<1>3. CASE Processor
  BY <1>3, ProcessorType
<1>4. CASE Post \/ Tick \/ PurgeContexts \/ CrashRestart
  BY <1>4, EnvironmentType
<1>5. CASE UNCHANGED vars
  BY <1>5, TypeFrame
     DEF vars, platformVars, loopVars, routerVars, replyVars, storeVars, clockVars, history, TypeInv, TypeOK
<1> QED
  BY <1>1, <1>2, <1>3, <1>4, <1>5 DEF Next

\* In every reachable state the variables have their types (TypeOK), together
\* with what a step of the loop relies on its predecessors for (StepOK).
THEOREM TypeInvariant == Spec => []TypeInv
<1>1. Init => TypeInv
  BY TypeInit
<1>2. TypeInv /\ [Next]_vars => TypeInv'
  BY TypeStep
<1> QED
  BY <1>1, <1>2, PTL DEF Spec

\* The state the gateway's tasks share is always well formed (TypeOK).
THEOREM TypeCorrect == Spec => []TypeOK
<1>1. TypeInv => TypeOK
  BY DEF TypeInv
<1> QED
  BY <1>1, TypeInvariant, PTL

----------------------------------------------------------------------------
(* At-least-once delivery.                                                 *)

\* Why nothing is acknowledged too early.  What sync_buf stands for is handled
\* or still ahead in the response being processed; what the dedup cache would
\* skip is handled or in the loop's hands; and the loop pauses only between
\* responses.
AckInv ==
    /\ AckedAreHandled
    /\ \A i \in 1..cursor : i \in handled \/ (next <= i /\ i <= upto)
    /\ \A i \in DOMAIN seen : i \in handled \/ (i = next /\ pc \notin {"take", "sleep"})
    /\ pc = "sleep" => next > upto

\* The end of a message's processing keeps AckInv.
LEMMA FinishAck ==
    ASSUME TypeInv, AckInv, Finish, UNCHANGED <<acked, cursor, upto, seen>>
    PROVE  AckInv'
<1>1. next \in Nat /\ upto \in Nat /\ cursor \in Nat /\ acked \in Nat
  BY DEF TypeInv, TypeOK, PlatformOK, PositionOK
<1> QED
  BY <1>1 DEF AckInv, AckedAreHandled, Finish

\* The steps that take no part in acknowledgment keep AckInv.
LEMMA FrameAck ==
    ASSUME AckInv, UNCHANGED <<acked, cursor, next, upto, seen, handled>>,
           pc' # "sleep", pc' = "take" <=> pc = "take"
    PROVE  AckInv'
  BY DEF AckInv, AckedAreHandled

LEMMA AckStep == TypeInv /\ AckInv /\ [Next]_vars => AckInv'
<1> SUFFICES ASSUME TypeInv, AckInv, [Next]_vars PROVE AckInv'
  OBVIOUS
<1> USE DEF platformVars, loopVars, clockVars, history
<1>a. /\ next \in Nat /\ upto \in Nat /\ cursor \in Nat /\ acked \in Nat
      /\ Len(inbox) \in Nat /\ cursor <= Len(inbox) /\ acked <= Len(inbox)
  BY DEF TypeInv, TypeOK, PlatformOK, PositionOK
<1>b. ASSUME UNCHANGED <<acked, loopVars, handled>> PROVE AckInv'
  BY <1>b DEF AckInv, AckedAreHandled
<1>1. CASE GetUpdates
  <2>1. \A i \in 1..cursor : i \in handled
    BY <1>1, <1>a DEF GetUpdates, LoopIdle, AckInv
  <2>2. AckedAreHandled'
    BY <1>1, <1>a, <2>1 DEF GetUpdates, AckInv, AckedAreHandled, MaxOf
  <2>3. PICK start \in ResponseStart : next' = start + 1
    BY <1>1 DEF GetUpdates
  <2>4. start \in Nat /\ \A i \in 1..start : i \in handled
    BY <2>1, <2>3, <1>a DEF ResponseStart, AckInv, AckedAreHandled
  <2>5. \A i \in 1..(cursor') : i \in handled' \/ (next' <= i /\ i <= upto')
    BY <1>1, <1>a, <2>1, <2>3, <2>4 DEF GetUpdates, NewCursors
  <2>6. \A i \in DOMAIN seen : i \in handled
    BY <1>1 DEF GetUpdates, LoopIdle, AckInv
  <2> QED
    BY <1>1, <2>2, <2>5, <2>6 DEF GetUpdates, LoopIdle, AckInv
<1>2. CASE SessionTimeout
  <2>1. \A i \in 1..cursor : i \in handled
    BY <1>2, <1>a DEF SessionTimeout, LoopIdle, AckInv
  <2> QED
    BY <1>2, <1>a, <2>1 DEF SessionTimeout, LoopIdle, AckInv, AckedAreHandled, MaxOf
<1>3. CASE Wake
  BY <1>3 DEF Wake, AckInv, AckedAreHandled
<1>4. CASE SkipBot \/ RouteQuoted \/ RefuseQuoted \/ SendInline \/ Push \/ NoTarget
  BY <1>4, FinishAck DEF SkipBot, RouteQuoted, RefuseQuoted, SendInline, Push, NoTarget
<1>5. CASE SkipDuplicate
  <2>1. next \in handled
    BY <1>5 DEF SkipDuplicate, Fresh, AckInv
  <2>2. DOMAIN seen' \subseteq DOMAIN seen
    BY <1>5, Zenon DEF SkipDuplicate, Keep
  <2> QED
    BY <1>5, <1>a, <2>1, <2>2 DEF SkipDuplicate, AckInv, AckedAreHandled
<1>6. CASE TakeMessage
  <2>1. DOMAIN seen' \subseteq DOMAIN seen \cup {next}
    BY <1>6, Zenon DEF TakeMessage, Put, Keep
  <2> QED
    BY <1>6, <2>1 DEF TakeMessage, AckInv, AckedAreHandled
<1>7. CASE Refuse \/ AnswerInline \/ RouteToActive \/ Record \/ AttachMedia \/ MediaFailed
  BY <1>7, FrameAck
     DEF Refuse, AnswerInline, RouteToActive, Record, AttachMedia, MediaFailed
<1>8. CASE AgentStep
  BY <1>8, <1>b DEF AgentStep, Register, Poll, Answer, SendFirst
<1>9. CASE Processor
  BY <1>9, <1>b
     DEF Processor, TakeReply, DropReply, SendKeep, SendForget, SendFails, SaveContext
<1>10. CASE Post \/ Tick \/ PurgeContexts
  BY <1>10, <1>b DEF Post, Tick, PurgeContexts
<1>11. CASE CrashRestart
  BY <1>11 DEF CrashRestart, RestartCursor, Empty, AckInv, AckedAreHandled
<1>12. CASE UNCHANGED vars
  BY <1>12, <1>b DEF vars
<1> QED
  BY <1>1, <1>2, <1>3, <1>4, <1>5, <1>6, <1>7, <1>8, <1>9, <1>10, <1>11, <1>12
     DEF Next, Loop, Process

\* The long poll delivers at least once: a message is never acknowledged to the
\* platform before the loop has finished with it, for any number of messages,
\* session timeouts and crashes.
THEOREM AtLeastOnce == Spec => []AckedAreHandled
<1>1. Init => AckInv
  BY DEF Init, AckInv, AckedAreHandled, Empty
<1>2. TypeInv /\ AckInv /\ [Next]_vars => AckInv'
  BY AckStep
<1>3. AckInv => AckedAreHandled
  BY DEF AckInv
<1> QED
  BY <1>1, <1>2, <1>3, TypeInvariant, PTL DEF Spec

----------------------------------------------------------------------------
(* What waits in the queues.                                               *)

\* enqueue appends one entry to one queue.
LEMMA EnqueueEntries ==
    ASSUME TypeInv, NEW a \in Agents, NEW ctx, NEW b \in Agents,
           NEW k \in DOMAIN Enqueue(a, ctx)[b]
    PROVE  \/ k \in DOMAIN queue[b] /\ Enqueue(a, ctx)[b][k] = queue[b][k]
           \/ /\ b = a /\ k = Len(queue[a]) + 1
              /\ Enqueue(a, ctx)[b][k] =
                    [id |-> next, at |-> seen[next], media |-> 0, ctx |-> ctx]
<1>1. queue \in [Agents -> Seq(Entry)]
  BY DEF TypeInv, TypeOK, RouterOK
<1>2. CASE b = a
  <2> DEFINE e == [id |-> next, at |-> seen[next], media |-> 0, ctx |-> ctx]
  <2> HIDE DEF e
  <2>1. Enqueue(a, ctx)[b] = Append(queue[a], e)
    BY <1>1, <1>2, Zenon DEF Enqueue, e
  <2>2. queue[a] \in Seq(Entry)
    BY <1>1
  <2>3. \/ k \in DOMAIN queue[b] /\ Enqueue(a, ctx)[b][k] = queue[b][k]
        \/ k = Len(queue[a]) + 1 /\ Enqueue(a, ctx)[b][k] = e
    BY <1>2, <2>1, <2>2
  <2> QED
    BY <1>2, <2>3 DEF e
<1>3. CASE b # a
  BY <1>1, <1>3, Zenon DEF Enqueue
<1> QED
  BY <1>2, <1>3

\* update_last_media changes nothing of an entry but its files.
LEMMA LastMediaEntries ==
    ASSUME TypeInv, NEW a \in Agents, NEW m, NEW b \in Agents
    PROVE  /\ DOMAIN LastMedia(a, m)[b] = DOMAIN queue[b]
           /\ \A k \in DOMAIN queue[b] :
                 LET d == queue[b][k]  e == LastMedia(a, m)[b][k] IN
                 /\ e.id = d.id /\ e.at = d.at /\ e.ctx = d.ctx
                 /\ e.media = d.media \/ (b = a /\ k = Len(queue[a]) /\ e.media = m)
<1>1. queue \in [Agents -> Seq(Entry)]
  BY DEF TypeInv, TypeOK, RouterOK
<1>2. CASE b # a \/ queue[a] = <<>>
  <2>1. LastMedia(a, m)[b] = queue[b]
    BY <1>1, <1>2, Zenon DEF LastMedia
  <2> QED
    BY <2>1
<1>3. CASE b = a /\ queue[a] # <<>>
  <2> DEFINE q == queue[a]
             l == [q[Len(q)] EXCEPT !.media = m]
  <2>1. q \in Seq(Entry) /\ Len(q) \in 1..Len(q) /\ DOMAIN q = 1..Len(q)
    BY <1>1, <1>3
  <2>2. q[Len(q)] \in Entry
    BY <2>1
  <2>3. l.id = q[Len(q)].id /\ l.at = q[Len(q)].at /\ l.ctx = q[Len(q)].ctx /\ l.media = m
    BY <2>2 DEF Entry
  <2> HIDE DEF l
  <2>4. LastMedia(a, m)[b] = [q EXCEPT ![Len(q)] = l]
    BY <1>1, <1>3, Zenon DEF LastMedia, l
  <2> QED
    BY <1>3, <2>1, <2>3, <2>4
<1> QED
  BY <1>2, <1>3

\* A poll leaves the other queues alone.
LEMMA DrainedEntries ==
    ASSUME TypeInv, NEW a \in Agents, NEW b \in Agents
    PROVE  Drained(a)[b] = <<>> \/ Drained(a)[b] = queue[b]
  BY DEF TypeInv, TypeOK, RouterOK, Drained

\* A step does one of five things to the queues.
LEMMA QueueSteps ==
    ASSUME TypeInv, [Next]_vars
    PROVE  \/ RouteQuoted
           \/ RouteToActive
           \/ AttachMedia
           \/ \E a \in Agents : queue' = Drained(a) /\ UNCHANGED <<platformVars, loopVars, clockVars>>
           \/ CrashRestart
           \/ UNCHANGED queue
<1> USE DEF routerVars
<1>1. CASE Loop \/ SessionTimeout
  BY <1>1
     DEF Loop, Process, GetUpdates, SessionTimeout, Wake, SkipBot, SkipDuplicate, TakeMessage,
         RefuseQuoted, Refuse, AnswerInline, SendInline, Record,
         MediaFailed, Push, NoTarget
<1>2. CASE AgentStep
  BY <1>2 DEF AgentStep, Register, Poll, Answer, SendFirst
<1>3. CASE Processor
  BY <1>3
     DEF Processor, TakeReply, DropReply, SendKeep, SendForget, SendFails, SaveContext
<1>4. CASE Post \/ Tick \/ PurgeContexts \/ CrashRestart
  BY <1>4 DEF Post, Tick, PurgeContexts
<1>5. CASE UNCHANGED vars
  BY <1>5 DEF vars
<1> QED
  BY <1>1, <1>2, <1>3, <1>4, <1>5 DEF Next

\* What is in a queue has its type.
LEMMA EntryType ==
    ASSUME TypeInv, NEW a \in Agents, NEW k \in DOMAIN queue[a]
    PROVE  /\ queue[a][k] \in Entry
           /\ queue[a][k].at \in Nat /\ queue[a][k].id \in MsgIds
<1>1. queue[a] \in Seq(Entry)
  BY DEF TypeInv, TypeOK, RouterOK
<1>2. queue[a][k] \in Entry
  BY <1>1
<1> QED
  BY <1>2 DEF Entry, Times

\* Messages are never withdrawn or rewritten by the platform.
LEMMA InboxGrows ==
    ASSUME TypeInv, [Next]_vars
    PROVE  \A i \in 1..Len(inbox) : i \in 1..Len(inbox') /\ inbox'[i] = inbox[i]
<1>1. inbox \in Seq(Message)
  BY DEF TypeInv, TypeOK, PlatformOK
<1>2. CASE Post
  BY <1>1, <1>2 DEF Post
<1>3. CASE UNCHANGED inbox
  BY <1>1, <1>3
<1>4. Post \/ UNCHANGED inbox
  BY DEF Next, Loop, Process, GetUpdates, SessionTimeout, Wake, SkipBot, SkipDuplicate,
         TakeMessage, RouteQuoted, RefuseQuoted, Refuse, AnswerInline, RouteToActive,
         SendInline, Record, AttachMedia, MediaFailed, Push, NoTarget,
         AgentStep, Register, Poll, Answer, SendFirst, Processor, TakeReply, DropReply,
         SendKeep, SendForget, SendFails, SaveContext, Tick, PurgeContexts, CrashRestart,
         vars, platformVars
<1> QED
  BY <1>2, <1>3, <1>4

\* What DuplicatesAreLate needs: the dedup cache still holds every entry that
\* is not DedupTtl old, or has forgotten it for a later delivery of the same
\* message; and a message about to be routed has no young entry anywhere.
EntrySeen(e) ==
    \/ e.id \in DOMAIN seen /\ seen[e.id] >= e.at
    \/ now >= e.at + DedupTtl

DupInv ==
    /\ DuplicatesAreLate
    /\ \A a \in Agents : \A k \in DOMAIN queue[a] :
          /\ EntrySeen(queue[a][k])
          /\ pc = "route" /\ queue[a][k].id = next
             => seen[next] >= queue[a][k].at + DedupTtl

\* Routing the message just recorded keeps DupInv.
LEMMA DupEnqueue ==
    ASSUME TypeInv, DupInv, pc = "route", NEW a \in Agents, NEW ctx,
           queue' = Enqueue(a, ctx), UNCHANGED <<seen, now>>, pc' # "route"
    PROVE  DupInv'
<1> DEFINE new == [id |-> next, at |-> seen[next], media |-> 0, ctx |-> ctx]
<1>1. \A b \in Agents : \A k \in DOMAIN queue'[b] :
         \/ k \in DOMAIN queue[b] /\ queue'[b][k] = queue[b][k]
         \/ b = a /\ k = Len(queue[a]) + 1 /\ queue'[b][k] = new
  BY EnqueueEntries
<1>2. next \in DOMAIN seen /\ seen[next] \in Nat /\ DedupTtl \in Nat \ {0}
  BY GatewayAssumption DEF TypeInv, TypeOK, LocalsOK, StepOK, Times
<1>3. \A b \in Agents : \A k \in DOMAIN queue'[b] : EntrySeen(queue[b][k])'
  BY <1>1, <1>2 DEF DupInv, EntrySeen
<1>4. DuplicatesAreLate'
  <2> SUFFICES ASSUME NEW b \in Agents, NEW c \in Agents,
                      NEW j \in DOMAIN queue'[b], NEW k \in DOMAIN queue'[c],
                      queue'[b][j].id = queue'[c][k].id, <<b, j>> # <<c, k>>
               PROVE  \/ queue'[b][j].at >= queue'[c][k].at + DedupTtl
                      \/ queue'[c][k].at >= queue'[b][j].at + DedupTtl
    BY DEF DuplicatesAreLate
  <2>1. CASE j \in DOMAIN queue[b] /\ queue'[b][j] = queue[b][j]
             /\ k \in DOMAIN queue[c] /\ queue'[c][k] = queue[c][k]
    BY <2>1 DEF DupInv, DuplicatesAreLate
  <2>2. CASE j \in DOMAIN queue[b] /\ queue'[b][j] = queue[b][j] /\ queue'[c][k] = new
    BY <2>2 DEF DupInv
  <2>3. CASE k \in DOMAIN queue[c] /\ queue'[c][k] = queue[c][k] /\ queue'[b][j] = new
    BY <2>3 DEF DupInv
  <2> QED
    BY <1>1, <2>1, <2>2, <2>3
<1> QED
  BY <1>3, <1>4 DEF DupInv

\* A step that adds no entry, and no message to route, keeps DupInv.
LEMMA DupFrame ==
    ASSUME TypeInv, DupInv, UNCHANGED seen, now' \in Nat, now' >= now,
           pc' = "route" => pc = "route" /\ next' = next,
           \A a \in Agents : \A k \in DOMAIN queue'[a] :
              /\ k \in DOMAIN queue[a]
              /\ queue'[a][k].id = queue[a][k].id
              /\ queue'[a][k].at = queue[a][k].at
    PROVE  DupInv'
<1>1. DedupTtl \in Nat /\ now \in Nat
  BY GatewayAssumption DEF TypeInv, TypeOK, ClockOK, Times
<1>2. \A a \in Agents : \A k \in DOMAIN queue[a] : queue[a][k].at \in Nat
  BY EntryType
<1>3. \A a \in Agents : \A k \in DOMAIN queue'[a] : EntrySeen(queue[a][k])'
  BY <1>1, <1>2 DEF DupInv, EntrySeen
<1>4. DuplicatesAreLate'
  BY DEF DupInv, DuplicatesAreLate
<1> QED
  BY <1>3, <1>4 DEF DupInv

\* Dropping what has reached its age from the cache keeps EntrySeen.
LEMMA FreshSeen ==
    ASSUME TypeInv, DupInv, UNCHANGED <<now, queue>>,
           NEW a \in Agents, NEW k \in DOMAIN queue[a],
           \A i \in Fresh : i \in DOMAIN seen' /\ seen'[i] \in Nat /\ seen'[i] >= seen[i]
    PROVE  EntrySeen(queue[a][k])'
<1> DEFINE e == queue[a][k]
<1>1. e.at \in Nat /\ now \in Nat /\ DedupTtl \in Nat
      /\ \A i \in DOMAIN seen : seen[i] \in Nat
  BY EntryType, GatewayAssumption DEF TypeInv, TypeOK, ClockOK, LocalsOK, Times
<1>2. EntrySeen(e) /\ queue' = queue
  BY DEF DupInv
<1>3. CASE e.id \in Fresh
  BY <1>1, <1>2, <1>3 DEF EntrySeen, Fresh
<1>4. CASE e.id \notin Fresh
  <2>1. now >= e.at + DedupTtl
    BY <1>1, <1>2, <1>4 DEF EntrySeen, Fresh
  <2> QED
    BY <1>2, <2>1 DEF EntrySeen
<1> QED
  BY <1>3, <1>4

\* Recording a message as taken keeps DupInv.
LEMMA DupTake == TypeInv /\ DupInv /\ TakeMessage => DupInv'
<1> SUFFICES ASSUME TypeInv, DupInv, TakeMessage PROVE DupInv'
  OBVIOUS
<1>1. /\ seen' = Put(Keep(seen, Fresh), next, now) /\ next' = next
      /\ next \notin Fresh /\ UNCHANGED <<queue, now>>
  BY DEF TakeMessage, routerVars, clockVars
<1>2. now \in Nat /\ DedupTtl \in Nat /\ \A i \in DOMAIN seen : seen[i] \in Nat
  BY GatewayAssumption DEF TypeInv, TypeOK, ClockOK, LocalsOK, Times
<1>3. \A i \in Fresh : i \in DOMAIN seen' /\ seen'[i] = seen[i]
  BY <1>1, Zenon DEF Put, Keep, Fresh
<1>4. next \in DOMAIN seen' /\ seen'[next] = now
  BY <1>1, Zenon DEF Put
<1>5. ASSUME NEW a \in Agents, NEW k \in DOMAIN queue[a]
      PROVE  /\ EntrySeen(queue[a][k])'
             /\ queue[a][k].id = next => now >= queue[a][k].at + DedupTtl
  <2>1. EntrySeen(queue[a][k])'
    BY <1>1, <1>2, <1>3, FreshSeen, Fresh \subseteq DOMAIN seen DEF Fresh
  <2>2. EntrySeen(queue[a][k]) /\ queue[a][k].at \in Nat
    BY EntryType DEF DupInv
  <2>3. queue[a][k].id = next => now >= queue[a][k].at + DedupTtl
    BY <1>1, <1>2, <2>2 DEF EntrySeen, Fresh
  <2> QED
    BY <2>1, <2>3
<1>6. DuplicatesAreLate'
  BY <1>1 DEF DupInv, DuplicatesAreLate
<1> QED
  BY <1>1, <1>4, <1>5, <1>6 DEF DupInv

LEMMA DupStep == TypeInv /\ DupInv /\ [Next]_vars => DupInv'
<1> SUFFICES ASSUME TypeInv, DupInv, [Next]_vars PROVE DupInv'
  OBVIOUS
<1> USE DEF loopVars, routerVars, clockVars
<1>1. CASE TakeMessage
  BY <1>1, DupTake
<1>2. CASE SkipDuplicate
  <2>1. /\ seen' = Keep(seen, Fresh) /\ pc' = "take"
        /\ UNCHANGED <<queue, now>>
    BY <1>2 DEF SkipDuplicate
  <2>2. \A i \in Fresh : i \in DOMAIN seen' /\ seen'[i] = seen[i]
    BY <2>1, Zenon DEF Keep, Fresh
  <2>3. \A i \in Fresh : seen[i] \in Nat
    BY DEF Fresh, TypeInv, TypeOK, LocalsOK, Times
  <2>4. \A a \in Agents : \A k \in DOMAIN queue[a] : EntrySeen(queue[a][k])'
    BY <2>1, <2>2, <2>3, FreshSeen
  <2>5. DuplicatesAreLate'
    BY <2>1 DEF DupInv, DuplicatesAreLate
  <2> QED
    BY <2>1, <2>4, <2>5 DEF DupInv
<1>3. CASE RouteQuoted
  BY <1>3, DupEnqueue DEF RouteQuoted, Finish, Quoted, TypeInv, TypeOK, RouterOK
<1>4. CASE RouteToActive
  BY <1>4, DupEnqueue DEF RouteToActive, TypeInv, TypeOK, RouterOK
<1>5. CASE AttachMedia
  <2>1. queue' = LastMedia(target, next) /\ target \in Agents /\ pc' = "push"
        /\ UNCHANGED <<seen, now>> /\ now \in Nat
    BY <1>5 DEF AttachMedia, TypeInv, TypeOK, StepOK, ClockOK, Times
  <2> QED
    BY <2>1, LastMediaEntries, DupFrame
<1>6. CASE CrashRestart
  <2>1. \A a \in Agents : queue'[a] = <<>>
    BY <1>6 DEF CrashRestart
  <2> QED
    BY <1>6, <2>1 DEF CrashRestart, DupInv, DuplicatesAreLate
<1>7. CASE \E a \in Agents : queue' = Drained(a) /\ UNCHANGED <<platformVars, loopVars, clockVars>>
  <2>1. PICK a \in Agents : queue' = Drained(a) /\ UNCHANGED <<platformVars, loopVars, clockVars>>
    BY <1>7
  <2>2. \A b \in Agents : queue'[b] = <<>> \/ queue'[b] = queue[b]
    BY <2>1, DrainedEntries
  <2>3. now \in Nat
    BY DEF TypeInv, TypeOK, ClockOK, Times
  <2> QED
    BY <2>1, <2>2, <2>3, DupFrame
<1>8. CASE /\ UNCHANGED <<queue, seen>>
           /\ pc' = "route" => pc = "route" /\ next' = next
           /\ now' \in Nat /\ now' >= now
  BY <1>8, DupFrame
<1>9. \/ TakeMessage \/ SkipDuplicate \/ CrashRestart
      \/ /\ UNCHANGED seen
         /\ pc' = "route" => pc = "route" /\ next' = next
         /\ now' \in Nat /\ now' >= now
  <2>1. now \in Nat
    BY DEF TypeInv, TypeOK, ClockOK, Times
  <2>2. CASE Loop \/ SessionTimeout
    <3>1. CASE \/ GetUpdates \/ SessionTimeout \/ Wake \/ Refuse \/ AnswerInline
               \/ RouteToActive \/ Record \/ AttachMedia \/ MediaFailed
      BY <2>1, <3>1
         DEF GetUpdates, SessionTimeout, Wake, Refuse, AnswerInline, RouteToActive, Record,
             AttachMedia, MediaFailed, LoopIdle
    <3>2. CASE SkipBot \/ RouteQuoted \/ RefuseQuoted \/ SendInline \/ Push \/ NoTarget
      BY <2>1, <3>2 DEF SkipBot, RouteQuoted, RefuseQuoted, SendInline, Push, NoTarget, Finish
    <3> QED
      BY <2>2, <3>1, <3>2 DEF Loop, Process
  <2>3. CASE AgentStep
    BY <2>1, <2>3 DEF AgentStep, Register, Poll, Answer, SendFirst
  <2>4. CASE Processor
    BY <2>1, <2>4
       DEF Processor, TakeReply, DropReply, SendKeep, SendForget, SendFails, SaveContext
  <2>5. CASE Post \/ Tick \/ PurgeContexts \/ CrashRestart
    BY <2>1, <2>5 DEF Post, Tick, PurgeContexts
  <2>6. CASE UNCHANGED vars
    BY <2>1, <2>6 DEF vars
  <2> QED
    BY <2>2, <2>3, <2>4, <2>5, <2>6 DEF Next
<1> QED
  BY <1>1, <1>2, <1>3, <1>4, <1>5, <1>6, <1>7, <1>8, <1>9, QueueSteps

\* A message is queued twice only if the loop took it twice, DedupTtl or more
\* apart, for any number of agents, messages and redeliveries.
THEOREM DuplicatesOnlyLate == Spec => []DuplicatesAreLate
<1>1. Init => DupInv
  BY DEF Init, DupInv, DuplicatesAreLate
<1>2. TypeInv /\ DupInv /\ [Next]_vars => DupInv'
  BY DupStep
<1>3. DupInv => DuplicatesAreLate
  BY DEF DupInv
<1> QED
  BY <1>1, <1>2, <1>3, TypeInvariant, PTL DEF Spec

----------------------------------------------------------------------------
(* The admission policies.                                                 *)

\* Who sent a queued message is known: it is one the platform delivered.
RefusedInv ==
    \A a \in Agents : \A k \in DOMAIN queue[a] :
        /\ queue[a][k].id \in 1..Len(inbox)
        /\ ~Refused(queue[a][k].id)

\* Queueing the message of an admitted sender keeps RefusedInv.
LEMMA RefusedEnqueue ==
    ASSUME TypeInv, RefusedInv, pc = "route", Allowed(shape), NEW a \in Agents, NEW ctx,
           queue' = Enqueue(a, ctx), UNCHANGED inbox
    PROVE  RefusedInv'
<1> DEFINE new == [id |-> next, at |-> seen[next], media |-> 0, ctx |-> ctx]
<1>1. next \in 1..Len(inbox)
  BY CurrentMessage DEF TypeInv, TypeOK, PositionOK
<1>2. new.id = next /\ ~Refused(next)
  BY DEF Allowed, Refused, shape, cur
<1>3. \A b \in Agents : \A k \in DOMAIN queue'[b] :
         (k \in DOMAIN queue[b] /\ queue'[b][k] = queue[b][k]) \/ queue'[b][k] = new
  BY EnqueueEntries
<1> QED
  BY <1>1, <1>2, <1>3 DEF RefusedInv, Refused

\* A step that adds no entry keeps RefusedInv.
LEMMA RefusedFrame ==
    ASSUME TypeInv, RefusedInv, [Next]_vars,
           \A a \in Agents : \A k \in DOMAIN queue'[a] :
              k \in DOMAIN queue[a] /\ queue'[a][k].id = queue[a][k].id
    PROVE  RefusedInv'
  BY InboxGrows DEF RefusedInv, Refused

LEMMA RefusedStep == TypeInv /\ RefusedInv /\ [Next]_vars => RefusedInv'
<1> SUFFICES ASSUME TypeInv, RefusedInv, [Next]_vars PROVE RefusedInv'
  OBVIOUS
<1>1. CASE RouteQuoted
  BY <1>1, RefusedEnqueue DEF RouteQuoted, Quoted, TypeInv, TypeOK, RouterOK, platformVars
<1>2. CASE RouteToActive
  BY <1>2, RefusedEnqueue DEF RouteToActive, TypeInv, TypeOK, RouterOK, platformVars
<1>3. CASE AttachMedia
  BY <1>3, LastMediaEntries, RefusedFrame DEF AttachMedia, TypeInv, StepOK
<1>4. CASE \E a \in Agents : queue' = Drained(a) /\ UNCHANGED <<platformVars, loopVars, clockVars>>
  <2>1. PICK a \in Agents : queue' = Drained(a)
    BY <1>4
  <2>2. \A b \in Agents : queue'[b] = <<>> \/ queue'[b] = queue[b]
    BY <2>1, DrainedEntries
  <2> QED
    BY <2>2, RefusedFrame
<1>5. CASE CrashRestart
  BY <1>5 DEF CrashRestart, RefusedInv
<1>6. CASE UNCHANGED queue
  BY <1>6, RefusedFrame
<1> QED
  BY <1>1, <1>2, <1>3, <1>4, <1>5, <1>6, QueueSteps

\* No message of a sender the admission policies refuse is ever queued, on
\* either of the two ways into a queue, for any policy and any set of senders.
THEOREM RefusedOut == Spec => []RefusedNeverQueued
<1>1. Init => RefusedInv
  BY DEF Init, RefusedInv
<1>2. TypeInv /\ RefusedInv /\ [Next]_vars => RefusedInv'
  BY RefusedStep
<1>3. RefusedInv => RefusedNeverQueued
  BY DEF RefusedInv, RefusedNeverQueued, Entries
<1> QED
  BY <1>1, <1>2, <1>3, TypeInvariant, PTL DEF Spec

----------------------------------------------------------------------------
(* Where answers go.                                                       *)

\* From the context recorded when a message is taken, over the reply being
\* sent, to what the platform accepted: each names the sender of the message.
AskerInv ==
    /\ \A i \in DOMAIN ctxs : i \in 1..Len(inbox) /\ ctxs[i].user = UserOf(i)
    /\ proc # Idle /\ proc.re # 0 => proc.re \in 1..Len(inbox) /\ proc.to = UserOf(proc.re)
    /\ \A k \in DOMAIN sent :
          sent[k].re # 0 => sent[k].re \in 1..Len(inbox) /\ sent[k].to = UserOf(sent[k].re)

\* A step that adds no context, no job and no message keeps AskerInv.
LEMMA AskerFrame ==
    ASSUME TypeInv, AskerInv, [Next]_vars, UNCHANGED sent,
           \A i \in DOMAIN ctxs' : i \in DOMAIN ctxs /\ ctxs'[i] = ctxs[i],
           \/ UNCHANGED proc
           \/ proc' = Idle
           \/ proc # Idle /\ proc'.re = proc.re /\ proc'.to = proc.to
    PROVE  AskerInv'
<1> DEFINE grows == \A i \in 1..Len(inbox) : i \in 1..Len(inbox') /\ inbox'[i] = inbox[i]
<1>1. grows
  BY InboxGrows
<1>2. \A i \in DOMAIN ctxs' : i \in 1..Len(inbox') /\ ctxs'[i].user = inbox'[i].shape.user
  BY <1>1 DEF AskerInv, UserOf
<1>3. proc' # Idle /\ proc'.re # 0
      => proc'.re \in 1..Len(inbox') /\ proc'.to = inbox'[proc'.re].shape.user
  BY <1>1, Zenon DEF AskerInv, UserOf
<1>4. \A k \in DOMAIN sent' : sent'[k].re # 0
         => sent'[k].re \in 1..Len(inbox') /\ sent'[k].to = inbox'[sent'[k].re].shape.user
  BY <1>1 DEF AskerInv, UserOf
<1> QED
  BY <1>2, <1>3, <1>4 DEF AskerInv, UserOf

\* The platform accepts a message of the reply being sent.
LEMMA AskerSend ==
    ASSUME TypeInv, AskerInv, proc # Idle, sent' = Accepted, UNCHANGED <<inbox, ctxs>>,
           \/ proc' = Idle
           \/ proc'.re = proc.re /\ proc'.to = proc.to
    PROVE  AskerInv'
<1>1. sent \in Seq(SentMsg)
  BY DEF TypeInv, TypeOK, PlatformOK
<1> DEFINE new == [re |-> proc.re, to |-> proc.to, by |-> proc.by]
<1>2. new.re = proc.re /\ new.to = proc.to /\ sent' = Append(sent, new)
  BY DEF Accepted
<1> HIDE DEF new
<1>3. \A k \in DOMAIN sent' : (k \in DOMAIN sent /\ sent'[k] = sent[k]) \/ sent'[k] = new
  BY <1>1, <1>2
<1>4. \A k \in DOMAIN sent' : sent'[k].re # 0
         => sent'[k].re \in 1..Len(inbox) /\ sent'[k].to = UserOf(sent'[k].re)
  BY <1>2, <1>3 DEF AskerInv
<1>5. proc' # Idle /\ proc'.re # 0
      => proc'.re \in 1..Len(inbox) /\ proc'.to = UserOf(proc'.re)
  BY Zenon DEF AskerInv
<1> QED
  BY <1>4, <1>5, Zenon DEF AskerInv, UserOf

LEMMA AskerStep == TypeInv /\ AskerInv /\ [Next]_vars => AskerInv'
<1> SUFFICES ASSUME TypeInv, AskerInv, [Next]_vars PROVE AskerInv'
  OBVIOUS
<1> USE DEF platformVars, replyVars
<1>1. CASE Record \/ RouteQuoted \/ RefuseQuoted
  <2>1. ctxs' = WithContext /\ UNCHANGED <<inbox, sent, proc>> /\ next \in 1..Len(inbox)
    BY <1>1, CurrentMessage DEF Record, RouteQuoted, RefuseQuoted, TypeInv, TypeOK, PositionOK
  <2>2. \A i \in DOMAIN WithContext :
           \/ i \in DOMAIN ctxs /\ WithContext[i] = ctxs[i]
           \/ i = next /\ WithContext[i] = [user |-> shape.user, at |-> now]
    BY Zenon DEF WithContext, Put
  <2>3. \A i \in DOMAIN WithContext : i \in 1..Len(inbox) /\ WithContext[i].user = UserOf(i)
    BY <2>1, <2>2 DEF AskerInv, UserOf, shape, cur
  <2> QED
    BY <2>1, <2>3, Zenon DEF AskerInv, UserOf
<1>2. CASE TakeReply
  <2> DEFINE r == Head(replies)
  <2>1. UNCHANGED <<inbox, sent, ctxs>> /\ r \in Reply
    BY <1>2 DEF TakeReply, TypeInv, TypeOK, ReplyOK
  <2>2. CASE r.re = 0 /\ proc' = JobFor(r, r.to)
    <3>1. proc'.re = 0
      BY <2>2 DEF JobFor
    <3> QED
      BY <2>1, <3>1 DEF AskerInv, UserOf
  <2>3. CASE r.re \in DOMAIN ctxs /\ proc' = JobFor(r, Asker(r))
    <3>1. proc'.re = r.re /\ proc'.to = ctxs[r.re].user
      BY <2>3 DEF JobFor, Asker
    <3> QED
      BY <2>1, <2>3, <3>1 DEF AskerInv, UserOf
  <2> QED
    BY <1>2, <2>2, <2>3 DEF TakeReply
<1>3. CASE SendKeep \/ SendForget \/ SendFails \/ SaveContext
  <2>1. proc # Idle /\ UNCHANGED <<inbox, ctxs>>
    BY <1>3 DEF SendKeep, SendForget, SendFails, SaveContext, Idle
  <2>2. proc \in Job
    BY <2>1 DEF TypeInv, TypeOK, ReplyOK
  <2>3. NextPart = Idle \/ (NextPart.re = proc.re /\ NextPart.to = proc.to)
    BY <2>2 DEF NextPart, Job
  <2>4. [proc EXCEPT !.st = "save"].re = proc.re /\ [proc EXCEPT !.st = "save"].to = proc.to
    BY <2>2 DEF Job
  <2>5. CASE SendKeep
    BY <2>1, <2>4, <2>5, AskerSend DEF SendKeep
  <2>6. CASE SendForget
    BY <2>1, <2>3, <2>6, AskerSend DEF SendForget
  <2>7. CASE SendFails \/ SaveContext
    BY <2>1, <2>3, <2>7, AskerFrame DEF SendFails, SaveContext
  <2> QED
    BY <1>3, <2>5, <2>6, <2>7
<1>4. CASE PurgeContexts
  <2>1. \A i \in DOMAIN ctxs' : i \in DOMAIN ctxs /\ ctxs'[i] = ctxs[i]
    BY <1>4, Zenon DEF PurgeContexts, Keep
  <2> QED
    BY <1>4, <2>1, AskerFrame DEF PurgeContexts
<1>5. CASE CrashRestart
  BY <1>5, AskerFrame DEF CrashRestart, Empty
<1>6. CASE UNCHANGED <<sent, ctxs, proc>>
  BY <1>6, AskerFrame
<1>7. \/ Record \/ RouteQuoted \/ RefuseQuoted \/ TakeReply \/ SendKeep \/ SendForget
      \/ SendFails \/ SaveContext \/ PurgeContexts \/ CrashRestart \/ UNCHANGED <<sent, ctxs, proc>>
  BY DEF Next, Loop, Process, Post, GetUpdates, SessionTimeout, Wake, SkipBot, SkipDuplicate,
         TakeMessage, Refuse, AnswerInline, RouteToActive,
         SendInline, AttachMedia, MediaFailed, Push, NoTarget,
         AgentStep, Register, Poll, Answer, SendFirst, Processor, DropReply, Tick, vars
<1> QED
  BY <1>1, <1>2, <1>3, <1>4, <1>5, <1>6, <1>7

\* An answer goes to the user who sent the message it answers, for any number
\* of users, agents and replies under way.
THEOREM AnswersReachAsker == Spec => []AnswersGoToAsker
<1>1. Init => AskerInv
  BY DEF Init, AskerInv, Empty
<1>2. TypeInv /\ AskerInv /\ [Next]_vars => AskerInv'
  BY AskerStep
<1>3. AskerInv => AnswersGoToAsker
  BY DEF AskerInv, AnswersGoToAsker
<1> QED
  BY <1>1, <1>2, <1>3, TypeInvariant, PTL DEF Spec

----------------------------------------------------------------------------
(* What the loop does while it holds a message.                            *)

\* The steps the loop does not take leave it, and what it holds, where it is.
LEMMA LoopWaits ==
    ASSUME [Next]_vars, ~Loop, ~SessionTimeout, ~CrashRestart
    PROVE  UNCHANGED loopVars
<1> USE DEF loopVars
<1>1. CASE AgentStep
  BY <1>1 DEF AgentStep, Register, Poll, Answer, SendFirst
<1>2. CASE Processor
  BY <1>2
     DEF Processor, TakeReply, DropReply, SendKeep, SendForget, SendFails, SaveContext
<1>3. CASE Post \/ Tick \/ PurgeContexts
  BY <1>3 DEF Post, Tick, PurgeContexts
<1>4. CASE UNCHANGED vars
  BY <1>4 DEF vars
<1> QED
  BY <1>1, <1>2, <1>3, <1>4 DEF Next

\* A message is on its way to the recording of its context only by Refuse or
\* RouteToActive, and stays there until it is recorded.
LEMMA RecordSteps ==
    ASSUME [Next]_vars, pc' \in {"record", "media"}
    PROVE  \/ Refuse
           \/ RouteToActive
           \/ pc \in {"record", "media"} /\ UNCHANGED <<next, target, seen>>
<1>1. CASE Loop \/ SessionTimeout
  BY <1>1
     DEF Loop, Process, GetUpdates, SessionTimeout, Wake, SkipBot, SkipDuplicate, TakeMessage,
         RouteQuoted, RefuseQuoted, AnswerInline, SendInline, Record,
         AttachMedia, MediaFailed, Push, NoTarget, Finish, LoopIdle
<1>2. CASE CrashRestart
  BY <1>2 DEF CrashRestart
<1> QED
  BY <1>1, <1>2, LoopWaits DEF loopVars

----------------------------------------------------------------------------
(* Whose files an entry has.                                               *)

\* While an admitted message waits for its files, it is the last one in the
\* queue it was given to, if that has not been drained since: only the loop
\* appends, and an agent takes all or nothing.
LastIsCurrent ==
    pc \in {"record", "media"} /\ target \in Agents /\ ~Refused(next)
    => queue[target] = <<>> \/ queue[target][Len(queue[target])].id = next

OwnOrRefused(e) ==
    \/ e.media \in {0, e.id}
    \/ e.media \in 1..Len(inbox) /\ Refused(e.media)

MediaInv ==
    /\ \A a \in Agents : \A k \in DOMAIN queue[a] : OwnOrRefused(queue[a][k])
    /\ LastIsCurrent

\* Who sent a message does not change.
LEMMA OwnGrows ==
    ASSUME TypeInv, [Next]_vars, NEW e, OwnOrRefused(e)
    PROVE  OwnOrRefused(e)'
  BY InboxGrows DEF OwnOrRefused, Refused

\* The message in the loop's hands, and who sent it.
LEMMA CurrentStays ==
    ASSUME TypeInv, [Next]_vars, pc \in {"record", "media"}, next' = next
    PROVE  (Refused(next)' <=> Refused(next)) /\ next \in 1..Len(inbox)
<1>1. next \in 1..Len(inbox)
  BY CurrentMessage DEF TypeInv, TypeOK, PositionOK
<1> QED
  BY <1>1, InboxGrows DEF Refused

\* A queue that is unchanged, or drained, has its last message still.
LEMMA LastStays ==
    ASSUME TypeInv, MediaInv, [Next]_vars, pc \in {"record", "media"}, UNCHANGED <<next, target>>,
           \A a \in Agents : queue'[a] = queue[a] \/ queue'[a] = <<>>
    PROVE  LastIsCurrent'
<1>1. Refused(next)' <=> Refused(next)
  BY CurrentStays
<1>2. CASE target \in Agents /\ ~Refused(next)
  <2>1. queue[target] = <<>> \/ queue[target][Len(queue[target])].id = next
    BY <1>2 DEF MediaInv, LastIsCurrent
  <2> QED
    BY <1>2, <2>1 DEF LastIsCurrent
<1> QED
  BY <1>1, <1>2 DEF LastIsCurrent

LEMMA MediaStep == TypeInv /\ MediaInv /\ [Next]_vars => MediaInv'
<1> SUFFICES ASSUME TypeInv, MediaInv, [Next]_vars PROVE MediaInv'
  OBVIOUS
<1>1. ASSUME NEW a \in Agents, NEW ctx, queue' = Enqueue(a, ctx)
      PROVE  \A b \in Agents : \A k \in DOMAIN queue'[b] : OwnOrRefused(queue[b][k])'
  <2> SUFFICES ASSUME NEW b \in Agents, NEW k \in DOMAIN queue'[b]
               PROVE  OwnOrRefused(queue[b][k])'
    OBVIOUS
  <2>1. CASE k \in DOMAIN queue[b] /\ queue'[b][k] = queue[b][k]
    BY <2>1, InboxGrows DEF MediaInv, OwnOrRefused, Refused
  <2>2. CASE queue'[b][k] = [id |-> next, at |-> seen[next], media |-> 0, ctx |-> ctx]
    BY <2>2 DEF OwnOrRefused
  <2> QED
    BY <1>1, <2>1, <2>2, EnqueueEntries
<1>2. ASSUME \A a \in Agents : queue'[a] = queue[a] \/ queue'[a] = <<>>
      PROVE  \A b \in Agents : \A k \in DOMAIN queue'[b] : OwnOrRefused(queue[b][k])'
  BY <1>2, InboxGrows DEF MediaInv, OwnOrRefused, Refused
<1>3. CASE RouteQuoted
  BY <1>1, <1>3 DEF RouteQuoted, Finish, Quoted, TypeInv, TypeOK, RouterOK, MediaInv, LastIsCurrent
<1>4. CASE RouteToActive
  <2> DEFINE new == [id |-> next, at |-> seen[next], media |-> 0, ctx |-> NoAgent]
  <2>1. active \in Agents /\ queue' = Enqueue(active, NoAgent) /\ target' = active /\ next' = next
    BY <1>4 DEF RouteToActive, TypeInv, TypeOK, RouterOK
  <2>2. queue \in [Agents -> Seq(Entry)]
    BY DEF TypeInv, TypeOK, RouterOK
  <2>3. new.id = next
    OBVIOUS
  <2> HIDE DEF new
  <2>4. queue'[active] = Append(queue[active], new)
    BY <2>1, <2>2, Zenon DEF Enqueue, new
  <2>5. queue'[active][Len(queue'[active])] = new
    BY <2>1, <2>2, <2>4
  <2> QED
    BY <1>1, <2>1, <2>3, <2>5 DEF MediaInv, LastIsCurrent
<1>5. CASE AttachMedia
  <2>1. queue' = LastMedia(target, next) /\ target \in Agents /\ pc = "media" /\ pc' = "push"
        /\ next' = next
    BY <1>5 DEF AttachMedia, TypeInv, StepOK
  <2>2. next \in 1..Len(inbox) /\ LastIsCurrent
    BY <2>1, CurrentStays DEF MediaInv
  <2>3. ASSUME NEW b \in Agents, NEW k \in DOMAIN queue'[b]
        PROVE  OwnOrRefused(queue'[b][k])
    <3>1. /\ k \in DOMAIN queue[b] /\ queue'[b][k].id = queue[b][k].id
          /\ queue'[b][k].media = queue[b][k].media
             \/ (b = target /\ k = Len(queue[target]) /\ queue'[b][k].media = next)
      BY <2>1, <2>3, LastMediaEntries
    <3>2. CASE queue'[b][k].media = queue[b][k].media
      BY <3>1, <3>2 DEF MediaInv, OwnOrRefused
    <3>3. CASE b = target /\ k = Len(queue[target]) /\ queue'[b][k].media = next
      <4>1. queue[target] # <<>>
        BY <3>1, <3>3
      <4>2. Refused(next) \/ queue[b][k].id = next
        BY <2>1, <2>2, <3>3, <4>1 DEF LastIsCurrent
      <4> QED
        BY <2>2, <3>1, <3>3, <4>2 DEF OwnOrRefused
    <3> QED
      BY <3>1, <3>2, <3>3
  <2> QED
    BY <2>1, <2>3, InboxGrows DEF MediaInv, LastIsCurrent, OwnOrRefused, Refused
<1>6. CASE \A a \in Agents : queue'[a] = queue[a] \/ queue'[a] = <<>>
  <2>1. CASE pc' \notin {"record", "media"}
    BY <1>2, <1>6, <2>1 DEF MediaInv, LastIsCurrent
  <2>2. CASE Refuse
    <3>1. Refused(next)'
      BY <2>2 DEF Refuse, Allowed, Refused, shape, cur, platformVars
    <3> QED
      BY <1>2, <1>6, <3>1 DEF MediaInv, LastIsCurrent
  <2>3. CASE pc \in {"record", "media"} /\ UNCHANGED <<next, target>>
    BY <1>2, <1>6, <2>3, LastStays DEF MediaInv
  <2> QED
    BY <1>4, <2>1, <2>2, <2>3, RecordSteps
<1>7. CASE CrashRestart
  BY <1>6, <1>7 DEF CrashRestart
<1>8. CASE \E a \in Agents : queue' = Drained(a) /\ UNCHANGED <<platformVars, loopVars, clockVars>>
  BY <1>6, <1>8, DrainedEntries
<1>9. CASE UNCHANGED queue
  BY <1>6, <1>9
<1> QED
  BY <1>3, <1>4, <1>5, <1>7, <1>8, <1>9, QueueSteps

\* The files of an admitted sender go with the message they came with, although
\* update_last_media does not name it (main.rs, after the download): for any
\* number of agents that poll, and messages that arrive, meanwhile.
THEOREM MediaStaysOwn == Spec => []MediaIsOwn
<1>1. Init => MediaInv
  BY DEF Init, MediaInv, LastIsCurrent
<1>2. TypeInv /\ MediaInv /\ [Next]_vars => MediaInv'
  BY MediaStep
<1>3. MediaInv => MediaIsOwn
  BY DEF MediaInv, MediaIsOwn, Entries, OwnOrRefused
<1> QED
  BY <1>1, <1>2, <1>3, TypeInvariant, PTL DEF Spec

----------------------------------------------------------------------------
(* Whom a quoting message reaches.                                         *)

\* What the platform accepted stays, at its place.
LEMMA SentGrows ==
    ASSUME TypeInv, [Next]_vars
    PROVE  \A k \in 1..Len(sent) : k \in 1..Len(sent') /\ sent'[k] = sent[k]
<1>1. sent \in Seq(SentMsg)
  BY DEF TypeInv, TypeOK, PlatformOK
<1>2. CASE SendKeep \/ SendForget
  <2>1. sent' = Append(sent, [re |-> proc.re, to |-> proc.to, by |-> proc.by])
    BY <1>2 DEF SendKeep, SendForget, Accepted
  <2> QED
    BY <1>1, <2>1
<1>3. CASE UNCHANGED sent
  BY <1>1, <1>3
<1>4. SendKeep \/ SendForget \/ UNCHANGED sent
  BY DEF Next, Loop, Process, GetUpdates, SessionTimeout, Wake, SkipBot, SkipDuplicate,
         TakeMessage, RouteQuoted, RefuseQuoted, Refuse, AnswerInline, RouteToActive,
         SendInline, Record, AttachMedia, MediaFailed, Push, NoTarget,
         AgentStep, Register, Poll, Answer, SendFirst, Processor, TakeReply, DropReply,
         SendFails, SaveContext, Post, Tick, PurgeContexts, CrashRestart, vars, platformVars
<1> QED
  BY <1>2, <1>3, <1>4

\* The message k was written by the agent a.
WrittenBy(k, a) == k \in 1..Len(sent) /\ sent[k].by = a

\* The quote of r, in message i taken at t, is with its author a, or excused.
Traced(i, t, r, a) == r # 0 => WrittenBy(r, a) \/ <<i, t>> \in excused

\* From a message the platform accepted, over the row that is saved for it, to
\* the loop that reads the row and the entry it makes: each names the author.
StoredIsAuthor == \A k \in DOMAIN stored : WrittenBy(k, stored[k])
SaveIsAuthor   == proc.st = "save" => WrittenBy(Len(sent), proc.by)
ReadIsAuthor   ==
    pc = "route" =>
        /\ refAgent # NoAgent => WrittenBy(cur.ref, refAgent)
        /\ Traced(next, seen[next], cur.ref, refAgent)
EntryIsAuthor(a, e) ==
    /\ e.id \in 1..Len(inbox)
    /\ e.ctx # NoAgent => e.ctx = a /\ WrittenBy(inbox[e.id].ref, a)
    /\ Traced(e.id, e.at, inbox[e.id].ref, a)

\* The rows are the latest of those written, StoreCap - 1 of them or all, and
\* the row about to be written is later still.
RowsLatest ==
    /\ DOMAIN stored \subseteq saved /\ saved \subseteq 1..Len(sent)
    /\ \A r \in DOMAIN stored : \A s \in saved : s > r => s \in DOMAIN stored
    /\ saved \subseteq DOMAIN stored \/ Cardinality(DOMAIN stored) >= StoreCap - 1
RowIsNew == proc.st = "save" => Len(sent) \notin saved

QuoteInv ==
    /\ StoredIsAuthor /\ SaveIsAuthor /\ ReadIsAuthor
    /\ RowsLatest /\ RowIsNew
    /\ \A a \in Agents : \A k \in DOMAIN queue[a] : EntryIsAuthor(a, queue[a][k])

LEMMA WrittenStays ==
    ASSUME TypeInv, [Next]_vars, NEW k, NEW a, WrittenBy(k, a)
    PROVE  WrittenBy(k, a)'
  BY SentGrows DEF WrittenBy

\* What is noted of the messages is kept until a crash.
LEMMA ExcusedGrows ==
    ASSUME [Next]_vars, ~CrashRestart
    PROVE  excused \subseteq excused'
<1> USE DEF history
<1>1. CASE Loop \/ SessionTimeout
  BY <1>1
     DEF Loop, Process, GetUpdates, SessionTimeout, Wake, SkipBot, SkipDuplicate, TakeMessage,
         RouteQuoted, RefuseQuoted, Refuse, AnswerInline, RouteToActive, SendInline, Record,
         AttachMedia, MediaFailed, Push, NoTarget, Finish, Excuse
<1>2. CASE AgentStep \/ Processor
  BY <1>2
     DEF AgentStep, Register, Poll, Answer, SendFirst, Processor, TakeReply, DropReply,
         SendKeep, SendForget, SendFails, SaveContext
<1>3. CASE Post \/ Tick \/ PurgeContexts
  BY <1>3 DEF Post, Tick, PurgeContexts
<1>4. CASE UNCHANGED vars
  BY <1>4 DEF vars
<1> QED
  BY <1>1, <1>2, <1>3, <1>4 DEF Next

LEMMA TracedStays ==
    ASSUME TypeInv, [Next]_vars, ~CrashRestart, NEW i, NEW t, NEW k, NEW a, Traced(i, t, k, a)
    PROVE  Traced(i, t, k, a)'
  BY WrittenStays, ExcusedGrows DEF Traced

\* The rows of msg_agent_context, one step.
LEMMA StoredAuthorStep == TypeInv /\ QuoteInv /\ [Next]_vars => StoredIsAuthor'
<1> SUFFICES ASSUME TypeInv, QuoteInv, [Next]_vars PROVE StoredIsAuthor'
  OBVIOUS
<1>1. CASE SaveContext
  <2> DEFINE p == Put(stored, Len(sent), proc.by)
  <2>1. stored' = Trim(p) /\ WrittenBy(Len(sent), proc.by)
    BY <1>1 DEF SaveContext, QuoteInv, SaveIsAuthor
  <2>2. \A k \in DOMAIN p : WrittenBy(k, p[k])
    BY <2>1, Zenon DEF QuoteInv, StoredIsAuthor, Put
  <2> HIDE DEF p
  <2>3. \A k \in DOMAIN Trim(p) : k \in DOMAIN p /\ Trim(p)[k] = p[k]
    BY Zenon DEF Trim, Keep
  <2> QED
    BY <2>1, <2>2, <2>3, WrittenStays DEF StoredIsAuthor
<1>2. CASE UNCHANGED stored
  BY <1>2, WrittenStays DEF QuoteInv, StoredIsAuthor
<1>3. SaveContext \/ UNCHANGED stored
  BY DEF Next, Loop, Process, GetUpdates, SessionTimeout, Wake, SkipBot, SkipDuplicate,
         TakeMessage, RouteQuoted, RefuseQuoted, Refuse, AnswerInline, RouteToActive,
         SendInline, Record, AttachMedia, MediaFailed, Push, NoTarget,
         AgentStep, Register, Poll, Answer, SendFirst, Processor, TakeReply, DropReply,
         SendKeep, SendForget, SendFails, Post, Tick, PurgeContexts, CrashRestart,
         vars, storeVars
<1> QED
  BY <1>1, <1>2, <1>3

\* Without what has nothing before it, a set is one smaller at most.
LEMMA DropOne ==
    ASSUME NEW S \in SUBSET Nat, IsFiniteSet(S)
    PROVE  Cardinality({k \in S : \E j \in S : j < k}) >= Cardinality(S) - 1
<1> DEFINE K == {k \in S : \E j \in S : j < k}
<1> SUFFICES Cardinality(K) >= Cardinality(S) - 1
  OBVIOUS
<1>1. IsFiniteSet(K) /\ K \subseteq S
  BY FS_Subset
<1>2. Cardinality(S) \in Nat /\ Cardinality(K) \in Nat
  BY <1>1, FS_CardinalityType
<1> HIDE DEF K
<1>3. CASE K = S
  BY <1>2, <1>3
<1>4. CASE K # S
  <2>1. PICK m \in S : m \notin K
    BY <1>1, <1>4
  <2>2. S \ {m} \subseteq K
    BY <2>1 DEF K
  <2>3. Cardinality(S \ {m}) = Cardinality(S) - 1
    BY <2>1, FS_RemoveElement
  <2>4. Cardinality(S \ {m}) <= Cardinality(K)
    BY <1>1, <2>2, FS_Subset
  <2> QED
    BY <1>2, <2>3, <2>4
<1> QED
  BY <1>3, <1>4

\* The rows are finitely many.
LEMMA RowsFinite ==
    ASSUME TypeInv, RowsLatest
    PROVE  /\ IsFiniteSet(saved) /\ IsFiniteSet(DOMAIN stored)
           /\ saved \subseteq Nat /\ DOMAIN stored \subseteq Nat
           /\ Cardinality(DOMAIN stored) \in Nat
<1>1. IsFiniteSet(1..Len(sent))
  BY FS_Interval DEF TypeInv, TypeOK, PlatformOK
<1>2. saved \subseteq 1..Len(sent) /\ DOMAIN stored \subseteq saved
  BY DEF RowsLatest
<1>3. IsFiniteSet(saved)
  BY <1>1, <1>2, FS_Subset
<1>4. IsFiniteSet(DOMAIN stored)
  BY <1>2, <1>3, FS_Subset
<1> QED
  BY <1>2, <1>3, <1>4, FS_CardinalityType

\* Whatever is recent has its row.
LEMMA RecentStored ==
    ASSUME TypeInv, RowsLatest, NEW r, Recent(r)
    PROVE  r \in DOMAIN stored
<1> SUFFICES ASSUME r \notin DOMAIN stored PROVE FALSE
  OBVIOUS
<1> DEFINE later == {s \in saved : s > r}
<1>1. r \in saved /\ Cardinality(later) < StoreCap - 1
  BY DEF Recent
<1>2. Cardinality(DOMAIN stored) >= StoreCap - 1
  BY <1>1 DEF RowsLatest
<1>3. DOMAIN stored \subseteq later
  BY <1>1, RowsFinite DEF RowsLatest
<1>4. IsFiniteSet(later)
  BY RowsFinite, FS_Subset
<1>5. Cardinality(DOMAIN stored) <= Cardinality(later) /\ Cardinality(later) \in Nat
  BY <1>3, <1>4, FS_Subset, FS_CardinalityType
<1> QED
  BY <1>1, <1>2, <1>5, RowsFinite, GatewayAssumption

\* A row is written: it is the latest, and at most the oldest goes.
LEMMA RowWritten ==
    ASSUME TypeInv, QuoteInv, SaveContext
    PROVE  RowsLatest'
<1> DEFINE n == Len(sent)
           p == Put(stored, n, proc.by)
<1>1. /\ stored' = Trim(p) /\ saved' = saved \cup {n} /\ sent' = sent
      /\ n \in 1..n /\ n \notin saved
  BY DEF SaveContext, QuoteInv, SaveIsAuthor, WrittenBy, RowIsNew, platformVars
<1>2. RowsLatest /\ IsFiniteSet(DOMAIN stored) /\ StoreCap \in Nat \ {0}
      /\ Cardinality(DOMAIN stored) \in Nat
  BY RowsFinite, GatewayAssumption DEF QuoteInv
<1> DEFINE P == DOMAIN stored \cup {n}
<1>3. DOMAIN p = P
  BY Zenon DEF Put
<1> HIDE DEF p
<1>4. Cardinality(P) = Cardinality(DOMAIN stored) + 1 /\ IsFiniteSet(P)
  BY <1>1, <1>2, FS_AddElement DEF RowsLatest
<1>5. P \subseteq saved' /\ saved' \subseteq 1..Len(sent')
  BY <1>1, <1>2 DEF RowsLatest
<1>6. \A r \in P : \A s \in saved' : s > r => s \in P
  BY <1>1, <1>2 DEF RowsLatest
<1>7. saved' \subseteq P \/ Cardinality(P) >= StoreCap
  <2>1. CASE saved \subseteq DOMAIN stored
    BY <1>1, <2>1
  <2>2. CASE Cardinality(DOMAIN stored) >= StoreCap - 1
    BY <1>2, <1>4, <2>2
  <2> QED
    BY <1>2, <2>1, <2>2 DEF RowsLatest
<1>8. CASE Cardinality(P) >= StoreCap
  <2> DEFINE K == {k \in P : \E j \in P : j < k}
  <2>1. DOMAIN stored' = K
    BY <1>1, <1>3, <1>8, Zenon DEF Trim, Keep
  <2>2. P \subseteq Nat
    BY <1>1, <1>5
  <2>3. Cardinality(K) >= Cardinality(P) - 1 /\ Cardinality(K) \in Nat
    BY <1>4, <2>2, DropOne, FS_Subset, FS_CardinalityType, K \subseteq P
  <2>4. \A r \in K : \A s \in saved' : s > r => s \in K
    BY <1>1, <1>5, <1>6, <2>2
  <2>5. Cardinality(K) >= StoreCap - 1
    BY <1>2, <1>4, <1>8, <2>3
  <2>6. K \subseteq saved'
    BY <1>5
  <2> HIDE DEF K
  <2> QED
    BY <1>5, <2>1, <2>4, <2>5, <2>6 DEF RowsLatest
<1>9. CASE ~(Cardinality(P) >= StoreCap)
  <2>1. DOMAIN stored' = P
    BY <1>1, <1>3, <1>9, Zenon DEF Trim
  <2> QED
    BY <1>5, <1>6, <1>7, <1>9, <2>1 DEF RowsLatest
<1> QED
  BY <1>8, <1>9

LEMMA RowsStep == TypeInv /\ QuoteInv /\ [Next]_vars => RowsLatest' /\ RowIsNew'
<1> SUFFICES ASSUME TypeInv, QuoteInv, [Next]_vars PROVE RowsLatest' /\ RowIsNew'
  OBVIOUS
<1>1. sent \in Seq(SentMsg) /\ saved \subseteq 1..Len(sent)
  BY DEF TypeInv, TypeOK, PlatformOK, QuoteInv, RowsLatest
<1>2. CASE SaveContext
  <2>1. proc \in Job /\ proc' = NextPart
    BY <1>2 DEF SaveContext, TypeInv, TypeOK, ReplyOK, Idle
  <2>2. proc'.st # "save"
    BY <2>1 DEF NextPart, Job, Idle
  <2> QED
    BY <1>2, <2>2, RowWritten DEF RowIsNew
<1>3. CASE SendKeep \/ SendForget
  <2>1. Len(sent') = Len(sent) + 1 /\ UNCHANGED <<stored, saved>>
    BY <1>1, <1>3 DEF SendKeep, SendForget, Accepted, storeVars, history
  <2>2. Len(sent') \notin saved' /\ saved' \subseteq 1..Len(sent')
    BY <1>1, <2>1
  <2> QED
    BY <2>1, <2>2 DEF QuoteInv, RowsLatest, RowIsNew
<1>4. CASE UNCHANGED <<stored, saved, sent>> /\ (UNCHANGED proc \/ proc'.st # "save")
  BY <1>4 DEF QuoteInv, RowsLatest, RowIsNew
<1>5. \/ SaveContext \/ SendKeep \/ SendForget
      \/ UNCHANGED <<stored, saved, sent>> /\ (UNCHANGED proc \/ proc'.st # "save")
  <2> USE DEF platformVars, storeVars, history, replyVars
  <2>1. CASE Loop \/ SessionTimeout
    BY <2>1
       DEF Loop, Process, GetUpdates, SessionTimeout, Wake, SkipBot, SkipDuplicate, TakeMessage,
           RouteQuoted, RefuseQuoted, Refuse, AnswerInline, RouteToActive, SendInline, Record,
           AttachMedia, MediaFailed, Push, NoTarget, Finish
  <2>2. CASE AgentStep
    BY <2>2 DEF AgentStep, Register, Poll, Answer, SendFirst
  <2>3. CASE TakeReply \/ DropReply
    BY <2>3 DEF TakeReply, DropReply, JobFor
  <2>4. CASE SendFails
    <3>1. proc \in Job /\ proc' = NextPart
      BY <2>4 DEF SendFails, TypeInv, TypeOK, ReplyOK, Idle
    <3>2. proc'.st # "save"
      BY <3>1 DEF NextPart, Job, Idle
    <3> QED
      BY <2>4, <3>2 DEF SendFails
  <2>5. CASE Post \/ Tick \/ PurgeContexts \/ CrashRestart
    BY <2>5 DEF Post, Tick, PurgeContexts, CrashRestart, Idle
  <2>6. CASE UNCHANGED vars
    BY <2>6 DEF vars
  <2> QED
    BY <2>1, <2>2, <2>3, <2>4, <2>5, <2>6 DEF Next, Processor
<1> QED
  BY <1>2, <1>3, <1>4, <1>5

\* The reply processor between a send and the saving of its row.
LEMMA SaveAuthorStep == TypeInv /\ QuoteInv /\ [Next]_vars => SaveIsAuthor'
<1> SUFFICES ASSUME TypeInv, QuoteInv, [Next]_vars PROVE SaveIsAuthor'
  OBVIOUS
<1>1. CASE SendKeep
  <2> DEFINE new == [re |-> proc.re, to |-> proc.to, by |-> proc.by]
  <2>1. proc \in Job
    BY <1>1 DEF SendKeep, TypeInv, TypeOK, ReplyOK, Idle
  <2>2. proc'.by = proc.by /\ new.by = proc.by
    BY <1>1, <2>1 DEF SendKeep, Job
  <2>3. sent' = Append(sent, new) /\ sent \in Seq(SentMsg)
    BY <1>1 DEF SendKeep, Accepted, TypeInv, TypeOK, PlatformOK
  <2> HIDE DEF new
  <2>4. Len(sent') \in 1..Len(sent') /\ sent'[Len(sent')] = new
    BY <2>3
  <2> QED
    BY <2>2, <2>4 DEF SaveIsAuthor, WrittenBy
<1>2. CASE SendForget \/ SendFails \/ SaveContext
  <2>1. proc \in Job /\ proc' = NextPart
    BY <1>2 DEF SendForget, SendFails, SaveContext, TypeInv, TypeOK, ReplyOK, Idle
  <2>2. NextPart.st # "save"
    BY <2>1 DEF NextPart, Job, Idle
  <2> QED
    BY <2>1, <2>2 DEF SaveIsAuthor
<1>3. CASE TakeReply
  BY <1>3 DEF TakeReply, JobFor, SaveIsAuthor
<1>4. CASE CrashRestart
  BY <1>4 DEF CrashRestart, Idle, SaveIsAuthor
<1>5. CASE UNCHANGED <<proc, sent>>
  BY <1>5 DEF QuoteInv, SaveIsAuthor, WrittenBy
<1>6. \/ SendKeep \/ SendForget \/ SendFails \/ SaveContext \/ TakeReply \/ CrashRestart
      \/ UNCHANGED <<proc, sent>>
  BY DEF Next, Loop, Process, GetUpdates, SessionTimeout, Wake, SkipBot, SkipDuplicate,
         TakeMessage, RouteQuoted, RefuseQuoted, Refuse, AnswerInline, RouteToActive,
         SendInline, Record, AttachMedia, MediaFailed, Push, NoTarget,
         AgentStep, Register, Poll, Answer, SendFirst, Processor, DropReply,
         Post, Tick, PurgeContexts, vars, platformVars, replyVars
<1> QED
  BY <1>1, <1>2, <1>3, <1>4, <1>5, <1>6

\* The loop between the read of a row and the routing by it.
LEMMA ReadAuthorStep == TypeInv /\ QuoteInv /\ [Next]_vars => ReadIsAuthor'
<1> SUFFICES ASSUME TypeInv, QuoteInv, [Next]_vars, pc' = "route"
             PROVE  /\ refAgent' # NoAgent => WrittenBy(cur.ref, refAgent)'
                    /\ Traced(next, seen[next], cur.ref, refAgent)'
  BY DEF ReadIsAuthor
<1>1. CASE TakeMessage
  <2>1. /\ refAgent' = IF cur.ref \in DOMAIN stored THEN stored[cur.ref] ELSE NoAgent
        /\ excused' = Excuse(cur.ref # 0 /\ ~Recent(cur.ref), now)
        /\ seen' = Put(Keep(seen, Fresh), next, now)
        /\ UNCHANGED <<inbox, next, sent>>
    BY <1>1 DEF TakeMessage, platformVars
  <2>2. seen'[next] = now
    BY <2>1, Zenon DEF Put
  <2>3. \A k \in DOMAIN stored : WrittenBy(k, stored[k])
    BY DEF QuoteInv, StoredIsAuthor
  <2>4. refAgent' # NoAgent => WrittenBy(cur.ref, refAgent')
    BY <2>1, <2>3
  <2>5. CASE cur.ref # 0 /\ Recent(cur.ref)
    <3>1. cur.ref \in DOMAIN stored
      BY <2>5, RecentStored DEF QuoteInv
    <3>2. WrittenBy(cur.ref, refAgent')
      BY <2>1, <2>3, <3>1
    <3> QED
      BY <2>1, <2>4, <3>2 DEF Traced, WrittenBy, cur
  <2>6. CASE cur.ref # 0 /\ ~Recent(cur.ref)
    <3>1. <<next, now>> \in excused'
      BY <2>1, <2>6 DEF Excuse
    <3> QED
      BY <2>1, <2>2, <2>4, <3>1 DEF Traced, WrittenBy, cur
  <2>7. CASE cur.ref = 0
    BY <2>1, <2>4, <2>7 DEF Traced, WrittenBy, cur
  <2> QED
    BY <2>5, <2>6, <2>7
<1>2. CASE pc = "route" /\ ~CrashRestart /\ UNCHANGED <<refAgent, next, seen>>
  <2>1. next \in 1..Len(inbox)
    BY <1>2, CurrentMessage DEF TypeInv, TypeOK, PositionOK
  <2>2. cur' = cur
    BY <1>2, <2>1, InboxGrows DEF cur
  <2>3. /\ refAgent # NoAgent => WrittenBy(cur.ref, refAgent)
        /\ Traced(next, seen[next], cur.ref, refAgent)
    BY <1>2 DEF QuoteInv, ReadIsAuthor
  <2>4. refAgent # NoAgent => WrittenBy(cur.ref, refAgent)'
    BY <1>2, <2>2, <2>3, SentGrows DEF WrittenBy
  <2>5. Traced(next, seen[next], cur.ref, refAgent)'
    BY <1>2, <2>2, <2>3, SentGrows, ExcusedGrows DEF Traced, WrittenBy
  <2> QED
    BY <1>2, <2>4, <2>5
<1>3. TakeMessage \/ (pc = "route" /\ ~CrashRestart /\ UNCHANGED <<refAgent, next, seen>>)
  <2>1. CASE Loop \/ SessionTimeout
    <3>1. CASE TakeMessage
      BY <3>1
    <3>2. CASE ~TakeMessage
      BY <2>1, <3>2
         DEF Loop, Process, GetUpdates, SessionTimeout, Wake, SkipBot, SkipDuplicate,
             RouteQuoted, RefuseQuoted, Refuse, AnswerInline, RouteToActive, SendInline,
             Record, AttachMedia, MediaFailed, Push, NoTarget, Finish, LoopIdle
    <3> QED
      BY <3>1, <3>2
  <2>2. CASE CrashRestart
    BY <2>2 DEF CrashRestart
  <2> QED
    BY <2>1, <2>2, LoopWaits DEF loopVars
<1> QED
  BY <1>1, <1>2, <1>3

\* The entries of the queues.
LEMMA EntryAuthorStep ==
    TypeInv /\ QuoteInv /\ [Next]_vars
    => \A a \in Agents : \A k \in DOMAIN queue'[a] : EntryIsAuthor(a, queue[a][k])'
<1> SUFFICES ASSUME TypeInv, QuoteInv, [Next]_vars, NEW a \in Agents, NEW k \in DOMAIN queue'[a]
             PROVE  EntryIsAuthor(a, queue[a][k])'
  OBVIOUS
<1> DEFINE e == queue'[a][k]
<1>1. CASE /\ k \in DOMAIN queue[a] /\ ~CrashRestart
           /\ e.ctx = queue[a][k].ctx /\ e.id = queue[a][k].id /\ e.at = queue[a][k].at
  <2> DEFINE d == queue[a][k]
  <2>1. EntryIsAuthor(a, d)
    BY <1>1 DEF QuoteInv
  <2>2. d.id \in 1..Len(inbox') /\ inbox'[d.id] = inbox[d.id]
    BY <2>1, InboxGrows DEF EntryIsAuthor
  <2>3. \A r : WrittenBy(r, a) => WrittenBy(r, a)'
    BY SentGrows DEF WrittenBy
  <2>4. excused \subseteq excused'
    BY <1>1, ExcusedGrows
  <2> QED
    BY <1>1, <2>1, <2>2, <2>3, <2>4 DEF EntryIsAuthor, Traced
<1>2. CASE RouteQuoted
  <2>1. /\ queue' = Enqueue(refAgent, refAgent) /\ refAgent \in Agents /\ refAgent # NoAgent
        /\ pc = "route" /\ UNCHANGED <<inbox, sent, excused>> /\ ~CrashRestart
    BY <1>2, GatewayAssumption
       DEF RouteQuoted, Finish, Quoted, CrashRestart, TypeInv, TypeOK, RouterOK, platformVars
  <2>2. next \in 1..Len(inbox) /\ WrittenBy(inbox[next].ref, refAgent)
    BY <2>1, CurrentMessage DEF TypeInv, TypeOK, PositionOK, QuoteInv, ReadIsAuthor, cur
  <2>3. \/ k \in DOMAIN queue[a] /\ e = queue[a][k]
        \/ a = refAgent /\ e = [id |-> next, at |-> seen[next], media |-> 0, ctx |-> refAgent]
    BY <2>1, EnqueueEntries
  <2>4. CASE a = refAgent /\ e = [id |-> next, at |-> seen[next], media |-> 0, ctx |-> refAgent]
    <3>1. e.id = next /\ e.ctx = refAgent
      BY <2>4
    <3> QED
      BY <2>1, <2>2, <2>4, <3>1 DEF EntryIsAuthor, Traced, WrittenBy
  <2> QED
    BY <1>1, <2>1, <2>3, <2>4
<1>3. CASE RouteToActive
  <2>1. /\ active \in Agents /\ queue' = Enqueue(active, NoAgent) /\ pc = "route"
        /\ refAgent \notin registered /\ UNCHANGED <<inbox, sent>> /\ ~CrashRestart
        /\ excused' = Excuse(cur.ref # 0 /\ sent[cur.ref].by \notin registered, seen[next])
    BY <1>3 DEF RouteToActive, Quoted, CrashRestart, TypeInv, TypeOK, RouterOK, platformVars
  <2>2. next \in 1..Len(inbox) /\ Traced(next, seen[next], inbox[next].ref, refAgent)
    BY <2>1, CurrentMessage DEF TypeInv, TypeOK, PositionOK, QuoteInv, ReadIsAuthor, cur
  <2>3. inbox[next].ref # 0 => <<next, seen[next]>> \in excused'
    BY <2>1, <2>2 DEF Traced, WrittenBy, Excuse, cur
  <2>4. (k \in DOMAIN queue[a] /\ e = queue[a][k])
        \/ e = [id |-> next, at |-> seen[next], media |-> 0, ctx |-> NoAgent]
    BY <2>1, EnqueueEntries
  <2>5. CASE e = [id |-> next, at |-> seen[next], media |-> 0, ctx |-> NoAgent]
    <3>1. e.id = next /\ e.at = seen[next] /\ e.ctx = NoAgent
      BY <2>5
    <3> QED
      BY <2>1, <2>2, <2>3, <3>1 DEF EntryIsAuthor, Traced
  <2> QED
    BY <1>1, <2>1, <2>4, <2>5
<1>4. CASE CrashRestart
  BY <1>4 DEF CrashRestart
<1>5. CASE AttachMedia
  BY <1>1, <1>4, <1>5, LastMediaEntries DEF AttachMedia, TypeInv, StepOK
<1>6. CASE \E b \in Agents : queue' = Drained(b) /\ UNCHANGED <<platformVars, loopVars, clockVars>>
  BY <1>1, <1>4, <1>6, DrainedEntries
<1>7. CASE UNCHANGED queue
  BY <1>1, <1>4, <1>7
<1> QED
  BY <1>2, <1>3, <1>4, <1>5, <1>6, <1>7, QueueSteps

\* A message that quotes what an agent wrote gets into that agent's queue and
\* no other (main.rs, route_to_agent; save_msg_agent_context), unless one of
\* these was so when the loop took it: the row was not written, as the save was
\* still to come or a crash came before it, or was no longer among the latest
\* StoreCap - 1, or when it was routed: the author was not registered.
THEOREM QuoteFindsAuthor == Spec => []QuoteReachesAuthor
<1>1. Init => QuoteInv
  <2> SUFFICES ASSUME Init PROVE QuoteInv
    OBVIOUS
  <2>1. StoredIsAuthor /\ SaveIsAuthor /\ ReadIsAuthor /\ RowIsNew
    BY DEF Init, StoredIsAuthor, SaveIsAuthor, ReadIsAuthor, RowIsNew, Empty, Idle
  <2>2. RowsLatest
    BY DEF Init, RowsLatest, Empty
  <2>3. \A a \in Agents : \A k \in DOMAIN queue[a] : EntryIsAuthor(a, queue[a][k])
    BY DEF Init
  <2> QED
    BY <2>1, <2>2, <2>3 DEF QuoteInv
<1>2. TypeInv /\ QuoteInv /\ [Next]_vars => QuoteInv'
  BY StoredAuthorStep, SaveAuthorStep, ReadAuthorStep, RowsStep, EntryAuthorStep DEF QuoteInv
<1>3. QuoteInv => QuoteReachesAuthor
  BY DEF QuoteInv, QuoteReachesAuthor, EntryIsAuthor, Traced, WrittenBy
<1> QED
  BY <1>1, <1>2, <1>3, TypeInvariant, PTL DEF Spec

----------------------------------------------------------------------------
(* What a queued message needs to be answered.                             *)

\* The loop has routed a message, and is about to record its context.
Recording == pc = "record"

\* The loop's time of a message is never ahead of the clock.
SeenPast == \A i \in DOMAIN seen : seen[i] <= now

\* The context of an entry is at least as young as the entry, so that it is
\* purged only when the entry has reached CtxTtl, too.
EntryAnswerable(e) ==
    /\ e.id \in 1..Len(inbox) /\ e.at <= now
    /\ \/ e.id \in DOMAIN ctxs /\ ctxs[e.id].at >= e.at
       \/ e.id = next /\ Recording
       \/ now - e.at >= CtxTtl
       \/ ~inbox[e.id].shape.token

AnswerInv ==
    /\ SeenPast
    /\ \A a \in Agents : \A k \in DOMAIN queue[a] : EntryAnswerable(queue[a][k])

\* Types the arithmetic on ages needs.
LEMMA AgeTypes ==
    ASSUME TypeInv
    PROVE  /\ now \in Nat /\ CtxTtl \in Nat \ {0}
           /\ \A i \in DOMAIN seen : seen[i] \in Nat
           /\ \A i \in DOMAIN ctxs : ctxs[i].at \in Nat
  BY GatewayAssumption DEF TypeInv, TypeOK, ClockOK, LocalsOK, ReplyOK, Context, Times

\* Time goes forward.
LEMMA ClockAdvances == TypeInv /\ [Next]_vars => now' \in Nat /\ now' >= now
<1> SUFFICES ASSUME TypeInv, [Next]_vars PROVE now' \in Nat /\ now' >= now
  OBVIOUS
<1>1. now \in Nat
  BY AgeTypes
<1>2. CASE Tick
  BY <1>1, <1>2 DEF Tick
<1>3. Tick \/ UNCHANGED now
  BY DEF Next, Loop, Process, GetUpdates, SessionTimeout, Wake, SkipBot, SkipDuplicate,
         TakeMessage, RouteQuoted, RefuseQuoted, Refuse, AnswerInline, RouteToActive,
         SendInline, Record, AttachMedia, MediaFailed, Push, NoTarget,
         AgentStep, Register, Poll, Answer, SendFirst, Processor, TakeReply, DropReply,
         SendKeep, SendForget, SendFails, SaveContext, Post, PurgeContexts, CrashRestart,
         vars, clockVars
<1> QED
  BY <1>1, <1>2, <1>3

LEMMA SeenPastStep == TypeInv /\ SeenPast /\ [Next]_vars => SeenPast'
<1> SUFFICES ASSUME TypeInv, SeenPast, [Next]_vars PROVE SeenPast'
  OBVIOUS
<1>1. now \in Nat /\ now' \in Nat /\ now' >= now /\ \A i \in DOMAIN seen : seen[i] \in Nat
  BY AgeTypes, ClockAdvances
<1>2. CASE TakeMessage
  <2>1. seen' = Put(Keep(seen, Fresh), next, now)
    BY <1>2 DEF TakeMessage
  <2>2. \A i \in DOMAIN seen' : seen'[i] = now \/ (i \in DOMAIN seen /\ seen'[i] = seen[i])
    BY <2>1, Zenon DEF Put, Keep
  <2> QED
    BY <1>1, <2>2 DEF SeenPast
<1>3. CASE SkipDuplicate
  <2>1. \A i \in DOMAIN seen' : i \in DOMAIN seen /\ seen'[i] = seen[i]
    BY <1>3, Zenon DEF SkipDuplicate, Keep
  <2> QED
    BY <1>1, <2>1 DEF SeenPast
<1>4. CASE CrashRestart
  BY <1>4 DEF CrashRestart, Empty, SeenPast
<1>5. CASE UNCHANGED seen
  BY <1>1, <1>5 DEF SeenPast
<1>6. TakeMessage \/ SkipDuplicate \/ CrashRestart \/ UNCHANGED seen
  <2>1. CASE Loop \/ SessionTimeout
    BY <2>1
       DEF Loop, Process, GetUpdates, SessionTimeout, Wake, SkipBot, RouteQuoted, RefuseQuoted,
           Refuse, AnswerInline, RouteToActive, SendInline, Record, AttachMedia,
           MediaFailed, Push, NoTarget
  <2> QED
    BY <2>1, LoopWaits DEF loopVars
<1> QED
  BY <1>2, <1>3, <1>4, <1>5, <1>6

\* What recording the context of the current message leaves: the contexts of
\* the others, and one of now for this message, if it came with a token.
LEMMA WithContextShape ==
    /\ \A i \in DOMAIN ctxs \ {next} : i \in DOMAIN WithContext /\ WithContext[i] = ctxs[i]
    /\ shape.token => next \in DOMAIN WithContext /\ WithContext[next].at = now
    /\ ~shape.token => WithContext = ctxs
<1>1. CASE shape.token
  <2> DEFINE c == [user |-> shape.user, at |-> now]
  <2>1. c.at = now
    OBVIOUS
  <2> HIDE DEF c
  <2>2. WithContext = Put(ctxs, next, c)
    BY <1>1, Zenon DEF WithContext, c
  <2> QED
    BY <1>1, <2>1, <2>2, Zenon DEF Put
<1>2. CASE ~shape.token
  BY <1>2 DEF WithContext
<1> QED
  BY <1>1, <1>2

\* An entry that was there stays answerable.
LEMMA AnswerableStays ==
    ASSUME TypeInv, AnswerInv, [Next]_vars, ~CrashRestart,
           NEW e, e.at \in Nat, EntryAnswerable(e)
    PROVE  EntryAnswerable(e)'
<1>1. /\ now \in Nat /\ now' \in Nat /\ now' >= now /\ CtxTtl \in Nat
      /\ \A i \in DOMAIN ctxs : ctxs[i].at \in Nat
  BY AgeTypes, ClockAdvances
<1>2. e.id \in 1..Len(inbox') /\ inbox'[e.id] = inbox[e.id] /\ e.at <= now'
  BY <1>1, InboxGrows DEF EntryAnswerable
<1>3. CASE now - e.at >= CtxTtl \/ ~inbox[e.id].shape.token
  BY <1>1, <1>2, <1>3 DEF EntryAnswerable
<1>4. CASE e.id = next /\ Recording
  <2>1. CASE Record
    <3>1. ctxs' = WithContext /\ shape = inbox[e.id].shape
      BY <1>4, <2>1 DEF Record, shape, cur
    <3>2. shape.token => e.id \in DOMAIN ctxs' /\ ctxs'[e.id].at = now
      BY <1>4, <3>1, WithContextShape
    <3> QED
      BY <1>1, <1>2, <3>1, <3>2 DEF EntryAnswerable
  <2>2. CASE UNCHANGED <<pc, next>>
    BY <1>2, <1>4, <2>2 DEF EntryAnswerable, Recording
  <2>3. Record \/ UNCHANGED <<pc, next>>
    <3>1. CASE Loop \/ SessionTimeout
      BY <1>4, <3>1
         DEF Recording, Loop, Process, GetUpdates, SessionTimeout, Wake, SkipBot, SkipDuplicate,
             TakeMessage, RouteQuoted, RefuseQuoted, Refuse, AnswerInline, RouteToActive,
             SendInline, AttachMedia, MediaFailed, Push, NoTarget, LoopIdle
    <3> QED
      BY <3>1, LoopWaits DEF loopVars
  <2> QED
    BY <2>1, <2>2, <2>3
<1>5. CASE e.id \in DOMAIN ctxs /\ ctxs[e.id].at >= e.at
  <2>1. CASE Record \/ RouteQuoted \/ RefuseQuoted
    <3>1. ctxs' = WithContext
      BY <2>1 DEF Record, RouteQuoted, RefuseQuoted
    <3>2. e.id \in DOMAIN ctxs' /\ (ctxs'[e.id] = ctxs[e.id] \/ ctxs'[e.id].at = now)
      BY <1>5, <3>1, WithContextShape
    <3>3. e.at <= now
      BY DEF EntryAnswerable
    <3> QED
      BY <1>1, <1>2, <1>5, <3>2, <3>3 DEF EntryAnswerable
  <2>2. CASE PurgeContexts
    <3>1. CASE e.id \in Current
      <4>1. e.id \in DOMAIN ctxs' /\ ctxs'[e.id] = ctxs[e.id]
        BY <1>5, <2>2, <3>1, Zenon DEF PurgeContexts, Keep
      <4> QED
        BY <1>2, <1>5, <4>1 DEF EntryAnswerable
    <3>2. CASE e.id \notin Current
      <4>1. now - e.at >= CtxTtl
        BY <1>1, <1>5, <3>2 DEF Current
      <4> QED
        BY <1>1, <1>2, <4>1 DEF EntryAnswerable
    <3> QED
      BY <3>1, <3>2
  <2>3. CASE UNCHANGED ctxs
    BY <1>2, <1>5, <2>3 DEF EntryAnswerable
  <2>4. Record \/ RouteQuoted \/ RefuseQuoted \/ PurgeContexts \/ UNCHANGED ctxs
    BY DEF Next, Loop, Process, Post, GetUpdates, SessionTimeout, Wake, SkipBot, SkipDuplicate,
           TakeMessage, Refuse, AnswerInline, RouteToActive,
           SendInline, AttachMedia, MediaFailed, Push, NoTarget,
           AgentStep, Register, Poll, Answer, SendFirst, Processor, TakeReply, DropReply,
           SendKeep, SendForget, SendFails, SaveContext, Tick, vars
  <2> QED
    BY <2>1, <2>2, <2>3, <2>4
<1> QED
  BY <1>3, <1>4, <1>5 DEF EntryAnswerable

LEMMA AnswerStep == TypeInv /\ AnswerInv /\ [Next]_vars => AnswerInv'
<1> SUFFICES ASSUME TypeInv, AnswerInv, [Next]_vars, NEW a \in Agents, NEW k \in DOMAIN queue'[a]
             PROVE  EntryAnswerable(queue[a][k])'
  BY SeenPastStep DEF AnswerInv
<1> DEFINE e == queue'[a][k]
<1>1. ASSUME k \in DOMAIN queue[a], e.id = queue[a][k].id, e.at = queue[a][k].at, ~CrashRestart
      PROVE  EntryAnswerable(queue[a][k])'
  <2>1. EntryAnswerable(queue[a][k]) /\ queue[a][k].at \in Nat
    BY <1>1, EntryType DEF AnswerInv
  <2>2. EntryAnswerable(e)
    BY <1>1, <2>1 DEF EntryAnswerable
  <2> HIDE DEF e
  <2>3. e.at \in Nat
    BY <1>1, <2>1
  <2>4. \A d : d.at \in Nat /\ EntryAnswerable(d) =>
          /\ d.id \in 1..Len(inbox') /\ d.at <= now'
          /\ \/ d.id \in DOMAIN ctxs' /\ ctxs'[d.id].at >= d.at
             \/ d.id = next' /\ Recording'
             \/ now' - d.at >= CtxTtl
             \/ ~inbox'[d.id].shape.token
    BY <1>1, AnswerableStays DEF EntryAnswerable
  <2> QED
    BY <2>2, <2>3, <2>4 DEF e, EntryAnswerable
<1>2. CASE RouteQuoted \/ RouteToActive
  <2>1. PICK b \in Agents, c \in Agents \cup {NoAgent} : queue' = Enqueue(b, c)
    BY <1>2 DEF RouteQuoted, RouteToActive, Quoted, TypeInv, TypeOK, RouterOK
  <2>2. pc = "route" /\ UNCHANGED <<inbox, now, seen>> /\ ~CrashRestart
    BY <1>2 DEF RouteQuoted, RouteToActive, CrashRestart, platformVars, clockVars
  <2>3. \/ k \in DOMAIN queue[a] /\ e = queue[a][k]
        \/ e = [id |-> next, at |-> seen[next], media |-> 0, ctx |-> c]
    BY <2>1, EnqueueEntries
  <2>4. CASE e = [id |-> next, at |-> seen[next], media |-> 0, ctx |-> c]
    <3>1. e.id = next /\ e.at = seen[next]
      BY <2>4
    <3>2. next \in 1..Len(inbox) /\ seen[next] <= now
      BY <2>2, CurrentMessage DEF TypeInv, TypeOK, PositionOK, StepOK, AnswerInv, SeenPast
    <3>3. CASE RouteToActive
      BY <2>2, <3>1, <3>2, <3>3 DEF RouteToActive, EntryAnswerable, Recording
    <3>4. CASE RouteQuoted
      <4>1. ctxs' = WithContext /\ shape = inbox[next].shape
        BY <3>4 DEF RouteQuoted, shape, cur
      <4>2. shape.token => next \in DOMAIN ctxs' /\ ctxs'[next].at = now
        BY <4>1, WithContextShape
      <4> QED
        BY <2>2, <3>1, <3>2, <4>1, <4>2 DEF EntryAnswerable
    <3> QED
      BY <1>2, <3>3, <3>4
  <2> QED
    BY <1>1, <2>2, <2>3, <2>4
<1>3. CASE CrashRestart
  BY <1>3 DEF CrashRestart
<1>4. CASE AttachMedia
  BY <1>1, <1>3, <1>4, LastMediaEntries DEF AttachMedia, TypeInv, StepOK
<1>5. CASE \E b \in Agents : queue' = Drained(b) /\ UNCHANGED <<platformVars, loopVars, clockVars>>
  BY <1>1, <1>3, <1>5, DrainedEntries
<1>6. CASE UNCHANGED queue
  BY <1>1, <1>3, <1>6
<1> QED
  BY <1>2, <1>3, <1>4, <1>5, <1>6, QueueSteps

\* Whatever an agent takes from its queue it can answer, for CtxTtl after the
\* loop took it: queue, contexts and purge are under three locks, and neither
\* redeliveries nor a purge leave an entry without its context (main.rs).
THEOREM QueuedIsAnswerable == Spec => []AnswerableWhileQueued
<1>1. Init => AnswerInv
  BY DEF Init, AnswerInv, SeenPast, Empty
<1>2. TypeInv /\ AnswerInv /\ [Next]_vars => AnswerInv'
  BY AnswerStep
<1>3. AnswerInv => AnswerableWhileQueued
  BY DEF AnswerInv, AnswerableWhileQueued, Entries, EntryAnswerable, Recording
<1> QED
  BY <1>1, <1>2, <1>3, TypeInvariant, PTL DEF Spec
=============================================================================
