--------------------------- MODULE WechatGateway ---------------------------
(***************************************************************************)
(* The message path of the WeChat gateway (gateway/src): the iLink         *)
(* long-poll loop, the router with its agent registry and per-agent        *)
(* queues, the agents' HTTP and WebSocket API, the message contexts, the   *)
(* reply processor, what SQLite keeps, and the crash of the process.       *)
(*                                                                         *)
(* Every critical section of a mutex is one action; the long-poll loop     *)
(* (pc) and the reply processor (proc) are split at each await and         *)
(* between two critical sections, so that agents and time interleave with  *)
(* them everywhere the code lets them.  One unit of time is 300 s, the     *)
(* greatest common divisor of the durations below.                         *)
(***************************************************************************)
EXTENDS Naturals, Sequences, FiniteSets

CONSTANTS
    Agents,      \* names of the agents
    NoAgent,     \* Option::None where a name of an agent is expected
    Users,       \* senders of messages
    NoUser,      \* no user, in a reply that answers a message
    Groups,      \* the groups messages come from
    NoGroup,     \* no group: a direct message
    Blocked,     \* the users and the groups the admission policies refuse
    Shapes,      \* the shapes of message the platform may deliver
    DedupTtl,    \* 300 s: age at which DedupCache forgets a message
    CtxTtl,      \* 600 s: age at which a message context may be purged
    Pause,       \* 600 s: pause after errcode -14
    StoreCap,    \* MSG_AGENT_CONTEXT_MAX
    MaxMsgs,     \* bound: messages posted by users
    MaxReplies,  \* bound: replies posted by agents
    MaxParts,    \* bound: messages one reply is sent as
    MaxTime,     \* bound: the clock
    MaxCrashes   \* bound: crashes of the process

Shape == [user: Users, group: Groups \cup {NoGroup}, kind: {"bot", "chat", "use", "info", "silent"},
          arg: Agents \cup {NoAgent}, media: BOOLEAN, token: BOOLEAN]

ASSUME GatewayAssumption ==
    /\ NoAgent \notin Agents
    /\ NoUser \notin Users
    /\ NoGroup \notin Groups
    /\ Blocked \subseteq Users \cup Groups
    /\ Shapes \subseteq Shape
    /\ {DedupTtl, CtxTtl, Pause, StoreCap} \subseteq Nat \ {0}
    /\ {MaxMsgs, MaxReplies, MaxParts, MaxTime, MaxCrashes} \subseteq Nat

VARIABLES
    \* the platform
    inbox,       \* messages posted so far, in order
    acked,       \* the last message a get_updates request has acknowledged
    sent,        \* messages the platform accepted from the reply processor
    \* the long-poll loop
    pc,          \* where the loop is
    cursor,      \* sync_buf: the position it stands for, 0 for ""
    next, upto,  \* the part of the response still to process, next being processed
    refAgent,    \* the agent of the quoted message's context
    target,      \* active_agent as read with the routing decision
    wakeAt,      \* end of the pause after errcode -14
    seen,        \* DedupCache: message -> time it was recorded
    \* the router
    registered, active, queue,
    \* message_contexts: message -> who asked, and when
    ctxs,
    \* the reply channel and its consumer
    replies, proc,
    \* SQLite: gateway_state.active_agent, msg_agent_context
    savedActive, stored,
    posted,      \* number of replies the agents have posted
    \* time and crashes
    now, crashes,
    \* history
    handled,     \* messages whose processing has ended at least once
    saved,       \* the sent messages whose row has been written
    excused      \* quoting messages, taken when, whose author could not be told

platformVars == <<inbox, acked, sent>>
loopVars     == <<pc, cursor, next, upto, refAgent, target, wakeAt, seen>>
routerVars   == <<registered, active, queue>>
replyVars    == <<replies, proc>>
storeVars    == <<savedActive, stored>>
clockVars    == <<now, crashes>>
history      == <<handled, saved, excused>>
vars == <<platformVars, loopVars, routerVars, ctxs, replyVars, storeVars,
          posted, clockVars, history>>

MsgIds == 1..MaxMsgs
Times  == 0..MaxTime

Message == [shape: Shapes, ref: Nat]
\* A QueuedMessage: at is when the loop took it, media the message whose
\* downloaded files it carries (0: none), ctx its agent_context.
Entry   == [id: MsgIds, at: Times, media: MsgIds \cup {0}, ctx: Agents \cup {NoAgent}]
Context == [user: Users, at: Times]
\* An AgentReply, to the message reply_to_id or, with re 0, to the user
\* to_user, by the agent that posted it; parts is the number of messages it is
\* sent as.
Reply   == [re: MsgIds, to: {NoUser}, by: Agents, parts: 1..MaxParts]
           \cup [re: {0}, to: Users, by: Agents, parts: 1..MaxParts]
Job     == [st: {"send", "save"}, re: MsgIds \cup {0}, to: Users, by: Agents,
            left: 1..MaxParts]
Idle    == [st |-> "idle"]
SentMsg == [re: MsgIds \cup {0}, to: Users, by: Agents]

Empty == [x \in {} |-> 0]
Put(f, k, v)  == [x \in DOMAIN f \cup {k} |-> IF x = k THEN v ELSE f[x]]
Keep(f, S)    == [x \in DOMAIN f \cap S |-> f[x]]
MaxOf(a, b)   == IF a > b THEN a ELSE b

Init ==
    /\ inbox = <<>> /\ acked = 0 /\ sent = <<>>
    /\ pc = "take" /\ cursor = 0 /\ next = 1 /\ upto = 0
    /\ refAgent = NoAgent /\ target = NoAgent /\ wakeAt = 0 /\ seen = Empty
    /\ registered = {} /\ active = NoAgent /\ queue = [a \in Agents |-> <<>>]
    /\ ctxs = Empty
    /\ replies = <<>> /\ proc = Idle
    /\ savedActive = NoAgent /\ stored = Empty
    /\ posted = 0
    /\ now = 0 /\ crashes = 0
    /\ handled = {} /\ saved = {} /\ excused = {}

----------------------------------------------------------------------------
(* The platform (outside the repository).                                  *)

\* A user posts a message, quoting one of the gateway's own or none.
Post ==
    /\ Len(inbox) < MaxMsgs
    /\ \E s \in Shapes, r \in 0..Len(sent) :
          inbox' = Append(inbox, [shape |-> s, ref |-> r])
    /\ UNCHANGED <<acked, sent, loopVars, routerVars, ctxs, replyVars, storeVars,
                   posted, clockVars, history>>

\* Where a response starts: after sync_buf, or, for an empty sync_buf, at a
\* place the platform chooses among those already acknowledged.
ResponseStart == IF cursor = 0 THEN 0..acked ELSE {cursor}

----------------------------------------------------------------------------
(* The long-poll loop.                                                     *)

cur   == inbox[next]
shape == cur.shape

\* Variant: the next request is made while the response is being processed.
LoopIdleEarly == pc = "take"

LoopIdle == pc = "take" /\ next > upto

\* Variant: sync_buf names one message too many.
NewCursorsOffByOne == {Len(inbox) + 1, cursor}

\* The next sync_buf: get_updates_buf, or, without it, the old one.
NewCursors == {Len(inbox), cursor}

\* The loop goes on with the next message; the locals of this one are gone.
Finish ==
    /\ pc' = "take"
    /\ next' = next + 1
    /\ handled' = handled \cup {next}
    /\ refAgent' = NoAgent /\ target' = NoAgent
    /\ UNCHANGED <<saved, excused>>

\* get_updates returns the pending messages.  (When it fails, the loop repeats
\* the request after 5 s, which is a stuttering step.)
GetUpdates ==
    /\ LoopIdle
    /\ acked' = MaxOf(acked, cursor)
    /\ upto' = Len(inbox)
    /\ \E start \in ResponseStart : next' = start + 1
    /\ cursor' \in NewCursors
    /\ UNCHANGED <<inbox, sent, pc, refAgent, target, wakeAt, seen, routerVars, ctxs,
                   replyVars, storeVars, posted, clockVars, history>>

\* errcode -14: forget sync_buf and pause.
SessionTimeout ==
    /\ LoopIdle
    /\ now + Pause <= MaxTime
    /\ acked' = MaxOf(acked, cursor)
    /\ cursor' = 0
    /\ pc' = "sleep"
    /\ wakeAt' = now + Pause
    /\ UNCHANGED <<inbox, sent, next, upto, refAgent, target, seen, routerVars, ctxs,
                   replyVars, storeVars, posted, clockVars, history>>

Wake ==
    /\ pc = "sleep"
    /\ now >= wakeAt
    /\ pc' = "take" /\ wakeAt' = 0
    /\ UNCHANGED <<platformVars, cursor, next, upto, refAgent, target, seen,
                   routerVars, ctxs, replyVars, storeVars, posted, clockVars, history>>

\* Messages of the bot itself are skipped.
SkipBot ==
    /\ pc = "take" /\ next <= upto
    /\ shape.kind = "bot"
    /\ Finish
    /\ UNCHANGED <<platformVars, cursor, upto, wakeAt, seen,
                   routerVars, ctxs, replyVars, storeVars, posted, clockVars>>

\* Variant: keeps the old entries and drops the new ones.
FreshInverted == {i \in DOMAIN seen : now - seen[i] >= DedupTtl}

\* check_and_record first drops what has reached its age.
Fresh == {i \in DOMAIN seen : now - seen[i] < DedupTtl}

SkipDuplicate ==
    /\ pc = "take" /\ next <= upto
    /\ shape.kind # "bot"
    /\ next \in Fresh
    /\ seen' = Keep(seen, Fresh)
    /\ pc' = "take" /\ next' = next + 1
    /\ UNCHANGED <<platformVars, cursor, upto, refAgent, target, wakeAt, routerVars,
                   ctxs, replyVars, storeVars, posted, clockVars, history>>

\* History: of the latest messages whose rows were written, as many as the
\* store keeps ...
Recent(r) == r \in saved /\ Cardinality({s \in saved : s > r}) < StoreCap - 1

\* ... and a quote that cannot, or can no longer, be traced to its author.
Excuse(untraced, at) == IF untraced THEN excused \cup {<<next, at>>} ELSE excused

\* A new message is recorded before it is routed; the context of the message
\* it quotes is read under the store's lock alone.
TakeMessage ==
    /\ pc = "take" /\ next <= upto
    /\ shape.kind # "bot"
    /\ next \notin Fresh
    /\ seen' = Put(Keep(seen, Fresh), next, now)
    /\ refAgent' = IF cur.ref \in DOMAIN stored THEN stored[cur.ref] ELSE NoAgent
    /\ pc' = "route"
    /\ excused' = Excuse(cur.ref # 0 /\ ~Recent(cur.ref), now)
    /\ UNCHANGED <<platformVars, cursor, next, upto, target, wakeAt, routerVars, ctxs,
                   replyVars, storeVars, posted, clockVars, handled, saved>>

\* Variant: a group's message is judged by its sender.
AllowedByUser(s) == s.user \notin Blocked

\* The policies in force: is_group_allowed for a message of a group, and
\* is_dm_allowed for any other.
Allowed(s) == (IF s.group # NoGroup THEN s.group ELSE s.user) \notin Blocked

\* queue.enqueue of the current message, with the given agent_context.
Enqueue(a, ctx) ==
    [queue EXCEPT ![a] = Append(@, [id |-> next, at |-> seen[next], media |-> 0, ctx |-> ctx])]

Quoted == refAgent \in registered

\* message_contexts.insert, for a message that has a context_token.
WithContext ==
    IF shape.token THEN Put(ctxs, next, [user |-> shape.user, at |-> now]) ELSE ctxs

\* route_to_agent: the agent that wrote the quoted message gets the reply.  The
\* context is recorded under the router's lock, and the loop goes on with the
\* next message.
RouteQuoted ==
    /\ pc = "route" /\ Quoted
    /\ Allowed(shape)
    /\ queue' = Enqueue(refAgent, refAgent)
    /\ ctxs' = WithContext
    /\ Finish
    /\ UNCHANGED <<platformVars, cursor, upto, wakeAt, seen, registered, active,
                   replyVars, storeVars, posted, clockVars>>

\* route_to_agent returns Ok(()) for a sender it refuses, too.
RefuseQuoted ==
    /\ pc = "route" /\ Quoted
    /\ ~Allowed(shape)
    /\ ctxs' = WithContext
    /\ Finish
    /\ UNCHANGED <<platformVars, cursor, upto, wakeAt, seen, routerVars,
                   replyVars, storeVars, posted, clockVars>>

\* handle_incoming, Ok(None) for a sender it refuses.
Refuse ==
    /\ pc = "route" /\ ~Quoted
    /\ ~Allowed(shape)
    /\ target' = active
    /\ pc' = "record"
    /\ UNCHANGED <<platformVars, cursor, next, upto, refAgent, wakeAt, seen,
                   routerVars, ctxs, replyVars, storeVars, posted, clockVars, history>>

\* handle_incoming, a text for the user: /use, another command, or an error
\* (no text content, no active agent).
AnswerInline ==
    /\ pc = "route" /\ ~Quoted
    /\ Allowed(shape)
    /\ shape.kind = "chat" => active = NoAgent
    /\ active' = IF shape.kind = "use" /\ shape.arg \in registered
                 THEN shape.arg ELSE active
    /\ target' = active
    /\ pc' = "inline"
    /\ UNCHANGED <<platformVars, cursor, next, upto, refAgent, wakeAt, seen,
                   registered, queue, ctxs, replyVars, storeVars, posted, clockVars,
                   history>>

\* handle_incoming, Ok(None): the message is in the active agent's queue.
RouteToActive ==
    /\ pc = "route" /\ ~Quoted
    /\ Allowed(shape)
    /\ shape.kind = "chat" /\ active # NoAgent
    /\ queue' = Enqueue(active, NoAgent)
    /\ target' = active
    /\ pc' = "record"
    /\ excused' = Excuse(cur.ref # 0 /\ sent[cur.ref].by \notin registered, seen[next])
    /\ UNCHANGED <<platformVars, cursor, next, upto, refAgent, wakeAt, seen,
                   registered, active, ctxs, replyVars, storeVars, posted, clockVars,
                   handled, saved>>

\* resilient_send of the inline text; the loop ignores how it ends.
SendInline ==
    /\ pc = "inline"
    /\ Finish
    /\ UNCHANGED <<platformVars, cursor, upto, wakeAt, seen,
                   routerVars, ctxs, replyVars, storeVars, posted, clockVars>>

Record ==
    /\ pc = "record"
    /\ ctxs' = WithContext
    /\ pc' = IF shape.media /\ target # NoAgent THEN "media" ELSE "push"
    /\ UNCHANGED <<platformVars, cursor, next, upto, refAgent, target, wakeAt, seen,
                   routerVars, replyVars, storeVars, posted, clockVars, history>>

\* Variant: the first message of the queue gets the files.
FirstMedia(a, m) ==
    LET q == queue[a] IN
    IF q = <<>> THEN queue ELSE [queue EXCEPT ![a] = [q EXCEPT ![1].media = m]]

\* update_last_media, or nothing for an agent whose queue has been polled.
LastMedia(a, m) ==
    LET q == queue[a] IN
    IF q = <<>> THEN queue ELSE [queue EXCEPT ![a] = [q EXCEPT ![Len(q)].media = m]]

\* The files of the message are downloaded, and given to the queue of the agent.
AttachMedia ==
    /\ pc = "media"
    /\ queue' = LastMedia(target, next)
    /\ pc' = "push"
    /\ UNCHANGED <<platformVars, cursor, next, upto, refAgent, target, wakeAt, seen,
                   registered, active, ctxs, replyVars, storeVars, posted, clockVars,
                   history>>

\* No file of the message could be downloaded.
MediaFailed ==
    /\ pc = "media"
    /\ pc' = "push"
    /\ UNCHANGED <<platformVars, cursor, next, upto, refAgent, target, wakeAt, seen,
                   routerVars, ctxs, replyVars, storeVars, posted, clockVars, history>>

\* ws_registry.push to the agent read with the routing decision, which has a
\* socket or not.
Push ==
    /\ pc = "push"
    /\ target # NoAgent
    /\ Finish
    /\ UNCHANGED <<platformVars, cursor, upto, wakeAt, seen,
                   routerVars, ctxs, replyVars, storeVars, posted, clockVars>>

\* There is no active agent to push to.
NoTarget ==
    /\ pc = "push"
    /\ target = NoAgent
    /\ Finish
    /\ UNCHANGED <<platformVars, cursor, upto, wakeAt, seen,
                   routerVars, ctxs, replyVars, storeVars, posted, clockVars>>

Process ==
    \/ SkipBot \/ SkipDuplicate \/ TakeMessage
    \/ RouteQuoted \/ RefuseQuoted \/ Refuse \/ AnswerInline \/ RouteToActive
    \/ SendInline \/ Record
    \/ AttachMedia \/ MediaFailed \/ Push \/ NoTarget

Loop == GetUpdates \/ Wake \/ Process

----------------------------------------------------------------------------
(* The agents and their HTTP API.                                          *)

\* The first agent to register becomes active; active_agent is saved in the
\* same critical section.
Register(a) ==
    /\ registered' = registered \cup {a}
    /\ active' = IF active = NoAgent THEN a ELSE active
    /\ savedActive' = active'
    /\ UNCHANGED <<platformVars, loopVars, queue, ctxs, replyVars, stored, posted,
                   clockVars, history>>

\* handle_poll drains the queue, whether or not the response arrives.
Drained(a) == [queue EXCEPT ![a] = <<>>]

Poll(a) ==
    /\ a \in registered
    /\ queue' = Drained(a)
    /\ UNCHANGED <<platformVars, loopVars, registered, active, ctxs, replyVars,
                   storeVars, posted, clockVars, history>>

Send(r) == replies' = Append(replies, r) /\ posted' = posted + 1

\* handle_reply, or a reply frame on a socket: an answer to a message (the
\* gateway does not check that the agent has received it) ...
Answer(a) ==
    /\ posted < MaxReplies
    /\ \E i \in DOMAIN inbox, n \in 1..MaxParts :
          Send([re |-> i, to |-> NoUser, by |-> a, parts |-> n])
    /\ UNCHANGED <<platformVars, loopVars, routerVars, ctxs, proc, storeVars, clockVars, history>>

\* ... or, with to_user, a message of its own.
SendFirst(a) ==
    /\ posted < MaxReplies
    /\ \E u \in Users, n \in 1..MaxParts :
          Send([re |-> 0, to |-> u, by |-> a, parts |-> n])
    /\ UNCHANGED <<platformVars, loopVars, routerVars, ctxs, proc, storeVars, clockVars, history>>

----------------------------------------------------------------------------
(* handle_agent_replies.                                                   *)

JobFor(r, to) == [st |-> "send", re |-> r.re, to |-> to, by |-> r.by, left |-> r.parts]

\* Variant: the user who wrote last.
LastAsker(r) == ctxs[CHOOSE i \in DOMAIN ctxs : \A j \in DOMAIN ctxs : j <= i].user

Asker(r) == ctxs[r.re].user

\* Next message of the reply (an extra file's note), or next reply.
NextPart == IF proc.left = 1 THEN Idle ELSE [proc EXCEPT !.st = "send", !.left = @ - 1]

TakeReply ==
    /\ proc = Idle /\ replies # <<>>
    /\ LET r == Head(replies) IN
          \/ /\ r.re = 0
             /\ proc' = JobFor(r, r.to)
          \/ /\ r.re \in DOMAIN ctxs
             /\ proc' = JobFor(r, Asker(r))
    /\ replies' = Tail(replies)
    /\ UNCHANGED <<platformVars, loopVars, routerVars, ctxs, storeVars, posted,
                   clockVars, history>>

\* "no context found": the reply is dropped.
DropReply ==
    /\ proc = Idle /\ replies # <<>>
    /\ Head(replies).re \notin DOMAIN ctxs \cup {0}
    /\ replies' = Tail(replies)
    /\ UNCHANGED <<platformVars, loopVars, routerVars, ctxs, proc, storeVars, posted,
                   clockVars, history>>

Accepted == Append(sent, [re |-> proc.re, to |-> proc.to, by |-> proc.by])

\* resilient_send returns Ok(Some(id)) and the reply has an agent_context ...
SendKeep ==
    /\ proc.st = "send"
    /\ sent' = Accepted
    /\ proc' = [proc EXCEPT !.st = "save"]
    /\ UNCHANGED <<inbox, acked, loopVars, routerVars, ctxs, replies, storeVars,
                   posted, clockVars, history>>

\* ... or there is nothing to save ...
SendForget ==
    /\ proc.st = "send"
    /\ sent' = Accepted
    /\ proc' = NextPart
    /\ UNCHANGED <<inbox, acked, loopVars, routerVars, ctxs, replies, storeVars,
                   posted, clockVars, history>>

\* ... or it returns an error, which is logged.
SendFails ==
    /\ proc.st = "send"
    /\ proc' = NextPart
    /\ UNCHANGED <<platformVars, loopVars, routerVars, ctxs, replies, storeVars,
                   posted, clockVars, history>>

\* Variant: the newest row goes.
TrimNewest(f) ==
    IF Cardinality(DOMAIN f) >= StoreCap
    THEN Keep(f, {k \in DOMAIN f : \E j \in DOMAIN f : j > k})
    ELSE f

\* save_msg_agent_context: the oldest row goes once there are StoreCap.
Trim(f) ==
    IF Cardinality(DOMAIN f) >= StoreCap
    THEN Keep(f, {k \in DOMAIN f : \E j \in DOMAIN f : j < k})
    ELSE f

SaveContext ==
    /\ proc.st = "save"
    /\ stored' = Trim(Put(stored, Len(sent), proc.by))
    /\ proc' = NextPart
    /\ saved' = saved \cup {Len(sent)}
    /\ UNCHANGED <<platformVars, loopVars, routerVars, ctxs, replies, savedActive,
                   posted, clockVars, handled, excused>>

Processor == TakeReply \/ DropReply \/ SendKeep \/ SendForget \/ SendFails \/ SaveContext

----------------------------------------------------------------------------
(* Time, the periodic purge of message contexts, and crashes.              *)

Tick ==
    /\ now < MaxTime
    /\ now' = now + 1
    /\ UNCHANGED <<platformVars, loopVars, routerVars, ctxs, replyVars, storeVars,
                   posted, crashes, history>>

\* Variant: contexts are purged at the age of the dedup cache.
CurrentShort == {i \in DOMAIN ctxs : now - ctxs[i].at < DedupTtl}

Current == {i \in DOMAIN ctxs : now - ctxs[i].at < CtxTtl}

PurgeContexts ==
    /\ ctxs' = Keep(ctxs, Current)
    /\ UNCHANGED <<platformVars, loopVars, routerVars, replyVars, storeVars, posted,
                   clockVars, history>>

\* Variant: sync_buf is kept over a restart, as the response it came with is not.
RestartCursorKept == cursor

\* sync_buf starts empty.
RestartCursor == 0

\* The process dies and is started again: what only memory held is gone, and
\* load_state restores active_agent.
CrashRestart ==
    /\ crashes < MaxCrashes
    /\ crashes' = crashes + 1
    /\ pc' = "take" /\ cursor' = RestartCursor /\ next' = 1 /\ upto' = 0
    /\ refAgent' = NoAgent /\ target' = NoAgent /\ wakeAt' = 0 /\ seen' = Empty
    /\ registered' = {} /\ active' = savedActive /\ queue' = [a \in Agents |-> <<>>]
    /\ ctxs' = Empty
    /\ replies' = <<>> /\ proc' = Idle
    /\ excused' = {}
    /\ UNCHANGED <<platformVars, storeVars, posted, now, handled, saved>>

AgentStep == \E a \in Agents :
    Register(a) \/ Poll(a) \/ Answer(a) \/ SendFirst(a)

Next ==
    \/ Post \/ Loop \/ SessionTimeout
    \/ AgentStep
    \/ Processor
    \/ Tick \/ PurgeContexts \/ CrashRestart

Spec == Init /\ [][Next]_vars

\* What the loop awaits without a time limit: the downloads of a message's
\* files, whose client has none, and an inline command, which may be a /cmd
\* that stands still for good (RouterLock).
Outside ==
    \/ pc = "media"
    \/ pc = "route" /\ ~Quoted /\ Allowed(shape) /\ shape.kind = "info"

\* The runtime keeps scheduling the task of the loop, whose requests have time
\* limits (GetUpdates: one of the requests it repeats is answered), and time
\* passes; a download, a command, users, agents, the reply processor, errors
\* and crashes owe nothing.
FairSpec == Spec /\ WF_vars(Loop /\ ~Outside) /\ WF_vars(Tick)

----------------------------------------------------------------------------
(* Properties.                                                             *)

PlatformOK ==
    /\ inbox \in Seq(Message) /\ Len(inbox) <= MaxMsgs
    /\ acked \in 0..Len(inbox)
    /\ sent \in Seq(SentMsg)
    /\ handled \subseteq 1..Len(inbox)

PositionOK ==
    /\ pc \in {"take", "sleep", "route", "inline", "record", "media", "push"}
    /\ cursor \in 0..Len(inbox)
    /\ next \in Nat \ {0} /\ upto \in 0..Len(inbox)
    /\ pc \notin {"take", "sleep"} => next <= upto

LocalsOK ==
    /\ refAgent \in Agents \cup {NoAgent} /\ target \in Agents \cup {NoAgent}
    /\ wakeAt \in Times
    /\ DOMAIN seen \subseteq MsgIds /\ \A i \in DOMAIN seen : seen[i] \in Times

RouterOK ==
    /\ registered \subseteq Agents /\ active \in Agents \cup {NoAgent}
    /\ queue \in [Agents -> Seq(Entry)]

ReplyOK ==
    /\ DOMAIN ctxs \subseteq MsgIds /\ \A i \in DOMAIN ctxs : ctxs[i] \in Context
    /\ replies \in Seq(Reply)
    /\ proc \in Job \cup {Idle}
    /\ posted \in Nat

StoreOK ==
    /\ savedActive \in Agents \cup {NoAgent}
    /\ DOMAIN stored \subseteq Nat /\ \A k \in DOMAIN stored : stored[k] \in Agents

ClockOK == now \in Times /\ crashes \in Nat

HistoryOK == saved \subseteq Nat /\ excused \subseteq MsgIds \X Times

\* Every variable has its type: the state the tasks share is well formed at
\* each of the points where another task may look at it.
TypeOK ==
    /\ PlatformOK /\ PositionOK /\ LocalsOK /\ RouterOK /\ ReplyOK /\ StoreOK
    /\ ClockOK /\ HistoryOK

Entries == UNION {{queue[a][k] : k \in DOMAIN queue[a]} : a \in Agents}
UserOf(i) == inbox[i].shape.user

\* What the policies refuse: a direct message of a refused user, and whatever
\* comes from a refused group.
Refused(i) == LET s == inbox[i].shape IN
    (s.group = NoGroup /\ s.user \in Blocked) \/ (s.group # NoGroup /\ s.group \in Blocked)

\* The long poll delivers at least once, whatever crashes and session
\* timeouts do: the platform is never told (by the sync_buf of a request) that
\* a message was received before the loop has finished with it.  sync_buf
\* itself advances before the response is processed (main.rs, "sync_buf =
\* resp.get_updates_buf"), so the order of the loop's steps is what ensures it.
AckedAreHandled == \A i \in 1..acked : i \in handled

\* The same message is queued twice only if the two deliveries are DedupTtl
\* or more apart, whichever queues they reached and however often iLink
\* delivers it again.
DuplicatesAreLate ==
    \A a, b \in Agents : \A j \in DOMAIN queue[a], k \in DOMAIN queue[b] :
        LET d == queue[a][j]  e == queue[b][k] IN
        /\ d.id = e.id
        /\ <<a, j>> # <<b, k>>
        => d.at >= e.at + DedupTtl \/ e.at >= d.at + DedupTtl

\* A message waiting in a queue can be answered: the context its reply needs
\* is recorded, unless the loop is just about to record it, or CtxTtl has
\* passed, or the message came without a context_token.  Queue, loop and purge
\* task touch the two maps under different locks.
AnswerableWhileQueued ==
    \A e \in Entries :
        \/ e.id \in DOMAIN ctxs
        \/ e.id = next /\ pc = "record"
        \/ now - e.at >= CtxTtl
        \/ ~inbox[e.id].shape.token

\* The downloaded files of an admitted sender are given to the message they
\* came with, although update_last_media does not name the message and the
\* agent may poll, or the active agent change, during the download.  (What
\* becomes of a refused sender's files is RefusedStaysOut.)
MediaIsOwn ==
    \A e \in Entries : e.media \in {0, e.id} \/ Refused(e.media)

\* A sender the admission policies refuse never gets a message into a queue,
\* neither the usual way nor by quoting an agent's message.
RefusedNeverQueued == \A e \in Entries : ~Refused(e.id)

\* A message that quotes an agent's message goes to the queue of that agent,
\* whichever agent is active by then, and although the sending of replies, the
\* writing and trimming of rows and the loop's read of them are separate steps
\* of separate tasks.  Three things excuse it: the row was not written when the
\* loop took the message (the save was still to come, nothing was saved, or the
\* process had crashed before it), it was no longer among the latest, or the
\* author was not registered; and with an agent_context it is the author's
\* without excuse.
QuoteReachesAuthor ==
    \A a \in Agents : \A k \in DOMAIN queue[a] :
        LET e == queue[a][k]  r == inbox[e.id].ref IN
        /\ r # 0 => a = sent[r].by \/ <<e.id, e.at>> \in excused
        /\ e.ctx # NoAgent => e.ctx = a /\ r # 0 /\ sent[r].by = a

\* What an agent answers to a message goes to the user who sent that message,
\* however late the answer and however many users and agents there are.
AnswersGoToAsker ==
    \A k \in DOMAIN sent : sent[k].re # 0 => sent[k].to = UserOf(sent[k].re)

\* Every message a user posts is eventually handled, even if the process
\* crashes in between, the session times out, or the platform delivers again:
\* nothing but a download or a command that never ends stops the loop.
EveryMessageHandled ==
    \/ <>[]Outside
    \/ \A i \in MsgIds : Len(inbox) >= i ~> i \in handled

\* Of what a refused sender sends, nothing gets into an agent's queue, neither
\* the message nor its files: "drop disallowed senders silently" (router.rs).
RefusedStaysOut ==
    \A e \in Entries : \A i \in {e.id, e.media} \ {0} : ~Refused(i)
=============================================================================
