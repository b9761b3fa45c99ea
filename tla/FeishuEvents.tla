---------------------------- MODULE FeishuEvents ----------------------------
(***************************************************************************)
(* How the Feishu gateway (feishu-gateway) takes messages to agents: the   *)
(* WebSocket's event handlers, the dedup cache, the router with its        *)
(* registry and queues, the downloads, the agents' HTTP API, the message   *)
(* contexts, the saved active agent, and the crash of the process.         *)
(*                                                                         *)
(* The SDK runs the handler of each event in a goroutine of its own, and   *)
(* no two locks are ever held together: every critical section of a        *)
(* handler is an action.                                                   *)
(***************************************************************************)
EXTENDS Naturals, Sequences, FiniteSets

CONSTANTS
    Agents,      \* names of the agents
    NoAgent,     \* "", where a name of an agent is expected
    Users,       \* what the policies look at: a user, or the chat of a group
    Blocked,     \* the users and chats the admission policies refuse
    Shapes,      \* the shapes of message Feishu may push
    DedupTtl,    \* GW_DEDUP_TTL: age at which the dedup cache forgets
    CtxTtl,      \* 10 min: age at which a context is cleaned up
    MaxMsgs,     \* bound: messages posted by users
    MaxPushes,   \* bound: events pushed, re-pushed ones included
    MaxTime,     \* bound: the clock
    MaxCrashes   \* bound: crashes of the process

Shape == [user: Users, kind: {"chat", "use", "info"}, arg: Agents \cup {NoAgent},
          media: BOOLEAN, group: BOOLEAN, mention: BOOLEAN]

ASSUME EventsAssumption ==
    /\ NoAgent \notin Agents
    /\ Blocked \subseteq Users
    /\ Shapes \subseteq Shape
    /\ {DedupTtl, CtxTtl} \subseteq Nat
    /\ {MaxMsgs, MaxPushes, MaxTime, MaxCrashes} \subseteq Nat

VARIABLES
    inbox,        \* messages users have posted, in order
    handlers,     \* event -> what its goroutine is doing
    seen,         \* dedup.Cache: message -> time it was recorded
    registered, active, queue,
    calls,        \* agent -> what its register request is doing
    ctxs,         \* msgctx.Store: message -> ReceivedAt
    savedActive,  \* SQLite: gateway_state.active_agent
    now, crashes

routerVars == <<registered, active, queue>>
memoryVars == <<handlers, seen, routerVars, calls, ctxs>>
clockVars  == <<now, crashes>>
vars == <<inbox, memoryVars, savedActive, clockVars>>

\* An entry of a queue has the id of its message, at, when the event passed the
\* dedup cache, and media, the message whose files it carries (0: none).  A
\* handler has its stage st, its message, the agent the message is queued to and
\* at; a register request the agent that State.Register has returned.
Done == [st |-> "done"]
NoCall == [st |-> "none", active |-> NoAgent]

Empty == [x \in {} |-> 0]
Put(f, k, v) == [x \in DOMAIN f \cup {k} |-> IF x = k THEN v ELSE f[x]]
Keep(f, S)   == [x \in DOMAIN f \cap S |-> f[x]]

Init ==
    /\ inbox = <<>> /\ handlers = <<>> /\ seen = Empty
    /\ registered = {} /\ active = NoAgent /\ queue = [a \in Agents |-> <<>>]
    /\ calls = [a \in Agents |-> NoCall]
    /\ ctxs = Empty /\ savedActive = NoAgent
    /\ now = 0 /\ crashes = 0

----------------------------------------------------------------------------
(* Feishu (outside the repository).                                        *)

\* Variant: groups are listened to without a mention.
AddressedAlways(s) == TRUE

\* In a group the bot must be mentioned.
Addressed(s) == ~s.group \/ s.mention

Started(i, s) ==
    IF Addressed(s) THEN [st |-> "dedup", msg |-> i, agent |-> NoAgent, at |-> 0] ELSE Done

\* A message is posted, and its event pushed ...
Push ==
    /\ Len(inbox) < MaxMsgs /\ Len(handlers) < MaxPushes
    /\ \E s \in Shapes :
          /\ inbox' = Append(inbox, s)
          /\ handlers' = Append(handlers, Started(Len(inbox'), s))
    /\ UNCHANGED <<seen, routerVars, calls, ctxs, savedActive, clockVars>>

\* ... and pushed again, because the answer was late or lost.
PushAgain ==
    /\ Len(handlers) < MaxPushes
    /\ \E i \in DOMAIN inbox : handlers' = Append(handlers, Started(i, inbox[i]))
    /\ UNCHANGED <<inbox, seen, routerVars, calls, ctxs, savedActive, clockVars>>

----------------------------------------------------------------------------
(* handleEvent.                                                            *)

At(k, step) == handlers[k].st = step
Msg(k)      == handlers[k].msg
Sent(k)     == inbox[Msg(k)]
Goto(k, step) == handlers' = [handlers EXCEPT ![k].st = step]
End(k)        == handlers' = [handlers EXCEPT ![k] = Done]

\* Variant: the entries that are as old as the cache keeps them are kept only.
FreshInverted == {i \in DOMAIN seen : now - seen[i] > DedupTtl}

\* CheckAndRecord first evicts what is older than the cache's TTL.
Fresh == {i \in DOMAIN seen : now - seen[i] <= DedupTtl}

SkipDuplicate(k) ==
    /\ At(k, "dedup")
    /\ Msg(k) \in Fresh
    /\ seen' = Keep(seen, Fresh)
    /\ End(k)
    /\ UNCHANGED <<inbox, routerVars, calls, ctxs, savedActive, clockVars>>

RecordNew(k) ==
    /\ At(k, "dedup")
    /\ Msg(k) \notin Fresh
    /\ seen' = Put(Keep(seen, Fresh), Msg(k), now)
    /\ handlers' = [handlers EXCEPT ![k].st = "route", ![k].at = now]
    /\ UNCHANGED <<inbox, routerVars, calls, ctxs, savedActive, clockVars>>

\* The policies for direct messages and for groups, as configured.
Allowed(s) == s.user \notin Blocked

\* HandleIncoming returns an empty result for a sender it refuses; a command
\* but /use is answered without a change of state, as is a /use of an agent
\* that is not registered; without an active agent a message is dropped.
Answered(k) ==
    \/ ~Allowed(Sent(k))
    \/ Sent(k).kind = "info"
    \/ Sent(k).kind = "use" /\ Sent(k).arg \notin registered
    \/ Sent(k).kind = "chat" /\ active = NoAgent

Answer(k) ==
    /\ At(k, "route")
    /\ Answered(k)
    /\ End(k)
    /\ UNCHANGED <<inbox, seen, routerVars, calls, ctxs, savedActive, clockVars>>

\* /use of a registered agent ...
FindAgent(k) ==
    /\ At(k, "route")
    /\ ~Answered(k) /\ Sent(k).kind = "use"
    /\ Goto(k, "switch")
    /\ UNCHANGED <<inbox, seen, routerVars, calls, ctxs, savedActive, clockVars>>

\* ... makes it active under another lock.
Switch(k) ==
    /\ At(k, "switch")
    /\ active' = Sent(k).arg
    /\ End(k)
    /\ UNCHANGED <<inbox, seen, registered, queue, calls, ctxs, savedActive, clockVars>>

\* The active agent is read ...
ReadActive(k) ==
    /\ At(k, "route")
    /\ ~Answered(k) /\ Sent(k).kind = "chat"
    /\ handlers' = [handlers EXCEPT ![k].st = "enqueue", ![k].agent = active]
    /\ UNCHANGED <<inbox, seen, routerVars, calls, ctxs, savedActive, clockVars>>

\* ... and gets the message, under the queue's lock.
Enqueue(k) ==
    /\ At(k, "enqueue")
    /\ queue' = [queue EXCEPT ![handlers[k].agent] =
                   Append(@, [id |-> Msg(k), at |-> handlers[k].at, media |-> 0])]
    /\ Goto(k, "put")
    /\ UNCHANGED <<inbox, seen, registered, active, calls, ctxs, savedActive, clockVars>>

\* The context is recorded after the message was queued.  The files are
\* downloaded by a goroutine that takes the handler's place here.
PutContext(k) ==
    /\ At(k, "put")
    /\ ctxs' = Put(ctxs, Msg(k), now)
    /\ IF Sent(k).media THEN Goto(k, "download") ELSE End(k)
    /\ UNCHANGED <<inbox, seen, routerVars, calls, savedActive, clockVars>>

\* UpdateLastMedia of the agent the download was started for, or nothing when
\* it has polled.
LastMedia(a, m) ==
    LET q == queue[a] IN
    IF q = <<>> THEN queue ELSE [queue EXCEPT ![a] = [q EXCEPT ![Len(q)].media = m]]

Backfill(k) ==
    /\ At(k, "download")
    /\ queue' = LastMedia(handlers[k].agent, Msg(k))
    /\ End(k)
    /\ UNCHANGED <<inbox, seen, registered, active, calls, ctxs, savedActive, clockVars>>

\* No file could be downloaded.
DownloadFails(k) ==
    /\ At(k, "download")
    /\ End(k)
    /\ UNCHANGED <<inbox, seen, routerVars, calls, ctxs, savedActive, clockVars>>

Handle(k) ==
    \/ SkipDuplicate(k) \/ RecordNew(k) \/ Answer(k)
    \/ FindAgent(k) \/ Switch(k) \/ ReadActive(k) \/ Enqueue(k)
    \/ PutContext(k) \/ Backfill(k) \/ DownloadFails(k)

----------------------------------------------------------------------------
(* The agents' API.                                                        *)

\* handleRegister: the registry ...
Register(a) ==
    /\ calls[a] = NoCall
    /\ registered' = registered \cup {a}
    /\ calls' = [calls EXCEPT ![a].st = "activate"]
    /\ UNCHANGED <<inbox, handlers, seen, active, queue, ctxs, savedActive, clockVars>>

\* ... the active agent, if there is none ...
Activate(a) ==
    /\ calls[a].st = "activate"
    /\ active' = IF active = NoAgent THEN a ELSE active
    /\ calls' = [calls EXCEPT ![a] = [st |-> "save", active |-> active']]
    /\ UNCHANGED <<inbox, handlers, seen, registered, queue, ctxs, savedActive, clockVars>>

\* ... and SetState, whose failure is only logged.
Save(a) ==
    /\ calls[a].st = "save"
    /\ savedActive' \in {calls[a].active, savedActive}
    /\ calls' = [calls EXCEPT ![a] = NoCall]
    /\ UNCHANGED <<inbox, handlers, seen, routerVars, ctxs, clockVars>>

\* handlePoll.  (An agent once registered stays so: the check and the drain
\* are one step.)
Poll(a) ==
    /\ a \in registered
    /\ queue' = [queue EXCEPT ![a] = <<>>]
    /\ UNCHANGED <<inbox, handlers, seen, registered, active, calls, ctxs, savedActive,
                   clockVars>>

AgentStep == \E a \in Agents : Register(a) \/ Activate(a) \/ Save(a) \/ Poll(a)

----------------------------------------------------------------------------
(* Time, the cleanup of contexts, and crashes.                             *)

Tick ==
    /\ now < MaxTime
    /\ now' = now + 1
    /\ UNCHANGED <<inbox, memoryVars, savedActive, crashes>>

\* Variant: the cleanup keeps nothing that is older than its last run.
CurrentShort == {i \in DOMAIN ctxs : now = ctxs[i]}

Current == {i \in DOMAIN ctxs : now - ctxs[i] <= CtxTtl}

Cleanup ==
    /\ ctxs' = Keep(ctxs, Current)
    /\ UNCHANGED <<inbox, handlers, seen, routerVars, calls, savedActive, clockVars>>

\* The process ends and is started again; main restores the active agent.
CrashRestart ==
    /\ crashes < MaxCrashes
    /\ crashes' = crashes + 1
    /\ handlers' = [k \in DOMAIN handlers |-> Done]
    /\ seen' = Empty /\ ctxs' = Empty
    /\ registered' = {} /\ active' = savedActive /\ queue' = [a \in Agents |-> <<>>]
    /\ calls' = [a \in Agents |-> NoCall]
    /\ UNCHANGED <<inbox, savedActive, now>>

Next ==
    \/ Push \/ PushAgain
    \/ \E k \in DOMAIN handlers : Handle(k)
    \/ AgentStep
    \/ Tick \/ Cleanup \/ CrashRestart

Spec == Init /\ [][Next]_vars

----------------------------------------------------------------------------
(* Properties.                                                             *)

Entries == UNION {{queue[a][j] : j \in DOMAIN queue[a]} : a \in Agents}

\* A message is queued twice only if the dedup cache had forgotten it in
\* between, although Feishu pushes events again while the handler of the first
\* one is still at work, and handlers overtake each other.
DuplicatesAreLate ==
    \A a, b \in Agents : \A i \in DOMAIN queue[a], j \in DOMAIN queue[b] :
        LET d == queue[a][i]  e == queue[b][j] IN
        /\ d.id = e.id
        /\ <<a, i>> # <<b, j>>
        => d.at > e.at + DedupTtl \/ e.at > d.at + DedupTtl

\* A message waiting in a queue can be answered: its context is recorded, or
\* some handler is just about to record it, or CtxTtl has passed.  A handler
\* queues first and records then, while agents poll and the cleanup runs.
AnswerableWhileQueued ==
    \A e \in Entries :
        \/ e.id \in DOMAIN ctxs
        \/ \E k \in DOMAIN handlers : At(k, "put") /\ Msg(k) = e.id
        \/ now - e.at > CtxTtl

\* Neither a message nor a file gets into a queue that a refused sender sent, or
\* that was not addressed to the bot in a group.
OnlyAdmittedQueued ==
    \A e \in Entries : \A i \in {e.id, e.media} \ {0} :
        inbox[i].user \notin Blocked /\ (inbox[i].group => inbox[i].mention)
=============================================================================
