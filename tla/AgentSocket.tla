---------------------------- MODULE AgentSocket ----------------------------
(***************************************************************************)
(* The WebSocket connections of agents (gateway/src/api/ws.rs and          *)
(* agents/ws_registry.rs): the registry with one sender per agent's name,  *)
(* and for each connection the task that writes to it and the task that    *)
(* reads from it.  What a connection's reader does with a reply is in      *)
(* WechatGateway (Answer, SendFirst).                                      *)
(***************************************************************************)
EXTENDS Naturals, Sequences, FiniteSets

CONSTANTS
    Names,    \* names of agents
    Conns,    \* connections
    None,     \* no connection, or no name
    MaxPush   \* bound: messages pushed

ASSUME SocketAssumption ==
    /\ None \notin Names \cup Conns
    /\ MaxPush \in Nat

VARIABLES
    slot,     \* WsRegistry: name -> the connection whose sender it holds
    name,     \* the name a connection was opened under
    reader,   \* handle_socket: "new", "reading", "ending" or "ended"
    writer,   \* the spawned send task runs
    chan,     \* messages in the connection's channel
    peer,     \* whether the agent's end is "up" or "gone"
    pushed,   \* messages pushed so far: the name each was for
    got,      \* messages each agent's end has received
    newest    \* history: name -> the connection opened last

vars == <<slot, name, reader, writer, chan, peer, pushed, got, newest>>

Init ==
    /\ slot = [n \in Names |-> None]
    /\ name = [c \in Conns |-> None]
    /\ reader = [c \in Conns |-> "new"]
    /\ writer = [c \in Conns |-> FALSE]
    /\ chan = [c \in Conns |-> <<>>]
    /\ peer = [c \in Conns |-> "up"]
    /\ pushed = <<>>
    /\ got = [c \in Conns |-> <<>>]
    /\ newest = [n \in Names |-> None]

----------------------------------------------------------------------------

\* Variant: the first connection stays.
RegisteredFirst(n, c) == IF slot[n] = None THEN c ELSE slot[n]

\* register: the sender of an older connection is replaced.
Registered(n, c) == c

\* An upgrade of GET /ws/agents/{name}.
Open(c, n) ==
    /\ reader[c] = "new"
    /\ reader' = [reader EXCEPT ![c] = "reading"]
    /\ writer' = [writer EXCEPT ![c] = TRUE]
    /\ name' = [name EXCEPT ![c] = n]
    /\ slot' = [slot EXCEPT ![n] = Registered(n, c)]
    /\ newest' = [newest EXCEPT ![n] = c]
    /\ UNCHANGED <<chan, peer, pushed, got>>

\* The channel of a sender takes messages as long as its receiver is alive.
Reachable(c) == writer[c]

\* push: into the channel of the registered sender.
Push(n) ==
    /\ Len(pushed) < MaxPush
    /\ pushed' = Append(pushed, n)
    /\ chan' = [c \in Conns |-> IF c = slot[n] /\ Reachable(c)
                                THEN Append(chan[c], Len(pushed) + 1) ELSE chan[c]]
    /\ UNCHANGED <<slot, name, reader, writer, peer, got, newest>>

\* Variant: a message that was written is left in the channel.
RestIfWritten(c) == IF peer[c] = "up" THEN chan[c] ELSE Tail(chan[c])

Rest(c) == Tail(chan[c])

\* Variant: a connection that was replaced does not write any more.
WritesIfRegistered(c) == writer[c] /\ slot[name[c]] = c

Writes(c) == writer[c]

\* The send task writes the next message; one to an end that is gone may still
\* seem to be written.
Write(c) ==
    /\ Writes(c) /\ chan[c] # <<>>
    /\ chan' = [chan EXCEPT ![c] = Rest(c)]
    /\ got' = IF peer[c] = "up" THEN [got EXCEPT ![c] = Append(@, Head(chan[c]))] ELSE got
    /\ UNCHANGED <<slot, name, reader, writer, peer, pushed, newest>>

\* A write or a ping fails, and the send task ends; its receiver is dropped.
WriteFails(c) ==
    /\ writer[c] /\ peer[c] = "gone"
    /\ writer' = [writer EXCEPT ![c] = FALSE]
    /\ chan' = [chan EXCEPT ![c] = <<>>]
    /\ UNCHANGED <<slot, name, reader, peer, pushed, got, newest>>

\* The agent closes its end, or it breaks.
Leave(c) ==
    /\ reader[c] # "new" /\ peer[c] = "up"
    /\ peer' = [peer EXCEPT ![c] = "gone"]
    /\ UNCHANGED <<slot, name, reader, writer, chan, pushed, got, newest>>

\* The reader leaves its loop, and aborts the send task.
Abort(c) ==
    /\ reader[c] = "reading"
    /\ reader' = [reader EXCEPT ![c] = "ending"]
    /\ writer' = [writer EXCEPT ![c] = FALSE]
    /\ chan' = [chan EXCEPT ![c] = <<>>]
    /\ UNCHANGED <<slot, name, pushed, got, newest>>

\* It gets the close frame, the end of the stream or the error of an end that
\* is gone.
ReadEnds(c) ==
    /\ peer[c] = "gone" /\ UNCHANGED peer
    /\ Abort(c)

\* It gets an error of a connection that is up, a frame that is none for one;
\* the socket is dropped, which ends the connection for the agent too.
ReadFails(c) ==
    /\ peer[c] = "up" /\ peer' = [peer EXCEPT ![c] = "gone"]
    /\ Abort(c)

\* Variant: the handler ends without taking its sender out.
UnregisteredNever(n) == slot

\* unregister: whatever sender is registered under the name goes.
Unregistered(n) == [slot EXCEPT ![n] = None]

Unregister(c) ==
    /\ reader[c] = "ending"
    /\ reader' = [reader EXCEPT ![c] = "ended"]
    /\ slot' = Unregistered(name[c])
    /\ UNCHANGED <<name, writer, chan, peer, pushed, got, newest>>

Handle(c) == Write(c) \/ WriteFails(c) \/ ReadEnds(c) \/ ReadFails(c) \/ Unregister(c)

Next ==
    \/ \E n \in Names : Push(n) \/ \E c \in Conns : Open(c, n)
    \/ \E c \in Conns : Leave(c) \/ Handle(c)

Spec == Init /\ [][Next]_vars

\* The runtime keeps scheduling both tasks of a connection, and TCP, with a ping
\* to send every 30 s, does not leave them waiting for an end that is gone.
FairSpec == Spec /\ \A c \in Conns : WF_vars(Write(c)) /\ WF_vars(ReadEnds(c) \/ Unregister(c))

----------------------------------------------------------------------------
(* Properties.                                                             *)

\* A connection that was replaced is never pushed to again, whatever the order
\* in which old and new connections end.
ReplacedForGood == \A n \in Names : slot[n] \in {None, newest[n]}

\* The registry forgets a connection no later than its handler ends: a push
\* never goes to the channel of a connection that has ended.
EndedIsForgotten == \A n \in Names : slot[n] # None => reader[slot[n]] # "ended"

\* Over all the connections an agent has ever had, it receives a message at
\* most once, only its own, and each connection delivers in the order pushed.
InOrderOnce ==
    /\ \A c \in Conns : \A i, j \in DOMAIN got[c] : i < j => got[c][i] < got[c][j]
    /\ \A c, d \in Conns : \A i \in DOMAIN got[c], j \in DOMAIN got[d] :
          got[c][i] = got[d][j] => c = d
    /\ \A c \in Conns : \A i \in DOMAIN got[c] : pushed[got[c][i]] = name[c]

InChan(c, i) == \E k \in DOMAIN chan[c] : chan[c][k] = i
Received(c, i) == \E k \in DOMAIN got[c] : got[c][k] = i

\* A message accepted for a connection arrives there, unless the agent's end
\* goes or the connection breaks first, and also if another connection replaces
\* this one meanwhile.
AcceptedArrives ==
    \A c \in Conns : \A i \in 1..MaxPush :
        InChan(c, i) ~> Received(c, i) \/ peer[c] = "gone"
=============================================================================
