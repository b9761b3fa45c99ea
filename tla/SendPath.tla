------------------------------ MODULE SendPath ------------------------------
(***************************************************************************)
(* How the WeChat gateway sends (gateway/src/main.rs): the circuit breaker *)
(* (CircuitBreaker, resilient_send) and the typing indicator               *)
(* (TypingTicketCache, with_typing), which the long-poll loop and the      *)
(* reply processor share.                                                  *)
(*                                                                         *)
(* Instants are kept as the time that is left: of a sleep, of a ticket, of *)
(* the breaker's cooldown and window.  Tick lets them all get shorter.  A   *)
(* send awaits or locks at every step, so the senders interleave           *)
(* everywhere.                                                             *)
(***************************************************************************)
EXTENDS Naturals, Sequences, FiniteSets

CONSTANTS
    Senders,    \* the tasks that send
    Users,      \* the users they send to
    NoUser,     \* the user of a sender that has nothing to send
    Threshold,  \* failures that open the breaker
    Window,     \* 30 s: how long a failure counts
    Cooldown,   \* 30 s: how long the breaker stays open
    Delays,     \* the pauses after errcode -2: 1, 2, 4 and 8 s
    TicketTtl,  \* 600 s: life of a typing ticket
    TicketWait  \* 10 s: how long to wait for the fetch of another task

ASSUME SendAssumption ==
    /\ NoUser \notin Users
    /\ {Threshold, Window, Cooldown, TicketTtl, TicketWait} \subseteq Nat \ {0}
    /\ Delays \in Seq(Nat) /\ Len(Delays) > 0

VARIABLES
    task,      \* what each sender is doing
    tickets,   \* user -> time its typing ticket has left (0: expired)
    inFlight,  \* users a ticket is being fetched for
    failures,  \* time each recorded failure still counts
    open,      \* time the breaker stays open, 0 when closed
    typing,    \* users whose last typing request was status 1
    quiet      \* history: time left of a cooldown since the last failure

vars == <<task, tickets, inFlight, failures, open, typing, quiet>>

Attempts == Len(Delays)

\* token: the requests carry the context_token, until an errcode -14; attempt:
\* how many were made; got: get_or_fetch has a ticket; accepted (history): how
\* often the platform took the message.
Idle == [st |-> "idle", user |-> NoUser, typing |-> FALSE, token |-> TRUE, attempt |-> 0,
         wait |-> 0, got |-> FALSE, accepted |-> 0]

Init ==
    /\ task = [s \in Senders |-> Idle]
    /\ tickets = [u \in {} |-> 0] /\ inFlight = {}
    /\ failures = <<>> /\ open = 0
    /\ typing = {}
    /\ quiet = 0

At(s, step) == task[s].st = step
Goto(s, step) == task' = [task EXCEPT ![s].st = step]
User(s) == task[s].user

\* get: a ticket that has not expired.
Live(u) == u \in DOMAIN tickets /\ tickets[u] > 0

breakerVars == <<failures, open, quiet>>
typingVars  == <<tickets, inFlight, typing>>

----------------------------------------------------------------------------
(* The typing indicator.                                                   *)

\* A message to send, wrapped in with_typing or, for the note of an extra
\* file, not.
Start(s) ==
    /\ At(s, "idle")
    /\ \E u \in Users, t \in BOOLEAN :
          task' = [task EXCEPT ![s] =
                     [Idle EXCEPT !.st = IF t THEN "ticket" ELSE "check", !.user = u,
                                  !.typing = t]]
    /\ UNCHANGED <<typingVars, breakerVars>>

CachedTicket(s) ==
    /\ At(s, "ticket")
    /\ Live(User(s))
    /\ Goto(s, "show")
    /\ UNCHANGED <<typingVars, breakerVars>>

NoTicket(s) ==
    /\ At(s, "ticket")
    /\ ~Live(User(s))
    /\ Goto(s, "claim")
    /\ UNCHANGED <<typingVars, breakerVars>>

Claimable(u) == u \notin inFlight

Claim(s) ==
    /\ At(s, "claim")
    /\ Claimable(User(s))
    /\ inFlight' = inFlight \cup {User(s)}
    /\ Goto(s, "fetch")
    /\ UNCHANGED <<tickets, typing, breakerVars>>

\* Somebody else is fetching: look again every 100 ms, for TicketWait.
Await(s) ==
    /\ At(s, "claim")
    /\ ~Claimable(User(s))
    /\ task' = [task EXCEPT ![s].st = "await", ![s].wait = TicketWait]
    /\ UNCHANGED <<typingVars, breakerVars>>

AwaitedTicket(s) ==
    /\ At(s, "await")
    /\ Live(User(s))
    /\ task' = [task EXCEPT ![s].st = "show", ![s].wait = 0]
    /\ UNCHANGED <<typingVars, breakerVars>>

\* Variant: the wait has no deadline.
OverdueNever(s) == FALSE

Overdue(s) == task[s].wait = 0

GiveUp(s) ==
    /\ At(s, "await")
    /\ Overdue(s)
    /\ Goto(s, "check")
    /\ UNCHANGED <<typingVars, breakerVars>>

\* fetch_and_cache.
Fetched(s) ==
    /\ At(s, "fetch")
    /\ tickets' = [u \in DOMAIN tickets \cup {User(s)} |->
                     IF u = User(s) THEN TicketTtl ELSE tickets[u]]
    /\ task' = [task EXCEPT ![s].st = "release", ![s].got = TRUE]
    /\ UNCHANGED <<inFlight, typing, breakerVars>>

FetchFails(s) ==
    /\ At(s, "fetch")
    /\ Goto(s, "release")
    /\ UNCHANGED <<typingVars, breakerVars>>

\* Variant: the slot is given back only with a ticket.
ReleasedIfGot(s) == IF task[s].got THEN inFlight \ {User(s)} ELSE inFlight

Released(s) == inFlight \ {User(s)}

Release(s) ==
    /\ At(s, "release")
    /\ inFlight' = Released(s)
    /\ task' = [task EXCEPT ![s].st = IF task[s].got THEN "show" ELSE "check",
                            ![s].got = FALSE]
    /\ UNCHANGED <<tickets, typing, breakerVars>>

\* The request with status 1; how it ends is ignored.
Show(s) ==
    /\ At(s, "show")
    /\ typing' = typing \cup {User(s)}
    /\ Goto(s, "check")
    /\ UNCHANGED <<tickets, inFlight, breakerVars>>

\* Variant: stop_typing takes live tickets only.
HasTicketLive(u) == Live(u)

\* stop_typing takes the ticket as it is, expired or not.
HasTicket(u) == u \in DOMAIN tickets

Hide(s) ==
    /\ At(s, "done")
    /\ task[s].typing
    /\ typing' = IF HasTicket(User(s)) THEN typing \ {User(s)} ELSE typing
    /\ task' = [task EXCEPT ![s] = Idle]
    /\ UNCHANGED <<tickets, inFlight, breakerVars>>

\* The end of a send without with_typing.
Return(s) ==
    /\ At(s, "done")
    /\ ~task[s].typing
    /\ task' = [task EXCEPT ![s] = Idle]
    /\ UNCHANGED <<typingVars, breakerVars>>

----------------------------------------------------------------------------
(* resilient_send.                                                         *)

RecordSuccess == failures' = <<>> /\ open' = 0 /\ quiet' = 0

\* Variant: the breaker keeps the time it first opened at.
OpenForFirst == IF open > 0 THEN open ELSE Cooldown

OpenFor == Cooldown

\* (The failures that are older than Window are dropped by Tick.)
RecordFailure ==
    /\ failures' = Append(failures, Window)
    /\ open' = IF Len(failures) + 1 >= Threshold THEN OpenFor ELSE open
    /\ quiet' = Cooldown

Skip(s) ==
    /\ At(s, "check")
    /\ open > 0
    /\ Goto(s, "done")
    /\ UNCHANGED <<typingVars, breakerVars>>

Enter(s) ==
    /\ At(s, "check")
    /\ open = 0
    /\ Goto(s, "send")
    /\ UNCHANGED <<typingVars, breakerVars>>

\* How the platform answers: errcode 0, -2, -14 or another one, or not at all,
\* which may be before or after it took the message.
Outcomes == {"ok", "limit", "session", "refused", "broken"}
Takes(o) == CASE o = "ok" -> {1} [] o = "broken" -> {0, 1} [] OTHER -> {0}

\* Variant: what got no answer is sent again.
RetriedIfBroken(s, o) == o \in {"limit", "broken"} \/ (o = "session" /\ task[s].token)

Retried(s, o) == o = "limit" \/ (o = "session" /\ task[s].token)

\* resilient_send returns.
Ended(t) == [t EXCEPT !.st = "done", !.attempt = 0]

\* send_message, and what follows up to the next await.
Send(s) ==
    /\ At(s, "send")
    /\ task[s].attempt < Attempts
    /\ \E o \in Outcomes : \E n \in Takes(o) :
          LET t == [task[s] EXCEPT !.attempt = @ + 1, !.accepted = @ + n] IN
          \/ /\ o = "ok"
             /\ RecordSuccess
             /\ task' = [task EXCEPT ![s] = Ended(t)]
          \/ /\ Retried(s, o)
             /\ task' = [task EXCEPT ![s] =
                   IF o = "session" THEN [t EXCEPT !.token = FALSE]
                   ELSE [t EXCEPT !.st = "sleep", !.wait = Delays[t.attempt]]]
             /\ UNCHANGED breakerVars
          \/ /\ o # "ok" /\ ~Retried(s, o)
             /\ RecordFailure
             /\ task' = [task EXCEPT ![s] = Ended(t)]
    /\ UNCHANGED typingVars

Resend(s) ==
    /\ At(s, "sleep")
    /\ task[s].wait = 0
    /\ Goto(s, "send")
    /\ UNCHANGED <<typingVars, breakerVars>>

\* All the attempts are made.
Exhausted(s) ==
    /\ At(s, "send")
    /\ task[s].attempt = Attempts
    /\ RecordFailure
    /\ task' = [task EXCEPT ![s] = Ended(task[s])]
    /\ UNCHANGED typingVars

----------------------------------------------------------------------------
(* Time.                                                                   *)

Less(n) == IF n = 0 THEN 0 ELSE n - 1

\* The failures still in the window: those that leave it are the first, as they
\* are kept in the order they were recorded.
Aged(f) ==
    LET old == Cardinality({i \in DOMAIN f : f[i] <= 1}) IN
    [i \in 1..(Len(f) - old) |-> f[i + old] - 1]

Tick ==
    /\ task' = [s \in Senders |-> [task[s] EXCEPT !.wait = Less(@)]]
    /\ tickets' = [u \in DOMAIN tickets |-> Less(tickets[u])]
    /\ failures' = Aged(failures)
    /\ open' = Less(open)
    /\ quiet' = Less(quiet)
    /\ UNCHANGED <<inFlight, typing>>

Step(s) ==
    \/ CachedTicket(s) \/ NoTicket(s) \/ Claim(s) \/ Await(s) \/ AwaitedTicket(s) \/ GiveUp(s)
    \/ Fetched(s) \/ FetchFails(s) \/ Release(s) \/ Show(s) \/ Hide(s) \/ Return(s)
    \/ Skip(s) \/ Enter(s) \/ Send(s) \/ Resend(s) \/ Exhausted(s)

Next ==
    \/ \E s \in Senders : Start(s) \/ Step(s)
    \/ Tick

Spec == Init /\ [][Next]_vars

\* Time passes, and a task goes on: every request ends, if only by the 90 s
\* timeout of the HTTP client (ilink/client.rs).
FairSpec == Spec /\ WF_vars(Tick) /\ \A s \in Senders : WF_vars(Step(s))

----------------------------------------------------------------------------
(* Properties.                                                             *)

\* However often it is retried, a message reaches its user at most once: only
\* what the platform has refused is sent again, never what it may have taken.
AtMostOnce == \A s \in Senders : task[s].accepted <= 1

\* The in-flight slot of a user is held by exactly the one task that fetches
\* the user's ticket, so that there is never a second fetch at the same time,
\* nor a slot that stays taken and lets every later reply to the user wait.
OneFetchEach ==
    /\ \A s, t \in Senders :
          /\ At(s, "fetch") \/ At(s, "release")
          /\ At(t, "fetch") \/ At(t, "release")
          /\ User(s) = User(t)
          => s = t
    /\ inFlight = {User(s) : s \in {s \in Senders : At(s, "fetch") \/ At(s, "release")}}

\* With the program's threshold of one failure: after a failed send no task
\* begins another for a full Cooldown, unless a send has succeeded since.  A
\* second failure, of a task that was already sending, starts the Cooldown anew.
QuietAfterFailure == [][\A s \in Senders : Enter(s) => quiet = 0 \/ Threshold > 1]_vars

\* Whoever showed a user the typing indicator takes it back, however long the
\* send took, expired ticket or not: it is on only while some task sends to
\* that user.
TypingEnds ==
    \A u \in typing : \E s \in Senders :
        User(s) = u /\ task[s].st \in {"check", "send", "sleep", "done"}

\* Every send comes to its end, whatever the platform answers and whoever is
\* fetching the ticket it waits for.
EverySendEnds == \A s \in Senders : ~At(s, "idle") ~> At(s, "idle")
=============================================================================
