---------------------------- MODULE SendPathProofs ----------------------------
(***************************************************************************)
(* Proofs about how the WeChat gateway sends (SendPath), for any number of *)
(* senders and users, any schedule of retries, and any times of tickets,   *)
(* window and cooldown.                                                    *)
(***************************************************************************)
EXTENDS SendPath, FiniteSetTheorems, TLAPS

Steps == {"idle", "ticket", "claim", "await", "fetch", "release", "show", "check", "send",
          "sleep", "done"}

Task == [st: Steps, user: Users \cup {NoUser}, typing: BOOLEAN, token: BOOLEAN,
         attempt: 0..Attempts, wait: Nat, got: BOOLEAN, accepted: {0, 1}]

\* with_typing, before the request that shows the indicator has been made.
Preparing == {"ticket", "claim", "await", "fetch", "release", "show"}

\* A send by itself: nothing was accepted before it is over, and the indicator
\* is shown only with a ticket in the cache.
TaskOK(t) ==
    /\ t \in Task
    /\ t.st # "done" => t.accepted = 0
    /\ t.st # "idle" => t.user \in Users
    /\ t.st \in Preparing => t.typing
    /\ t.st = "show" \/ t.got => t.user \in DOMAIN tickets

TasksOK == task \in [Senders -> Task] /\ \A s \in Senders : TaskOK(task[s])

\* A task has the in-flight slot of its user.
Fetching(t) == t.st \in {"fetch", "release"}

\* A task will take the indicator back.
Showing(t) == t.typing /\ t.st \in {"check", "send", "sleep", "done"}

\* The indicator is on only for users whose ticket is in the cache, and for
\* whom some task that will take it back is sending.
TypingInv ==
    /\ typing \subseteq DOMAIN tickets
    /\ \A u \in typing : \E s \in Senders : task[s].user = u /\ Showing(task[s])

SendInv == TasksOK /\ OneFetchEach /\ TypingInv

----------------------------------------------------------------------------

LEMMA IdleOK == TaskOK(Idle)
<1>1. Attempts \in Nat
  BY SendAssumption DEF Attempts
<1>2. Idle \in Task
  BY <1>1 DEF Idle, Task, Steps
<1>3. QED
  BY <1>2 DEF TaskOK, Idle, Preparing

\* A send that is over.
LEMMA EndedShape ==
    ASSUME NEW t \in Task
    PROVE  /\ Ended(t) \in Task /\ Ended(t).st = "done"
           /\ Ended(t).user = t.user /\ Ended(t).typing = t.typing /\ Ended(t).got = t.got
<1>1. 0 \in 0..Attempts
  BY SendAssumption DEF Attempts
<1>2. QED
  BY <1>1 DEF Ended, Task, Steps

\* A send that has been given what to send.
Started(u, b) == [Idle EXCEPT !.st = IF b THEN "ticket" ELSE "check", !.user = u, !.typing = b]

LEMMA StartedShape ==
    ASSUME NEW u \in Users, NEW b \in BOOLEAN
    PROVE  /\ Started(u, b) \in Task /\ Started(u, b).accepted = 0
           /\ Started(u, b).user = u /\ ~Started(u, b).got
           /\ \/ Started(u, b).st = "ticket" /\ Started(u, b).typing
              \/ Started(u, b).st = "check"
<1>1. 0 \in 0..Attempts
  BY SendAssumption DEF Attempts
<1>2. CASE b = TRUE
  BY <1>1, <1>2 DEF Started, Idle, Task, Steps
<1>3. CASE b = FALSE
  BY <1>1, <1>3 DEF Started, Idle, Task, Steps
<1>4. QED
  BY <1>2, <1>3

\* A send that has made one more attempt.
Attempted(t, n) == [t EXCEPT !.attempt = @ + 1, !.accepted = @ + n]

LEMMA AttemptShape ==
    ASSUME NEW t \in Task, t.attempt < Attempts, t.accepted = 0, NEW n \in {0, 1}, NEW m,
           m = Attempted(t, n)
    PROVE  /\ m \in Task /\ m.accepted = n /\ m.st = t.st /\ m.attempt \in 1..Attempts
           /\ m.user = t.user /\ m.typing = t.typing /\ m.got = t.got
<1>1. Attempts \in Nat
  BY SendAssumption DEF Attempts
<1> DEFINE k == t.attempt + 1
<1>2. k \in 1..Attempts /\ k \in 0..Attempts /\ t.accepted + n = n
  BY <1>1 DEF Task
<1>3. m = [t EXCEPT !.attempt = k, !.accepted = n]
  BY <1>2 DEF Attempted
<1> HIDE DEF k
<1>4. QED
  BY <1>2, <1>3 DEF Task

\* What one step of a sender does to its own record, to the slots and to the
\* indicators.
LEMMA StepShape ==
    ASSUME SendInv, NEW s \in Senders, Start(s) \/ Step(s)
    PROVE  /\ task' \in [Senders -> Task]
           /\ \A r \in Senders \ {s} : task'[r] = task[r]
           /\ TaskOK(task[s])'
           /\ DOMAIN tickets \subseteq DOMAIN tickets'
           /\ \/ Claim(s)
              \/ Release(s)
              \/ /\ UNCHANGED inFlight
                 /\ Fetching(task[s]) <=> Fetching(task'[s])
                 /\ Fetching(task[s]) => task'[s].user = task[s].user
           /\ \/ Show(s)
              \/ Hide(s)
              \/ /\ UNCHANGED typing
                 /\ Showing(task[s]) => Showing(task'[s]) /\ task'[s].user = task[s].user
<1> DEFINE t == task[s]
<1>0. task \in [Senders -> Task] /\ TaskOK(t) /\ t \in Task /\ Attempts \in Nat
      /\ TicketWait \in Nat /\ \A i \in 1..Attempts : Delays[i] \in Nat
  BY SendAssumption DEF SendInv, TasksOK, TaskOK, Attempts
<1>1. CASE Start(s)
  <2>1. PICK u \in Users, b \in BOOLEAN : task' = [task EXCEPT ![s] = Started(u, b)]
    BY <1>1, Zenon DEF Start, Started
  <2> DEFINE n == Started(u, b)
  <2>2. /\ n \in Task /\ n.accepted = 0 /\ n.user = u /\ ~n.got
        /\ \/ n.st = "ticket" /\ n.typing
           \/ n.st = "check"
    BY StartedShape
  <2>3. task' = [task EXCEPT ![s] = n]
    BY <2>1
  <2> HIDE DEF n
  <2>4. t.st = "idle" /\ UNCHANGED <<tickets, inFlight, typing>>
    BY <1>1 DEF Start, At, typingVars
  <2>5. QED
    BY <1>0, <2>2, <2>3, <2>4 DEF TaskOK, Task, Steps, Fetching, Showing, At, Preparing, Goto, User, typingVars
<1> USE <1>0 DEF TaskOK, Task, Steps, Preparing, Fetching, Showing, At, Goto, User, typingVars
<1>2. CASE CachedTicket(s)
  BY <1>2 DEF CachedTicket, Live
<1>3. CASE NoTicket(s)
  BY <1>3 DEF NoTicket
<1>4. CASE Claim(s)
  BY <1>4 DEF Claim
<1>5. CASE Await(s)
  BY <1>5 DEF Await
<1>6. CASE AwaitedTicket(s)
  BY <1>6 DEF AwaitedTicket, Live
<1>7. CASE GiveUp(s)
  BY <1>7 DEF GiveUp
<1>8. CASE Fetched(s)
  BY <1>8 DEF Fetched
<1>9. CASE FetchFails(s)
  BY <1>9 DEF FetchFails
<1>10. CASE Release(s)
  BY <1>10 DEF Release
<1>11. CASE Show(s)
  BY <1>11 DEF Show
<1>12. CASE Hide(s)
  BY <1>12, IdleOK DEF Hide, Idle
<1>13. CASE Return(s)
  BY <1>13, IdleOK DEF Return, Idle
<1>14. CASE Skip(s)
  BY <1>14 DEF Skip
<1>15. CASE Enter(s)
  BY <1>15 DEF Enter
<1>16. CASE Send(s)
  <2>1. t.st = "send" /\ t.attempt < Attempts /\ t.accepted = 0 /\ UNCHANGED <<tickets, inFlight, typing>>
    BY <1>16 DEF Send
  <2>2. PICK o \in Outcomes, n \in {0, 1} :
          n \in Takes(o) /\
          LET t2 == Attempted(t, n) IN
          \/ task' = [task EXCEPT ![s] = Ended(t2)]
          \/ /\ Retried(s, o)
             /\ task' = [task EXCEPT ![s] =
                   IF o = "session" THEN [t2 EXCEPT !.token = FALSE]
                   ELSE [t2 EXCEPT !.st = "sleep", !.wait = Delays[t2.attempt]]]
    BY <1>16 DEF Send, Outcomes, Takes, Attempted
  <2> DEFINE t2 == Attempted(t, n)
  <2>3. n \in {0, 1} /\ (Retried(s, o) => n = 0)
    BY <2>2 DEF Outcomes, Takes, Retried
  <2>a. t \in Task
    OBVIOUS
  <2> HIDE DEF Task, t
  <2>4. /\ t2 \in Task /\ t2.accepted = n /\ t2.st = "send" /\ t2.attempt \in 1..Attempts
        /\ t2.user = t.user /\ t2.typing = t.typing /\ t2.got = t.got
    BY <2>1, <2>3, <2>a, AttemptShape
  <2> HIDE DEF t2
  <2>5. CASE task' = [task EXCEPT ![s] = Ended(t2)]
    BY <2>1, <2>3, <2>4, <2>5, EndedShape DEF t, Task
  <2>6. CASE Retried(s, o) /\ task' = [task EXCEPT ![s] = [t2 EXCEPT !.token = FALSE]]
    BY <2>1, <2>3, <2>4, <2>6 DEF t, Task
  <2>7. CASE /\ Retried(s, o)
             /\ task' = [task EXCEPT ![s] = [t2 EXCEPT !.st = "sleep", !.wait = Delays[t2.attempt]]]
    BY <2>1, <2>3, <2>4, <2>7 DEF t, Task
  <2>8. QED
    BY <2>2, <2>5, <2>6, <2>7 DEF t, t2
<1>17. CASE Resend(s)
  BY <1>17 DEF Resend
<1>18. CASE Exhausted(s)
  <2>1. t.st = "send" /\ UNCHANGED <<tickets, inFlight, typing>>
        /\ task' = [task EXCEPT ![s] = Ended(t)]
    BY <1>18 DEF Exhausted
  <2>2. QED
    BY <2>1, EndedShape
<1>19. QED
  BY <1>1, <1>2, <1>3, <1>4, <1>5, <1>6, <1>7, <1>8, <1>9, <1>10, <1>11, <1>12, <1>13, <1>14,
     <1>15, <1>16, <1>17, <1>18 DEF Step

\* The slots and the records of the tasks, one step.
LEMMA TickShape ==
    ASSUME SendInv, Tick
    PROVE  /\ task' \in [Senders -> Task] /\ \A s \in Senders : TaskOK(task[s])'
           /\ \A s \in Senders : task'[s].st = task[s].st /\ task'[s].user = task[s].user
                                 /\ task'[s].typing = task[s].typing
           /\ DOMAIN tickets' = DOMAIN tickets /\ UNCHANGED <<inFlight, typing>>
<1>1. task \in [Senders -> Task] /\ \A s \in Senders : TaskOK(task[s])
  BY DEF SendInv, TasksOK
<1>2. DOMAIN tickets' = DOMAIN tickets /\ UNCHANGED <<inFlight, typing>>
  BY DEF Tick
<1>3. ASSUME NEW s \in Senders
      PROVE  /\ task'[s] \in Task
             /\ task'[s].st = task[s].st /\ task'[s].user = task[s].user
             /\ task'[s].typing = task[s].typing /\ task'[s].got = task[s].got
             /\ task'[s].accepted = task[s].accepted
  <2>1. task[s] \in Task /\ task'[s] = [task[s] EXCEPT !.wait = Less(task[s].wait)]
    BY <1>1 DEF Tick
  <2>2. Less(task[s].wait) \in Nat
    BY <2>1 DEF Less, Task
  <2> HIDE DEF Less
  <2>3. QED
    BY <2>1, <2>2 DEF Task
<1>4. task' \in [Senders -> Task]
  BY <1>3 DEF Tick
<1>5. \A s \in Senders : TaskOK(task[s])'
  BY <1>1, <1>2, <1>3 DEF TaskOK
<1>6. QED
  BY <1>2, <1>3, <1>4, <1>5

LEMMA TasksStep == SendInv /\ [Next]_vars => TasksOK'
<1> SUFFICES ASSUME SendInv, [Next]_vars PROVE TasksOK'
  OBVIOUS
<1>1. CASE \E s \in Senders : Start(s) \/ Step(s)
  <2>1. PICK s \in Senders : Start(s) \/ Step(s)
    BY <1>1
  <2>2. \A r \in Senders : r # s => TaskOK(task[r])'
    BY <2>1, StepShape DEF SendInv, TasksOK, TaskOK
  <2>3. QED
    BY <2>1, <2>2, StepShape DEF TasksOK
<1>2. CASE Tick
  BY <1>2, TickShape DEF TasksOK
<1>3. CASE UNCHANGED vars
  BY <1>3 DEF vars, SendInv, TasksOK, TaskOK
<1>4. QED
  BY <1>1, <1>2, <1>3 DEF Next

\* OneFetchEach by the records: no two tasks have the slot of a user, and a slot
\* is taken exactly while some task has it.
Slots ==
    /\ \A s, r \in Senders : /\ Fetching(task[s]) /\ Fetching(task[r])
                             /\ task[s].user = task[r].user
                             => s = r
    /\ \A u : u \in inFlight <=> \E s \in Senders : Fetching(task[s]) /\ task[s].user = u

LEMMA SlotsAre == OneFetchEach <=> Slots
<1>1. ASSUME OneFetchEach PROVE Slots
  BY <1>1 DEF OneFetchEach, Slots, Fetching, At, User
<1>2. ASSUME Slots PROVE OneFetchEach
  BY <1>2 DEF OneFetchEach, Slots, Fetching, At, User
<1>3. QED
  BY <1>1, <1>2

LEMMA SlotsStep == SendInv /\ [Next]_vars => OneFetchEach'
<1> SUFFICES ASSUME SendInv, [Next]_vars, Slots PROVE Slots'
  BY SlotsAre, PTL DEF SendInv
<1>1. CASE \E s \in Senders : Start(s) \/ Step(s)
  <2>1. PICK s \in Senders : Start(s) \/ Step(s)
    BY <1>1
  <2>2. \A r \in Senders \ {s} : task'[r] = task[r]
    BY <2>1, StepShape
  <2>3. task[s] \in Task /\ task'[s] \in Task
    BY <2>1, StepShape DEF SendInv, TasksOK
  <2>4. CASE Claim(s)
    <3>1. /\ task[s].user \notin inFlight /\ inFlight' = inFlight \cup {task[s].user}
          /\ ~Fetching(task[s]) /\ Fetching(task'[s]) /\ task'[s].user = task[s].user
      BY <2>3, <2>4 DEF Claim, Claimable, Goto, At, User, Fetching, SendInv, TasksOK, Task
    <3>2. QED
      BY <2>2, <3>1 DEF Slots
  <2>5. CASE Release(s)
    <3>1. /\ inFlight' = inFlight \ {task[s].user}
          /\ Fetching(task[s]) /\ ~Fetching(task'[s])
      BY <2>3, <2>5 DEF Release, Released, At, User, Fetching, SendInv, TasksOK, Task
    <3>2. QED
      BY <2>2, <3>1 DEF Slots
  <2>6. CASE /\ UNCHANGED inFlight
             /\ Fetching(task[s]) <=> Fetching(task'[s])
             /\ Fetching(task[s]) => task'[s].user = task[s].user
    BY <2>2, <2>6 DEF Slots
  <2>7. QED
    BY <2>1, <2>4, <2>5, <2>6, StepShape
<1>2. CASE Tick
  <2>1. UNCHANGED inFlight /\ \A s \in Senders :
          task'[s].user = task[s].user /\ (Fetching(task'[s]) <=> Fetching(task[s]))
    BY <1>2, TickShape DEF Fetching
  <2>2. QED
    BY <2>1 DEF Slots
<1>3. CASE UNCHANGED vars
  BY <1>3 DEF vars, Slots
<1>4. QED
  BY <1>1, <1>2, <1>3 DEF Next

LEMMA TypingStep == SendInv /\ [Next]_vars => TypingInv'
<1> SUFFICES ASSUME SendInv, [Next]_vars PROVE TypingInv'
  OBVIOUS
<1>0. TypingInv
  BY DEF SendInv
<1>1. CASE \E s \in Senders : Start(s) \/ Step(s)
  <2>1. PICK s \in Senders : Start(s) \/ Step(s)
    BY <1>1
  <2>2. /\ \A r \in Senders \ {s} : task'[r] = task[r]
        /\ DOMAIN tickets \subseteq DOMAIN tickets'
    BY <2>1, StepShape
  <2>3. task[s] \in Task /\ task'[s] \in Task /\ TaskOK(task[s])
    BY <2>1, StepShape DEF SendInv, TasksOK
  <2>4. CASE Show(s)
    <3>1. /\ typing' = typing \cup {task[s].user} /\ UNCHANGED tickets
          /\ task[s].user \in DOMAIN tickets
          /\ ~Showing(task[s]) /\ Showing(task'[s]) /\ task'[s].user = task[s].user
      BY <2>3, <2>4 DEF Show, Goto, At, User, Showing, SendInv, TasksOK, TaskOK, Task, Preparing
    <3>2. QED
      BY <1>0, <2>2, <3>1 DEF TypingInv
  <2>5. CASE Hide(s)
    <3>1. typing' = typing \ {task[s].user} /\ UNCHANGED tickets
      BY <1>0, <2>5 DEF Hide, HasTicket, User, TypingInv
    <3>2. QED
      BY <1>0, <2>2, <3>1 DEF TypingInv
  <2>6. CASE /\ UNCHANGED typing
             /\ Showing(task[s]) => Showing(task'[s]) /\ task'[s].user = task[s].user
    BY <1>0, <2>2, <2>6 DEF TypingInv
  <2>7. QED
    BY <2>1, <2>4, <2>5, <2>6, StepShape
<1>2. CASE Tick
  <2>1. UNCHANGED typing /\ DOMAIN tickets' = DOMAIN tickets /\ \A s \in Senders :
          task'[s].user = task[s].user /\ (Showing(task[s]) => Showing(task'[s]))
    BY <1>2, TickShape DEF Showing
  <2>2. QED
    BY <1>0, <2>1 DEF TypingInv
<1>3. CASE UNCHANGED vars
  BY <1>0, <1>3 DEF vars, TypingInv
<1>4. QED
  BY <1>1, <1>2, <1>3 DEF Next

LEMMA SendInit == Init => SendInv
<1> SUFFICES ASSUME Init PROVE SendInv
  OBVIOUS
<1>1. Attempts \in Nat
  BY SendAssumption DEF Attempts
<1>2. TasksOK
  BY <1>1 DEF Init, Idle, TasksOK, TaskOK, Task, Steps, Preparing
<1>3. \A s \in Senders : ~At(s, "fetch") /\ ~At(s, "release")
  BY DEF Init, Idle, At
<1>4. inFlight = {} /\ OneFetchEach
  BY <1>3 DEF Init, OneFetchEach
<1>5. TypingInv
  BY DEF Init, TypingInv
<1>6. QED
  BY <1>2, <1>4, <1>5 DEF SendInv

\* In every reachable state each sender is at a step of a send, no two fetch a
\* ticket of one user, and an indicator that is shown has somebody to take it back.
THEOREM SendInvariant == Spec => []SendInv
<1>1. SendInv /\ [Next]_vars => SendInv'
  BY TasksStep, SlotsStep, TypingStep DEF SendInv
<1>2. QED
  BY SendInit, <1>1, PTL DEF Spec

\* No retry doubles a message: what the platform may have taken is not sent
\* again (resilient_send), for any number of attempts and senders.
THEOREM TakenOnce == Spec => []AtMostOnce
<1>1. SendInv => AtMostOnce
  BY DEF SendInv, TasksOK, Task, AtMostOnce
<1>2. QED
  BY SendInvariant, <1>1, PTL

\* A user's in-flight slot is taken exactly while one task fetches the user's
\* ticket (get_or_fetch), however many tasks want it.
THEOREM OneFetch == Spec => []OneFetchEach
  BY SendInvariant, PTL DEF SendInv

\* The indicator a task shows it takes back (with_typing, stop_typing), for any
\* interleaving of tasks and any age of the ticket.
THEOREM TypingIsTakenBack == Spec => []TypingEnds
<1>1. SendInv => TypingEnds
  BY DEF SendInv, TypingInv, Showing, TypingEnds, User
<1>2. QED
  BY SendInvariant, <1>1, PTL

----------------------------------------------------------------------------
(* The circuit breaker.                                                    *)

\* With a threshold of one, every recorded failure opens the breaker for a full
\* Cooldown, and only a success or the Cooldown's end closes it.
BreakerInv ==
    /\ failures \in Seq(Int)
    /\ open \in Nat /\ quiet \in Nat
    /\ Threshold = 1 => quiet <= open

\* The failures still in the window are some of those recorded.
LEMMA AgedIsSeq == \A f \in Seq(Int) : Aged(f) \in Seq(Int)
<1> TAKE f \in Seq(Int)
<1> DEFINE Old == {i \in DOMAIN f : f[i] <= 1}
           old == Cardinality(Old)
<1>1. IsFiniteSet(1..Len(f)) /\ Cardinality(1..Len(f)) = Len(f)
  <2>1. Len(f) \in Nat /\ Len(f) - 1 + 1 = Len(f)
    OBVIOUS
  <2>2. QED
    BY <2>1, FS_Interval
<1>2. Old \subseteq 1..Len(f)
  OBVIOUS
<1>3. old \in Nat /\ old <= Len(f)
  BY <1>1, <1>2, FS_Subset, FS_CardinalityType
<1> HIDE DEF old
<1>4. \A i \in 1..(Len(f) - old) : i + old \in 1..Len(f) /\ f[i + old] - 1 \in Int
  BY <1>3
<1>5. [i \in 1..(Len(f) - old) |-> f[i + old] - 1] \in Seq(Int)
  BY <1>3, <1>4
<1>6. QED
  BY <1>5 DEF Aged, old

LEMMA BreakerStep == BreakerInv /\ [Next]_vars => BreakerInv'
<1> SUFFICES ASSUME BreakerInv, [Next]_vars PROVE BreakerInv'
  OBVIOUS
<1>1. CASE RecordFailure
  <2>1. Append(failures, Window) \in Seq(Int) /\ Len(failures) \in Nat /\ Cooldown \in Nat
    BY SendAssumption DEF BreakerInv
  <2>2. QED
    BY <1>1, <2>1 DEF RecordFailure, OpenFor, BreakerInv
<1>2. CASE RecordSuccess
  BY <1>2 DEF RecordSuccess, BreakerInv
<1>3. CASE UNCHANGED breakerVars
  BY <1>3 DEF breakerVars, BreakerInv
<1>4. CASE Tick
  <2>1. failures' \in Seq(Int)
    BY <1>4, AgedIsSeq DEF Tick, BreakerInv
  <2>2. QED
    BY <1>4, <2>1 DEF Tick, Less, BreakerInv
<1>5. RecordFailure \/ RecordSuccess \/ UNCHANGED breakerVars \/ Tick
  <2>1. ASSUME NEW s \in Senders, Send(s) \/ Exhausted(s)
        PROVE  RecordFailure \/ RecordSuccess \/ UNCHANGED breakerVars
    BY <2>1, Zenon DEF Send, Exhausted
  <2>2. ASSUME NEW s \in Senders, Start(s) \/ Step(s), ~Send(s), ~Exhausted(s)
        PROVE  UNCHANGED breakerVars
    BY <2>2
       DEF Step, Start, CachedTicket, NoTicket, Claim, Await, AwaitedTicket, GiveUp, Fetched,
           FetchFails, Release, Show, Hide, Return, Skip, Enter, Resend, breakerVars
  <2>3. UNCHANGED vars => UNCHANGED breakerVars
    BY DEF vars, breakerVars
  <2>4. QED
    BY <2>1, <2>2, <2>3 DEF Next
<1>6. QED
  BY <1>1, <1>2, <1>3, <1>4, <1>5

\* With the threshold the program has, no task begins to send for a full
\* Cooldown after any failed send, unless one succeeded since (CircuitBreaker).
THEOREM QuietIsKept == Spec => QuietAfterFailure
<1>1. Init => BreakerInv
  BY DEF Init, BreakerInv
<1>2. BreakerInv /\ [Next]_vars => BreakerInv'
  BY BreakerStep
<1>3. BreakerInv /\ [Next]_vars => [\A s \in Senders : Enter(s) => quiet = 0 \/ Threshold > 1]_vars
  <2> SUFFICES ASSUME BreakerInv, NEW s \in Senders, Enter(s), ~(Threshold > 1)
               PROVE  quiet = 0
    OBVIOUS
  <2>1. Threshold = 1 /\ open = 0
    BY SendAssumption DEF Enter
  <2>2. QED
    BY <2>1 DEF BreakerInv
<1>4. QED
  BY <1>1, <1>2, <1>3, PTL DEF Spec, QuietAfterFailure
=============================================================================
