-------------------------- MODULE RouterLockProofs --------------------------
(***************************************************************************)
(* Proofs about who holds the router of the WeChat gateway (RouterLock),   *)
(* for any agents, any number of workers, any commands and any times: the  *)
(* types, with the discipline of the tasks that they state, and what it    *)
(* takes to be marked offline.                                             *)
(***************************************************************************)
EXTENDS RouterLock, TLAPS

\* A task is on one worker, or waits for one.
TasksOK(b, q) ==
    /\ b \in [Workers -> Tasks \cup {None}] /\ q \subseteq Tasks
    /\ \A w \in Workers : b[w] \notin q
    /\ \A v, w \in Workers : b[v] = b[w] => v = w \/ b[v] = None

EntriesOK ==
    /\ registry \in [Agents -> [status: {"online", "offline"}, age: Times] \cup {None}]
    /\ {active, saved} \subseteq Agents \cup {None}

MainOK ==
    /\ main \in {"idle", "cmd", "answer", "dead"} /\ (main = "cmd" <=> cmd # None)
    /\ cmd \in Commands \cup {None}

CountsOK ==
    /\ pending \in [Agents -> 0..MaxTries] /\ hb \in 0..Interval
    /\ quiet \in [Agents -> Times]

\* An agent's requests that still wait are those up to the one it waits for.
TriesInv == \A a \in Agents : pending[a] # 0 => \A t \in TasksOf(a) : t.try <= pending[a]

\* An agent was seen when it last asked, or is about to be seen.
SeenInv ==
    \A a \in Agents : registry[a] # None =>
        \/ registry[a].age <= quiet[a]
        \/ \E t \in TasksOf(a) : t.kind # "status"

LockInv ==
    /\ TasksOK(blocked, waiting) /\ EntriesOK /\ MainOK /\ CountsOK
    /\ TriesInv /\ SeenInv

----------------------------------------------------------------------------
(* The tasks.                                                              *)

LEMMA NoneDiffers ==
    /\ None \notin Tasks /\ None \notin Entries /\ None \notin Commands
    /\ None \notin Agents
  BY NoneAssumption, RouterLockAssumption

LEMMA BoundsAreNatural ==
    /\ Interval \in Nat /\ Timeout \in Nat /\ DefaultTime \in Nat
    /\ MaxTries \in Nat /\ MaxTries >= 1
  BY RouterLockAssumption

\* A task is the check of the heartbeats, or a request of an agent.
LEMMA TaskShape ==
    ASSUME NEW t \in Tasks
    PROVE  \/ t = Heartbeat
           \/ /\ t # Heartbeat /\ t \in [who: Agents, kind: Kinds, try: 1..MaxTries]
              /\ t.who \in Agents /\ t.kind \in Kinds /\ t.kind # "heartbeat"
              /\ t.try \in 1..MaxTries
  BY DEF Tasks, Heartbeat, Kinds

\* The tasks there are, with the workers and the queue as parameters.
In(b, q) == q \cup ({b[w] : w \in Workers} \ {None})

LEMMA TasksIn == InTasks = In(blocked, waiting) /\ InTasks' = In(blocked', waiting')
  BY DEF InTasks, In

LEMMA TasksAre ==
    ASSUME NEW b, NEW q, TasksOK(b, q)
    PROVE  In(b, q) \subseteq Tasks
  BY DEF TasksOK, In

\* A task that comes to the queue, ...
LEMMA TaskComes ==
    ASSUME NEW b, NEW q, TasksOK(b, q), NEW t \in Tasks, t \notin In(b, q)
    PROVE  TasksOK(b, q \cup {t}) /\ In(b, q \cup {t}) = In(b, q) \cup {t}
<1>1. t # None
  BY NoneDiffers
<1>2. \A w \in Workers : b[w] # t
  BY <1>1 DEF In
<1>3. QED
  BY <1>1, <1>2 DEF TasksOK, In

\* ... one that a worker takes to wait with it, ...
LEMMA TaskMoves ==
    ASSUME NEW b, NEW q, TasksOK(b, q), NEW t \in q, NEW w \in Workers, b[w] = None
    PROVE  /\ TasksOK([b EXCEPT ![w] = t], q \ {t})
           /\ In([b EXCEPT ![w] = t], q \ {t}) = In(b, q)
<1> DEFINE c == [b EXCEPT ![w] = t]
<1>1. b \in [Workers -> Tasks \cup {None}] /\ t \in Tasks /\ t # None
      /\ \A v \in Workers : b[v] # t
  BY NoneDiffers DEF TasksOK
<1>2. c \in [Workers -> Tasks \cup {None}] /\ c[w] = t /\ \A v \in Workers \ {w} : c[v] = b[v]
  BY <1>1
<1> HIDE DEF c
<1>3. TasksOK(c, q \ {t})
  BY <1>1, <1>2 DEF TasksOK
<1>4. In(c, q \ {t}) = In(b, q)
  <2>1. \A x : x \in In(c, q \ {t}) <=> x \in In(b, q)
    <3> SUFFICES ASSUME NEW x PROVE x \in In(c, q \ {t}) <=> x \in In(b, q)
      OBVIOUS
    <3>1. CASE x = t
      BY <1>1, <1>2, <3>1 DEF In
    <3>2. CASE x # t
      BY <1>1, <1>2, <3>2 DEF In
    <3>3. QED
      BY <3>1, <3>2
  <2>2. QED
    BY <2>1
<1>5. QED
  BY <1>3, <1>4 DEF c

\* ... one that is served at once, and one that a worker has waited with.
LEMMA TaskServed ==
    ASSUME NEW b, NEW q, TasksOK(b, q), NEW t \in q
    PROVE  TasksOK(b, q \ {t}) /\ In(b, q \ {t}) = In(b, q) \ {t}
  BY DEF TasksOK, In

LEMMA TaskResumed ==
    ASSUME NEW b, NEW q, TasksOK(b, q), NEW w \in Workers, b[w] # None
    PROVE  /\ TasksOK([b EXCEPT ![w] = None], q)
           /\ In([b EXCEPT ![w] = None], q) = In(b, q) \ {b[w]}
           /\ b[w] \in In(b, q)
<1> DEFINE c == [b EXCEPT ![w] = None]
<1>1. b \in [Workers -> Tasks \cup {None}] /\ b[w] \notin q /\ None \notin q
      /\ \A v \in Workers \ {w} : b[v] # b[w]
  BY NoneDiffers DEF TasksOK
<1>2. c \in [Workers -> Tasks \cup {None}] /\ c[w] = None /\ \A v \in Workers \ {w} : c[v] = b[v]
  BY <1>1
<1> HIDE DEF c
<1>3. TasksOK(c, q)
  BY <1>1, <1>2 DEF TasksOK
<1>4. In(c, q) = In(b, q) \ {b[w]}
  <2>1. \A x : x \in In(c, q) <=> x \in In(b, q) \ {b[w]}
    <3> SUFFICES ASSUME NEW x PROVE x \in In(c, q) <=> x \in In(b, q) \ {b[w]}
      OBVIOUS
    <3>1. x \in In(c, q) <=> x \in q \/ (x # None /\ \E v \in Workers \ {w} : x = b[v])
      BY <1>2 DEF In
    <3>2. x \in In(b, q) \ {b[w]} <=> x # b[w] /\ (x \in q \/ (x # None /\ \E v \in Workers : x = b[v]))
      BY DEF In
    <3>3. QED
      BY <1>1, <3>1, <3>2
  <2>2. QED
    BY <2>1
<1>5. QED
  BY <1>3, <1>4 DEF c, In

----------------------------------------------------------------------------
(* The handlers.                                                           *)

\* A handler gives the entries and the counts their types; what it does to an
\* agent's entry is to mark it seen, for a request of the agent itself, or
\* offline, which leaves its age; and an agent that waits waits for the same.
LEMMA ServeDoes ==
    ASSUME LockInv, NEW t \in Tasks, Serve(t), UNCHANGED quiet
    PROVE  /\ EntriesOK' /\ CountsOK'
           /\ \A a \in Agents : registry'[a] # None =>
                 \/ registry'[a].age = 0
                 \/ /\ registry[a] # None /\ registry'[a].age = registry[a].age
                    /\ t = Heartbeat \/ t.who # a \/ t.kind = "status"
           /\ \A a \in Agents : pending'[a] # 0 => pending'[a] = pending[a]
<1>0. /\ registry \in [Agents -> [status: {"online", "offline"}, age: Times] \cup {None}]
      /\ {active, saved} \subseteq Agents \cup {None}
      /\ pending \in [Agents -> 0..MaxTries] /\ hb \in 0..Interval /\ quiet \in [Agents -> Times]
      /\ Interval \in Nat /\ MaxTries \in Nat /\ 0 \in Times /\ Times \subseteq Nat
      /\ None \notin Entries
  BY NoneDiffers, BoundsAreNatural DEF LockInv, EntriesOK, CountsOK, Times
<1>1. Seen \in [status: {"online", "offline"}, age: Times] /\ Seen.age = 0
  BY <1>0 DEF Seen
<1>2. CASE t = Heartbeat
  <2>1. CheckHeartbeats /\ hb' = Interval /\ UNCHANGED pending
    BY <1>2 DEF Serve, Heartbeat
  <2>2. UNCHANGED <<active, saved>>
        /\ registry' = [a \in Agents |->
                          IF Online(a) /\ Late(registry[a])
                          THEN [registry[a] EXCEPT !.status = "offline"] ELSE registry[a]]
    BY <2>1 DEF CheckHeartbeats
  <2>3. \A a \in Agents :
          /\ registry'[a] \in [status: {"online", "offline"}, age: Times] \cup {None}
          /\ registry'[a] # None => registry[a] # None /\ registry'[a].age = registry[a].age
    <3> SUFFICES ASSUME NEW a \in Agents
                 PROVE  /\ registry'[a] \in [status: {"online", "offline"}, age: Times] \cup {None}
                        /\ registry'[a] # None => registry[a] # None /\ registry'[a].age = registry[a].age
      OBVIOUS
    <3>1. registry'[a] = IF Online(a) /\ Late(registry[a])
                         THEN [registry[a] EXCEPT !.status = "offline"] ELSE registry[a]
      BY <2>2
    <3>2. registry[a] \in [status: {"online", "offline"}, age: Times] \cup {None}
      BY <1>0
    <3>3. CASE Online(a) /\ Late(registry[a])
      BY <3>1, <3>2, <3>3 DEF Online
    <3>4. CASE ~(Online(a) /\ Late(registry[a]))
      BY <3>1, <3>2, <3>4
    <3>5. QED
      BY <3>3, <3>4
  <2>4. registry' \in [Agents -> [status: {"online", "offline"}, age: Times] \cup {None}]
    BY <2>2, <2>3
  <2>5. EntriesOK'
    BY <1>0, <2>2, <2>4 DEF EntriesOK
  <2>6. CountsOK'
    BY <1>0, <2>1 DEF CountsOK
  <2>7. QED
    BY <1>2, <2>1, <2>3, <2>5, <2>6
<1>3. CASE t # Heartbeat
  <2>1. t.who \in Agents /\ t.kind \in Kinds /\ t.kind # "heartbeat" /\ t.try \in 1..MaxTries
    BY <1>3, TaskShape
  <2>2. UNCHANGED hb /\ pending' = [pending EXCEPT ![t.who] = IF @ = t.try THEN 0 ELSE @]
    BY <1>3 DEF Serve
  <2>3. pending' \in [Agents -> 0..MaxTries] /\ \A a \in Agents : pending'[a] # 0 => pending'[a] = pending[a]
    BY <1>0, <2>1, <2>2
  <2>4. CountsOK'
    BY <1>0, <2>2, <2>3 DEF CountsOK
  <2>5. CASE t.kind = "register"
    <3>1. Register(t.who)
      BY <2>1, <2>5 DEF Serve
    <3>2. registry' = [registry EXCEPT ![t.who] = Seen]
          /\ active' \in Agents \cup {None} /\ saved' \in Agents \cup {None}
      BY <1>0, <2>1, <3>1 DEF Register
    <3>3. EntriesOK'
      BY <1>0, <1>1, <2>1, <3>2 DEF EntriesOK
    <3>4. QED
      BY <1>0, <1>1, <2>1, <2>3, <2>4, <3>2, <3>3
  <2>6. CASE t.kind = "poll"
    <3>1. Poll(t.who)
      BY <2>1, <2>6 DEF Serve
    <3>2. registry' = [registry EXCEPT ![t.who] = Polled(t.who)] /\ UNCHANGED <<active, saved>>
      BY <3>1 DEF Poll
    <3>3. Polled(t.who) \in {None, Seen}
      BY DEF Polled
    <3>4. EntriesOK'
      BY <1>0, <1>1, <2>1, <3>2, <3>3 DEF EntriesOK
    <3>5. QED
      BY <1>0, <1>1, <2>1, <2>3, <2>4, <3>2, <3>3, <3>4
  <2>7. CASE t.kind = "status"
    <3>1. UNCHANGED <<registry, active, saved>>
      BY <2>1, <2>7 DEF Serve, Status, agentVars
    <3>2. EntriesOK'
      BY <1>0, <3>1 DEF EntriesOK
    <3>3. QED
      BY <2>3, <2>4, <2>7, <3>1, <3>2
  <2>8. QED
    BY <2>1, <2>5, <2>6, <2>7 DEF Kinds
<1>4. QED
  BY <1>2, <1>3

\* A task that is served leaves the invariant.
LEMMA ServeKeeps ==
    ASSUME LockInv, NEW t \in Tasks, Serve(t), UNCHANGED quiet, UNCHANGED mainVars,
           TasksOK(blocked', waiting'), InTasks' = InTasks \ {t}
    PROVE  LockInv'
<1>1. /\ EntriesOK' /\ CountsOK'
      /\ \A a \in Agents : registry'[a] # None =>
            \/ registry'[a].age = 0
            \/ /\ registry[a] # None /\ registry'[a].age = registry[a].age
               /\ t = Heartbeat \/ t.who # a \/ t.kind = "status"
      /\ \A a \in Agents : pending'[a] # 0 => pending'[a] = pending[a]
  BY ServeDoes
<1>2. MainOK'
  BY DEF LockInv, MainOK, mainVars
<1>3. \A a \in Agents : TasksOf(a)' = TasksOf(a) \ {t}
  BY DEF TasksOf
<1>4. TriesInv'
  BY <1>1, <1>3 DEF LockInv, TriesInv
<1>5. SeenInv'
  <2> SUFFICES ASSUME NEW a \in Agents, registry'[a] # None
               PROVE  \/ registry'[a].age <= quiet'[a]
                      \/ \E u \in TasksOf(a)' : u.kind # "status"
    BY DEF SeenInv
  <2>1. quiet'[a] \in Nat
    BY <1>1, BoundsAreNatural DEF CountsOK, Times
  <2>2. CASE registry'[a].age = 0
    BY <2>1, <2>2
  <2>3. CASE /\ registry[a] # None /\ registry'[a].age = registry[a].age
             /\ t = Heartbeat \/ t.who # a \/ t.kind = "status"
    <3>1. \/ registry[a].age <= quiet[a]
          \/ \E u \in TasksOf(a) : u.kind # "status"
      BY <2>3 DEF LockInv, SeenInv
    <3>2. \A u \in TasksOf(a) : u.kind # "status" => u # t
      BY <2>3 DEF TasksOf
    <3>3. QED
      BY <1>3, <2>3, <3>1, <3>2
  <2>4. QED
    BY <1>1, <2>2, <2>3
<1>6. QED
  BY <1>1, <1>2, <1>4, <1>5 DEF LockInv

----------------------------------------------------------------------------
(* The invariant.                                                          *)

LEMMA LockInit == Init => LockInv
<1> SUFFICES ASSUME Init PROVE LockInv
  OBVIOUS
<1>1. TasksOK(blocked, waiting)
  BY DEF Init, TasksOK
<1>2. EntriesOK /\ MainOK
  BY DEF Init, EntriesOK, MainOK
<1>3. CountsOK
  BY BoundsAreNatural DEF Init, CountsOK, Times
<1>4. TriesInv /\ SeenInv
  BY DEF Init, TriesInv, SeenInv
<1>5. QED
  BY <1>1, <1>2, <1>3, <1>4 DEF LockInv

\* An agent asks, with a number beyond those of its requests that still wait.
LEMMA SendKeeps ==
    ASSUME LockInv, NEW a \in Agents, NEW k \in Kinds, NEW n \in 1..MaxTries, Send(a, k, n),
           \A t \in TasksOf(a) : t.try < n,
           UNCHANGED <<blocked, hb, agentVars, mainVars>>
    PROVE  LockInv'
<1> DEFINE new == [who |-> a, kind |-> k, try |-> n]
<1>0. /\ pending \in [Agents -> 0..MaxTries] /\ quiet \in [Agents -> Times]
      /\ MaxTries \in Nat /\ n \in Nat /\ n # 0 /\ 0 \in Times /\ Times \subseteq Nat
      /\ TasksOK(blocked, waiting)
  BY BoundsAreNatural DEF LockInv, CountsOK, Times
<1>1. /\ waiting' = waiting \cup {new}
      /\ pending' = [pending EXCEPT ![a] = n]
      /\ quiet' = IF k = "status" THEN quiet ELSE [quiet EXCEPT ![a] = 0]
  BY DEF Send
<1>2. new \in Tasks /\ new # Heartbeat /\ new.who = a /\ new.kind = k /\ new.try = n
  <2>1. new \in Tasks
    BY DEF Tasks
  <2>2. new.who = a /\ new.kind = k /\ new.try = n
    OBVIOUS
  <2>3. k # "heartbeat" /\ Heartbeat.kind = "heartbeat"
    BY DEF Heartbeat, Kinds
  <2> HIDE DEF new
  <2>4. QED
    BY <2>1, <2>2, <2>3
<1> HIDE DEF new
<1>3. new \notin InTasks
  BY <1>0, <1>2 DEF TasksOf
<1>4. TasksOK(blocked', waiting') /\ InTasks' = InTasks \cup {new}
  BY <1>0, <1>1, <1>2, <1>3, TaskComes, TasksIn
<1>5. EntriesOK' /\ MainOK'
  BY DEF LockInv, EntriesOK, MainOK, agentVars, mainVars
<1>6. CountsOK'
  <2>1. pending' \in [Agents -> 0..MaxTries]
    BY <1>0, <1>1
  <2>2. quiet' \in [Agents -> Times]
    BY <1>0, <1>1
  <2>3. QED
    BY <2>1, <2>2 DEF LockInv, CountsOK
<1>7. \A b \in Agents : TasksOf(b)' = TasksOf(b) \cup (IF b = a THEN {new} ELSE {})
  BY <1>2, <1>4, Zenon DEF TasksOf
<1>8. TriesInv'
  <2> SUFFICES ASSUME NEW b \in Agents, pending'[b] # 0, NEW t \in TasksOf(b)'
               PROVE  t.try <= pending'[b]
    BY DEF TriesInv
  <2>1. CASE b = a
    <3>1. pending'[b] = n
      BY <1>0, <1>1, <2>1
    <3>2. CASE t \in TasksOf(a)
      <4>1. t \in Tasks /\ t # Heartbeat
        BY <3>2, <1>0, TasksAre, TasksIn DEF TasksOf
      <4>2. t.try \in Nat
        BY <4>1, TaskShape
      <4>3. QED
        BY <1>0, <3>1, <3>2, <4>2
    <3>3. CASE t = new
      BY <1>0, <1>2, <3>1, <3>3
    <3>4. QED
      BY <1>7, <2>1, <3>2, <3>3
  <2>2. CASE b # a
    BY <1>0, <1>1, <1>7, <2>2 DEF LockInv, TriesInv
  <2>3. QED
    BY <2>1, <2>2
<1>9. SeenInv'
  <2> SUFFICES ASSUME NEW b \in Agents, registry[b] # None
               PROVE  \/ registry[b].age <= quiet'[b]
                      \/ \E t \in TasksOf(b)' : t.kind # "status"
    BY DEF SeenInv, agentVars
  <2>1. CASE b = a /\ k # "status"
    BY <1>2, <1>7, <2>1
  <2>2. CASE b # a \/ k = "status"
    <3>1. quiet'[b] = quiet[b]
      BY <1>0, <1>1, <2>2
    <3>2. QED
      BY <1>7, <3>1 DEF LockInv, SeenInv
  <2>3. QED
    BY <2>1, <2>2
<1>10. QED
  BY <1>4, <1>5, <1>6, <1>8, <1>9 DEF LockInv

LEMMA RequestKeeps ==
    ASSUME LockInv, NEW a \in Agents, NEW k \in Kinds, Request(a, k)
    PROVE  LockInv'
  BY SendKeeps, BoundsAreNatural DEF Request

LEMMA RepeatKeeps ==
    ASSUME LockInv, NEW a \in Agents, NEW k \in Kinds, Repeat(a, k)
    PROVE  LockInv'
<1>1. /\ pending[a] \in 1..(MaxTries - 1) /\ Send(a, k, pending[a] + 1)
      /\ UNCHANGED <<blocked, hb, agentVars, mainVars>>
  BY DEF Repeat
<1>2. pending[a] \in Nat /\ pending[a] # 0 /\ pending[a] + 1 \in 1..MaxTries
  BY <1>1, BoundsAreNatural
<1>3. \A t \in TasksOf(a) : t.try < pending[a] + 1
  <2> SUFFICES ASSUME NEW t \in TasksOf(a) PROVE t.try < pending[a] + 1
    OBVIOUS
  <2>1. t \in Tasks /\ t # Heartbeat
    BY TasksAre, TasksIn DEF TasksOf, LockInv
  <2>2. t.try \in Nat
    BY <2>1, TaskShape
  <2>3. t.try <= pending[a]
    BY <1>2 DEF LockInv, TriesInv
  <2>4. QED
    BY <1>2, <2>2, <2>3
<1>4. QED
  BY <1>1, <1>2, <1>3, SendKeeps

\* What leaves the tasks, their counts and what was seen alone.
LEMMA ElseKeeps ==
    ASSUME LockInv, MainOK', EntriesOK', UNCHANGED taskVars,
           \A a \in Agents : registry'[a] \in {registry[a], None}
    PROVE  LockInv'
<1>1. TasksOK(blocked', waiting') /\ CountsOK'
  BY DEF LockInv, CountsOK, taskVars
<1>2. \A a \in Agents : TasksOf(a)' = TasksOf(a)
  BY DEF TasksOf, InTasks, taskVars
<1>3. TriesInv'
  BY <1>2 DEF LockInv, TriesInv, taskVars
<1>4. SeenInv'
  BY <1>2 DEF LockInv, SeenInv, taskVars
<1>5. QED
  BY <1>1, <1>3, <1>4 DEF LockInv

LEMMA WakeKeeps ==
    ASSUME LockInv, Wake
    PROVE  LockInv'
<1>1. /\ Heartbeat \notin InTasks /\ waiting' = waiting \cup {Heartbeat}
      /\ UNCHANGED <<blocked, pending, hb, quiet, agentVars, mainVars>>
  BY DEF Wake, Slept
<1>2. TasksOK(blocked', waiting') /\ InTasks' = InTasks \cup {Heartbeat}
  <2>1. Heartbeat \in Tasks /\ TasksOK(blocked, waiting)
    BY DEF Tasks, Heartbeat, LockInv
  <2>2. QED
    BY <1>1, <2>1, TaskComes, TasksIn
<1>3. \A a \in Agents : TasksOf(a)' = TasksOf(a)
  BY <1>2 DEF TasksOf
<1>4. EntriesOK' /\ MainOK' /\ CountsOK'
  BY <1>1 DEF LockInv, EntriesOK, MainOK, CountsOK, agentVars, mainVars
<1>5. TriesInv' /\ SeenInv'
  BY <1>1, <1>3 DEF LockInv, TriesInv, SeenInv, agentVars
<1>6. QED
  BY <1>2, <1>4, <1>5 DEF LockInv

LEMMA TakeKeeps ==
    ASSUME LockInv, NEW w \in Workers, NEW t \in waiting, Take(w, t)
    PROVE  LockInv'
<1>1. /\ blocked[w] = None /\ waiting' = waiting \ {t} /\ UNCHANGED <<quiet, mainVars>>
      /\ IF Free
         THEN Serve(t) /\ UNCHANGED blocked
         ELSE blocked' = [blocked EXCEPT ![w] = t] /\ UNCHANGED <<pending, hb, agentVars>>
  BY DEF Take
<1>2. TasksOK(blocked, waiting) /\ t \in Tasks
  BY DEF LockInv, TasksOK
<1>3. CASE Free
  <2>1. Serve(t) /\ UNCHANGED blocked
    BY <1>1, <1>3
  <2>2. TasksOK(blocked', waiting') /\ InTasks' = InTasks \ {t}
    BY <1>1, <1>2, <2>1, TaskServed, TasksIn
  <2>3. QED
    BY <1>1, <1>2, <2>1, <2>2, ServeKeeps
<1>4. CASE ~Free
  <2>1. blocked' = [blocked EXCEPT ![w] = t] /\ UNCHANGED <<pending, hb, agentVars>>
    BY <1>1, <1>4
  <2>2. TasksOK(blocked', waiting') /\ InTasks' = InTasks
    BY <1>1, <1>2, <2>1, TaskMoves, TasksIn
  <2>3. \A a \in Agents : TasksOf(a)' = TasksOf(a)
    BY <2>2 DEF TasksOf
  <2>4. EntriesOK' /\ MainOK' /\ CountsOK'
    BY <1>1, <2>1 DEF LockInv, EntriesOK, MainOK, CountsOK, agentVars, mainVars
  <2>5. TriesInv' /\ SeenInv'
    BY <1>1, <2>1, <2>3 DEF LockInv, TriesInv, SeenInv, agentVars
  <2>6. QED
    BY <2>2, <2>4, <2>5 DEF LockInv
<1>5. QED
  BY <1>3, <1>4

LEMMA ResumeKeeps ==
    ASSUME LockInv, NEW w \in Workers, Resume(w)
    PROVE  LockInv'
<1>1. /\ blocked[w] # None /\ Serve(blocked[w]) /\ UNCHANGED <<waiting, quiet, mainVars>>
      /\ blocked' = [blocked EXCEPT ![w] = None]
  BY DEF Resume
<1>2. TasksOK(blocked, waiting) /\ blocked[w] \in Tasks
  BY <1>1 DEF LockInv, TasksOK
<1>3. TasksOK(blocked', waiting') /\ InTasks' = InTasks \ {blocked[w]}
  BY <1>1, <1>2, TaskResumed, TasksIn
<1>4. QED
  BY <1>1, <1>2, <1>3, ServeKeeps

\* A command starts with a time that is a number.
LEMMA CommandTime ==
    ASSUME NEW text, Parse(text).kind = "cmd"
    PROVE  Parse(text).time \in Nat
<1>0. /\ DefaultTime \in Nat
      /\ \A x \in DOMAIN Seconds : Seconds[x] \in Nat
  BY RouterLockAssumption
<1> DEFINE T == IF text[3] \in DOMAIN Seconds THEN Seconds[text[3]] ELSE DefaultTime
<1>1. ASSUME NEW time \in Nat, NEW words
      PROVE  Cmd(time, words) = NotACommand \/ Cmd(time, words).time \in Nat
  BY <1>1 DEF Cmd
<1>2. T \in Nat
  BY <1>0
<1>3. NotACommand.kind # "cmd" /\ \A n : [kind |-> "use", name |-> n].kind # "cmd"
  BY DEF NotACommand
<1>4. \/ Parse(text) = NotACommand
      \/ Parse(text) = [kind |-> "use", name |-> text[2]]
      \/ Parse(text) = Cmd(T, SubSeq(text, 4, Len(text)))
      \/ Parse(text) = Cmd(DefaultTime, SubSeq(text, 2, Len(text)))
  BY Zenon DEF Parse
<1> HIDE DEF T
<1>5. QED
  BY <1>0, <1>1, <1>2, <1>3, <1>4

LEMMA MainKeeps ==
    ASSUME LockInv,
           \/ \E text \in Texts : Message(text)
           \/ Exit \/ Finish \/ TimesOut \/ Answered \/ Restart
    PROVE  LockInv'
<1>0. EntriesOK /\ MainOK
  BY DEF LockInv
<1>1. ASSUME NEW text \in Texts, Message(text) PROVE LockInv'
  <2>1. CASE Use(text)
    <3>1. /\ Parse(text).name \in Agents /\ active' = Parse(text).name
          /\ main' = "answer" /\ main = "idle" /\ UNCHANGED <<registry, saved, cmd, taskVars>>
      BY <1>1, <2>1 DEF Message, Use, Registered
    <3>2. EntriesOK' /\ MainOK'
      BY <1>0, <3>1 DEF EntriesOK, MainOK
    <3>3. QED
      BY <3>1, <3>2, ElseKeeps
  <2>2. CASE AnswerAtOnce(text)
    <3>1. main' = "answer" /\ main = "idle" /\ UNCHANGED <<cmd, agentVars, taskVars>>
      BY <1>1, <2>2 DEF Message, AnswerAtOnce
    <3>2. EntriesOK' /\ MainOK' /\ UNCHANGED registry
      BY <1>0, <3>1 DEF EntriesOK, MainOK, agentVars
    <3>3. QED
      BY <3>1, <3>2, ElseKeeps
  <2>3. CASE StartCmd(text)
    <3>1. /\ Parse(text).kind = "cmd" /\ main' = "cmd"
          /\ cmd' = [left |-> Parse(text).time, out |-> None] /\ UNCHANGED <<agentVars, taskVars>>
      BY <2>3 DEF StartCmd
    <3>2. cmd' \in Commands
      BY <3>1, CommandTime DEF Commands
    <3>3. EntriesOK' /\ MainOK' /\ UNCHANGED registry
      BY <1>0, <3>1, <3>2, NoneDiffers DEF EntriesOK, MainOK, agentVars
    <3>4. QED
      BY <3>1, <3>3, ElseKeeps
  <2>4. QED
    BY <1>1, <2>1, <2>2, <2>3 DEF Message
<1>2. CASE Exit
  <2>1. /\ main = "cmd" /\ UNCHANGED <<main, agentVars, taskVars>>
        /\ \E o \in Outputs : cmd' = [cmd EXCEPT !.out = o]
    BY <1>2 DEF Exit
  <2>2. cmd \in Commands
    BY <1>0, <2>1 DEF MainOK
  <2>3. cmd' \in Commands
    BY <2>1, <2>2 DEF Commands
  <2>4. EntriesOK' /\ MainOK' /\ UNCHANGED registry
    BY <1>0, <2>1, <2>3, NoneDiffers DEF EntriesOK, MainOK, agentVars
  <2>5. QED
    BY <2>1, <2>4, ElseKeeps
<1>3. CASE Finish \/ TimesOut
  <2>1. main' = "answer" /\ cmd' = None /\ UNCHANGED <<agentVars, taskVars>>
    BY <1>3 DEF Finish, TimesOut
  <2>2. EntriesOK' /\ MainOK' /\ UNCHANGED registry
    BY <1>0, <2>1 DEF EntriesOK, MainOK, agentVars
  <2>3. QED
    BY <2>1, <2>2, ElseKeeps
<1>4. CASE Answered
  <2>1. main' = "idle" /\ main = "answer" /\ UNCHANGED <<cmd, agentVars, taskVars>>
    BY <1>4 DEF Answered
  <2>2. EntriesOK' /\ MainOK' /\ UNCHANGED registry
    BY <1>0, <2>1 DEF EntriesOK, MainOK, agentVars
  <2>3. QED
    BY <2>1, <2>2, ElseKeeps
<1>5. CASE Restart
  <2>1. main' = "idle" /\ main = "dead" /\ active' = saved /\ UNCHANGED <<registry, saved, cmd, taskVars>>
    BY <1>5 DEF Restart
  <2>2. EntriesOK' /\ MainOK'
    BY <1>0, <2>1 DEF EntriesOK, MainOK
  <2>3. QED
    BY <2>1, <2>2, ElseKeeps
<1>6. QED
  BY <1>1, <1>2, <1>3, <1>4, <1>5

LEMMA PanicKeeps ==
    ASSUME LockInv, Panic
    PROVE  LockInv'
<1>1. /\ main' = "dead" /\ cmd' = None
      /\ registry' = [a \in Agents |-> None] /\ active' = None /\ saved' = saved
      /\ blocked' = [w \in Workers |-> None] /\ waiting' = {} /\ pending' = [a \in Agents |-> 0]
      /\ hb' = Interval /\ quiet' = quiet
  BY DEF Panic
<1>2. TasksOK(blocked', waiting')
  BY <1>1 DEF TasksOK
<1>3. EntriesOK' /\ MainOK'
  BY <1>1 DEF LockInv, EntriesOK, MainOK
<1>4. CountsOK'
  BY <1>1, BoundsAreNatural DEF LockInv, CountsOK
<1>5. TriesInv' /\ SeenInv'
  BY <1>1 DEF TriesInv, SeenInv
<1>6. QED
  BY <1>2, <1>3, <1>4, <1>5 DEF LockInv

\* Time makes an agent's entry no older than its silence.
LEMMA TimeIsTime ==
    ASSUME NEW m \in Times
    PROVE  Older(m) \in Times /\ \A n \in Times : m <= n => Older(m) <= Older(n)
  BY BoundsAreNatural DEF Times, Older

LEMMA TickKeeps ==
    ASSUME LockInv, Tick
    PROVE  LockInv'
<1>1. /\ hb' = Less(hb)
      /\ cmd' = IF cmd = None THEN None ELSE [cmd EXCEPT !.left = Less(@)]
      /\ registry' = [a \in Agents |-> IF registry[a] = None THEN None
                                       ELSE [registry[a] EXCEPT !.age = Older(@)]]
      /\ quiet' = [a \in Agents |-> Older(quiet[a])]
      /\ UNCHANGED <<main, active, saved, blocked, waiting, pending>>
  BY DEF Tick
<1>2. TasksOK(blocked', waiting')
  BY <1>1 DEF LockInv
<1>3. \A a \in Agents :
         IF registry[a] = None THEN registry'[a] = None
         ELSE /\ registry[a].age \in Times /\ registry'[a].age = Older(registry[a].age)
              /\ registry'[a] \in [status: {"online", "offline"}, age: Times]
  <2> SUFFICES ASSUME NEW a \in Agents, registry[a] # None
               PROVE  /\ registry[a].age \in Times /\ registry'[a].age = Older(registry[a].age)
                      /\ registry'[a] \in [status: {"online", "offline"}, age: Times]
    BY <1>1
  <2>1. registry[a] \in [status: {"online", "offline"}, age: Times]
    BY DEF LockInv, EntriesOK
  <2>2. registry'[a] = [registry[a] EXCEPT !.age = Older(@)]
    BY <1>1
  <2>3. Older(registry[a].age) \in Times /\ registry[a].age \in Times
    BY <2>1, TimeIsTime
  <2>4. registry'[a] = [status |-> registry[a].status, age |-> Older(registry[a].age)]
    BY <2>1, <2>2
  <2>5. QED
    BY <2>1, <2>3, <2>4
<1>4. EntriesOK'
  <2>1. registry' \in [Agents -> [status: {"online", "offline"}, age: Times] \cup {None}]
    BY <1>1, <1>3
  <2>2. QED
    BY <1>1, <2>1 DEF LockInv, EntriesOK
<1>5. MainOK'
  <2>1. CASE cmd = None
    BY <1>1, <2>1 DEF LockInv, MainOK
  <2>2. CASE cmd # None
    <3>1. cmd \in Commands /\ cmd' = [cmd EXCEPT !.left = Less(@)]
      BY <1>1, <2>2 DEF LockInv, MainOK
    <3>2. cmd' \in Commands
      BY <3>1 DEF Commands, Less
    <3>3. QED
      BY <1>1, <2>2, <3>2, NoneDiffers DEF LockInv, MainOK
  <2>3. QED
    BY <2>1, <2>2
<1>6. \A a \in Agents : quiet[a] \in Times /\ quiet'[a] = Older(quiet[a])
  BY <1>1 DEF LockInv, CountsOK
<1>7. CountsOK'
  <2>1. quiet' \in [Agents -> Times]
    BY <1>1, <1>6, TimeIsTime
  <2>2. hb' \in 0..Interval
    <3>1. hb \in 0..Interval /\ Interval \in Nat
      BY BoundsAreNatural DEF LockInv, CountsOK
    <3>2. QED
      BY <1>1, <3>1 DEF Less
  <2>3. QED
    BY <1>1, <2>1, <2>2 DEF LockInv, CountsOK
<1>8. \A a \in Agents : TasksOf(a)' = TasksOf(a)
  BY <1>1 DEF TasksOf, InTasks
<1>9. TriesInv'
  BY <1>1, <1>8 DEF LockInv, TriesInv
<1>10. SeenInv'
  <2> SUFFICES ASSUME NEW a \in Agents, registry'[a] # None
               PROVE  \/ registry'[a].age <= quiet'[a]
                      \/ \E t \in TasksOf(a)' : t.kind # "status"
    BY DEF SeenInv
  <2>1. registry[a] # None /\ registry[a].age \in Times /\ registry'[a].age = Older(registry[a].age)
    BY <1>3
  <2>2. \/ registry[a].age <= quiet[a]
        \/ \E t \in TasksOf(a) : t.kind # "status"
    BY <2>1 DEF LockInv, SeenInv
  <2>3. QED
    BY <1>6, <1>8, <2>1, <2>2, TimeIsTime
<1>11. QED
  BY <1>2, <1>4, <1>5, <1>7, <1>9, <1>10 DEF LockInv

LEMMA LockStep == LockInv /\ [Next]_vars => LockInv'
<1> SUFFICES ASSUME LockInv, [Next]_vars PROVE LockInv'
  OBVIOUS
<1>1. CASE \E a \in Agents, k \in Kinds : Request(a, k) \/ Repeat(a, k)
  BY <1>1, RequestKeeps, RepeatKeeps
<1>2. CASE Wake
  BY <1>2, WakeKeeps
<1>3. CASE WorkerStep
  BY <1>3, TakeKeeps, ResumeKeeps DEF WorkerStep
<1>4. CASE \/ \E text \in Texts : Message(text)
           \/ Exit \/ Finish \/ TimesOut \/ Answered \/ Restart
  BY <1>4, MainKeeps
<1>5. CASE Panic
  BY <1>5, PanicKeeps
<1>6. CASE Tick
  BY <1>6, TickKeeps
<1>7. CASE UNCHANGED vars
  <2>1. UNCHANGED <<registry, active, saved, main, cmd, taskVars>>
    BY <1>7 DEF vars, agentVars, mainVars
  <2>2. EntriesOK' /\ MainOK'
    BY <2>1 DEF LockInv, EntriesOK, MainOK
  <2>3. QED
    BY <2>1, <2>2, ElseKeeps
<1>8. QED
  BY <1>1, <1>2, <1>3, <1>4, <1>5, <1>6, <1>7 DEF Next

\* The tasks, the entries, the numbers of the requests and what was seen: Spec
\* keeps them.
THEOREM LockInvariant == Spec => []LockInv
  BY LockInit, LockStep, PTL DEF Spec

----------------------------------------------------------------------------
(* What it is for.                                                         *)

\* The types, with the discipline they state: a command runs while main has the
\* router, and no task is in two places or on two workers.
THEOREM LockTypeCorrect == Spec => []TypeOK
<1>1. LockInv => TypeOK
  BY DEF LockInv, TypeOK, TasksOK, EntriesOK, MainOK, CountsOK
<1>2. QED
  BY <1>1, LockInvariant, PTL

LEMMA ServeMarks ==
    ASSUME LockInv, NEW t \in Tasks, Serve(t),
           NEW a \in Agents, Online(a), registry'[a] # None, registry'[a].status = "offline"
    PROVE  Late(registry[a])
<1>1. registry \in [Agents -> [status: {"online", "offline"}, age: Times] \cup {None}]
  BY DEF LockInv, EntriesOK
<1>2. registry[a].status = "online" /\ Seen.status = "online"
  BY DEF Online, Seen
<1>3. CASE t = Heartbeat
  <2>1. registry' = [b \in Agents |->
                       IF Online(b) /\ Late(registry[b])
                       THEN [registry[b] EXCEPT !.status = "offline"] ELSE registry[b]]
    BY <1>3 DEF Serve, Heartbeat, CheckHeartbeats
  <2>2. QED
    BY <1>2, <2>1, Zenon
<1>4. CASE t # Heartbeat
  <2>1. t.who \in Agents /\ t.kind \in Kinds
    BY <1>4, TaskShape
  <2>2. Register(t.who) \/ Poll(t.who) \/ Status
    BY <2>1 DEF Serve, Kinds
  <2>3. \/ registry' = [registry EXCEPT ![t.who] = Seen]
        \/ registry' = [registry EXCEPT ![t.who] = Polled(t.who)]
        \/ registry' = registry
    BY <2>2 DEF Register, Poll, Status, agentVars
  <2>4. Polled(t.who) \in {None, Seen}
    BY DEF Polled
  <2>5. registry'[a] \in {registry[a], None, Seen}
    BY <1>1, <2>1, <2>3, <2>4
  <2>6. QED
    BY <1>2, <2>5
<1>5. QED
  BY <1>3, <1>4

LEMMA StepMarks ==
    ASSUME LockInv, [Next]_vars,
           NEW a \in Agents, Online(a), registry'[a] # None, registry'[a].status = "offline"
    PROVE  Late(registry[a])
<1>1. \/ \E t \in Tasks : Serve(t)
      \/ \A b \in Agents : registry'[b] # None => registry'[b].status = registry[b].status
  <2>1. waiting \subseteq Tasks /\ blocked \in [Workers -> Tasks \cup {None}]
    BY DEF LockInv, TasksOK
  <2>2. CASE UNCHANGED agentVars
    BY <2>2 DEF agentVars
  <2>3. ASSUME NEW w \in Workers, NEW t \in waiting, Take(w, t), ~ UNCHANGED agentVars PROVE Serve(t)
    BY <2>3 DEF Take
  <2>4. ASSUME NEW w \in Workers, Resume(w) PROVE Serve(blocked[w]) /\ blocked[w] \in Tasks
    BY <2>1, <2>4 DEF Resume
  <2>5. CASE Tick
    <3>1. registry' = [b \in Agents |-> IF registry[b] = None THEN None
                                        ELSE [registry[b] EXCEPT !.age = Older(@)]]
      BY <2>5 DEF Tick
    <3>2. \A b \in Agents : registry[b] \in [status: {"online", "offline"}, age: Times] \cup {None}
      BY DEF LockInv, EntriesOK
    <3>3. QED
      BY <3>1, <3>2
  <2>6. CASE Panic
    BY <2>6 DEF Panic
  <2>7. ASSUME NEW text \in Texts, Message(text) PROVE UNCHANGED registry
    BY <2>7 DEF Message, Use, AnswerAtOnce, StartCmd, agentVars
  <2>8. CASE Exit \/ Finish \/ TimesOut \/ Answered \/ Restart \/ Wake
    BY <2>8 DEF Exit, Finish, TimesOut, Answered, Restart, Wake, agentVars
  <2>9. ASSUME NEW b \in Agents, NEW k \in Kinds, Request(b, k) \/ Repeat(b, k) PROVE UNCHANGED agentVars
    BY <2>9 DEF Request, Repeat, agentVars
  <2>10. CASE UNCHANGED vars
    BY <2>10 DEF vars, agentVars
  <2>11. QED
    BY <2>1, <2>2, <2>3, <2>4, <2>5, <2>6, <2>7, <2>8, <2>9, <2>10 DEF Next, WorkerStep
<1>2. CASE \E t \in Tasks : Serve(t)
  BY <1>2, ServeMarks
<1>3. CASE \A b \in Agents : registry'[b] # None => registry'[b].status = registry[b].status
  BY <1>3 DEF Online
<1>4. QED
  BY <1>1, <1>2, <1>3

LEMMA StepIsFair ==
    ASSUME LockInv, [Next]_vars
    PROVE  \A a \in Agents : Online(a) /\ registry'[a] # None /\ registry'[a].status = "offline"
             => quiet[a] > Timeout \/ \E t \in TasksOf(a) : t.kind # "status"
<1> SUFFICES ASSUME NEW a \in Agents, Online(a), registry'[a] # None, registry'[a].status = "offline",
                    ~ \E t \in TasksOf(a) : t.kind # "status"
             PROVE  quiet[a] > Timeout
  OBVIOUS
<1>1. registry[a].age > Timeout
  BY StepMarks DEF Late
<1>2. registry[a].age <= quiet[a]
  BY DEF LockInv, SeenInv, Online
<1>3. /\ registry[a].age \in Times /\ quiet[a] \in Times /\ Timeout \in Nat
  BY BoundsAreNatural DEF LockInv, EntriesOK, CountsOK, Online
<1>4. QED
  BY <1>1, <1>2, <1>3 DEF Times

\* Who is marked offline has been silent for the time of the timeout, or has a
\* request of its own waiting for the router that would show it alive: however
\* long commands keep the router, and in whatever order the waiting get it.
THEOREM OfflineHasReason == Spec => OfflineIsQuiet
<1>1. LockInv /\ [Next]_vars =>
        [\A a \in Agents : Online(a) /\ registry'[a] # None /\ registry'[a].status = "offline"
           => quiet[a] > Timeout \/ \E t \in TasksOf(a) : t.kind # "status"]_vars
  BY StepIsFair
<1>2. QED
  BY <1>1, LockInvariant, PTL DEF Spec, OfflineIsQuiet
=============================================================================
