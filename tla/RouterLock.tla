----------------------------- MODULE RouterLock -----------------------------
(***************************************************************************)
(* Who holds the router of the WeChat gateway, and who waits for it.       *)
(*                                                                         *)
(* The router is behind one std::sync::Mutex.  The loop of main, which is  *)
(* not one of the runtime's workers, takes it for every message, and keeps *)
(* it while a /cmd runs (gateway/src/router/router.rs, handle_command;     *)
(* router/commands.rs).  Agents' requests (api/server.rs) and the checker  *)
(* of the agents' heartbeats (main.rs, agents/registry.rs) take it on a    *)
(* worker, which they block while they wait.  Timers, pipes and the ends   *)
(* of processes are noticed by a worker that has nothing else to do: when  *)
(* there is none, nothing times out.                                       *)
(*                                                                         *)
(* Time is counted in steps of the heartbeat's interval; what a thread can *)
(* do without waiting takes none of it.                                    *)
(***************************************************************************)
EXTENDS Integers, FiniteSets, Sequences, SequencesExt

CONSTANTS
    Agents,
    Workers,      \* threads of the runtime
    Texts,        \* commands, as their words: what follows the slash, split
    Seconds,      \* the words that are numbers -> the time they stand for
    Dangerous,    \* words of DANGEROUS_PATTERNS
    Outputs,      \* what a command may write, as the widths of its characters
    Interval,     \* between two checks of the heartbeats: 30 s
    Timeout,      \* of a heartbeat: 60 s
    DefaultTime,  \* of a command: 30 s
    MaxOutput,    \* cmd_max_output_chars
    MaxTries,     \* bound: requests an agent repeats while the first waits
    None          \* no agent, no task, no command

ASSUME RouterLockAssumption ==
    /\ IsFiniteSet(Workers) /\ Workers # {}
    /\ {Interval, Timeout, DefaultTime, MaxOutput} \subseteq Nat
    /\ MaxTries \in Nat \ {0}
    /\ Seconds \in [DOMAIN Seconds -> Nat]
    /\ None \notin Agents

VARIABLES
    registry,   \* agent -> None or [status, age]: the time since last_seen
    active,     \* the active agent
    saved,      \* the active agent in the store
    main,       \* "idle", "cmd", "answer" or "dead"
    cmd,        \* the command that runs: [left |-> time, out |-> its output or None]
    blocked,    \* worker -> the task that waits on it for the router
    waiting,    \* tasks that no worker has taken yet
    pending,    \* agent -> the number of its request, 0: it awaits none
    hb,         \* time the checker has still to sleep
    quiet       \* history: agent -> time since it registered or polled

agentVars == <<registry, active, saved>>
mainVars  == <<main, cmd>>
taskVars  == <<blocked, waiting, pending, hb, quiet>>
vars      == <<agentVars, mainVars, taskVars>>

Kinds == {"register", "poll", "status"}
Tasks == [who: Agents, kind: Kinds, try: 1..MaxTries] \cup {[kind |-> "heartbeat"]}
Heartbeat == [kind |-> "heartbeat"]

Entries  == [status: {"online", "offline"}, age: Nat]
Commands == [left: Nat, out: Outputs \cup {None}]

ASSUME NoneAssumption == None \notin Tasks \cup Entries \cup Commands

InTasks    == waiting \cup ({blocked[w] : w \in Workers} \ {None})
TasksOf(a) == {t \in InTasks : t # Heartbeat /\ t.who = a}

\* A worker that parks drives the timers and the I/O of all.
Driven == main # "dead" /\ \E w \in Workers : blocked[w] = None

Free == main \in {"idle", "answer"}

Older(t) == IF t > Timeout THEN t ELSE t + 1

Init ==
    /\ registry = [a \in Agents |-> None] /\ active = None /\ saved = None
    /\ main = "idle" /\ cmd = None
    /\ blocked = [w \in Workers |-> None] /\ waiting = {} /\ pending = [a \in Agents |-> 0]
    /\ hb = Interval
    /\ quiet = [a \in Agents |-> 0]

----------------------------------------------------------------------------
(* The handlers, each one critical section.                                *)

Registered(n) == n \in Agents /\ registry[n] # None

Online(a) == registry[a] # None /\ registry[a].status = "online"

Seen == [status |-> "online", age |-> 0]

\* The first agent becomes the active one, and is saved.
Register(a) ==
    /\ registry' = [registry EXCEPT ![a] = Seen]
    /\ active' = IF active = None THEN a ELSE active
    /\ saved' = active'

\* Variant: a poll does not count as a heartbeat.
PolledUnseen(a) == registry[a]

Polled(a) == IF registry[a] = None THEN None ELSE Seen

Poll(a) ==
    /\ registry' = [registry EXCEPT ![a] = Polled(a)]
    /\ UNCHANGED <<active, saved>>

\* Variant: only the check that comes at the moment of the timeout sees it.
LateExact(r) == r.age = Timeout

Late(r) == r.age > Timeout

\* check_heartbeat.
CheckHeartbeats ==
    /\ registry' = [a \in Agents |->
                      IF Online(a) /\ Late(registry[a])
                      THEN [registry[a] EXCEPT !.status = "offline"] ELSE registry[a]]
    /\ UNCHANGED <<active, saved>>

\* handle_status only reads.
Status == UNCHANGED agentVars

\* The handler of a task, and its answer to the caller if he still waits.
Serve(t) ==
    /\ CASE t.kind = "register"  -> Register(t.who)
         [] t.kind = "poll"      -> Poll(t.who)
         [] t.kind = "status"    -> Status
         [] t.kind = "heartbeat" -> CheckHeartbeats
    /\ IF t = Heartbeat
       THEN hb' = Interval /\ UNCHANGED pending
       ELSE /\ UNCHANGED hb
            /\ pending' = [pending EXCEPT ![t.who] = IF @ = t.try THEN 0 ELSE @]

----------------------------------------------------------------------------
(* The tasks on the workers.                                               *)

Send(a, k, n) ==
    /\ waiting' = waiting \cup {[who |-> a, kind |-> k, try |-> n]}
    /\ pending' = [pending EXCEPT ![a] = n]
    /\ quiet' = IF k = "status" THEN quiet ELSE [quiet EXCEPT ![a] = 0]

\* An agent registers, polls or asks for the status, one request at a time.
Request(a, k) ==
    /\ main # "dead"
    /\ pending[a] = 0 /\ TasksOf(a) = {}
    /\ Send(a, k, 1)
    /\ UNCHANGED <<blocked, hb, agentVars, mainVars>>

\* Its HTTP client gives up, and asks again: the handler waits on.
Repeat(a, k) ==
    /\ pending[a] \in 1..(MaxTries - 1)
    /\ \E w \in Workers : blocked[w] # None /\ blocked[w] # Heartbeat
                            /\ blocked[w].who = a /\ blocked[w].try = pending[a]
    /\ Send(a, k, pending[a] + 1)
    /\ UNCHANGED <<blocked, hb, agentVars, mainVars>>

\* Variant: a check is started at its time, whether or not the last has ended.
SleptAnyhow == hb = 0

\* The checker sleeps between the end of a check and the next.
Slept == hb = 0 /\ Heartbeat \notin InTasks

Wake ==
    /\ Slept /\ Driven
    /\ waiting' = waiting \cup {Heartbeat}
    /\ UNCHANGED <<blocked, pending, hb, quiet, agentVars, mainVars>>

\* A worker takes a task, and does it or waits for the router.
Take(w, t) ==
    /\ main # "dead"
    /\ blocked[w] = None /\ t \in waiting
    /\ waiting' = waiting \ {t}
    /\ IF Free
       THEN Serve(t) /\ UNCHANGED blocked
       ELSE blocked' = [blocked EXCEPT ![w] = t] /\ UNCHANGED <<pending, hb, agentVars>>
    /\ UNCHANGED <<quiet, mainVars>>

\* The router is free: one of those who wait gets it, in no order.
Resume(w) ==
    /\ Free /\ blocked[w] # None
    /\ Serve(blocked[w])
    /\ blocked' = [blocked EXCEPT ![w] = None]
    /\ UNCHANGED <<waiting, quiet, mainVars>>

----------------------------------------------------------------------------
(* The loop of main: commands.                                             *)

NotACommand == [kind |-> "none"]

Cmd(time, words) ==
    IF words = << >> THEN NotACommand ELSE [kind |-> "cmd", time |-> time, words |-> words]

\* parse_command: a word after "timeout" that is no number is skipped.
Parse(p) ==
    IF p = << >> THEN NotACommand ELSE
    CASE p[1] = "use" /\ Len(p) >= 2 -> [kind |-> "use", name |-> p[2]]
      [] p[1] = "cmd" /\ Len(p) >= 3 /\ p[2] = "timeout" ->
           Cmd(IF p[3] \in DOMAIN Seconds THEN Seconds[p[3]] ELSE DefaultTime, SubSeq(p, 4, Len(p)))
      [] p[1] = "cmd" /\ ~(Len(p) >= 3 /\ p[2] = "timeout") -> Cmd(DefaultTime, SubSeq(p, 2, Len(p)))
      [] OTHER -> NotACommand

IsDangerous(words) == \E i \in DOMAIN words : words[i] \in Dangerous

\* /use, of an agent that is registered.
Use(text) ==
    LET c == Parse(text) IN
    /\ c.kind = "use" /\ Registered(c.name)
    /\ active' = c.name
    /\ main' = "answer"
    /\ UNCHANGED <<registry, saved, cmd, taskVars>>

\* What is answered at once: /list, /status, /gateway-help, an agent that is
\* not registered, a dangerous command.  (What is no command goes to a queue.)
AnswerAtOnce(text) ==
    LET c == Parse(text) IN
    /\ \/ c.kind = "none"
       \/ c.kind = "use" /\ ~Registered(c.name)
       \/ c.kind = "cmd" /\ IsDangerous(c.words)
    /\ main' = "answer"
    /\ UNCHANGED <<cmd, agentVars, taskVars>>

\* /cmd: the process is started; the router stays locked.
StartCmd(text) ==
    LET c == Parse(text) IN
    /\ c.kind = "cmd" /\ ~IsDangerous(c.words)
    /\ main' = "cmd"
    /\ cmd' = [left |-> c.time, out |-> None]
    /\ UNCHANGED <<agentVars, taskVars>>

Message(text) ==
    /\ main = "idle"
    /\ Use(text) \/ AnswerAtOnce(text) \/ StartCmd(text)

\* The process writes what it writes, and exits.
Exit ==
    /\ main = "cmd" /\ cmd.out = None
    /\ \E o \in Outputs : cmd' = [cmd EXCEPT !.out = o]
    /\ UNCHANGED <<main, agentVars, taskVars>>

Bytes(o) == FoldLeft(LAMBDA n, c : n + c, 0, o)

\* truncate(max_chars) takes bytes, and panics inside a character.
CutsCharacter(o) ==
    /\ Bytes(o) > MaxOutput
    /\ \A i \in DOMAIN o : Bytes(SubSeq(o, 1, i)) # MaxOutput

\* The end of the process is noticed.
Finish ==
    /\ main = "cmd" /\ cmd.out # None /\ Driven
    /\ ~CutsCharacter(cmd.out)
    /\ main' = "answer"
    /\ cmd' = None
    /\ UNCHANGED <<agentVars, taskVars>>

\* A panic ends main, and with it the gateway and everybody's connections.
Panic ==
    /\ main = "cmd" /\ cmd.out # None /\ Driven
    /\ CutsCharacter(cmd.out)
    /\ main' = "dead" /\ cmd' = None
    /\ registry' = [a \in Agents |-> None] /\ active' = None /\ UNCHANGED saved
    /\ blocked' = [w \in Workers |-> None] /\ waiting' = {} /\ pending' = [a \in Agents |-> 0]
    /\ hb' = Interval /\ UNCHANGED quiet

\* Variant: the timer of a command is not waited for.
NoTimeUp == FALSE

TimeUp == cmd.left = 0

\* "command timed out": the future is dropped, the process runs on.
TimesOut ==
    /\ main = "cmd" /\ cmd.out = None /\ TimeUp /\ Driven
    /\ main' = "answer"
    /\ cmd' = None
    /\ UNCHANGED <<agentVars, taskVars>>

\* The answer is sent: a request to the platform takes longer than to wake a
\* thread that waits for the router.
Answered ==
    /\ main = "answer" /\ \A w \in Workers : blocked[w] = None
    /\ main' = "idle"
    /\ UNCHANGED <<cmd, agentVars, taskVars>>

\* The gateway is started again: load_state.
Restart ==
    /\ main = "dead"
    /\ main' = "idle"
    /\ active' = saved
    /\ UNCHANGED <<registry, saved, cmd, taskVars>>

----------------------------------------------------------------------------
(* Time, when nobody can do anything without it.                           *)

Less(n) == IF n = 0 THEN 0 ELSE n - 1

Idle ==
    /\ main \in {"idle", "cmd"}
    /\ ~(Free /\ \E w \in Workers : blocked[w] # None)
    /\ Driven => /\ waiting = {} /\ ~Slept
                 /\ main = "cmd" => cmd.out = None /\ ~TimeUp

Tick ==
    /\ Idle
    /\ hb' = Less(hb)
    /\ cmd' = IF cmd = None THEN None ELSE [cmd EXCEPT !.left = Less(@)]
    /\ registry' = [a \in Agents |-> IF registry[a] = None THEN None
                                     ELSE [registry[a] EXCEPT !.age = Older(@)]]
    /\ quiet' = [a \in Agents |-> Older(quiet[a])]
    /\ UNCHANGED <<main, active, saved, blocked, waiting, pending>>

WorkerStep == \E w \in Workers : (\E t \in waiting : Take(w, t)) \/ Resume(w)

Next ==
    \/ \E a \in Agents, k \in Kinds : Request(a, k) \/ Repeat(a, k)
    \/ Wake \/ WorkerStep
    \/ \E text \in Texts : Message(text)
    \/ Exit \/ Finish \/ Panic \/ TimesOut \/ Answered \/ Restart \/ Tick

\* Workers and main run, no task is passed over, timers that are driven fire;
\* what comes in leaves moments in which nothing is left to do, and in them time
\* passes.  Neither a process that exits nor an agent that asks is assumed.
Fairness ==
    /\ \A w \in Workers : WF_vars(Resume(w))
    /\ \A t \in Tasks : WF_vars(\E w \in Workers : Take(w, t))
    /\ WF_vars(Wake) /\ WF_vars(Finish \/ Panic) /\ WF_vars(TimesOut) /\ WF_vars(Answered)
    /\ []<>(Idle \/ main = "dead") /\ SF_vars(Tick)

Spec == Init /\ [][Next]_vars /\ Fairness

----------------------------------------------------------------------------
(* Properties.                                                             *)

Times == 0..(Timeout + 1)

\* Every variable has its type; a command runs while main has the router, and
\* nobody waits twice.
TypeOK ==
    /\ registry \in [Agents -> [status: {"online", "offline"}, age: Times] \cup {None}]
    /\ {active, saved} \subseteq Agents \cup {None}
    /\ main \in {"idle", "cmd", "answer", "dead"} /\ (main = "cmd" <=> cmd # None)
    /\ blocked \in [Workers -> Tasks \cup {None}] /\ waiting \subseteq Tasks
    /\ \A w \in Workers : blocked[w] \notin waiting
    /\ \A v, w \in Workers : blocked[v] = blocked[w] => v = w \/ blocked[v] = None
    /\ pending \in [Agents -> 0..MaxTries] /\ hb \in 0..Interval
    /\ quiet \in [Agents -> Times]

\* An agent that is marked offline has neither registered nor polled for the
\* time of the timeout - or it has, and its request waits for the router: when
\* a command has kept the router that long, the checker may get it first.
OfflineIsQuiet ==
    [][\A a \in Agents : Online(a) /\ registry'[a] # None /\ registry'[a].status = "offline"
         => quiet[a] > Timeout \/ \E t \in TasksOf(a) : t.kind # "status"]_vars

\* An agent that is never heard of again is not online for ever, whatever
\* commands keep the checker from the router.
QuietGoesOffline ==
    \A a \in Agents : <>[](quiet[a] > Timeout) => <>[]~Online(a)

\* A command comes to an end - by itself, by its timeout, or with the gateway -
\* if it is one that never exits, too.
CmdEnds == main = "cmd" ~> main # "cmd"

\* Whoever asks is answered, and is not left waiting behind a command.
RequestsServed == \A a \in Agents : pending[a] # 0 ~> pending[a] = 0
=============================================================================
