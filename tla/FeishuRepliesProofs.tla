------------------------- MODULE FeishuRepliesProofs -------------------------
(***************************************************************************)
(* Proofs about how the Feishu gateway answers (FeishuReplies), for any    *)
(* number of replies and parts, any depth of the channel, any thresholds   *)
(* and ages of the breaker and any goroutines that share it: what the      *)
(* platform takes comes in order, and a failure silences all of them.      *)
(***************************************************************************)
EXTENDS FeishuReplies, TLAPS

Reply  == [n: Nat, to: {"message", "user", "none"}, parts: Seq(Parts)]
Waiter == [reply: Reply, left: Nat]
Job    == [st: {"gate", "call"}, op: {"upload", "reply", "send", "fallback"},
           target: {"context", "lost", "user"}, part: Nat, reply: Reply]

TypeOK ==
    /\ posted \in Nat
    /\ ch \in Seq(Reply) /\ waiting \in Seq(Waiter)
    /\ job \in Job \cup {NoJob}
    /\ other \in [Others -> {"idle", "call"}]
    /\ breaker = [opened |-> breaker.opened, left |-> breaker.left, failures |-> breaker.failures]
    /\ breaker.opened \in BOOLEAN /\ breaker.left \in Nat
    /\ last \in Nat \X Nat /\ quiet \in Nat

\* Who waits finds the channel full, so that nobody overtakes him ...
ChannelInv ==
    /\ waiting # << >> => Len(ch) >= Depth
    /\ \A i, j \in 1..Len(ch) : i < j => ch[i].n < ch[j].n
    /\ \A i, j \in 1..Len(waiting) : i < j => waiting[i].reply.n < waiting[j].reply.n
    /\ \A i \in 1..Len(ch), j \in 1..Len(waiting) : ch[i].n < waiting[j].reply.n

\* ... and what is at work comes before what waits, and after what was sent.
SentInv ==
    /\ last[1] <= posted
    /\ \A i \in 1..Len(ch) : last[1] < ch[i].n /\ ch[i].n <= posted
    /\ \A j \in 1..Len(waiting) : last[1] < waiting[j].reply.n /\ waiting[j].reply.n <= posted
    /\ job # NoJob =>
          /\ job.reply.n <= posted
          /\ last[1] <= job.reply.n /\ (last[1] = job.reply.n => last[2] <= job.part)
          /\ \A i \in 1..Len(ch) : job.reply.n < ch[i].n
          /\ \A j \in 1..Len(waiting) : job.reply.n < waiting[j].reply.n

\* The cooldown of the last failure keeps the breaker open.
QuietInv == quiet > 0 => breaker.opened /\ breaker.left >= quiet

RepliesInv == TypeOK /\ ChannelInv /\ SentInv /\ QuietInv

----------------------------------------------------------------------------
(* The breaker.                                                            *)

\* What is left of the module when only the breaker and its time change.
BreakerOK(b, q) ==
    /\ b = [opened |-> b.opened, left |-> b.left, failures |-> b.failures]
    /\ b.opened \in BOOLEAN /\ b.left \in Nat /\ q \in Nat
    /\ q > 0 => b.opened /\ b.left >= q

LEMMA BreakerMarks ==
    ASSUME RepliesInv,
           \/ breaker' = AfterPass /\ ~IsOpen /\ UNCHANGED quiet
           \/ breaker' = AfterRejection /\ UNCHANGED quiet
           \/ RecordSuccess \/ RecordFailure
           \/ UNCHANGED <<breaker, quiet>>
    PROVE  BreakerOK(breaker', quiet')
<1>0. BreakerOK(breaker, quiet) /\ Cooldown \in Nat
  BY RepliesAssumption DEF RepliesInv, TypeOK, QuietInv, BreakerOK
<1>1. BreakerOK(Closed, 0)
  BY DEF BreakerOK, Closed
<1>2. CASE breaker' = AfterPass /\ ~IsOpen /\ UNCHANGED quiet
  <2>1. quiet = 0
    BY <1>0, <1>2 DEF IsOpen, BreakerOK
  <2>2. QED
    BY <1>0, <1>1, <1>2, <2>1 DEF AfterPass
<1>3. CASE breaker' = AfterRejection /\ UNCHANGED quiet
  BY <1>0, <1>3 DEF AfterRejection
<1>4. CASE RecordSuccess
  BY <1>1, <1>4 DEF RecordSuccess
<1>5. CASE RecordFailure
  <2> DEFINE all == Append(SelectSeq(breaker.failures, LAMBDA t : t > 0), Window + 1)
  <2>1. /\ breaker' = IF Len(all) >= Threshold
                      THEN [opened |-> TRUE, left |-> Opened, failures |-> all]
                      ELSE [breaker EXCEPT !.failures = all]
        /\ quiet' = IF Len(all) >= Threshold THEN Cooldown + 1 ELSE quiet
    BY <1>5 DEF RecordFailure
  <2> HIDE DEF all
  <2>2. CASE Len(all) >= Threshold
    <3>1. breaker' = [opened |-> TRUE, left |-> Cooldown + 1, failures |-> all] /\ quiet' = Cooldown + 1
      BY <2>1, <2>2 DEF Opened
    <3>2. QED
      BY <1>0, <3>1 DEF BreakerOK
  <2>3. CASE ~(Len(all) >= Threshold)
    <3>1. breaker' = [breaker EXCEPT !.failures = all] /\ quiet' = quiet
      BY <2>1, <2>3
    <3>2. breaker' = [opened |-> breaker.opened, left |-> breaker.left, failures |-> all]
      BY <1>0, <3>1 DEF BreakerOK
    <3>3. QED
      BY <1>0, <3>1, <3>2 DEF BreakerOK
  <2>4. QED
    BY <2>2, <2>3
<1>6. CASE UNCHANGED <<breaker, quiet>>
  BY <1>0, <1>6
<1>7. QED
  BY <1>2, <1>3, <1>4, <1>5, <1>6

----------------------------------------------------------------------------
(* The jobs.                                                               *)

\* The job that goes on: a part behind, or none is left.
LEMMA AtShape ==
    ASSUME NEW j \in Job
    PROVE  \/ At(j) = NoJob
           \/ /\ At(j) \in Job /\ At(j).st = "gate" /\ At(j) # NoJob
              /\ At(j).reply = j.reply /\ At(j).part = j.part
<1>1. CASE j.part \notin DOMAIN j.reply.parts
  BY <1>1 DEF At
<1>2. CASE j.part \in DOMAIN j.reply.parts
  <2> DEFINE o == IF j.reply.parts[j.part] = "file" THEN "upload" ELSE Deliver(j.target)
  <2>1. At(j) = [j EXCEPT !.st = "gate", !.op = o]
    BY <1>2, Zenon DEF At
  <2>2. o \in {"upload", "reply", "send"}
    BY DEF Deliver
  <2> HIDE DEF o
  <2>3. QED
    BY <2>1, <2>2 DEF Job, NoJob
<1>3. QED
  BY <1>1, <1>2

LEMMA RestShape ==
    ASSUME NEW j \in Job
    PROVE  Rest(j) \in Job /\ Rest(j).reply = j.reply /\ Rest(j).part = j.part + 1
  BY DEF Rest, Job

\* A job that goes on within its part, or to the next one.
Onward(j, k) ==
    \/ k = NoJob
    \/ /\ k \in Job /\ k # NoJob
       /\ k.reply = j.reply /\ k.part \in {j.part, j.part + 1}

LEMMA RestIsOnward ==
    ASSUME NEW j \in Job
    PROVE  Onward(j, At(Rest(j))) /\ At(Rest(j)).st # "call"
<1>1. /\ Rest(j) \in Job /\ Rest(j).reply = j.reply /\ Rest(j).part = j.part + 1
  BY RestShape
<1>2. \/ At(Rest(j)) = NoJob
      \/ /\ At(Rest(j)) \in Job /\ At(Rest(j)).st = "gate" /\ At(Rest(j)) # NoJob
         /\ At(Rest(j)).reply = j.reply /\ At(Rest(j)).part = j.part + 1
  BY <1>1, AtShape
<1>3. QED
  BY <1>2 DEF Onward, NoJob

\* Pass lets a call begin; what else the processor does with a job ends one, or
\* leaves it before its gate.
LEMMA JobMoves ==
    ASSUME TypeOK, Pass \/ Rejected \/ UploadSucceeds \/ UploadFails \/ Unreadable \/ SendSucceeds \/ SendFails
    PROVE  /\ job \in Job /\ job # NoJob /\ Onward(job, job')
           /\ job'.st = "call" => Pass
           /\ last' \in {last, <<job.reply.n, job.part>>}
           /\ UNCHANGED <<posted, ch, waiting, other>>
<1>1. job \in Job /\ job # NoJob
  BY DEF TypeOK, NoJob, Pass, Rejected, UploadSucceeds, UploadFails, Unreadable, SendSucceeds, SendFails
<1>2. Onward(job, At(Rest(job))) /\ At(Rest(job)).st # "call"
  BY <1>1, RestIsOnward
<1>3. ASSUME NEW o \in {"upload", "reply", "send", "fallback"}, NEW s \in {"gate", "call"}
      PROVE  Onward(job, [job EXCEPT !.st = s, !.op = o]) /\ [job EXCEPT !.st = s, !.op = o].st = s
  BY <1>1 DEF Onward, Job, NoJob
<1>4. CASE Pass
  <2>1. job' = [job EXCEPT !.st = "call"] /\ UNCHANGED <<posted, ch, waiting, other, last>>
    BY <1>4 DEF Pass
  <2>2. Onward(job, job')
    BY <1>1, <2>1 DEF Onward, Job, NoJob
  <2>3. QED
    BY <1>1, <1>4, <2>1, <2>2
<1>5. CASE Rejected
  <2>1. job.st = "gate" /\ UNCHANGED <<posted, ch, waiting, other, last>>
        /\ job' = IF job.op = "reply" THEN [job EXCEPT !.op = "send"] ELSE At(Rest(job))
    BY <1>5 DEF Rejected
  <2>2. [job EXCEPT !.op = "send"] = [job EXCEPT !.st = "gate", !.op = "send"]
    BY <1>1, <2>1 DEF Job
  <2>3. QED
    BY <1>1, <1>2, <1>3, <2>1, <2>2
<1>6. CASE UploadSucceeds
  <2>1. job' = [job EXCEPT !.st = "gate", !.op = Deliver(job.target)] /\ UNCHANGED <<posted, ch, waiting, other, last>>
    BY <1>6 DEF UploadSucceeds
  <2>2. Deliver(job.target) \in {"reply", "send"}
    BY DEF Deliver
  <2>3. QED
    BY <1>1, <1>3, <2>1, <2>2
<1>7. CASE UploadFails \/ Unreadable
  BY <1>1, <1>2, <1>7 DEF UploadFails, Unreadable
<1>8. CASE SendSucceeds
  BY <1>1, <1>2, <1>8 DEF SendSucceeds, Part
<1>9. CASE SendFails
  BY <1>1, <1>2, <1>3, <1>9 DEF SendFails, Part
<1>10. QED
  BY <1>4, <1>5, <1>6, <1>7, <1>8, <1>9

----------------------------------------------------------------------------
(* The invariant.                                                          *)

LEMMA RepliesInit == Init => RepliesInv
  BY RepliesAssumption DEF Init, Closed, RepliesInv, TypeOK, ChannelInv, SentInv, QuietInv

\* A job goes on: the part that is sent is its own, and nothing overtakes it.
LEMMA JobKeeps ==
    ASSUME RepliesInv, BreakerOK(breaker', quiet'), job \in Job, job # NoJob, Onward(job, job'),
           last' \in {last, <<job.reply.n, job.part>>}, UNCHANGED <<posted, ch, waiting, other>>
    PROVE  RepliesInv'
<1>0. job.reply.n \in Nat /\ job.part \in Nat /\ last[1] \in Nat /\ last[2] \in Nat
  BY DEF RepliesInv, TypeOK, Job, Reply
<1>1. TypeOK'
  <2>1. last' \in Nat \X Nat
    BY <1>0 DEF RepliesInv, TypeOK
  <2>2. job' \in Job \cup {NoJob}
    BY DEF Onward
  <2>3. QED
    BY <2>1, <2>2 DEF RepliesInv, TypeOK, BreakerOK
<1>2. ChannelInv'
  BY DEF RepliesInv, ChannelInv
<1>3. \/ last' = last
      \/ last'[1] = job.reply.n /\ last'[2] = job.part
  OBVIOUS
<1>4. /\ last'[1] <= job.reply.n /\ (last'[1] = job.reply.n => last'[2] <= job.part)
      /\ job.reply.n <= posted
      /\ \A i \in 1..Len(ch) : job.reply.n < ch[i].n
      /\ \A j \in 1..Len(waiting) : job.reply.n < waiting[j].reply.n
  BY <1>0, <1>3 DEF RepliesInv, SentInv
<1>5. \A i \in 1..Len(ch) : last'[1] < ch[i].n /\ ch[i].n <= posted
  BY <1>3, <1>4 DEF RepliesInv, SentInv
<1>6. \A j \in 1..Len(waiting) : last'[1] < waiting[j].reply.n /\ waiting[j].reply.n <= posted
  BY <1>3, <1>4 DEF RepliesInv, SentInv
<1>7. last'[1] <= posted
  BY <1>3, <1>4 DEF RepliesInv, SentInv
<1>8. job' # NoJob => /\ job'.reply.n = job.reply.n /\ job'.part \in {job.part, job.part + 1}
                      /\ (last'[1] = job'.reply.n => last'[2] <= job'.part)
  <2>1. last'[2] \in Nat
    BY <1>0, <1>3
  <2>2. QED
    BY <1>0, <1>4, <2>1 DEF Onward
<1>9. SentInv'
  BY <1>4, <1>5, <1>6, <1>7, <1>8 DEF SentInv
<1>10. QED
  BY <1>1, <1>2, <1>9 DEF RepliesInv, QuietInv, BreakerOK

\* What the steps of the handlers, of the other goroutines and of time leave of
\* the job and of what was sent.
LEMMA PostKeeps ==
    ASSUME RepliesInv, Post
    PROVE  RepliesInv'
<1>1. PICK to \in {"message", "user", "none"}, b \in Bodies :
         IF Room
         THEN ch' = Append(ch, [n |-> posted', to |-> to, parts |-> b]) /\ UNCHANGED waiting
         ELSE /\ waiting' = Append(waiting, [reply |-> [n |-> posted', to |-> to, parts |-> b], left |-> SendWait])
              /\ UNCHANGED ch
  BY DEF Post
<1> DEFINE r == [n |-> posted', to |-> to, parts |-> b]
<1>2. /\ posted' = posted + 1 /\ posted \in Nat
      /\ UNCHANGED <<job, other, breaker, stored, last, quiet>>
      /\ ch \in Seq(Reply) /\ waiting \in Seq(Waiter) /\ Depth \in Nat /\ SendWait \in Nat
  BY RepliesAssumption DEF Post, RepliesInv, TypeOK
<1>3. r \in Reply /\ r.n = posted + 1
  BY <1>2, RepliesAssumption DEF Reply
<1>4. job # NoJob => job \in Job /\ job.reply.n \in Nat
  BY DEF RepliesInv, TypeOK, Job, Reply
<1>5. /\ \A i \in 1..Len(ch) : ch[i] \in Reply /\ ch[i].n \in Nat
      /\ \A j \in 1..Len(waiting) : waiting[j].reply.n \in Nat
  <2>1. \A j \in 1..Len(waiting) : waiting[j] \in Waiter
    BY <1>2
  <2>2. \A v \in Waiter : v.reply.n \in Nat
    BY DEF Waiter, Reply
  <2>3. \A i \in 1..Len(ch) : ch[i] \in Reply
    BY <1>2
  <2>4. QED
    BY <2>1, <2>2, <2>3 DEF Reply
<1>6. last[1] \in Nat /\ last[2] \in Nat
  BY DEF RepliesInv, TypeOK
<1>7. CASE Room
  <2>1. ch' = Append(ch, r) /\ waiting' = waiting /\ Len(ch) < Depth
    BY <1>1, <1>7 DEF Room
  <2> HIDE DEF r
  <2>2. /\ ch' \in Seq(Reply) /\ Len(ch') = Len(ch) + 1 /\ Len(ch) \in Nat
        /\ \A i \in 1..Len(ch) : ch'[i] = ch[i]
        /\ ch'[Len(ch) + 1] = r
    BY <1>2, <1>3, <2>1
  <2>3. waiting = << >>
    BY <1>2, <2>1, <2>2 DEF RepliesInv, ChannelInv
  <2>4. TypeOK'
    BY <1>2, <2>1, <2>2 DEF RepliesInv, TypeOK
  <2>5. ChannelInv'
    <3>1. \A i, j \in 1..Len(ch') : i < j => ch'[i].n < ch'[j].n
      <4> SUFFICES ASSUME NEW i \in 1..Len(ch'), NEW j \in 1..Len(ch'), i < j PROVE ch'[i].n < ch'[j].n
        OBVIOUS
      <4>1. i \in 1..Len(ch) /\ ch'[i] = ch[i]
        BY <2>2
      <4>2. CASE j \in 1..Len(ch)
        BY <2>2, <4>1, <4>2 DEF RepliesInv, ChannelInv
      <4>3. CASE j = Len(ch) + 1
        BY <1>2, <1>3, <1>5, <2>2, <4>1, <4>3 DEF RepliesInv, SentInv
      <4>4. QED
        BY <2>2, <4>2, <4>3
    <3>2. QED
      BY <2>1, <2>3, <3>1 DEF ChannelInv
  <2>6. SentInv'
    <3>1. \A i \in 1..Len(ch') : \/ i \in 1..Len(ch) /\ ch'[i].n = ch[i].n
                                 \/ ch'[i].n = posted + 1
      BY <1>3, <2>2
    <3>2. \A i \in 1..Len(ch') : last[1] < ch'[i].n /\ ch'[i].n <= posted + 1
      BY <1>2, <1>5, <1>6, <3>1 DEF RepliesInv, SentInv
    <3>3. job # NoJob => \A i \in 1..Len(ch') : job.reply.n < ch'[i].n
      <4>1. job # NoJob => /\ job.reply.n <= posted /\ job.reply.n \in Nat
                           /\ \A i \in 1..Len(ch) : job.reply.n < ch[i].n
        BY <1>4 DEF RepliesInv, SentInv
      <4>2. QED
        BY <1>2, <3>1, <4>1
    <3>4. Len(waiting) = 0 /\ last[1] <= posted + 1 /\ (job # NoJob => job.reply.n <= posted + 1)
      BY <1>2, <1>4, <1>6, <2>3 DEF RepliesInv, SentInv
    <3>5. job # NoJob => last[1] <= job.reply.n /\ (last[1] = job.reply.n => last[2] <= job.part)
      BY DEF RepliesInv, SentInv
    <3>6. QED
      BY <1>2, <2>1, <3>2, <3>3, <3>4, <3>5 DEF SentInv
  <2>7. QED
    BY <1>2, <2>4, <2>5, <2>6 DEF RepliesInv, QuietInv
<1>8. CASE ~Room
  <2>1. waiting' = Append(waiting, [reply |-> r, left |-> SendWait]) /\ ch' = ch /\ ~(Len(ch) < Depth)
    BY <1>1, <1>8 DEF Room
  <2> HIDE DEF r
  <2>2. /\ waiting' \in Seq(Waiter) /\ Len(waiting') = Len(waiting) + 1 /\ Len(waiting) \in Nat
        /\ \A j \in 1..Len(waiting) : waiting'[j] = waiting[j]
        /\ waiting'[Len(waiting) + 1].reply = r
    BY <1>2, <1>3, <2>1 DEF Waiter
  <2>3. Len(ch) >= Depth
    BY <1>2, <2>1
  <2>4. TypeOK'
    BY <1>2, <2>1, <2>2 DEF RepliesInv, TypeOK
  <2>5. \A j \in 1..Len(waiting') : \/ j \in 1..Len(waiting) /\ waiting'[j].reply.n = waiting[j].reply.n
                                    \/ j = Len(waiting) + 1 /\ waiting'[j].reply.n = posted + 1
    BY <1>3, <2>2
  <2>6. ChannelInv'
    <3>1. \A i, j \in 1..Len(waiting') : i < j => waiting'[i].reply.n < waiting'[j].reply.n
      <4> SUFFICES ASSUME NEW i \in 1..Len(waiting'), NEW j \in 1..Len(waiting'), i < j
                   PROVE  waiting'[i].reply.n < waiting'[j].reply.n
        OBVIOUS
      <4>1. i \in 1..Len(waiting) /\ waiting'[i].reply.n = waiting[i].reply.n
        BY <2>2, <2>5
      <4>2. QED
        BY <1>2, <1>5, <2>5, <4>1 DEF RepliesInv, ChannelInv, SentInv
    <3>2. \A i \in 1..Len(ch), j \in 1..Len(waiting') : ch[i].n < waiting'[j].reply.n
      BY <1>2, <1>5, <2>5 DEF RepliesInv, ChannelInv, SentInv
    <3>3. \A i, j \in 1..Len(ch) : i < j => ch[i].n < ch[j].n
      BY DEF RepliesInv, ChannelInv
    <3>4. QED
      BY <2>1, <2>3, <3>1, <3>2, <3>3 DEF ChannelInv
  <2>7. SentInv'
    <3>1. \A j \in 1..Len(waiting') : last[1] < waiting'[j].reply.n /\ waiting'[j].reply.n <= posted + 1
      <4>1. last[1] < posted + 1 /\ \A j \in 1..Len(waiting) : waiting[j].reply.n <= posted + 1
        BY <1>2, <1>5, <1>6 DEF RepliesInv, SentInv
      <4>2. QED
        BY <1>2, <1>6, <2>5, <4>1 DEF RepliesInv, SentInv
    <3>2. job # NoJob => \A j \in 1..Len(waiting') : job.reply.n < waiting'[j].reply.n
      <4> SUFFICES ASSUME job # NoJob, NEW j \in 1..Len(waiting') PROVE job.reply.n < waiting'[j].reply.n
        OBVIOUS
      <4>1. /\ job.reply.n <= posted /\ job.reply.n \in Nat
            /\ \A i \in 1..Len(waiting) : job.reply.n < waiting[i].reply.n
        BY <1>4 DEF RepliesInv, SentInv
      <4>2. CASE j \in 1..Len(waiting) /\ waiting'[j].reply.n = waiting[j].reply.n
        BY <4>1, <4>2
      <4>3. CASE waiting'[j].reply.n = posted + 1
        BY <1>2, <4>1, <4>3
      <4>4. QED
        BY <2>5, <4>2, <4>3
    <3>3. \A i \in 1..Len(ch) : last[1] < ch[i].n /\ ch[i].n <= posted + 1
      BY <1>2, <1>5 DEF RepliesInv, SentInv
    <3>4. last[1] <= posted + 1 /\ (job # NoJob => job.reply.n <= posted + 1)
      BY <1>2, <1>4, <1>6 DEF RepliesInv, SentInv
    <3>5. job # NoJob => /\ last[1] <= job.reply.n /\ (last[1] = job.reply.n => last[2] <= job.part)
                         /\ \A i \in 1..Len(ch) : job.reply.n < ch[i].n
      BY DEF RepliesInv, SentInv
    <3>6. QED
      BY <1>2, <2>1, <3>1, <3>2, <3>3, <3>4, <3>5 DEF SentInv
  <2>8. QED
    BY <1>2, <2>4, <2>6, <2>7 DEF RepliesInv, QuietInv
<1>9. QED
  BY <1>7, <1>8

\* Handlers that wait, fewer or with less time, wait in the order they had.
LEMMA WaitersKeep ==
    ASSUME RepliesInv, waiting' \in Seq(Waiter), BreakerOK(breaker', quiet'),
           NEW f \in [1..Len(waiting') -> 1..Len(waiting)],
           \A i, j \in 1..Len(waiting') : i < j => f[i] < f[j],
           \A j \in 1..Len(waiting') : waiting'[j].reply = waiting[f[j]].reply,
           other' \in [Others -> {"idle", "call"}],
           UNCHANGED <<posted, ch, job, last>>
    PROVE  RepliesInv'
<1>1. TypeOK'
  BY DEF RepliesInv, TypeOK, BreakerOK
<1>2. waiting' # << >> => waiting # << >>
  <2>1. waiting \in Seq(Waiter) /\ (waiting' # << >> => Len(waiting') >= 1)
    BY DEF RepliesInv, TypeOK
  <2>2. waiting' # << >> => 1 \in 1..Len(waiting')
    BY <2>1
  <2>3. waiting' # << >> => f[1] \in 1..Len(waiting)
    BY <2>2
  <2>4. QED
    BY <2>1, <2>3
<1>3. ChannelInv'
  <2>1. \A i, j \in 1..Len(waiting') : i < j => waiting'[i].reply.n < waiting'[j].reply.n
    BY DEF RepliesInv, ChannelInv
  <2>2. \A i \in 1..Len(ch), j \in 1..Len(waiting') : ch[i].n < waiting'[j].reply.n
    BY DEF RepliesInv, ChannelInv
  <2>3. QED
    BY <1>2, <2>1, <2>2 DEF RepliesInv, ChannelInv
<1>4. SentInv'
  <2>1. \A j \in 1..Len(waiting') : last[1] < waiting'[j].reply.n /\ waiting'[j].reply.n <= posted
    BY DEF RepliesInv, SentInv
  <2>2. job # NoJob => \A j \in 1..Len(waiting') : job.reply.n < waiting'[j].reply.n
    BY DEF RepliesInv, SentInv
  <2>3. QED
    BY <2>1, <2>2 DEF RepliesInv, SentInv
<1>5. QED
  BY <1>1, <1>3, <1>4 DEF RepliesInv, QuietInv, BreakerOK

LEMMA GiveUpKeeps ==
    ASSUME RepliesInv, NEW w \in DOMAIN waiting, GiveUp(w)
    PROVE  RepliesInv'
<1> DEFINE f == [v \in 1..Len(waiting) - 1 |-> IF v < w THEN v ELSE v + 1]
<1>1. waiting \in Seq(Waiter) /\ Len(waiting) \in Nat /\ w \in 1..Len(waiting)
  BY DEF RepliesInv, TypeOK
<1>2. f \in [1..Len(waiting) - 1 -> 1..Len(waiting)]
  BY <1>1
<1>3. waiting' = [v \in 1..Len(waiting) - 1 |-> waiting[f[v]]]
  BY <1>1 DEF GiveUp
<1>4. \A i, j \in 1..Len(waiting) - 1 : i < j => f[i] < f[j]
  BY <1>1
<1> HIDE DEF f
<1>5. waiting' \in Seq(Waiter) /\ Len(waiting') = Len(waiting) - 1
      /\ \A j \in 1..Len(waiting) - 1 : waiting'[j] = waiting[f[j]]
  BY <1>1, <1>2, <1>3
<1>6. UNCHANGED <<posted, ch, job, other, breaker, last, quiet>>
  BY DEF GiveUp
<1>7. BreakerOK(breaker', quiet')
  BY <1>6, BreakerMarks
<1>8. other' \in [Others -> {"idle", "call"}]
  BY <1>6 DEF RepliesInv, TypeOK
<1>9. QED
  BY <1>2, <1>4, <1>5, <1>6, <1>7, <1>8, WaitersKeep

LEMMA TickKeeps ==
    ASSUME RepliesInv, Tick
    PROVE  RepliesInv'
<1> DEFINE f == [w \in 1..Len(waiting) |-> w]
<1>1. waiting \in Seq(Waiter) /\ Len(waiting) \in Nat
  BY DEF RepliesInv, TypeOK
<1>2. \A w \in 1..Len(waiting) : /\ [waiting[w] EXCEPT !.left = Less(@)] \in Waiter
                                 /\ [waiting[w] EXCEPT !.left = Less(@)].reply = waiting[w].reply
  <2>1. ASSUME NEW v \in Waiter
        PROVE  [v EXCEPT !.left = Less(@)] \in Waiter /\ [v EXCEPT !.left = Less(@)].reply = v.reply
    <3>1. Less(v.left) \in Nat
      BY DEF Waiter, Less
    <3>2. [v EXCEPT !.left = Less(@)] = [reply |-> v.reply, left |-> Less(v.left)]
      BY DEF Waiter
    <3>3. v.reply \in Reply
      BY DEF Waiter
    <3>4. QED
      BY <3>1, <3>2, <3>3 DEF Waiter
  <2>2. \A w \in 1..Len(waiting) : waiting[w] \in Waiter
    BY <1>1
  <2>3. QED
    BY <2>1, <2>2, Zenon
<1>3. waiting' = [w \in 1..Len(waiting) |-> [waiting[w] EXCEPT !.left = Less(@)]]
  BY <1>1 DEF Tick
<1>4. waiting' \in Seq(Waiter) /\ Len(waiting') = Len(waiting)
      /\ \A j \in 1..Len(waiting) : waiting'[j].reply = waiting[f[j]].reply
  <2>1. \A w \in 1..Len(waiting) : waiting'[w] \in Waiter /\ waiting'[w].reply = waiting[w].reply
    BY <1>2, <1>3, Zenon
  <2>2. waiting' \in Seq(Waiter) /\ Len(waiting') = Len(waiting)
    BY <1>1, <1>3, <2>1
  <2>3. QED
    BY <2>1, <2>2
<1>5. f \in [1..Len(waiting') -> 1..Len(waiting)] /\ \A i, j \in 1..Len(waiting') : i < j => f[i] < f[j]
  BY <1>4
<1> HIDE DEF f
<1>6. BreakerOK(breaker', quiet')
  <2> DEFINE g == [t \in DOMAIN breaker.failures |-> Less(breaker.failures[t])]
  <2>1. breaker = [opened |-> breaker.opened, left |-> breaker.left, failures |-> breaker.failures]
    BY DEF RepliesInv, TypeOK
  <2>2. breaker' = [breaker EXCEPT !.left = Less(@), !.failures = g] /\ quiet' = Less(quiet)
    BY DEF Tick
  <2> HIDE DEF g
  <2>3. breaker' = [opened |-> breaker.opened, left |-> Less(breaker.left), failures |-> g]
    BY <2>1, <2>2
  <2>4. breaker.opened \in BOOLEAN /\ breaker.left \in Nat /\ quiet \in Nat
        /\ (quiet > 0 => breaker.opened /\ breaker.left >= quiet)
    BY DEF RepliesInv, TypeOK, QuietInv
  <2>5. Less(breaker.left) \in Nat /\ Less(quiet) \in Nat
        /\ (Less(quiet) > 0 => quiet > 0 /\ (breaker.left >= quiet => Less(breaker.left) >= Less(quiet)))
    BY <2>4 DEF Less
  <2>6. QED
    BY <2>2, <2>3, <2>4, <2>5 DEF BreakerOK
<1>7. UNCHANGED <<posted, ch, job, other, last>>
  BY DEF Tick
<1>8. other' \in [Others -> {"idle", "call"}]
  BY <1>7 DEF RepliesInv, TypeOK
<1>9. QED
  BY <1>4, <1>5, <1>6, <1>7, <1>8, WaitersKeep

\* The processor takes the first reply, and a handler's takes its place: the
\* order in the channel and among the handlers is what it was.
LEMMA ReceiveKeeps ==
    ASSUME RepliesInv, TakeReply \/ DropReply
    PROVE  RepliesInv'
<1>1. /\ Receive /\ UNCHANGED <<posted, other, breaker, last, quiet>>
      /\ \/ job' = job
         \/ \E t \in Targets(Head(ch)) :
              job' = At([st |-> "gate", op |-> "send", target |-> t, part |-> 1, reply |-> Head(ch)])
  BY DEF TakeReply, DropReply
<1>2. /\ job = NoJob /\ ch # << >>
      /\ ch \in Seq(Reply) /\ waiting \in Seq(Waiter) /\ Len(ch) \in Nat /\ Len(waiting) \in Nat
      /\ posted \in Nat /\ last[1] \in Nat /\ last[2] \in Nat
  BY <1>1 DEF Receive, RepliesInv, TypeOK
<1>3. Len(ch) >= 1 /\ Head(ch) = ch[1] /\ ch[1] \in Reply /\ ch[1].n \in Nat
  <2>1. Len(ch) >= 1 /\ Head(ch) = ch[1]
    BY <1>2
  <2>2. 1 \in 1..Len(ch)
    BY <1>2, <2>1
  <2>3. ch[1] \in Reply
    BY <1>2, <2>2
  <2>4. QED
    BY <2>1, <2>3 DEF Reply
<1>4. \/ job' = NoJob
      \/ job' # NoJob /\ job' \in Job /\ job'.reply = ch[1] /\ job'.part = 1
  <2>1. CASE job' = job
    BY <1>2, <2>1
  <2>2. ASSUME NEW t \in Targets(Head(ch)),
               job' = At([st |-> "gate", op |-> "send", target |-> t, part |-> 1, reply |-> Head(ch)])
        PROVE  \/ job' = NoJob
               \/ job' # NoJob /\ job' \in Job /\ job'.reply = ch[1] /\ job'.part = 1
    <3>1. t \in {"context", "lost", "user"}
      <4>1. ch[1].to \in {"message", "user", "none"}
        BY <1>3 DEF Reply
      <4>2. QED
        BY <1>3, <2>2, <4>1 DEF Targets
    <3>2. [st |-> "gate", op |-> "send", target |-> t, part |-> 1, reply |-> Head(ch)] \in Job
      BY <1>3, <3>1 DEF Job
    <3>3. QED
      BY <1>3, <2>2, <3>2, AtShape
  <2>3. QED
    BY <1>1, <2>1, <2>2
\* Where the replies of the channel and the handlers come from.
<1>5. /\ ch' \in Seq(Reply) /\ waiting' \in Seq(Waiter)
      /\ \A i \in 1..Len(ch') : \/ i \in 1..Len(ch) - 1 /\ ch'[i] = ch[i + 1]
                                \/ i = Len(ch) /\ Len(waiting) >= 1 /\ ch'[i] = waiting[1].reply
      /\ \A j \in 1..Len(waiting') : j + 1 \in 1..Len(waiting) /\ waiting'[j] = waiting[j + 1]
      /\ waiting # << >> => Len(ch') = Len(ch)
      /\ waiting' # << >> => waiting # << >>
  <2>1. CASE waiting = << >>
    <3>1. ch' = Tail(ch) /\ waiting' = << >>
      BY <1>1, <2>1 DEF Receive
    <3>2. ch' \in Seq(Reply) /\ Len(ch') = Len(ch) - 1 /\ \A i \in 1..Len(ch) - 1 : ch'[i] = ch[i + 1]
      BY <1>2, <1>3, <3>1
    <3>3. QED
      BY <1>2, <1>3, <2>1, <3>1, <3>2
  <2>2. CASE waiting # << >>
    <3>1. ch' = Append(Tail(ch), waiting[1].reply) /\ waiting' = Tail(waiting)
      BY <1>1, <2>2 DEF Receive
    <3>2. Len(waiting) >= 1 /\ waiting[1] \in Waiter /\ waiting[1].reply \in Reply
      <4>1. Len(waiting) >= 1
        BY <1>2, <2>2
      <4>2. 1 \in 1..Len(waiting)
        BY <1>2, <4>1
      <4>3. waiting[1] \in Waiter
        BY <1>2, <4>2
      <4>4. QED
        BY <4>1, <4>3 DEF Waiter
    <3>3. Tail(ch) \in Seq(Reply) /\ Len(Tail(ch)) = Len(ch) - 1
          /\ \A i \in 1..Len(ch) - 1 : Tail(ch)[i] = ch[i + 1]
      BY <1>2, <1>3
    <3>4. ch' \in Seq(Reply) /\ Len(ch') = Len(ch) /\ ch'[Len(ch)] = waiting[1].reply
          /\ \A i \in 1..Len(ch) - 1 : ch'[i] = ch[i + 1]
      BY <1>2, <3>1, <3>2, <3>3
    <3>5. waiting' \in Seq(Waiter) /\ Len(waiting') = Len(waiting) - 1
          /\ \A j \in 1..Len(waiting) - 1 : waiting'[j] = waiting[j + 1]
      BY <1>2, <3>1, <3>2
    <3>6. QED
      BY <1>2, <2>2, <3>2, <3>4, <3>5
  <2>3. QED
    BY <2>1, <2>2
<1>6. /\ \A i \in 1..Len(ch) : ch[i].n \in Nat
      /\ \A j \in 1..Len(waiting) : waiting[j].reply.n \in Nat
  <2>1. \A v \in Waiter : v.reply.n \in Nat
    BY DEF Waiter, Reply
  <2>2. \A v \in Reply : v.n \in Nat
    BY DEF Reply
  <2>3. QED
    BY <1>2, <2>1, <2>2
<1>7. /\ \A i, j \in 1..Len(ch) : i < j => ch[i].n < ch[j].n
      /\ \A i, j \in 1..Len(waiting) : i < j => waiting[i].reply.n < waiting[j].reply.n
      /\ \A i \in 1..Len(ch), j \in 1..Len(waiting) : ch[i].n < waiting[j].reply.n
      /\ waiting # << >> => Len(ch) >= Depth
  BY DEF RepliesInv, ChannelInv
<1>8. /\ last[1] <= posted
      /\ \A i \in 1..Len(ch) : last[1] < ch[i].n /\ ch[i].n <= posted
      /\ \A j \in 1..Len(waiting) : last[1] < waiting[j].reply.n /\ waiting[j].reply.n <= posted
  BY DEF RepliesInv, SentInv
<1>9. TypeOK'
  BY <1>1, <1>4, <1>5 DEF RepliesInv, TypeOK
<1>10. ChannelInv'
  <2>1. \A i, j \in 1..Len(ch') : i < j => ch'[i].n < ch'[j].n
    <3> SUFFICES ASSUME NEW i \in 1..Len(ch'), NEW j \in 1..Len(ch'), i < j PROVE ch'[i].n < ch'[j].n
      OBVIOUS
    <3>1. i \in Nat /\ j \in Nat /\ Len(ch') \in Nat
      BY <1>5
    <3>2. i \in 1..Len(ch) - 1 /\ ch'[i] = ch[i + 1]
      BY <1>2, <1>5, <3>1
    <3>3. CASE j \in 1..Len(ch) - 1 /\ ch'[j] = ch[j + 1]
      BY <1>2, <1>7, <3>1, <3>2, <3>3
    <3>4. CASE Len(waiting) >= 1 /\ ch'[j] = waiting[1].reply
      BY <1>2, <1>7, <3>2, <3>4
    <3>5. QED
      BY <1>5, <3>3, <3>4
  <2>2. \A i, j \in 1..Len(waiting') : i < j => waiting'[i].reply.n < waiting'[j].reply.n
    <3> SUFFICES ASSUME NEW i \in 1..Len(waiting'), NEW j \in 1..Len(waiting'), i < j
                 PROVE  waiting'[i].reply.n < waiting'[j].reply.n
      OBVIOUS
    <3>1. /\ i + 1 \in 1..Len(waiting) /\ waiting'[i] = waiting[i + 1]
          /\ j + 1 \in 1..Len(waiting) /\ waiting'[j] = waiting[j + 1]
      BY <1>5
    <3>2. i + 1 < j + 1
      BY <1>5
    <3>3. QED
      BY <1>7, <3>1, <3>2
  <2>3. \A i \in 1..Len(ch'), j \in 1..Len(waiting') : ch'[i].n < waiting'[j].reply.n
    <3> SUFFICES ASSUME NEW i \in 1..Len(ch'), NEW j \in 1..Len(waiting')
                 PROVE  ch'[i].n < waiting'[j].reply.n
      OBVIOUS
    <3>1. j \in Nat /\ j >= 1 /\ j + 1 \in 1..Len(waiting) /\ waiting'[j] = waiting[j + 1]
      BY <1>5
    <3>2. CASE i \in 1..Len(ch) - 1 /\ ch'[i] = ch[i + 1]
      BY <1>2, <1>7, <3>1, <3>2
    <3>3. CASE Len(waiting) >= 1 /\ ch'[i] = waiting[1].reply
      BY <1>2, <1>7, <3>1, <3>3
    <3>4. QED
      BY <1>5, <3>2, <3>3
  <2>4. waiting' # << >> => Len(ch') >= Depth
    BY <1>5, <1>7
  <2>5. QED
    BY <2>1, <2>2, <2>3, <2>4 DEF ChannelInv
<1>11. SentInv'
  <2>1. \A i \in 1..Len(ch') : last[1] < ch'[i].n /\ ch'[i].n <= posted
    <3> SUFFICES ASSUME NEW i \in 1..Len(ch') PROVE last[1] < ch'[i].n /\ ch'[i].n <= posted
      OBVIOUS
    <3>1. CASE i \in 1..Len(ch) - 1 /\ ch'[i] = ch[i + 1]
      BY <1>2, <1>8, <3>1
    <3>2. CASE Len(waiting) >= 1 /\ ch'[i] = waiting[1].reply
      BY <1>2, <1>8, <3>2
    <3>3. QED
      BY <1>5, <3>1, <3>2
  <2>2. \A j \in 1..Len(waiting') : last[1] < waiting'[j].reply.n /\ waiting'[j].reply.n <= posted
    BY <1>2, <1>5, <1>8
  <2>3. \A i \in 1..Len(ch') : ch[1].n < ch'[i].n
    <3> SUFFICES ASSUME NEW i \in 1..Len(ch') PROVE ch[1].n < ch'[i].n
      OBVIOUS
    <3>1. CASE i \in 1..Len(ch) - 1 /\ ch'[i] = ch[i + 1]
      BY <1>2, <1>3, <1>7, <3>1
    <3>2. CASE Len(waiting) >= 1 /\ ch'[i] = waiting[1].reply
      BY <1>2, <1>3, <1>7, <3>2
    <3>3. QED
      BY <1>5, <3>1, <3>2
  <2>4. \A j \in 1..Len(waiting') : ch[1].n < waiting'[j].reply.n
    BY <1>2, <1>3, <1>5, <1>7
  <2>5. ch[1].n <= posted /\ last[1] < ch[1].n
    BY <1>2, <1>3, <1>8
  <2>6. job' # NoJob => job'.reply = ch[1]
    BY <1>4
  <2>7. job' # NoJob =>
          /\ job'.reply.n <= posted
          /\ last[1] <= job'.reply.n /\ (last[1] = job'.reply.n => last[2] <= job'.part)
          /\ \A i \in 1..Len(ch') : job'.reply.n < ch'[i].n
          /\ \A j \in 1..Len(waiting') : job'.reply.n < waiting'[j].reply.n
    BY <1>2, <1>3, <2>3, <2>4, <2>5, <2>6
  <2>8. QED
    BY <1>1, <1>8, <2>1, <2>2, <2>7 DEF SentInv
<1>12. QED
  BY <1>1, <1>9, <1>10, <1>11 DEF RepliesInv, QuietInv

\* What the other goroutines and the processor do around a call.
LEMMA OtherMoves ==
    ASSUME RepliesInv, NEW o \in Others, OtherPass(o) \/ OtherRejected(o) \/ OtherReturns(o)
    PROVE  /\ BreakerOK(breaker', quiet')
           /\ UNCHANGED <<posted, ch, waiting, job, stored, last>>
           /\ other' \in [Others -> {"idle", "call"}]
           /\ \/ OtherPass(o)
              \/ \A p \in Others : other'[p] = "call" => other[p] = "call"
<1>1. /\ UNCHANGED <<posted, ch, waiting, job, stored, last>>
      /\ \/ breaker' = AfterPass /\ ~IsOpen /\ UNCHANGED quiet
         \/ breaker' = AfterRejection /\ UNCHANGED quiet
         \/ RecordSuccess \/ RecordFailure
      /\ \E s \in {"idle", "call"} : other' = [other EXCEPT ![o] = s] \/ other' = other
  BY Zenon DEF OtherPass, OtherRejected, OtherReturns
<1>2. BreakerOK(breaker', quiet')
  BY <1>1, BreakerMarks
<1>3. other \in [Others -> {"idle", "call"}]
  BY DEF RepliesInv, TypeOK
<1>4. OtherPass(o) \/ other' = other \/ other' = [other EXCEPT ![o] = "idle"]
  BY Zenon DEF OtherRejected, OtherReturns
<1>5. QED
  BY <1>1, <1>2, <1>3, <1>4

LEMMA ProcessorMarks ==
    ASSUME RepliesInv,
           Pass \/ Rejected \/ UploadSucceeds \/ UploadFails \/ Unreadable \/ SendSucceeds \/ SendFails
    PROVE  BreakerOK(breaker', quiet')
<1>1. \/ breaker' = AfterPass /\ ~IsOpen /\ UNCHANGED quiet
      \/ breaker' = AfterRejection /\ UNCHANGED quiet
      \/ RecordSuccess \/ RecordFailure
      \/ UNCHANGED <<breaker, quiet>>
  BY Zenon DEF Pass, Rejected, UploadSucceeds, UploadFails, Unreadable, SendSucceeds, SendFails
<1>2. QED
  BY <1>1, BreakerMarks

LEMMA RepliesStep == RepliesInv /\ [Next]_vars => RepliesInv'
<1> SUFFICES ASSUME RepliesInv, [Next]_vars PROVE RepliesInv'
  OBVIOUS
<1>1. CASE Post
  BY <1>1, PostKeeps
<1>2. ASSUME NEW w \in DOMAIN waiting, GiveUp(w) PROVE RepliesInv'
  BY <1>2, GiveUpKeeps
<1>3. CASE TakeReply \/ DropReply
  BY <1>3, ReceiveKeeps
<1>4. CASE Pass \/ Rejected \/ UploadSucceeds \/ UploadFails \/ Unreadable \/ SendSucceeds \/ SendFails
  <2>1. TypeOK
    BY DEF RepliesInv
  <2>2. QED
    BY <1>4, <2>1, JobMoves, ProcessorMarks, JobKeeps
<1>5. ASSUME NEW o \in Others, OtherPass(o) \/ OtherRejected(o) \/ OtherReturns(o) PROVE RepliesInv'
  <2>1. /\ BreakerOK(breaker', quiet')
        /\ UNCHANGED <<posted, ch, waiting, job, stored, last>>
        /\ other' \in [Others -> {"idle", "call"}]
    BY <1>5, OtherMoves
  <2>2. QED
    BY <2>1 DEF RepliesInv, TypeOK, ChannelInv, SentInv, QuietInv, BreakerOK
<1>6. CASE Tick
  BY <1>6, TickKeeps
<1>7. CASE UNCHANGED vars
  BY <1>7 DEF vars, RepliesInv, TypeOK, ChannelInv, SentInv, QuietInv
<1>8. QED
  BY <1>1, <1>2, <1>3, <1>4, <1>5, <1>6, <1>7 DEF Next, Processor

\* The invariant of the channel, of what was sent and of the breaker, with the
\* types: Spec keeps it.
THEOREM RepliesInvariant == Spec => []RepliesInv
  BY RepliesInit, RepliesStep, PTL DEF Spec

----------------------------------------------------------------------------
(* What it is for.                                                         *)

LEMMA StepIsInOrder ==
    ASSUME RepliesInv, [Next]_vars
    PROVE  UNCHANGED vars \/ last[1] < last'[1] \/ (last[1] = last'[1] /\ last[2] <= last'[2])
<1>0. last[1] \in Nat /\ last[2] \in Nat
  BY DEF RepliesInv, TypeOK
<1>1. CASE Pass \/ Rejected \/ UploadSucceeds \/ UploadFails \/ Unreadable \/ SendSucceeds \/ SendFails
  <2>1. job \in Job /\ job # NoJob /\ last' \in {last, <<job.reply.n, job.part>>}
    BY <1>1, JobMoves DEF RepliesInv
  <2>2. job.reply.n \in Nat /\ job.part \in Nat
    BY <2>1 DEF Job, Reply
  <2>3. last[1] <= job.reply.n /\ (last[1] = job.reply.n => last[2] <= job.part)
    BY <2>1 DEF RepliesInv, SentInv
  <2>4. QED
    BY <1>0, <2>1, <2>2, <2>3
<1>2. CASE Post \/ TakeReply \/ DropReply \/ Tick
  BY <1>0, <1>2 DEF Post, TakeReply, DropReply, Tick
<1>3. ASSUME NEW w \in DOMAIN waiting, GiveUp(w) PROVE UNCHANGED last
  BY <1>3 DEF GiveUp
<1>4. ASSUME NEW o \in Others, OtherPass(o) \/ OtherRejected(o) \/ OtherReturns(o) PROVE UNCHANGED last
  BY <1>4, OtherMoves
<1>5. QED
  BY <1>0, <1>1, <1>2, <1>3, <1>4 DEF Next, Processor

\* Whatever the handlers, the channel and the failures do, the platform takes
\* the replies in the order in which they were posted and the parts of each in
\* theirs (processor.go: "keeps reply ordering deterministic").
THEOREM TakenInOrder == Spec => InOrder
<1>1. RepliesInv /\ [Next]_vars =>
        [last[1] < last'[1] \/ (last[1] = last'[1] /\ last[2] <= last'[2])]_vars
  BY StepIsInOrder
<1>2. QED
  BY <1>1, RepliesInvariant, PTL DEF Spec, InOrder

LEMMA StepIsQuiet ==
    ASSUME RepliesInv, [Next]_vars
    PROVE  \/ Calling' \subseteq Calling \cup (IF Fallback THEN {"job"} ELSE {})
           \/ quiet = 0
<1> SUFFICES Calling' \subseteq Calling \/ quiet = 0
  OBVIOUS
<1>0. ~IsOpen => quiet = 0
  BY DEF IsOpen, RepliesInv, TypeOK, QuietInv
<1>1. other \in [Others -> {"idle", "call"}]
  BY DEF RepliesInv, TypeOK
<1>2. ASSUME UNCHANGED <<job, other>> PROVE Calling' \subseteq Calling
  BY <1>2 DEF Calling
<1>3. ASSUME UNCHANGED other, job'.st # "call" PROVE Calling' \subseteq Calling
  BY <1>3 DEF Calling
<1>4. CASE Pass \/ Rejected \/ UploadSucceeds \/ UploadFails \/ Unreadable \/ SendSucceeds \/ SendFails
  <2>1. UNCHANGED other /\ (job'.st = "call" => Pass)
    BY <1>4, JobMoves DEF RepliesInv
  <2>2. Pass => ~IsOpen
    BY DEF Pass
  <2>3. QED
    BY <1>0, <1>3, <2>1, <2>2
<1>5. CASE TakeReply
  <2>1. UNCHANGED other
    BY <1>5 DEF TakeReply
  <2>2. job'.st # "call"
    <3>1. /\ job = NoJob /\ ch # << >>
          /\ \E t \in Targets(Head(ch)) :
               job' = At([st |-> "gate", op |-> "send", target |-> t, part |-> 1, reply |-> Head(ch)])
      BY <1>5 DEF TakeReply, Receive
    <3>2. PICK t : job' = At([st |-> "gate", op |-> "send", target |-> t, part |-> 1, reply |-> Head(ch)])
      BY <3>1
    <3>3. QED
      BY <3>2 DEF At, NoJob
  <2>3. QED
    BY <1>3, <2>1, <2>2
<1>6. CASE Post \/ DropReply \/ Tick \/ UNCHANGED vars
  BY <1>2, <1>6 DEF Post, DropReply, Tick, vars
<1>7. ASSUME NEW w \in DOMAIN waiting, GiveUp(w) PROVE UNCHANGED <<job, other>>
  BY <1>7 DEF GiveUp
<1>8. ASSUME NEW o \in Others, OtherPass(o) \/ OtherRejected(o) \/ OtherReturns(o)
      PROVE  Calling' \subseteq Calling \/ quiet = 0
  <2>1. /\ UNCHANGED job
        /\ OtherPass(o) \/ \A p \in Others : other'[p] = "call" => other[p] = "call"
    BY <1>8, OtherMoves
  <2>2. OtherPass(o) => ~IsOpen
    BY DEF OtherPass
  <2>3. QED
    BY <1>0, <2>1, <2>2 DEF Calling
<1>9. QED
  BY <1>2, <1>4, <1>5, <1>6, <1>7, <1>8 DEF Next, Processor

\* The failures of any of the goroutines that open the breaker silence all of
\* them for the cooldown: what is marked late, or while it is open, changes
\* that for nobody.  The fallback after a failed reply is left out, as in
\* QuietAfterFailure.
THEOREM FailureSilences == Spec => QuietAfterFailure
<1>1. RepliesInv /\ [Next]_vars =>
        [\/ Calling' \subseteq Calling \cup (IF Fallback THEN {"job"} ELSE {})
         \/ quiet = 0]_vars
  BY StepIsQuiet
<1>2. QED
  BY <1>1, RepliesInvariant, PTL DEF Spec, QuietAfterFailure
=============================================================================
