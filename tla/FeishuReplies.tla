---------------------------- MODULE FeishuReplies ----------------------------
(***************************************************************************)
(* How the Feishu gateway answers: the handlers of POST .../reply that     *)
(* share a bounded channel, the one goroutine that takes replies from it   *)
(* (reply/processor.go), and the circuit breaker (breaker/breaker.go)      *)
(* around every call of the platform, which that goroutine shares with     *)
(* those that answer commands and download files.                          *)
(*                                                                         *)
(* Instants are kept as the time that is left until they matter no more;   *)
(* Tick lets them all get shorter.                                         *)
(***************************************************************************)
EXTENDS Naturals, Sequences, FiniteSets

CONSTANTS
    Depth,      \* GW_REPLY_QUEUE_DEPTH: replies the channel holds
    SendWait,   \* 1 s: how long a handler waits for room in it
    Threshold,  \* failures that open the breaker
    Window,     \* 30 s: age to which a failure counts
    Cooldown,   \* 30 s: age to which an opening counts
    Others,     \* the goroutines that answer commands and download files
    Bodies,     \* what replies may consist of
    MaxReplies  \* bound: replies posted

Parts == {"text", "file"}

ASSUME RepliesAssumption ==
    /\ {Depth, SendWait, Threshold, Window, Cooldown} \subseteq Nat \ {0}
    /\ Bodies \subseteq Seq(Parts)
    /\ MaxReplies \in Nat

VARIABLES
    posted,   \* number of replies posted
    ch,       \* the reply channel
    waiting,  \* handlers waiting for room in it, longest first
    job,      \* what the processor is doing
    other,    \* what each other goroutine is doing
    breaker,  \* the breaker of the client
    stored,   \* SQLite: the replies whose agent_context is saved
    last,     \* history: the part the platform took last from the processor
    quiet     \* history: time left of the cooldown of the last failure

vars == <<posted, ch, waiting, job, other, breaker, stored, last, quiet>>

\* A reply has its number n, to ("message" with a reply_to_id, "user" with a
\* to_user, "none") and its parts; a handler that waits the reply and the time
\* that is left; a job the reply, its target ("context" if the message's context
\* is known, "lost" if not, "user"), the index of the part being sent, the
\* operation ("upload", "reply", "send", or "fallback": the send after a reply that
\* failed) and whether that is at the "gate" of the breaker or the "call" itself.
NoJob == [st |-> "idle"]

\* opened: openedAt is set; left: how long that keeps the breaker open;
\* failures: how long each of them counts.
Closed == [opened |-> FALSE, left |-> 0, failures |-> <<>>]

Init ==
    /\ posted = 0 /\ ch = <<>> /\ waiting = <<>> /\ job = NoJob
    /\ other = [o \in Others |-> "idle"]
    /\ breaker = Closed
    /\ stored = {} /\ last = <<0, 0>> /\ quiet = 0

----------------------------------------------------------------------------
(* The breaker.                                                            *)

IsOpen == breaker.opened /\ breaker.left > 0

\* Variant: a call that is rejected counts as one that failed.
AfterRejectionCounted == [breaker EXCEPT !.left = Cooldown + 1]

\* IsOpen returns true and changes nothing; gate has no mark.
AfterRejection == breaker

\* IsOpen returns false: after the cooldown it starts anew.
AfterPass == IF breaker.opened THEN Closed ELSE breaker

\* Variant: the breaker stays open from its first failure.
OpenedFirst == IF breaker.opened THEN breaker.left ELSE Cooldown + 1

\* Every failure that leaves Threshold of them opens the breaker from now on.
Opened == Cooldown + 1

RecordFailure ==
    LET kept == SelectSeq(breaker.failures, LAMBDA t : t > 0)
        all  == Append(kept, Window + 1) IN
    /\ breaker' = IF Len(all) >= Threshold
                  THEN [opened |-> TRUE, left |-> Opened, failures |-> all]
                  ELSE [breaker EXCEPT !.failures = all]
    /\ quiet' = IF Len(all) >= Threshold THEN Cooldown + 1 ELSE quiet

RecordSuccess ==
    /\ breaker' = Closed
    /\ quiet' = 0

----------------------------------------------------------------------------
(* handleReply.                                                            *)

Room == Len(ch) < Depth

Post ==
    /\ posted < MaxReplies
    /\ posted' = posted + 1
    /\ \E to \in {"message", "user", "none"}, b \in Bodies :
          LET r == [n |-> posted', to |-> to, parts |-> b] IN
          IF Room
          THEN ch' = Append(ch, r) /\ UNCHANGED waiting
          ELSE waiting' = Append(waiting, [reply |-> r, left |-> SendWait]) /\ UNCHANGED ch
    /\ UNCHANGED <<job, other, breaker, stored, last, quiet>>

\* Variant: the send has no time limit.
OverdueNever(w) == FALSE

Overdue(w) == waiting[w].left = 0

\* The handler drops its reply and returns.
GiveUp(w) ==
    /\ Overdue(w)
    /\ waiting' = [v \in 1..Len(waiting) - 1 |-> waiting[IF v < w THEN v ELSE v + 1]]
    /\ UNCHANGED <<posted, ch, job, other, breaker, stored, last, quiet>>

----------------------------------------------------------------------------
(* Processor.                                                              *)

\* Variant: what could not be sent is tried again after the rest.
RestRetried(j) == [j EXCEPT !.part = IF @ > 1 THEN @ - 1 ELSE @ + 1]

\* Whether it was sent or not: on to the next part.
Rest(j) == [j EXCEPT !.part = @ + 1]

\* send starts with ReplyMessage if it has a message to reply to.
Deliver(target) == IF target = "context" THEN "reply" ELSE "send"

\* A file is uploaded first.
At(j) ==
    IF j.part \notin DOMAIN j.reply.parts THEN NoJob
    ELSE [j EXCEPT !.st = "gate",
                   !.op = IF j.reply.parts[j.part] = "file" THEN "upload"
                          ELSE Deliver(j.target)]

\* resolveTarget: contexts are recorded, cleaned up and lost meanwhile.
Targets(r) ==
    CASE r.to = "message" -> {"context", "lost"}
      [] r.to = "user"    -> {"user"}
      [] r.to = "none"    -> {}

\* The place in the channel goes to the handler that has waited longest.
Receive ==
    /\ job = NoJob /\ ch # <<>>
    /\ ch' = IF waiting = <<>> THEN Tail(ch) ELSE Append(Tail(ch), waiting[1].reply)
    /\ waiting' = IF waiting = <<>> THEN <<>> ELSE Tail(waiting)

TakeReply ==
    /\ Receive
    /\ \E t \in Targets(Head(ch)) :
          job' = At([st |-> "gate", op |-> "send", target |-> t, part |-> 1, reply |-> Head(ch)])
    /\ UNCHANGED <<posted, other, breaker, stored, last, quiet>>

DropReply ==
    /\ Receive
    /\ Targets(Head(ch)) = {}
    /\ UNCHANGED <<posted, job, other, breaker, stored, last, quiet>>

Pass ==
    /\ job.st = "gate"
    /\ ~IsOpen
    /\ breaker' = AfterPass
    /\ job' = [job EXCEPT !.st = "call"]
    /\ UNCHANGED <<posted, ch, waiting, other, stored, last, quiet>>

\* A rejected ReplyMessage is followed by a SendMessage as a failed one is.
Rejected ==
    /\ job.st = "gate"
    /\ IsOpen
    /\ breaker' = AfterRejection
    /\ job' = IF job.op = "reply" THEN [job EXCEPT !.op = "send"] ELSE At(Rest(job))
    /\ UNCHANGED <<posted, ch, waiting, other, stored, last, quiet>>

Part == <<job.reply.n, job.part>>

UploadSucceeds ==
    /\ job.st = "call" /\ job.op = "upload"
    /\ RecordSuccess
    /\ job' = [job EXCEPT !.st = "gate", !.op = Deliver(job.target)]
    /\ UNCHANGED <<posted, ch, waiting, other, stored, last>>

UploadFails ==
    /\ job.st = "call" /\ job.op = "upload"
    /\ RecordFailure
    /\ job' = At(Rest(job))
    /\ UNCHANGED <<posted, ch, waiting, other, stored, last>>

\* os.Open fails: there is no call to mark.
Unreadable ==
    /\ job.st = "call" /\ job.op = "upload"
    /\ job' = At(Rest(job))
    /\ UNCHANGED <<posted, ch, waiting, other, breaker, stored, last, quiet>>

\* Without a context the message's id is used as a user's, which the platform
\* refuses.
Takes == job.target # "lost"

SendSucceeds ==
    /\ job.st = "call" /\ job.op # "upload"
    /\ Takes
    /\ RecordSuccess
    /\ last' = Part
    /\ \/ UNCHANGED stored
       \/ job.reply.parts[job.part] = "text" /\ stored' = stored \cup {job.reply.n}
    /\ job' = At(Rest(job))
    /\ UNCHANGED <<posted, ch, waiting, other>>

\* The platform refuses the message, or its answer does not come, in which case
\* it may have taken it.
SendFails ==
    /\ job.st = "call" /\ job.op # "upload"
    /\ RecordFailure
    /\ last' = last \/ (Takes /\ last' = Part)
    /\ job' = IF job.op = "reply" THEN [job EXCEPT !.st = "gate", !.op = "fallback"]
              ELSE At(Rest(job))
    /\ UNCHANGED <<posted, ch, waiting, other, stored>>

Processor ==
    \/ TakeReply \/ DropReply \/ Pass \/ Rejected
    \/ UploadSucceeds \/ UploadFails \/ Unreadable \/ SendSucceeds \/ SendFails

----------------------------------------------------------------------------
(* SendText and DownloadResource, in goroutines of their own.              *)

OtherPass(o) ==
    /\ other[o] = "idle"
    /\ ~IsOpen
    /\ breaker' = AfterPass
    /\ other' = [other EXCEPT ![o] = "call"]
    /\ UNCHANGED <<posted, ch, waiting, job, stored, last, quiet>>

OtherRejected(o) ==
    /\ other[o] = "idle"
    /\ IsOpen
    /\ breaker' = AfterRejection
    /\ UNCHANGED <<posted, ch, waiting, job, other, stored, last, quiet>>

OtherReturns(o) ==
    /\ other[o] = "call"
    /\ RecordSuccess \/ RecordFailure
    /\ other' = [other EXCEPT ![o] = "idle"]
    /\ UNCHANGED <<posted, ch, waiting, job, stored, last>>

----------------------------------------------------------------------------
Less(t) == IF t = 0 THEN 0 ELSE t - 1

Tick ==
    /\ waiting' = [w \in DOMAIN waiting |-> [waiting[w] EXCEPT !.left = Less(@)]]
    /\ breaker' = [breaker EXCEPT !.left = Less(@),
                     !.failures = [f \in DOMAIN @ |-> Less(@[f])]]
    /\ quiet' = Less(quiet)
    /\ UNCHANGED <<posted, ch, job, other, stored, last>>

Next ==
    \/ Post \/ (\E w \in DOMAIN waiting : GiveUp(w))
    \/ Processor
    \/ \E o \in Others : OtherPass(o) \/ OtherRejected(o) \/ OtherReturns(o)
    \/ Tick

Spec == Init /\ [][Next]_vars

\* Time passes, and a handler whose timer has fired is scheduled.  The calls of
\* the platform have no time limit: nothing is assumed of the processor.
Fairness ==
    /\ WF_vars(Tick)
    /\ WF_vars(\E w \in DOMAIN waiting : GiveUp(w))

FairSpec == Spec /\ Fairness

----------------------------------------------------------------------------
(* Properties.                                                             *)

\* "keeps reply ordering deterministic" (processor.go): what the platform takes
\* comes in the order in which the replies were posted, and within a reply in
\* the order of its parts, whichever handlers give up, parts fail or are sent
\* a second time as a fallback.
InOrder ==
    [][\/ last[1] < last'[1]
       \/ last[1] = last'[1] /\ last[2] <= last'[2]]_vars

Calling == {o \in Others : other[o] = "call"} \cup (IF job.st = "call" THEN {"job"} ELSE {})

Fallback == job.st = "gate" /\ job.op = "fallback"

\* No call begins during the cooldown after a failure, unless another call that
\* was under way has succeeded since: whichever goroutine fails, silences all.
\* Of the fallback after a failed reply, which is meant to be a call,
\* FallbackIsCalled speaks.
QuietAfterFailure ==
    [][\/ Calling' \subseteq Calling \cup (IF Fallback THEN {"job"} ELSE {})
       \/ quiet = 0]_vars

\* "On reply failure (e.g. original message recalled), it falls back to a fresh
\* SendMessage to the same chat" (processor.go): what follows a failed
\* ReplyMessage is a call of the platform, not a rejection by the breaker, which
\* that very failure has opened when Threshold is 1, as main.go sets it.
FallbackIsCalled == [][Fallback /\ job' # job => job'.st = "call"]_vars

Waits(n) == \E w \in DOMAIN waiting : waiting[w].reply.n = n

\* Every POST returns, even if the processor hangs in a call for ever.
EveryPostReturns == \A n \in 1..MaxReplies : Waits(n) ~> ~Waits(n)

\* The breaker lets calls through again and again: calls that are rejected, or
\* fail late, do not keep it open.
BreakerRecovers == []<>~IsOpen
=============================================================================
