------------------------------- MODULE Server -------------------------------
(***************************************************************************)
(* The request lifecycle of src/src/server.rs: `chat` from admission to    *)
(* the last permit it returns, for several clients at once, together with  *)
(* the graceful shutdown of `serve` in src/src/main.rs.                    *)
(*                                                                         *)
(* A request is carried by two actors.  Its TASK is the async handler, and *)
(* after a streaming handler returned, the HTTP body; it is dropped at any *)
(* await when the client leaves.  Its JOB is the closure on a blocking     *)
(* thread (first `prepare`, later `generate`), which nothing can drop: it  *)
(* only looks at the cancellation token.  Permits belong to whichever of   *)
(* the two holds the value, and come back when that value is dropped.      *)
(*                                                                         *)
(* What a pass computes is left open: it may ask for another pass, yield   *)
(* text, end the output or fail.  A generation has no length limit in this *)
(* module: where a property needs generations to end (max_tokens), the     *)
(* fairness condition says so.  What the events carry is left out, the     *)
(* channel only counts them.                                               *)
(***************************************************************************)
EXTENDS Naturals, Sequences, FiniteSets

CONSTANTS
    Requests,         \* client connections, one request at a time each
    MaxConcurrent,    \* ServerConfig.max_concurrent_requests
    QueueCapacity,    \* ServerConfig.queue_capacity
    Threads,          \* threads of the CPU pool (ServerConfig.threads)
    ChannelCapacity   \* events the mpsc channel of a stream can hold

ASSUME RequestsAssumption == IsFiniteSet(Requests)
ASSUME ConfigAssumption ==
    /\ MaxConcurrent \in Nat \ {0}
    /\ QueueCapacity \in Nat
    /\ Threads \in Nat \ {0}
    /\ ChannelCapacity \in Nat \ {0}

VARIABLES
    phase,       \* of the process: accepting, or how far the shutdown is
    admission,   \* free permits of App.admission
    slots,       \* free permits of App.slots
    slotQueue,   \* tasks parked in slots.acquire_owned(), oldest first
    task,        \* where the handler, or the body, of a request is
    job,         \* where the blocking job of a request is
    cancelled,   \* requests whose drop guard cancelled their token
    channel      \* events buffered between the job and the body

vars == <<phase, admission, slots, slotQueue, task, job, cancelled, channel>>
permits == <<admission, slots, slotQueue>>

Capacity == MaxConcurrent + QueueCapacity

Phases == {"serving", "cancelled", "draining", "exited"}
Replies == {"ok", "bad", "busy", "error"}
Tasks == {"idle", "prepare", "slot", "granted", "join", "body", "closing",
          "left"} \cup Replies
Preparing == {"tokenize", "tokenizing", "prepared"}
\* What a streaming job is blocked on in send_event: the role chunk, a text
\* delta, the text held back to the end, the finish chunk, ..., an error event.
Sending == {"role", "text", "tail", "finish", "usage", "done", "error"}
Generating == {"compute", "computing", "returning"} \cup Sending
Jobs == {"none", "refused", "finished", "failed"} \cup Preparing \cup Generating

(***************************************************************************)
(* Who holds what.                                                         *)
(***************************************************************************)
HoldsAdmission(r) ==
    task[r] \in {"slot", "granted"} \/ job[r] \in Preparing \cup Generating
HoldsSlot(r) == task[r] = "granted" \/ job[r] \in Generating

\* Mutant: the whole generation, with the sends of its callback, is installed.
OnWorkerWithSends(r) == job[r] \in {"tokenizing", "computing", "text", "tail"}
OnWorker(r) == job[r] \in {"tokenizing", "computing"}

Admitted == {r \in Requests : HoldsAdmission(r)}
Active == {r \in Requests : HoldsSlot(r)}
Busy == {r \in Requests : OnWorker(r)}

\* The request's token is a child of the shutdown token.
Cancelled(r) == phase # "serving" \/ r \in cancelled

\* The permit or result of a finished job goes to the handler, or is dropped
\* with the detached JoinHandle when the handler is gone.
Detached(r) == task[r] = "left"

\* What is left of a request whose task is dropped while its job is in state j.
Dropped(j) == IF j = "none" THEN "idle" ELSE "left"

WithoutAt(q, i) ==
    [k \in 1 .. Len(q) - 1 |-> IF k < i THEN q[k] ELSE q[k + 1]]

Init ==
    /\ phase = "serving"
    /\ admission = Capacity
    /\ slots = MaxConcurrent
    /\ slotQueue = << >>
    /\ task = [r \in Requests |-> "idle"]
    /\ job = [r \in Requests |-> "none"]
    /\ cancelled = {}
    /\ channel = [r \in Requests |-> 0]

(***************************************************************************)
(* The two semaphores.  tokio's semaphore is fair: a permit that comes     *)
(* back goes to the oldest waiter, which owns it before it runs again.     *)
(***************************************************************************)

\* Mutant: the newest waiter is served first.
AcquireSlotLifo(r) ==
    \/ /\ slots > 0
       /\ slots' = slots - 1
       /\ task' = [task EXCEPT ![r] = "granted"]
       /\ UNCHANGED slotQueue
    \/ /\ slots = 0
       /\ slotQueue' = <<r>> \o slotQueue
       /\ task' = [task EXCEPT ![r] = "slot"]
       /\ UNCHANGED slots

\* Take a slot if one is free, else park behind the other waiters.
AcquireSlot(r) ==
    \/ /\ slots > 0
       /\ slots' = slots - 1
       /\ task' = [task EXCEPT ![r] = "granted"]
       /\ UNCHANGED slotQueue
    \/ /\ slots = 0
       /\ slotQueue' = Append(slotQueue, r)
       /\ task' = [task EXCEPT ![r] = "slot"]
       /\ UNCHANGED slots

\* Drop a slot permit; tasks is the task function without the old owner.
ReleaseSlot(tasks) ==
    \/ /\ slotQueue = << >>
       /\ slots' = slots + 1
       /\ task' = tasks
       /\ UNCHANGED slotQueue
    \/ /\ slotQueue # << >>
       /\ slotQueue' = Tail(slotQueue)
       /\ task' = [tasks EXCEPT ![Head(slotQueue)] = "granted"]
       /\ UNCHANGED slots

ReleaseAdmission == admission' = admission + 1

(***************************************************************************)
(* Arrival.  Malformed bodies and unknown models are answered before any   *)
(* permit is touched; a request that finds no permit is turned away.       *)
(***************************************************************************)
Accepting == phase \in {"serving", "cancelled"}

RejectRequest(r) ==
    /\ Accepting /\ task[r] = "idle"
    /\ task' = [task EXCEPT ![r] = "bad"]
    /\ UNCHANGED <<phase, permits, job, cancelled, channel>>

\* Mutant: 429 as soon as no slot is free, queue or not.
TurnAwayWithoutSlot(r) ==
    /\ Accepting /\ task[r] = "idle"
    /\ slots = 0
    /\ task' = [task EXCEPT ![r] = "busy"]
    /\ UNCHANGED <<phase, permits, job, cancelled, channel>>

TurnAway(r) ==
    /\ Accepting /\ task[r] = "idle"
    /\ admission = 0
    /\ task' = [task EXCEPT ![r] = "busy"]
    /\ UNCHANGED <<phase, permits, job, cancelled, channel>>

\* Mutant: admission without looking at the semaphore.
AdmitUnchecked(r) ==
    /\ Accepting /\ task[r] = "idle"
    /\ admission' = admission - 1
    /\ task' = [task EXCEPT ![r] = "prepare"]
    /\ job' = [job EXCEPT ![r] = "tokenize"]
    /\ UNCHANGED <<phase, slots, slotQueue, cancelled, channel>>

\* The permit moves into the closure that tokenizes and validates.
Admit(r) ==
    /\ Accepting /\ task[r] = "idle"
    /\ admission > 0
    /\ admission' = admission - 1
    /\ task' = [task EXCEPT ![r] = "prepare"]
    /\ job' = [job EXCEPT ![r] = "tokenize"]
    /\ UNCHANGED <<phase, slots, slotQueue, cancelled, channel>>

(***************************************************************************)
(* The CPU pool.  `install` hands the closure to the pool and waits for    *)
(* its end.  One thread runs one closure at a time, to its end.  With      *)
(* more, a closure spreads over the threads, and one that waits for the    *)
(* others may start another closure meanwhile: no limit to how many have   *)
(* started.                                                                *)
(***************************************************************************)
Install(r) ==
    /\ Busy = {} \/ Threads > 1
    /\ \/ job[r] = "tokenize" /\ job' = [job EXCEPT ![r] = "tokenizing"]
       \/ job[r] = "compute" /\ job' = [job EXCEPT ![r] = "computing"]
    /\ UNCHANGED <<phase, permits, task, cancelled, channel>>

\* Mutant: the permit in a result nobody joins is forgotten.
FinishPrepareLeaks(r) ==
    /\ job[r] = "tokenizing"
    /\ \/ /\ Detached(r)
          /\ job' = [job EXCEPT ![r] = "none"]
          /\ task' = [task EXCEPT ![r] = "idle"]
          /\ cancelled' = cancelled \ {r}
          /\ UNCHANGED admission
       \/ /\ ~Detached(r)
          /\ \/ job' = [job EXCEPT ![r] = "prepared"] /\ UNCHANGED admission
             \/ /\ \E e \in {"refused", "failed"} : job' = [job EXCEPT ![r] = e]
                /\ ReleaseAdmission
          /\ UNCHANGED <<task, cancelled>>
    /\ UNCHANGED <<phase, slots, slotQueue, channel>>

\* Mutant: the result waits for its handler even when that is gone.
FinishPrepareParked(r) ==
    /\ job[r] = "tokenizing"
    /\ \/ job' = [job EXCEPT ![r] = "prepared"] /\ UNCHANGED admission
       \/ /\ \E e \in {"refused", "failed"} : job' = [job EXCEPT ![r] = e]
          /\ ReleaseAdmission
    /\ UNCHANGED <<phase, slots, slotQueue, task, cancelled, channel>>

\* prepare(): Ok carries the permit back, Err has dropped it, and so has a
\* panic, which reaches the handler as a JoinError.
FinishPrepare(r) ==
    /\ job[r] = "tokenizing"
    /\ \/ /\ Detached(r)
          /\ ReleaseAdmission
          /\ job' = [job EXCEPT ![r] = "none"]
          /\ task' = [task EXCEPT ![r] = "idle"]
          /\ cancelled' = cancelled \ {r}
       \/ /\ ~Detached(r)
          /\ \/ job' = [job EXCEPT ![r] = "prepared"] /\ UNCHANGED admission
             \/ /\ \E e \in {"refused", "failed"} : job' = [job EXCEPT ![r] = e]
                /\ ReleaseAdmission
          /\ UNCHANGED <<task, cancelled>>
    /\ UNCHANGED <<phase, slots, slotQueue, channel>>

(***************************************************************************)
(* The handler after prepare().                                            *)
(***************************************************************************)
\* 400 for a request `prepare` refuses, 500 when it panicked.
ReplyInvalid(r) ==
    /\ task[r] = "prepare"
    /\ \/ job[r] = "refused" /\ task' = [task EXCEPT ![r] = "bad"]
       \/ job[r] = "failed" /\ task' = [task EXCEPT ![r] = "error"]
    /\ job' = [job EXCEPT ![r] = "none"]
    /\ UNCHANGED <<phase, permits, cancelled, channel>>

WaitForSlot(r) ==
    /\ task[r] = "prepare" /\ job[r] = "prepared"
    /\ AcquireSlot(r)
    /\ job' = [job EXCEPT ![r] = "none"]
    /\ UNCHANGED <<phase, admission, cancelled, channel>>

\* Both permits move into the generation job.  A plain request awaits the job;
\* a streaming one returns its body, and the job starts with the role chunk.
StartPlain(r) ==
    /\ task[r] = "granted"
    /\ task' = [task EXCEPT ![r] = "join"]
    /\ job' = [job EXCEPT ![r] = "compute"]
    /\ UNCHANGED <<phase, permits, cancelled, channel>>

StartStream(r) ==
    /\ task[r] = "granted"
    /\ task' = [task EXCEPT ![r] = "body"]
    /\ job' = [job EXCEPT ![r] = "role"]
    /\ UNCHANGED <<phase, permits, cancelled, channel>>

(***************************************************************************)
(* The generation job.                                                     *)
(***************************************************************************)

\* The closure returns: slot and admission permit are dropped, the result of a
\* plain job is parked for the handler that still waits for it.
EndJob(r, result) ==
    /\ ReleaseAdmission
    /\ ReleaseSlot(IF Detached(r) THEN [task EXCEPT ![r] = "idle"] ELSE task)
    /\ job' = [job EXCEPT ![r] = IF task[r] = "join" THEN result ELSE "none"]
    /\ cancelled' = IF Detached(r) THEN cancelled \ {r} ELSE cancelled

\* check_cancel after a forward pass and before each sample.
\* Mutant: nothing is checked.
NeverStops(r) == FALSE
StopsOnCancel(r) == Cancelled(r)

\* After a forward pass (or the prefill): the job fails if it was cancelled;
\* else it computes the next token, has text or the end of its output to send,
\* or is done or failed.  A streaming job ends here only by a panic, which
\* drops the sender: its body ends with no further event.
AfterPass(r) ==
    \/ StopsOnCancel(r) /\ EndJob(r, "failed")
    \/ /\ ~StopsOnCancel(r)
       /\ \/ /\ job' = [job EXCEPT ![r] = "compute"]
             /\ UNCHANGED <<permits, task, cancelled>>
          \/ /\ task[r] \in {"body", "closing"}
             /\ \E e \in {"text", "tail", "finish", "error"} :
                   job' = [job EXCEPT ![r] = e]
             /\ UNCHANGED <<permits, task, cancelled>>
          \/ \E result \in {"finished", "failed"} : EndJob(r, result)

\* The closure has left the pool before anything is sent.
FinishCompute(r) ==
    /\ job[r] = "computing"
    /\ AfterPass(r)
    /\ UNCHANGED <<phase, channel>>

\* What a job does once the channel has taken an event: usage only if the
\* request asked for it, the tail only if text was held back; after [DONE] or
\* the error event it returns.
FollowUps(event) ==
    CASE event = "role"   -> {"compute", "error"}
      [] event = "text"   -> {"compute", "tail", "finish"}
      [] event = "tail"   -> {"finish"}
      [] event = "finish" -> {"usage", "done"}
      [] event = "usage"  -> {"done"}
      [] OTHER            -> {"returning"}

\* send_event, the branch where the channel takes the event.
Deliver(r) ==
    /\ job[r] \in Sending /\ task[r] = "body"
    /\ channel[r] < ChannelCapacity
    /\ channel' = [channel EXCEPT ![r] = @ + 1]
    /\ \E j \in FollowUps(job[r]) : job' = [job EXCEPT ![r] = j]
    /\ UNCHANGED <<phase, permits, task, cancelled>>

\* The closure returns after its last event: until then it holds both permits,
\* though the client may have read [DONE] and gone.
Return(r) ==
    /\ job[r] = "returning"
    /\ EndJob(r, "finished")
    /\ UNCHANGED <<phase, channel>>

\* send_event, the branches that give up: the token is cancelled, or the
\* receiver is gone.  The error event after it fails the same way.
\* Mutant: send_event awaits the channel only.
SendIgnoresToken(r) == task[r] # "body"
SendUnblocks(r) == Cancelled(r) \/ task[r] # "body"

SendFails(r) ==
    /\ job[r] \in Sending
    /\ SendUnblocks(r)
    /\ EndJob(r, "failed")
    /\ UNCHANGED <<phase, channel>>

(***************************************************************************)
(* Answers and the streaming body.                                         *)
(***************************************************************************)
JoinPlain(r) ==
    /\ task[r] = "join"
    /\ \/ job[r] = "finished" /\ task' = [task EXCEPT ![r] = "ok"]
       \/ job[r] = "failed" /\ task' = [task EXCEPT ![r] = "error"]
    /\ job' = [job EXCEPT ![r] = "none"]
    /\ UNCHANGED <<phase, permits, cancelled, channel>>

SendReply(r) ==
    /\ task[r] \in Replies
    /\ task' = [task EXCEPT ![r] = "idle"]
    /\ UNCHANGED <<phase, permits, job, cancelled, channel>>

ReadEvent(r) ==
    /\ task[r] = "body" /\ channel[r] > 0
    /\ channel' = [channel EXCEPT ![r] = @ - 1]
    /\ UNCHANGED <<phase, permits, task, job, cancelled>>

\* The job dropped its sender and the buffer is empty: end of the body.
EndOfBody(r) ==
    /\ task[r] = "body" /\ job[r] = "none" /\ channel[r] = 0
    /\ task' = [task EXCEPT ![r] = "idle"]
    /\ UNCHANGED <<phase, permits, job, cancelled, channel>>

(***************************************************************************)
(* The client leaves: the task is dropped where it stands, with the guard  *)
(* that cancels the token and whatever permits the task itself holds.      *)
(***************************************************************************)
DropGuard(r, j) ==
    cancelled' = IF j = "none" THEN cancelled ELSE cancelled \cup {r}

\* Mutant: the handler keeps the permit, so leaving frees it under the job.
LeaveDuringPrepareEarly(r) ==
    /\ task[r] = "prepare"
    /\ ReleaseAdmission
    /\ job' = IF job[r] \in {"prepared", "refused", "failed"}
                THEN [job EXCEPT ![r] = "none"] ELSE job
    /\ task' = [task EXCEPT ![r] = Dropped(job'[r])]
    /\ DropGuard(r, job'[r])
    /\ UNCHANGED <<phase, slots, slotQueue, channel>>

LeaveDuringPrepare(r) ==
    /\ task[r] = "prepare"
    /\ \/ /\ job[r] = "prepared"
          /\ ReleaseAdmission
          /\ job' = [job EXCEPT ![r] = "none"]
       \/ /\ job[r] \in {"refused", "failed"}
          /\ job' = [job EXCEPT ![r] = "none"]
          /\ UNCHANGED admission
       \/ /\ job[r] \in {"tokenize", "tokenizing"}
          /\ UNCHANGED <<job, admission>>
    /\ task' = [task EXCEPT ![r] = Dropped(job'[r])]
    /\ DropGuard(r, job'[r])
    /\ UNCHANGED <<phase, slots, slotQueue, channel>>

LeaveSlotQueue(r) ==
    /\ task[r] = "slot"
    /\ \E i \in 1 .. Len(slotQueue) :
          slotQueue[i] = r /\ slotQueue' = WithoutAt(slotQueue, i)
    /\ task' = [task EXCEPT ![r] = "idle"]
    /\ ReleaseAdmission
    /\ UNCHANGED <<phase, slots, job, cancelled, channel>>

\* The permit was already assigned to this waiter: it goes to the next one.
LeaveGranted(r) ==
    /\ task[r] = "granted"
    /\ ReleaseSlot([task EXCEPT ![r] = "idle"])
    /\ ReleaseAdmission
    /\ UNCHANGED <<phase, job, cancelled, channel>>

LeaveJoin(r) ==
    /\ task[r] = "join"
    /\ job' = IF job[r] \in {"finished", "failed"}
                THEN [job EXCEPT ![r] = "none"] ELSE job
    /\ task' = [task EXCEPT ![r] = Dropped(job'[r])]
    /\ DropGuard(r, job'[r])
    /\ UNCHANGED <<phase, permits, channel>>

\* The body is a Map over the receiver: the receiver goes first, with the
\* buffered events, then the closure that keeps the guard.
DropReceiver(r) ==
    /\ task[r] = "body"
    /\ task' = [task EXCEPT ![r] = "closing"]
    /\ channel' = [channel EXCEPT ![r] = 0]
    /\ UNCHANGED <<phase, permits, job, cancelled>>

\* Mutant: the guard was not moved into the body.
DropBodyWithoutGuard(r) ==
    /\ task[r] = "closing"
    /\ task' = [task EXCEPT ![r] = Dropped(job[r])]
    /\ UNCHANGED <<phase, permits, job, cancelled, channel>>

DropBodyGuard(r) ==
    /\ task[r] = "closing"
    /\ task' = [task EXCEPT ![r] = Dropped(job[r])]
    /\ DropGuard(r, job[r])
    /\ UNCHANGED <<phase, permits, job, channel>>

(***************************************************************************)
(* Ctrl-C: cancel the token, stop accepting, leave when the connections    *)
(* are done and the runtime has waited for its blocking threads.           *)
(***************************************************************************)
CtrlC ==
    /\ phase = "serving"
    /\ phase' = "cancelled"
    /\ UNCHANGED <<permits, task, job, cancelled, channel>>

StopAccepting ==
    /\ phase = "cancelled"
    /\ phase' = "draining"
    /\ UNCHANGED <<permits, task, job, cancelled, channel>>

Drained == \A r \in Requests : task[r] = "idle"

Exit ==
    /\ phase = "draining"
    /\ Drained
    /\ phase' = "exited"
    /\ UNCHANGED <<permits, task, job, cancelled, channel>>

Exited == phase = "exited" /\ UNCHANGED vars

Arrive(r) == RejectRequest(r) \/ TurnAway(r) \/ Admit(r)

Handle(r) ==
    \/ ReplyInvalid(r) \/ WaitForSlot(r) \/ StartPlain(r) \/ StartStream(r)
    \/ JoinPlain(r) \/ SendReply(r) \/ EndOfBody(r) \/ DropBodyGuard(r)

Work(r) ==
    \/ FinishPrepare(r) \/ FinishCompute(r)
    \/ Deliver(r) \/ SendFails(r) \/ Return(r)

Leave(r) ==
    \/ LeaveDuringPrepare(r) \/ LeaveSlotQueue(r) \/ LeaveGranted(r)
    \/ LeaveJoin(r) \/ DropReceiver(r)

Next ==
    \/ \E r \in Requests :
          Arrive(r) \/ Handle(r) \/ Install(r) \/ Work(r) \/ ReadEvent(r)
             \/ Leave(r)
    \/ CtrlC \/ StopAccepting \/ Exit \/ Exited

Spec == Init /\ [][Next]_vars

(***************************************************************************)
(* Fairness.  Handlers and jobs run whenever they can; the pool takes      *)
(* installed closures in FIFO order, so none waits for ever (strong        *)
(* fairness, since others start and end in between).  Nothing makes a      *)
(* client read, leave, arrive, or a generation end.                        *)
(***************************************************************************)
Scheduling ==
    /\ \A r \in Requests :
          /\ WF_vars(Handle(r))
          /\ WF_vars(Work(r))
          /\ SF_vars(Install(r))
    /\ WF_vars(StopAccepting) /\ WF_vars(Exit)

\* max_tokens ends every generation: a job that keeps computing comes to the
\* pass after which it has no more tokens to compute.
LastPass(r) == FinishCompute(r) /\ job'[r] \notin {"compute", "text"}
LimitedOutput == \A r \in Requests : SF_vars(LastPass(r))

\* A streaming client reads what there is, or leaves.
ClientsReact ==
    \A r \in Requests : WF_vars(ReadEvent(r) \/ DropReceiver(r))

FairSpec == Spec /\ Scheduling
LimitedSpec == FairSpec /\ LimitedOutput

-----------------------------------------------------------------------------
(***************************************************************************)
(* Properties.                                                             *)
(***************************************************************************)

\* Every variable stays in its domain; no semaphore counter goes below zero or
\* above its size, and the channel never holds more than its bound.
TypeOK ==
    /\ phase \in Phases
    /\ admission \in 0 .. Capacity
    /\ slots \in 0 .. MaxConcurrent
    /\ slotQueue \in Seq(Requests)
    /\ task \in [Requests -> Tasks]
    /\ job \in [Requests -> Jobs]
    /\ cancelled \in SUBSET Requests
    /\ channel \in [Requests -> 0 .. ChannelCapacity]

\* No permit is lost or returned twice, whichever of the handler, a job, a
\* parked result or a body owned it when it was dropped: the free permits and
\* the owners always add up to what the semaphores were created with.
PermitsConserved ==
    /\ admission + Cardinality(Admitted) = Capacity
    /\ slots + Cardinality(Active) = MaxConcurrent

\* At most MaxConcurrent sessions (KV caches) exist and at most Capacity
\* requests are in any stage after admission, counting the jobs whose client
\* has already left.
ResourceBounds ==
    /\ Cardinality(Active) <= MaxConcurrent
    /\ Cardinality(Admitted) <= Capacity

Waiters(q) == {q[i] : i \in 1 .. Len(q)}
EachOnce(q) == \A i, j \in 1 .. Len(q) : q[i] = q[j] => i = j

\* The waiters of the slot semaphore are exactly the handlers parked on it,
\* each once, so a permit is never granted to a request that has left.
QueueMatchesTasks ==
    /\ Waiters(slotQueue) = {r \in Requests : task[r] = "slot"}
    /\ EachOnce(slotQueue)

\* Which task can stand beside which job: a job's owner and result are never
\* out of step with the handler, and an orphan always has a job to end it.
Beside(t, j) ==
    /\ t \in {"idle", "slot", "granted"} \cup Replies => j = "none"
    /\ t = "prepare" => j \in Preparing \cup {"refused", "failed"}
    /\ t = "join" => j \in {"compute", "computing", "finished", "failed"}
    /\ t \in {"body", "closing"} => j \in Generating \cup {"none"}
    /\ t = "left" => j \in Generating \cup {"tokenize", "tokenizing"}

TaskMatchesJob == \A r \in Requests : Beside(task[r], job[r])

\* A drop guard has cancelled a token exactly when the task of an unfinished
\* job is gone: no listening client is cancelled by somebody else's exit, and
\* no job runs on unwatched without being cancelled.
CancelledIffAbandoned == cancelled = {r \in Requests : task[r] = "left"}

\* A 429 is given only at a moment when every admission permit is owned.
TurnedAwayOnlyWhenFull ==
    [][\A r \in Requests :
          task[r] = "idle" /\ task'[r] = "busy"
             => Cardinality(Admitted) = Capacity]_vars

\* The server is a gate: whatever handlers, jobs and leaving clients do, each
\* step admits one request, seats or queues one, or lets one go and seats the
\* oldest waiter; nobody overtakes, nobody is forgotten, no permit is in two
\* hands.
G == INSTANCE Gate WITH
        Seats <- MaxConcurrent, inside <- Admitted, seated <- Active,
        line <- slotQueue
GateSpec == G!GateSpec

\* A request whose client left is cleaned up, whatever the other clients do
\* and however long its generation would have been.
AbandonedEnds == \A r \in Requests : task[r] = "left" ~> task[r] = "idle"

\* Ctrl-C ends every generation, also one blocked on a stream nobody reads.
ShutdownEndsJobs ==
    phase # "serving" ~> [](\A r \in Requests : job[r] \notin Generating)

\* A plain request that owns a slot is answered even if every streaming client
\* stalls for ever: a blocked stream holds no thread of the pool.
PlainIsAnswered ==
    \A r \in Requests : task[r] = "join" ~> task[r] # "join"

\* A stream whose client reads on comes to its end, or the client leaves, however
\* long other streams stall: neither the only pool thread nor a permit that this
\* stream needs between the role chunk and the end of the body is in their hands.
StreamIsServed ==
    \A r \in Requests :
        WF_vars(ReadEvent(r)) => (task[r] = "body" ~> task[r] # "body")

\* If streaming clients read or leave, Ctrl-C ends the process.
ShutdownCompletes ==
    ClientsReact => (phase # "serving" ~> phase = "exited")
=============================================================================
