---------------------------- MODULE ServerProofs ----------------------------
(***************************************************************************)
(* Machine-checked proofs about module Server, for every finite set of     *)
(* clients and every configuration the code accepts.                       *)
(***************************************************************************)
EXTENDS Server, FiniteSetTheorems, SequenceTheorems, TLAPS

\* A handler that parks joins the waiters, once.
LEMMA AppendWaiter ==
    ASSUME NEW S, NEW q \in Seq(S), NEW x \in S, EachOnce(q), x \notin Waiters(q)
    PROVE  /\ Append(q, x) \in Seq(S)
           /\ EachOnce(Append(q, x))
           /\ Waiters(Append(q, x)) = Waiters(q) \cup {x}
<1>1. /\ Append(q, x) \in Seq(S)
      /\ Len(Append(q, x)) = Len(q) + 1
      /\ \A i \in 1 .. Len(q) : Append(q, x)[i] = q[i]
      /\ Append(q, x)[Len(q) + 1] = x
      /\ Len(q) \in Nat
  BY AppendProperties
<1>2. EachOnce(Append(q, x))
  BY <1>1 DEF EachOnce, Waiters
<1>3. Waiters(Append(q, x)) = Waiters(q) \cup {x}
  BY <1>1 DEF Waiters
<1> QED BY <1>1, <1>2, <1>3

\* The waiter that gets the permit leaves the queue to the others.
LEMMA TailWaiters ==
    ASSUME NEW S, NEW q \in Seq(S), q # << >>, EachOnce(q)
    PROVE  /\ Head(q) \in S /\ Head(q) \in Waiters(q)
           /\ Tail(q) \in Seq(S)
           /\ EachOnce(Tail(q))
           /\ Waiters(Tail(q)) = Waiters(q) \ {Head(q)}
<1>1. /\ Len(q) \in Nat /\ Len(q) >= 1
      /\ Head(q) = q[1] /\ q[1] \in S
      /\ Tail(q) \in Seq(S)
      /\ Len(Tail(q)) = Len(q) - 1
      /\ \A i \in 1 .. Len(Tail(q)) : Tail(q)[i] = q[i + 1]
  BY HeadTailProperties, EmptySeq, LenProperties, ElementOfSeq
<1>2. EachOnce(Tail(q))
  BY <1>1 DEF EachOnce
<1>3. Waiters(Tail(q)) \subseteq Waiters(q) \ {Head(q)}
  BY <1>1 DEF EachOnce, Waiters
<1>4. ASSUME NEW w \in Waiters(q) \ {Head(q)}
      PROVE  w \in Waiters(Tail(q))
  <2>1. PICK i \in 1 .. Len(q) : q[i] = w /\ i # 1
    BY <1>1 DEF Waiters
  <2>2. i - 1 \in 1 .. Len(Tail(q)) /\ Tail(q)[i - 1] = w
    BY <1>1, <2>1
  <2> QED BY <2>2 DEF Waiters
<1>5. Head(q) \in Waiters(q)
  BY <1>1 DEF Waiters
<1> QED BY <1>1, <1>2, <1>3, <1>4, <1>5

\* A waiter that gives up leaves the queue, wherever it stood.
LEMMA WithoutWaiter ==
    ASSUME NEW S, NEW q \in Seq(S), NEW i \in 1 .. Len(q), EachOnce(q)
    PROVE  /\ WithoutAt(q, i) \in Seq(S)
           /\ EachOnce(WithoutAt(q, i))
           /\ Waiters(WithoutAt(q, i)) = Waiters(q) \ {q[i]}
<1> DEFINE p == WithoutAt(q, i)
<1>1. /\ Len(q) \in Nat /\ \A k \in 1 .. Len(q) : q[k] \in S
  BY LenProperties, ElementOfSeq
<1>2. /\ p \in [1 .. Len(q) - 1 -> S]
      /\ Len(q) - 1 \in Nat
  BY <1>1 DEF WithoutAt
<1>3. p \in Seq(S) /\ Len(p) = Len(q) - 1
  BY <1>2
<1>4. \A k \in 1 .. Len(p) : p[k] = IF k < i THEN q[k] ELSE q[k + 1]
  BY <1>3 DEF WithoutAt
<1>5. EachOnce(p)
  <2> SUFFICES ASSUME NEW j \in 1 .. Len(p), NEW k \in 1 .. Len(p), p[j] = p[k]
               PROVE  j = k
    BY DEF EachOnce
  <2> HIDE DEF p
  <2>1. CASE j < i /\ k < i
    BY <2>1, <1>1, <1>3, <1>4 DEF EachOnce
  <2>2. CASE ~(j < i) /\ ~(k < i)
    BY <2>2, <1>1, <1>3, <1>4 DEF EachOnce
  <2>3. CASE j < i /\ ~(k < i)
    BY <2>3, <1>1, <1>3, <1>4 DEF EachOnce
  <2>4. CASE ~(j < i) /\ k < i
    BY <2>4, <1>1, <1>3, <1>4 DEF EachOnce
  <2> QED BY <2>1, <2>2, <2>3, <2>4
<1> HIDE DEF p
<1>6. Waiters(p) \subseteq Waiters(q) \ {q[i]}
  BY <1>1, <1>3, <1>4 DEF EachOnce, Waiters
<1>7. ASSUME NEW w \in Waiters(q) \ {q[i]}
      PROVE  w \in Waiters(p)
  <2>1. PICK k \in 1 .. Len(q) : q[k] = w /\ k # i
    BY DEF Waiters
  <2>2. CASE k < i
    <3>1. k \in 1 .. Len(p) /\ p[k] = w
      BY <2>1, <2>2, <1>1, <1>3, <1>4
    <3> QED BY <3>1 DEF Waiters
  <2>3. CASE ~(k < i)
    <3>1. k - 1 \in 1 .. Len(p) /\ p[k - 1] = w
      BY <2>1, <2>3, <1>1, <1>3, <1>4
    <3> QED BY <3>1 DEF Waiters
  <2> QED BY <2>2, <2>3
<1> QED BY <1>3, <1>5, <1>6, <1>7 DEF p

(***************************************************************************)
(* Domains, without the bounds on the counters: those follow from the      *)
(* conservation of permits.                                                *)
(***************************************************************************)
Domains ==
    /\ phase \in Phases
    /\ admission \in Nat
    /\ slots \in Nat
    /\ slotQueue \in Seq(Requests)
    /\ task \in [Requests -> Tasks]
    /\ job \in [Requests -> Jobs]
    /\ cancelled \in SUBSET Requests
    /\ channel \in [Requests -> 0 .. ChannelCapacity]

\* Releasing a slot keeps the queue and the tasks in their domains.
LEMMA ReleaseDomains ==
    ASSUME Domains, EachOnce(slotQueue), NEW tasks \in [Requests -> Tasks],
           ReleaseSlot(tasks)
    PROVE  /\ slots' \in Nat
           /\ slotQueue' \in Seq(Requests)
           /\ task' \in [Requests -> Tasks]
<1>1. CASE slotQueue = << >>
  BY <1>1 DEF ReleaseSlot, Domains
<1>2. CASE slotQueue # << >>
  <2>1. Head(slotQueue) \in Requests /\ Tail(slotQueue) \in Seq(Requests)
    BY <1>2, TailWaiters DEF Domains
  <2> QED BY <1>2, <2>1 DEF ReleaseSlot, Domains, Tasks
<1> QED BY <1>1, <1>2

\* A generation job that ends keeps everything in its domain.
LEMMA EndJobDomains ==
    ASSUME Domains, EachOnce(slotQueue), NEW r \in Requests,
           NEW result \in {"finished", "failed"}, EndJob(r, result)
    PROVE  /\ admission' \in Nat
           /\ slots' \in Nat
           /\ slotQueue' \in Seq(Requests)
           /\ task' \in [Requests -> Tasks]
           /\ job' \in [Requests -> Jobs]
           /\ cancelled' \in SUBSET Requests
<1> DEFINE tasks == IF Detached(r) THEN [task EXCEPT ![r] = "idle"] ELSE task
<1>1. tasks \in [Requests -> Tasks]
  BY DEF Domains, Tasks
<1>2. ReleaseSlot(tasks)
  BY DEF EndJob
<1>3. /\ slots' \in Nat
      /\ slotQueue' \in Seq(Requests)
      /\ task' \in [Requests -> Tasks]
  BY <1>1, <1>2, ReleaseDomains
<1>4. /\ admission' \in Nat
      /\ job' \in [Requests -> Jobs]
      /\ cancelled' \in SUBSET Requests
  BY DEF EndJob, ReleaseAdmission, Domains, Jobs
<1> QED BY <1>3, <1>4

LEMMA DomainsStep ==
    ASSUME Domains, EachOnce(slotQueue), [Next]_vars
    PROVE  Domains'
<1> USE ConfigAssumption DEF Domains
<1>1. ASSUME NEW r \in Requests, RejectRequest(r) \/ TurnAway(r)
      PROVE  Domains'
  BY <1>1 DEF RejectRequest, TurnAway, permits, Tasks, Replies
<1>2. ASSUME NEW r \in Requests, Admit(r)
      PROVE  Domains'
  <2>1. task' \in [Requests -> Tasks] /\ job' \in [Requests -> Jobs]
    BY <1>2 DEF Admit, Tasks, Jobs, Preparing
  <2>2. admission' \in Nat
    BY <1>2 DEF Admit
  <2> QED BY <1>2, <2>1, <2>2 DEF Admit
<1>3. ASSUME NEW r \in Requests, Install(r)
      PROVE  Domains'
  <2>1. job' \in [Requests -> Jobs]
    BY <1>3 DEF Install, Jobs, Preparing, Generating
  <2> QED BY <1>3, <2>1 DEF Install, permits
<1>4. ASSUME NEW r \in Requests, FinishPrepare(r)
      PROVE  Domains'
  <2>1. admission' \in Nat
    BY <1>4 DEF FinishPrepare, ReleaseAdmission
  <2>2. job' \in [Requests -> Jobs]
    BY <1>4 DEF FinishPrepare, Jobs, Preparing
  <2>3. task' \in [Requests -> Tasks] /\ cancelled' \in SUBSET Requests
    BY <1>4 DEF FinishPrepare, Tasks
  <2> QED BY <1>4, <2>1, <2>2, <2>3 DEF FinishPrepare
<1>5. ASSUME NEW r \in Requests, FinishCompute(r)
      PROVE  Domains'
  <2>1. phase' \in Phases /\ channel' \in [Requests -> 0 .. ChannelCapacity]
    BY <1>5 DEF FinishCompute
  <2>2. CASE \E result \in {"finished", "failed"} : EndJob(r, result)
    BY <2>1, <2>2, EndJobDomains
  <2>3. CASE /\ UNCHANGED <<permits, task, cancelled>>
             /\ \E j \in Generating : job' = [job EXCEPT ![r] = j]
    <3>1. job' \in [Requests -> Jobs]
      BY <2>3 DEF Jobs
    <3> QED BY <2>1, <2>3, <3>1 DEF permits
  <2>4. /\ "compute" \in Generating
        /\ \A e \in {"text", "tail", "finish", "error"} : e \in Generating
    BY DEF Generating, Sending
  <2> QED BY <1>5, <2>2, <2>3, <2>4 DEF FinishCompute, AfterPass
<1>6. ASSUME NEW r \in Requests, Deliver(r)
      PROVE  Domains'
  <2>1. channel' \in [Requests -> 0 .. ChannelCapacity]
    BY <1>6 DEF Deliver
  <2> QED BY <1>6, <2>1 DEF Deliver, permits, FollowUps, Jobs, Generating,
          Sending
<1>7. ASSUME NEW r \in Requests, SendFails(r) \/ Return(r)
      PROVE  Domains'
  BY <1>7, EndJobDomains DEF SendFails, Return
<1>8. ASSUME NEW r \in Requests, WaitForSlot(r)
      PROVE  Domains'
  <2>1. Append(slotQueue, r) \in Seq(Requests)
    BY AppendProperties
  <2>2. task' \in [Requests -> Tasks] /\ job' \in [Requests -> Jobs]
    BY <1>8 DEF WaitForSlot, AcquireSlot, Tasks, Jobs
  <2>3. slots' \in Nat
    BY <1>8 DEF WaitForSlot, AcquireSlot
  <2>4. slotQueue' \in Seq(Requests)
    BY <1>8, <2>1 DEF WaitForSlot, AcquireSlot
  <2> QED BY <1>8, <2>2, <2>3, <2>4 DEF WaitForSlot
<1>9. ASSUME NEW r \in Requests,
             \/ ReplyInvalid(r) \/ StartPlain(r) \/ StartStream(r)
             \/ JoinPlain(r) \/ SendReply(r) \/ EndOfBody(r)
      PROVE  Domains'
  BY <1>9 DEF ReplyInvalid, StartPlain, StartStream, JoinPlain, SendReply,
     EndOfBody, permits, Tasks, Replies, Jobs, Generating, Sending
<1>10. ASSUME NEW r \in Requests, DropBodyGuard(r)
       PROVE  Domains'
  BY <1>10 DEF DropBodyGuard, DropGuard, Dropped, permits, Tasks
<1>11. ASSUME NEW r \in Requests, ReadEvent(r)
       PROVE  Domains'
  BY <1>11 DEF ReadEvent, permits
<1>12. ASSUME NEW r \in Requests, LeaveDuringPrepare(r)
       PROVE  Domains'
  <2>1. task' \in [Requests -> Tasks] /\ cancelled' \in SUBSET Requests
    BY <1>12 DEF LeaveDuringPrepare, Dropped, DropGuard, Tasks
  <2>2. job' \in [Requests -> Jobs]
    BY <1>12 DEF LeaveDuringPrepare, Jobs
  <2>3. admission' \in Nat
    BY <1>12 DEF LeaveDuringPrepare, ReleaseAdmission
  <2> QED BY <1>12, <2>1, <2>2, <2>3 DEF LeaveDuringPrepare
<1>13. ASSUME NEW r \in Requests, LeaveSlotQueue(r)
       PROVE  Domains'
  BY <1>13, WithoutWaiter DEF LeaveSlotQueue, ReleaseAdmission, Tasks
<1>14. ASSUME NEW r \in Requests, LeaveGranted(r)
       PROVE  Domains'
  <2>1. [task EXCEPT ![r] = "idle"] \in [Requests -> Tasks]
    BY DEF Tasks
  <2>2. /\ slots' \in Nat
        /\ slotQueue' \in Seq(Requests)
        /\ task' \in [Requests -> Tasks]
    BY <1>14, <2>1, ReleaseDomains DEF LeaveGranted
  <2>3. admission' \in Nat
    BY <1>14 DEF LeaveGranted, ReleaseAdmission
  <2> QED BY <1>14, <2>2, <2>3 DEF LeaveGranted
<1>15. ASSUME NEW r \in Requests, LeaveJoin(r)
       PROVE  Domains'
  <2>1. task' \in [Requests -> Tasks] /\ cancelled' \in SUBSET Requests
    BY <1>15 DEF LeaveJoin, Dropped, DropGuard, Tasks
  <2>2. job' \in [Requests -> Jobs]
    BY <1>15 DEF LeaveJoin, Jobs
  <2> QED BY <1>15, <2>1, <2>2 DEF LeaveJoin, permits
<1>16. ASSUME NEW r \in Requests, DropReceiver(r)
       PROVE  Domains'
  <2>1. task' \in [Requests -> Tasks]
    BY <1>16 DEF DropReceiver, Tasks
  <2>2. channel' \in [Requests -> 0 .. ChannelCapacity]
    BY <1>16 DEF DropReceiver
  <2> QED BY <1>16, <2>1, <2>2 DEF DropReceiver, permits
<1>17. CASE CtrlC \/ StopAccepting \/ Exit \/ Exited \/ UNCHANGED vars
  BY <1>17 DEF CtrlC, StopAccepting, Exit, Exited, vars, permits, Phases
<1> QED
  BY <1>1, <1>2, <1>3, <1>4, <1>5, <1>6, <1>7, <1>8, <1>9, <1>10, <1>11, <1>12,
     <1>13, <1>14, <1>15, <1>16, <1>17 DEF Next, Arrive, Handle, Work, Leave

(***************************************************************************)
(* The queue of the slot semaphore.                                        *)
(***************************************************************************)

\* A step that parks nobody and lets nobody go leaves the queue in order.
LEMMA QueueUntouched ==
    ASSUME QueueMatchesTasks, slotQueue' = slotQueue,
           \A x \in Requests : task'[x] = "slot" <=> task[x] = "slot"
    PROVE  QueueMatchesTasks'
BY DEF QueueMatchesTasks

\* A slot permit that comes back goes to the oldest waiter, to nobody else.
LEMMA ReleaseQueue ==
    ASSUME Domains, QueueMatchesTasks, NEW tasks \in [Requests -> Tasks],
           \A x \in Requests : tasks[x] = "slot" <=> task[x] = "slot",
           ReleaseSlot(tasks)
    PROVE  /\ QueueMatchesTasks'
           /\ \A x \in Requests :
                 \/ task'[x] = tasks[x]
                 \/ /\ slotQueue # << >> /\ x = Head(slotQueue)
                    /\ tasks[x] = "slot" /\ task'[x] = "granted"
<1>1. CASE slotQueue = << >>
  <2>1. task' = tasks /\ slotQueue' = slotQueue
    BY <1>1 DEF ReleaseSlot
  <2> QED BY <2>1, QueueUntouched
<1>2. CASE slotQueue # << >>
  <2> DEFINE h == Head(slotQueue)
  <2>1. /\ h \in Requests /\ h \in Waiters(slotQueue)
        /\ EachOnce(Tail(slotQueue))
        /\ Waiters(Tail(slotQueue)) = Waiters(slotQueue) \ {h}
    BY <1>2, TailWaiters DEF Domains, QueueMatchesTasks
  <2>2. /\ slotQueue' = Tail(slotQueue)
        /\ task' = [tasks EXCEPT ![h] = "granted"]
    BY <1>2 DEF ReleaseSlot
  <2>3. tasks[h] = "slot" /\ task'[h] = "granted"
    BY <2>1, <2>2 DEF QueueMatchesTasks
  <2>4. \A x \in Requests \ {h} : task'[x] = tasks[x]
    BY <2>2
  <2>5. Waiters(slotQueue') = {x \in Requests : task'[x] = "slot"}
    BY <2>1, <2>2, <2>3, <2>4 DEF QueueMatchesTasks
  <2> QED BY <1>2, <2>1, <2>2, <2>3, <2>4, <2>5 DEF QueueMatchesTasks
<1> QED BY <1>1, <1>2

\* What the end of a generation job does to the tasks and to the queue.
LEMMA EndJobTasks ==
    ASSUME Domains, QueueMatchesTasks, NEW r \in Requests, task[r] # "slot",
           NEW result, EndJob(r, result)
    PROVE  /\ QueueMatchesTasks'
           /\ task'[r] = IF Detached(r) THEN "idle" ELSE task[r]
           /\ \A x \in Requests \ {r} :
                 \/ task'[x] = task[x]
                 \/ /\ slotQueue # << >> /\ x = Head(slotQueue)
                    /\ task[x] = "slot" /\ task'[x] = "granted"
<1> DEFINE tasks == IF Detached(r) THEN [task EXCEPT ![r] = "idle"] ELSE task
<1>1. /\ tasks \in [Requests -> Tasks]
      /\ tasks[r] = IF Detached(r) THEN "idle" ELSE task[r]
      /\ \A x \in Requests \ {r} : tasks[x] = task[x]
  BY DEF Domains, Tasks
<1>2. ReleaseSlot(tasks)
  BY DEF EndJob
<1> HIDE DEF tasks
<1>3. \A x \in Requests : tasks[x] = "slot" <=> task[x] = "slot"
  BY <1>1
<1> QED BY <1>1, <1>2, <1>3, ReleaseQueue

\* The tasks whose job can end: none of them is parked.
LEMMA GeneratingNotParked ==
    ASSUME TaskMatchesJob, NEW r \in Requests, job[r] \in Generating
    PROVE  task[r] # "slot" /\ task[r] # "granted" /\ task[r] # "prepare"
           /\ task[r] \notin {"idle"} \cup Replies
BY DEF TaskMatchesJob, Beside, Generating, Sending, Preparing, Replies

LEMMA QueueStep ==
    ASSUME Domains, QueueMatchesTasks, TaskMatchesJob, [Next]_vars
    PROVE  QueueMatchesTasks'
<1>1. ASSUME NEW r \in Requests, Arrive(r)
      PROVE  QueueMatchesTasks'
  BY <1>1, QueueUntouched DEF Domains, Arrive, RejectRequest, TurnAway, Admit,
     permits
<1>2. ASSUME NEW r \in Requests, Install(r)
      PROVE  QueueMatchesTasks'
  BY <1>2, QueueUntouched DEF Install, permits
<1>3. ASSUME NEW r \in Requests, FinishPrepare(r)
      PROVE  QueueMatchesTasks'
  BY <1>3, QueueUntouched DEF Domains, FinishPrepare, Detached
<1>4. ASSUME NEW r \in Requests, FinishCompute(r)
      PROVE  QueueMatchesTasks'
  <2>1. CASE \E result \in {"finished", "failed"} : EndJob(r, result)
    <3>1. task[r] # "slot"
      BY <1>4, GeneratingNotParked DEF FinishCompute, Generating
    <3> QED BY <2>1, <3>1, EndJobTasks
  <2>2. CASE UNCHANGED <<permits, task, cancelled>>
    BY <2>2, QueueUntouched DEF permits
  <2> QED BY <1>4, <2>1, <2>2 DEF FinishCompute, AfterPass
<1>5. ASSUME NEW r \in Requests, Deliver(r) \/ SendFails(r) \/ Return(r)
      PROVE  QueueMatchesTasks'
  <2>1. CASE \E result \in {"finished", "failed"} : EndJob(r, result)
    <3>1. task[r] # "slot"
      BY <1>5, GeneratingNotParked DEF Deliver, SendFails, Return, Generating
    <3> QED BY <2>1, <3>1, EndJobTasks
  <2>2. CASE UNCHANGED <<permits, task, cancelled>>
    BY <2>2, QueueUntouched DEF permits
  <2> QED BY <1>5, <2>1, <2>2 DEF Deliver, SendFails, Return
<1>6. ASSUME NEW r \in Requests, WaitForSlot(r)
      PROVE  QueueMatchesTasks'
  <2>1. task[r] = "prepare"
    BY <1>6 DEF WaitForSlot
  <2>2. CASE slotQueue' = slotQueue /\ task' = [task EXCEPT ![r] = "granted"]
    BY <2>1, <2>2, QueueUntouched DEF Domains
  <2>3. CASE /\ slotQueue' = Append(slotQueue, r)
             /\ task' = [task EXCEPT ![r] = "slot"]
    <3>1. r \notin Waiters(slotQueue)
      BY <2>1 DEF QueueMatchesTasks
    <3>2. /\ EachOnce(slotQueue')
          /\ Waiters(slotQueue') = Waiters(slotQueue) \cup {r}
      BY <2>3, <3>1, AppendWaiter DEF Domains, QueueMatchesTasks
    <3>3. {x \in Requests : task'[x] = "slot"}
             = {x \in Requests : task[x] = "slot"} \cup {r}
      BY <2>3 DEF Domains
    <3> QED BY <3>2, <3>3 DEF QueueMatchesTasks
  <2> QED BY <1>6, <2>2, <2>3 DEF WaitForSlot, AcquireSlot
<1>7. ASSUME NEW r \in Requests,
             \/ ReplyInvalid(r) \/ StartPlain(r) \/ StartStream(r)
             \/ JoinPlain(r) \/ SendReply(r) \/ EndOfBody(r)
      PROVE  QueueMatchesTasks'
  BY <1>7, QueueUntouched DEF Domains, ReplyInvalid, StartPlain, StartStream,
     JoinPlain, SendReply, EndOfBody, permits, Replies
<1>8. ASSUME NEW r \in Requests, DropBodyGuard(r)
      PROVE  QueueMatchesTasks'
  BY <1>8, QueueUntouched DEF Domains, DropBodyGuard, Dropped, permits
<1>9. ASSUME NEW r \in Requests, ReadEvent(r)
      PROVE  QueueMatchesTasks'
  BY <1>9, QueueUntouched DEF ReadEvent, permits
<1>10. ASSUME NEW r \in Requests, LeaveDuringPrepare(r)
       PROVE  QueueMatchesTasks'
  BY <1>10, QueueUntouched DEF Domains, LeaveDuringPrepare, Dropped
<1>11. ASSUME NEW r \in Requests, LeaveSlotQueue(r)
       PROVE  QueueMatchesTasks'
  <2>1. PICK i \in 1 .. Len(slotQueue) :
           slotQueue[i] = r /\ slotQueue' = WithoutAt(slotQueue, i)
    BY <1>11 DEF LeaveSlotQueue
  <2>2. /\ EachOnce(slotQueue')
        /\ Waiters(slotQueue') = Waiters(slotQueue) \ {r}
    BY <2>1, WithoutWaiter DEF Domains, QueueMatchesTasks
  <2>3. {x \in Requests : task'[x] = "slot"}
           = {x \in Requests : task[x] = "slot"} \ {r}
    BY <1>11 DEF Domains, LeaveSlotQueue
  <2> QED BY <2>2, <2>3 DEF QueueMatchesTasks
<1>12. ASSUME NEW r \in Requests, LeaveGranted(r)
       PROVE  QueueMatchesTasks'
  <2> DEFINE tasks == [task EXCEPT ![r] = "idle"]
  <2>1. tasks \in [Requests -> Tasks]
    BY DEF Domains, Tasks
  <2>2. \A x \in Requests : tasks[x] = "slot" <=> task[x] = "slot"
    BY <1>12 DEF Domains, LeaveGranted
  <2> QED BY <1>12, <2>1, <2>2, ReleaseQueue DEF LeaveGranted
<1>13. ASSUME NEW r \in Requests, LeaveJoin(r) \/ DropReceiver(r)
       PROVE  QueueMatchesTasks'
  BY <1>13, QueueUntouched DEF Domains, LeaveJoin, DropReceiver, Dropped,
     permits
<1>14. CASE CtrlC \/ StopAccepting \/ Exit \/ Exited \/ UNCHANGED vars
  BY <1>14, QueueUntouched DEF CtrlC, StopAccepting, Exit, Exited, vars, permits
<1> QED
  BY <1>1, <1>2, <1>3, <1>4, <1>5, <1>6, <1>7, <1>8, <1>9, <1>10, <1>11, <1>12,
     <1>13, <1>14 DEF Next, Handle, Work, Leave

(***************************************************************************)
(* Tasks beside jobs.                                                      *)
(***************************************************************************)

\* It is enough to look at the request that moves; the others keep their task,
\* or are granted the slot they waited for.
LEMMA BesideElsewhere ==
    ASSUME TaskMatchesJob, NEW r \in Requests, Beside(task'[r], job'[r]),
           \A x \in Requests \ {r} :
              /\ job'[x] = job[x]
              /\ \/ task'[x] = task[x]
                 \/ task[x] = "slot" /\ task'[x] = "granted"
    PROVE  TaskMatchesJob'
<1>1. \A x \in Requests \ {r} : Beside(task'[x], job'[x])
  BY DEF TaskMatchesJob, Beside, Replies
<1> QED BY <1>1 DEF TaskMatchesJob

LEMMA EndJobBeside ==
    ASSUME Domains, QueueMatchesTasks, TaskMatchesJob,
           NEW r \in Requests, job[r] \in Generating,
           NEW result \in {"finished", "failed"}, EndJob(r, result)
    PROVE  TaskMatchesJob'
<1>1. /\ task'[r] = IF Detached(r) THEN "idle" ELSE task[r]
      /\ \A x \in Requests \ {r} :
            \/ task'[x] = task[x]
            \/ task[x] = "slot" /\ task'[x] = "granted"
  BY GeneratingNotParked, EndJobTasks
<1>2. /\ job'[r] = IF task[r] = "join" THEN result ELSE "none"
      /\ \A x \in Requests \ {r} : job'[x] = job[x]
  BY DEF EndJob, Domains
<1>3. task[r] \in {"join", "body", "closing", "left"}
  BY GeneratingNotParked DEF Domains, Tasks
<1>4. Beside(task'[r], job'[r])
  BY <1>1, <1>2, <1>3 DEF Beside, Detached, Replies
<1> QED BY <1>1, <1>2, <1>4, BesideElsewhere

LEMMA BesideStep ==
    ASSUME Domains, QueueMatchesTasks, TaskMatchesJob, [Next]_vars
    PROVE  TaskMatchesJob'
<1>1. ASSUME NEW r \in Requests, Arrive(r)
      PROVE  TaskMatchesJob'
  <2>1. Beside(task'[r], job'[r])
    BY <1>1 DEF Domains, TaskMatchesJob, Arrive, RejectRequest, TurnAway, Admit,
       Beside, Replies, Preparing
  <2>2. \A x \in Requests \ {r} : job'[x] = job[x] /\ task'[x] = task[x]
    BY <1>1 DEF Domains, Arrive, RejectRequest, TurnAway, Admit
  <2> QED BY <2>1, <2>2, BesideElsewhere
<1>2. ASSUME NEW r \in Requests, Install(r)
      PROVE  TaskMatchesJob'
  <2>1. Beside(task'[r], job'[r])
    BY <1>2 DEF Domains, TaskMatchesJob, Install, Beside, Replies, Preparing,
       Generating, Sending
  <2>2. \A x \in Requests \ {r} : job'[x] = job[x] /\ task'[x] = task[x]
    BY <1>2 DEF Domains, Install
  <2> QED BY <2>1, <2>2, BesideElsewhere
<1>3. ASSUME NEW r \in Requests, FinishPrepare(r)
      PROVE  TaskMatchesJob'
  <2>1. Beside(task'[r], job'[r])
    BY <1>3 DEF Domains, TaskMatchesJob, FinishPrepare, Detached, Beside,
       Replies, Preparing, Generating, Sending
  <2>2. \A x \in Requests \ {r} : job'[x] = job[x] /\ task'[x] = task[x]
    BY <1>3 DEF Domains, FinishPrepare
  <2> QED BY <2>1, <2>2, BesideElsewhere
<1>4. ASSUME NEW r \in Requests, FinishCompute(r)
      PROVE  TaskMatchesJob'
  <2>1. job[r] = "computing" /\ job[r] \in Generating
    BY <1>4 DEF FinishCompute, Generating
  <2>2. CASE \E result \in {"finished", "failed"} : EndJob(r, result)
    BY <2>1, <2>2, EndJobBeside
  <2>3. CASE /\ task' = task
             /\ \/ job' = [job EXCEPT ![r] = "compute"]
                \/ /\ task[r] \in {"body", "closing"}
                   /\ \E e \in {"text", "tail", "finish", "error"} :
                         job' = [job EXCEPT ![r] = e]
    <3>1. Beside(task'[r], job'[r])
      BY <2>1, <2>3 DEF Domains, TaskMatchesJob, Beside, Replies, Preparing,
         Generating, Sending
    <3>2. \A x \in Requests \ {r} : job'[x] = job[x] /\ task'[x] = task[x]
      BY <2>3 DEF Domains
    <3> QED BY <3>1, <3>2, BesideElsewhere
  <2> QED BY <1>4, <2>2, <2>3 DEF FinishCompute, AfterPass
<1>5. ASSUME NEW r \in Requests, Deliver(r)
      PROVE  TaskMatchesJob'
  <2>1. job[r] \in Generating /\ task[r] = "body"
    BY <1>5 DEF Deliver, Generating
  <2>2. /\ task' = task
        /\ \E j \in FollowUps(job[r]) : job' = [job EXCEPT ![r] = j]
    BY <1>5 DEF Deliver
  <2>3. FollowUps(job[r]) \subseteq Generating
    BY <1>5 DEF Deliver, FollowUps, Generating, Sending
  <2>4. Beside(task'[r], job'[r])
    BY <2>1, <2>2, <2>3 DEF Domains, Beside, Replies
  <2>5. \A x \in Requests \ {r} : job'[x] = job[x] /\ task'[x] = task[x]
    BY <2>2 DEF Domains
  <2> QED BY <2>4, <2>5, BesideElsewhere
<1>6. ASSUME NEW r \in Requests, SendFails(r) \/ Return(r)
      PROVE  TaskMatchesJob'
  BY <1>6, EndJobBeside DEF SendFails, Return, Generating
<1>7. ASSUME NEW r \in Requests, WaitForSlot(r)
      PROVE  TaskMatchesJob'
  <2>1. Beside(task'[r], job'[r])
    BY <1>7 DEF Domains, WaitForSlot, AcquireSlot, Beside, Replies
  <2>2. \A x \in Requests \ {r} : job'[x] = job[x] /\ task'[x] = task[x]
    BY <1>7 DEF Domains, WaitForSlot, AcquireSlot
  <2> QED BY <2>1, <2>2, BesideElsewhere
<1>8. ASSUME NEW r \in Requests,
             \/ ReplyInvalid(r) \/ StartPlain(r) \/ StartStream(r)
             \/ JoinPlain(r) \/ SendReply(r) \/ EndOfBody(r)
      PROVE  TaskMatchesJob'
  <2>1. Beside(task'[r], job'[r])
    BY <1>8 DEF Domains, TaskMatchesJob, ReplyInvalid, StartPlain, StartStream,
       JoinPlain, SendReply, EndOfBody, Beside, Replies, Generating, Sending
  <2>2. \A x \in Requests \ {r} : job'[x] = job[x] /\ task'[x] = task[x]
    BY <1>8 DEF Domains, ReplyInvalid, StartPlain, StartStream, JoinPlain,
       SendReply, EndOfBody
  <2> QED BY <2>1, <2>2, BesideElsewhere
<1>9. ASSUME NEW r \in Requests, DropBodyGuard(r)
      PROVE  TaskMatchesJob'
  <2>1. Beside(task'[r], job'[r])
    BY <1>9 DEF Domains, TaskMatchesJob, DropBodyGuard, Dropped, Beside,
       Replies, Generating, Sending
  <2>2. \A x \in Requests \ {r} : job'[x] = job[x] /\ task'[x] = task[x]
    BY <1>9 DEF Domains, DropBodyGuard
  <2> QED BY <2>1, <2>2, BesideElsewhere
<1>10. ASSUME NEW r \in Requests, ReadEvent(r)
       PROVE  TaskMatchesJob'
  BY <1>10 DEF ReadEvent, TaskMatchesJob
<1>11. ASSUME NEW r \in Requests, LeaveDuringPrepare(r)
       PROVE  TaskMatchesJob'
  <2>1. Beside(task'[r], job'[r])
    BY <1>11 DEF Domains, LeaveDuringPrepare, Dropped, Beside, Replies
  <2>2. \A x \in Requests \ {r} : job'[x] = job[x] /\ task'[x] = task[x]
    BY <1>11 DEF Domains, LeaveDuringPrepare
  <2> QED BY <2>1, <2>2, BesideElsewhere
<1>12. ASSUME NEW r \in Requests, LeaveSlotQueue(r)
       PROVE  TaskMatchesJob'
  <2>1. Beside(task'[r], job'[r])
    BY <1>12 DEF Domains, TaskMatchesJob, LeaveSlotQueue, Beside, Replies
  <2>2. \A x \in Requests \ {r} : job'[x] = job[x] /\ task'[x] = task[x]
    BY <1>12 DEF Domains, LeaveSlotQueue
  <2> QED BY <2>1, <2>2, BesideElsewhere
<1>13. ASSUME NEW r \in Requests, LeaveGranted(r)
       PROVE  TaskMatchesJob'
  <2> DEFINE tasks == [task EXCEPT ![r] = "idle"]
  <2>1. /\ tasks \in [Requests -> Tasks]
        /\ tasks[r] = "idle"
        /\ \A x \in Requests \ {r} : tasks[x] = task[x]
    BY DEF Domains, Tasks
  <2>2. task[r] = "granted" /\ ReleaseSlot(tasks) /\ job' = job
    BY <1>13 DEF LeaveGranted
  <2> HIDE DEF tasks
  <2>3. \A x \in Requests : tasks[x] = "slot" <=> task[x] = "slot"
    BY <2>1, <2>2
  <2>4. /\ task'[r] = "idle"
        /\ \A x \in Requests \ {r} :
              \/ task'[x] = task[x]
              \/ task[x] = "slot" /\ task'[x] = "granted"
    BY <2>1, <2>2, <2>3, ReleaseQueue
  <2>5. Beside(task'[r], job'[r])
    BY <2>2, <2>4 DEF TaskMatchesJob, Beside, Replies
  <2> QED BY <2>2, <2>4, <2>5, BesideElsewhere
<1>14. ASSUME NEW r \in Requests, LeaveJoin(r) \/ DropReceiver(r)
       PROVE  TaskMatchesJob'
  <2>1. Beside(task'[r], job'[r])
    BY <1>14 DEF Domains, TaskMatchesJob, LeaveJoin, DropReceiver, Dropped,
       Beside, Replies, Generating, Sending
  <2>2. \A x \in Requests \ {r} : job'[x] = job[x] /\ task'[x] = task[x]
    BY <1>14 DEF Domains, LeaveJoin, DropReceiver
  <2> QED BY <2>1, <2>2, BesideElsewhere
<1>15. CASE CtrlC \/ StopAccepting \/ Exit \/ Exited \/ UNCHANGED vars
  BY <1>15 DEF CtrlC, StopAccepting, Exit, Exited, vars, TaskMatchesJob
<1> QED
  BY <1>1, <1>2, <1>3, <1>4, <1>5, <1>6, <1>7, <1>8, <1>9, <1>10, <1>11, <1>12,
     <1>13, <1>14, <1>15 DEF Next, Handle, Work, Leave

(***************************************************************************)
(* Cancelled tokens.                                                       *)
(***************************************************************************)

\* A step that neither drops a guard nor ends an orphan.
LEMMA GuardsUntouched ==
    ASSUME CancelledIffAbandoned, cancelled' = cancelled,
           \A x \in Requests : task'[x] = "left" <=> task[x] = "left"
    PROVE  CancelledIffAbandoned'
BY DEF CancelledIffAbandoned

LEMMA EndJobCancelled ==
    ASSUME Domains, QueueMatchesTasks, CancelledIffAbandoned,
           NEW r \in Requests, task[r] # "slot",
           NEW result, EndJob(r, result)
    PROVE  CancelledIffAbandoned'
<1>1. /\ task'[r] = IF Detached(r) THEN "idle" ELSE task[r]
      /\ \A x \in Requests \ {r} :
            \/ task'[x] = task[x]
            \/ task[x] = "slot" /\ task'[x] = "granted"
  BY EndJobTasks
<1>2. cancelled' = IF Detached(r) THEN cancelled \ {r} ELSE cancelled
  BY DEF EndJob
<1> QED BY <1>1, <1>2 DEF CancelledIffAbandoned, Detached

\* A task that is dropped leaves a cancelled orphan, or nothing.
LEMMA DropCancelled ==
    ASSUME Domains, CancelledIffAbandoned, NEW r \in Requests, NEW j,
           task[r] # "left", task' = [task EXCEPT ![r] = Dropped(j)],
           DropGuard(r, j)
    PROVE  CancelledIffAbandoned'
<1>1. task'[r] = Dropped(j) /\ \A x \in Requests \ {r} : task'[x] = task[x]
  BY DEF Domains
<1> QED BY <1>1 DEF CancelledIffAbandoned, DropGuard, Dropped

LEMMA CancelledStep ==
    ASSUME Domains, QueueMatchesTasks, TaskMatchesJob, CancelledIffAbandoned,
           [Next]_vars
    PROVE  CancelledIffAbandoned'
<1>1. ASSUME NEW r \in Requests, Arrive(r) \/ Install(r)
      PROVE  CancelledIffAbandoned'
  BY <1>1, GuardsUntouched DEF Domains, Arrive, RejectRequest, TurnAway, Admit,
     Install
<1>2. ASSUME NEW r \in Requests, FinishPrepare(r)
      PROVE  CancelledIffAbandoned'
  BY <1>2 DEF Domains, FinishPrepare, Detached, CancelledIffAbandoned
<1>3. ASSUME NEW r \in Requests,
             FinishCompute(r) \/ Deliver(r) \/ SendFails(r) \/ Return(r)
      PROVE  CancelledIffAbandoned'
  <2>1. CASE \E result \in {"finished", "failed"} : EndJob(r, result)
    <3>1. task[r] # "slot"
      BY <1>3, GeneratingNotParked DEF FinishCompute, Deliver, SendFails,
         Return, Generating
    <3> QED BY <2>1, <3>1, EndJobCancelled
  <2>2. CASE UNCHANGED <<permits, task, cancelled>>
    BY <2>2, GuardsUntouched
  <2> QED BY <1>3, <2>1, <2>2 DEF FinishCompute, AfterPass, Deliver, SendFails,
          Return
<1>4. ASSUME NEW r \in Requests, WaitForSlot(r)
      PROVE  CancelledIffAbandoned'
  BY <1>4, GuardsUntouched DEF Domains, WaitForSlot, AcquireSlot
<1>5. ASSUME NEW r \in Requests,
             \/ ReplyInvalid(r) \/ StartPlain(r) \/ StartStream(r)
             \/ JoinPlain(r) \/ SendReply(r) \/ EndOfBody(r)
      PROVE  CancelledIffAbandoned'
  BY <1>5, GuardsUntouched DEF Domains, ReplyInvalid, StartPlain, StartStream,
     JoinPlain, SendReply, EndOfBody, Replies
<1>6. ASSUME NEW r \in Requests, ReadEvent(r)
      PROVE  CancelledIffAbandoned'
  BY <1>6, GuardsUntouched DEF ReadEvent
<1>7. ASSUME NEW r \in Requests,
             LeaveDuringPrepare(r) \/ LeaveJoin(r) \/ DropBodyGuard(r)
      PROVE  CancelledIffAbandoned'
  <2>1. CASE LeaveDuringPrepare(r) \/ LeaveJoin(r)
    BY <2>1, DropCancelled DEF LeaveDuringPrepare, LeaveJoin
  <2>2. CASE DropBodyGuard(r)
    BY <2>2, DropCancelled DEF DropBodyGuard
  <2> QED BY <1>7, <2>1, <2>2
<1>8. ASSUME NEW r \in Requests, LeaveSlotQueue(r) \/ DropReceiver(r)
      PROVE  CancelledIffAbandoned'
  BY <1>8, GuardsUntouched DEF Domains, LeaveSlotQueue, DropReceiver
<1>9. ASSUME NEW r \in Requests, LeaveGranted(r)
      PROVE  CancelledIffAbandoned'
  <2> DEFINE tasks == [task EXCEPT ![r] = "idle"]
  <2>1. /\ tasks \in [Requests -> Tasks]
        /\ \A x \in Requests : tasks[x] = "slot" <=> task[x] = "slot"
        /\ \A x \in Requests : tasks[x] = "left" <=> task[x] = "left"
    BY <1>9 DEF Domains, Tasks, LeaveGranted
  <2>2. ReleaseSlot(tasks) /\ cancelled' = cancelled
    BY <1>9 DEF LeaveGranted
  <2> HIDE DEF tasks
  <2>3. \A x \in Requests : \/ task'[x] = tasks[x]
                            \/ tasks[x] = "slot" /\ task'[x] = "granted"
    BY <2>1, <2>2, ReleaseQueue
  <2> QED BY <2>1, <2>2, <2>3, GuardsUntouched
<1>10. CASE CtrlC \/ StopAccepting \/ Exit \/ Exited \/ UNCHANGED vars
  BY <1>10, GuardsUntouched DEF CtrlC, StopAccepting, Exit, Exited, vars
<1> QED
  BY <1>1, <1>2, <1>3, <1>4, <1>5, <1>6, <1>7, <1>8, <1>9, <1>10
     DEF Next, Handle, Work, Leave

(***************************************************************************)
(* No free slot beside a waiter.                                           *)
(***************************************************************************)
NoLostWakeup == slots > 0 => slotQueue = << >>

LEMMA WakeupStep ==
    ASSUME Domains, NoLostWakeup, [Next]_vars
    PROVE  NoLostWakeup'
<1>1. CASE UNCHANGED <<slots, slotQueue>>
  BY <1>1 DEF NoLostWakeup
<1>2. ASSUME NEW tasks, ReleaseSlot(tasks)
      PROVE  NoLostWakeup'
  BY <1>2 DEF ReleaseSlot, NoLostWakeup
<1>3. ASSUME NEW r \in Requests, WaitForSlot(r)
      PROVE  NoLostWakeup'
  BY <1>3 DEF WaitForSlot, AcquireSlot, NoLostWakeup, Domains
<1>4. ASSUME NEW r \in Requests, LeaveSlotQueue(r)
      PROVE  NoLostWakeup'
  <2>1. slotQueue # << >>
    BY <1>4 DEF LeaveSlotQueue
  <2> QED BY <1>4, <2>1 DEF LeaveSlotQueue, NoLostWakeup
<1>5. ASSUME NEW r \in Requests, Work(r) \/ LeaveGranted(r)
      PROVE  NoLostWakeup'
  BY <1>1, <1>2, <1>5 DEF Work, FinishPrepare, FinishCompute, AfterPass,
     Deliver, SendFails, Return, EndJob, LeaveGranted, permits
<1>6. ASSUME NEW r \in Requests,
             \/ Arrive(r) \/ Install(r) \/ ReadEvent(r)
             \/ Handle(r) /\ ~WaitForSlot(r)
             \/ LeaveDuringPrepare(r) \/ LeaveJoin(r) \/ DropReceiver(r)
      PROVE  NoLostWakeup'
  <2>1. UNCHANGED <<slots, slotQueue>>
    BY <1>6 DEF Arrive, RejectRequest, TurnAway, Admit, Install, ReadEvent,
       Handle, ReplyInvalid, StartPlain, StartStream, JoinPlain, SendReply,
       EndOfBody, DropBodyGuard, LeaveDuringPrepare, LeaveJoin, DropReceiver,
       permits
  <2> QED BY <1>1, <2>1
<1>7. CASE CtrlC \/ StopAccepting \/ Exit \/ Exited \/ UNCHANGED vars
  BY <1>1, <1>7 DEF CtrlC, StopAccepting, Exit, Exited, vars, permits
<1> QED BY <1>3, <1>4, <1>5, <1>6, <1>7 DEF Next, Leave

(***************************************************************************)
(* Conservation of permits.  The free permits n and the owners S of a      *)
(* semaphore become m and T when a permit is taken, returned or handed     *)
(* over, or nothing happens to them.                                       *)
(***************************************************************************)
Moves(n, S, m, T) ==
    \/ m = n /\ T = S
    \/ \E x \in Requests \ S : n > 0 /\ m = n - 1 /\ T = S \cup {x}
    \/ \E x \in S : m = n + 1 /\ T = S \ {x}
    \/ \E x \in S, y \in Requests \ S : m = n /\ T = (S \ {x}) \cup {y}

LEMMA MovesConserve ==
    ASSUME NEW S \in SUBSET Requests, NEW T, NEW n \in Nat, NEW m,
           NEW total \in Nat, n + Cardinality(S) = total, Moves(n, S, m, T)
    PROVE  m + Cardinality(T) = total
<1>1. IsFiniteSet(S) /\ Cardinality(S) \in Nat
  BY RequestsAssumption, FS_Subset, FS_CardinalityType
<1>2. CASE m = n /\ T = S
  BY <1>2
<1>3. ASSUME NEW x \in Requests \ S, n > 0, m = n - 1, T = S \cup {x}
      PROVE  m + Cardinality(T) = total
  <2>1. Cardinality(T) = Cardinality(S) + 1
    BY <1>1, <1>3, FS_AddElement
  <2> QED BY <1>1, <1>3, <2>1
<1>4. ASSUME NEW x \in S, m = n + 1, T = S \ {x}
      PROVE  m + Cardinality(T) = total
  <2>1. Cardinality(T) = Cardinality(S) - 1
    BY <1>1, <1>4, FS_RemoveElement
  <2> QED BY <1>1, <1>4, <2>1
<1>5. ASSUME NEW x \in S, NEW y \in Requests \ S, m = n,
             T = (S \ {x}) \cup {y}
      PROVE  m + Cardinality(T) = total
  <2>1. /\ IsFiniteSet(S \ {x})
        /\ Cardinality(S \ {x}) = Cardinality(S) - 1
    BY <1>1, FS_RemoveElement
  <2>2. Cardinality(T) = Cardinality(S \ {x}) + 1
    BY <1>5, <2>1, FS_AddElement
  <2> QED BY <1>1, <1>5, <2>1, <2>2
<1> QED BY <1>2, <1>3, <1>4, <1>5 DEF Moves

(***************************************************************************)
(* What a step can do to the owners of the two semaphores.                 *)
(***************************************************************************)
Stays ==
    /\ UNCHANGED <<admission, slots, slotQueue>>
    /\ Admitted' = Admitted /\ Active' = Active

Enters(r) ==
    /\ r \notin Admitted
    /\ admission > 0 /\ admission' = admission - 1
    /\ Admitted' = Admitted \cup {r} /\ Active' = Active
    /\ UNCHANGED <<slots, slotQueue>>

SitsDown(r) ==
    /\ r \in Admitted \ Active /\ r \notin Waiters(slotQueue)
    /\ slots > 0 /\ slots' = slots - 1
    /\ Admitted' = Admitted /\ Active' = Active \cup {r}
    /\ UNCHANGED <<admission, slotQueue>>

Parks(r) ==
    /\ r \in Admitted \ Active /\ r \notin Waiters(slotQueue)
    /\ slots = 0 /\ slotQueue' = Append(slotQueue, r)
    /\ Admitted' = Admitted /\ Active' = Active
    /\ UNCHANGED <<admission, slots>>

\* The slot goes back to the semaphore or to the oldest waiter.
HandsOver(r) ==
    \/ /\ slotQueue = << >> /\ UNCHANGED slotQueue
       /\ slots' = slots + 1 /\ Active' = Active \ {r}
    \/ /\ slotQueue # << >> /\ slotQueue' = Tail(slotQueue)
       /\ slots' = slots
       /\ Head(slotQueue) \in Requests \ Active
       /\ Active' = (Active \ {r}) \cup {Head(slotQueue)}

Departs(r) ==
    /\ r \in Admitted /\ r \in Active
    /\ admission' = admission + 1 /\ Admitted' = Admitted \ {r}
    /\ HandsOver(r)

Withdraws(r) ==
    /\ r \in Admitted \ Active
    /\ admission' = admission + 1 /\ Admitted' = Admitted \ {r}
    /\ UNCHANGED slots /\ Active' = Active
    /\ \/ r \notin Waiters(slotQueue) /\ UNCHANGED slotQueue
       \/ \E i \in 1 .. Len(slotQueue) :
             slotQueue[i] = r /\ slotQueue' = WithoutAt(slotQueue, i)

Flow ==
    \/ Stays
    \/ \E r \in Requests :
          Enters(r) \/ SitsDown(r) \/ Parks(r) \/ Departs(r) \/ Withdraws(r)

\* Whichever it is, the permits and their owners change together.
LEMMA FlowMoves ==
    ASSUME Domains, Flow
    PROVE  /\ Moves(admission, Admitted, admission', Admitted')
           /\ Moves(slots, Active, slots', Active')
<1>1. CASE Stays
  BY <1>1 DEF Stays, Moves
<1>2. ASSUME NEW r \in Requests, Enters(r)
      PROVE  /\ Moves(admission, Admitted, admission', Admitted')
             /\ Moves(slots, Active, slots', Active')
  BY <1>2 DEF Enters, Moves
<1>3. ASSUME NEW r \in Requests, SitsDown(r) \/ Parks(r)
      PROVE  /\ Moves(admission, Admitted, admission', Admitted')
             /\ Moves(slots, Active, slots', Active')
  BY <1>3 DEF SitsDown, Parks, Moves
<1>4. ASSUME NEW r \in Requests, Departs(r)
      PROVE  /\ Moves(admission, Admitted, admission', Admitted')
             /\ Moves(slots, Active, slots', Active')
  BY <1>4 DEF Departs, HandsOver, Moves
<1>5. ASSUME NEW r \in Requests, Withdraws(r)
      PROVE  /\ Moves(admission, Admitted, admission', Admitted')
             /\ Moves(slots, Active, slots', Active')
  BY <1>5 DEF Withdraws, Moves
<1> QED BY <1>1, <1>2, <1>3, <1>4, <1>5 DEF Flow

\* It is enough to know who holds what afterwards, request by request.
LEMMA SameOwners ==
    ASSUME UNCHANGED <<admission, slots, slotQueue>>,
           \A x \in Requests : /\ HoldsAdmission(x)' <=> HoldsAdmission(x)
                               /\ HoldsSlot(x)' <=> HoldsSlot(x)
    PROVE  Flow
BY DEF Flow, Stays, Admitted, Active

\* A slot's owner whose task or job lets go of it hands it over.
LEMMA ReleaseHandsOver ==
    ASSUME Domains, QueueMatchesTasks, TaskMatchesJob, NEW r \in Requests,
           r \in Active, NEW tasks \in [Requests -> Tasks], ReleaseSlot(tasks),
           \A x \in Requests : tasks[x] = "slot" <=> task[x] = "slot",
           \A x \in Requests \ {r} : tasks[x] = task[x] /\ job'[x] = job[x],
           tasks[r] # "granted", job'[r] \notin Generating
    PROVE  HandsOver(r)
<1>1. \A x \in Requests :
         \/ task'[x] = tasks[x]
         \/ /\ slotQueue # << >> /\ x = Head(slotQueue)
            /\ tasks[x] = "slot" /\ task'[x] = "granted"
  BY ReleaseQueue
<1>2. tasks[r] # "slot"
  BY DEF Active, HoldsSlot, TaskMatchesJob, Beside, Generating, Sending
<1>3. CASE slotQueue = << >>
  <2>1. Active' = Active \ {r}
    BY <1>1, <1>3 DEF Active, HoldsSlot
  <2> QED BY <1>3, <2>1 DEF ReleaseSlot, HandsOver
<1>4. CASE slotQueue # << >>
  <2> DEFINE h == Head(slotQueue)
  <2>1. h \in Requests /\ task[h] = "slot"
    BY <1>4, TailWaiters DEF QueueMatchesTasks, Domains
  <2>2. task'[h] = "granted"
    BY <1>4, <2>1 DEF ReleaseSlot
  <2>3. h # r
    BY <1>2, <2>1
  <2>4. h \notin Active
    BY <2>1 DEF Active, HoldsSlot, TaskMatchesJob, Beside, Generating, Sending
  <2>5. Active' = (Active \ {r}) \cup {h}
    BY <1>1, <1>2, <2>1, <2>2, <2>3 DEF Active, HoldsSlot
  <2> QED BY <1>4, <2>1, <2>4, <2>5 DEF ReleaseSlot, HandsOver
<1> QED BY <1>3, <1>4

LEMMA EndJobFlow ==
    ASSUME Domains, QueueMatchesTasks, TaskMatchesJob,
           NEW r \in Requests, job[r] \in Generating,
           NEW result \in {"finished", "failed"}, EndJob(r, result)
    PROVE  Departs(r)
<1> DEFINE tasks == IF Detached(r) THEN [task EXCEPT ![r] = "idle"] ELSE task
<1>1. task[r] \in {"join", "body", "closing", "left"}
  BY GeneratingNotParked DEF Domains, Tasks
<1>2. /\ tasks \in [Requests -> Tasks]
      /\ tasks[r] \in {"join", "body", "closing", "idle"}
      /\ \A x \in Requests \ {r} : tasks[x] = task[x]
  BY <1>1 DEF Domains, Tasks, Detached
<1>3. ReleaseSlot(tasks)
  BY DEF EndJob
<1>4. /\ job'[r] \in {"finished", "failed", "none"}
      /\ \A x \in Requests \ {r} : job'[x] = job[x]
  BY DEF EndJob, Domains
<1>5. /\ r \in Active /\ r \in Admitted
      /\ job'[r] \notin Generating \cup Preparing
  BY <1>4 DEF Active, HoldsSlot, Admitted, HoldsAdmission, Generating, Sending,
     Preparing
<1> HIDE DEF tasks
<1>6. \A x \in Requests : tasks[x] = "slot" <=> task[x] = "slot"
  BY <1>1, <1>2
<1>7. HandsOver(r)
  BY <1>2, <1>3, <1>4, <1>5, <1>6, ReleaseHandsOver
<1>8. \A x \in Requests : \/ task'[x] = tasks[x]
                          \/ tasks[x] = "slot" /\ task'[x] = "granted"
  BY <1>2, <1>3, <1>6, ReleaseQueue
<1>9. Admitted' = Admitted \ {r}
  BY <1>1, <1>2, <1>4, <1>5, <1>8 DEF Admitted, HoldsAdmission
<1> QED BY <1>5, <1>7, <1>9 DEF EndJob, ReleaseAdmission, Departs

LEMMA LeaveGrantedFlow ==
    ASSUME Domains, QueueMatchesTasks, TaskMatchesJob,
           NEW r \in Requests, LeaveGranted(r)
    PROVE  Departs(r)
<1> DEFINE tasks == [task EXCEPT ![r] = "idle"]
<1>1. /\ tasks \in [Requests -> Tasks]
      /\ tasks[r] = "idle"
      /\ \A x \in Requests \ {r} : tasks[x] = task[x]
  BY DEF Domains, Tasks
<1>2. /\ task[r] = "granted" /\ ReleaseSlot(tasks) /\ job' = job
      /\ job[r] = "none"
  BY DEF LeaveGranted, TaskMatchesJob, Beside
<1>3. r \in Active /\ r \in Admitted /\ job'[r] \notin Generating \cup Preparing
  BY <1>2 DEF Active, HoldsSlot, Admitted, HoldsAdmission, Generating, Sending,
     Preparing
<1> HIDE DEF tasks
<1>4. \A x \in Requests : tasks[x] = "slot" <=> task[x] = "slot"
  BY <1>1, <1>2
<1>5. HandsOver(r)
  BY <1>1, <1>2, <1>3, <1>4, ReleaseHandsOver
<1>6. \A x \in Requests : \/ task'[x] = tasks[x]
                          \/ tasks[x] = "slot" /\ task'[x] = "granted"
  BY <1>1, <1>2, <1>4, ReleaseQueue
<1>7. Admitted' = Admitted \ {r}
  BY <1>1, <1>2, <1>3, <1>6 DEF Admitted, HoldsAdmission
<1> QED BY <1>3, <1>5, <1>7 DEF LeaveGranted, ReleaseAdmission, Departs

\* A generation job goes on with both permits, or ends and hands them over.
LEMMA GeneratingFlow ==
    ASSUME Domains, QueueMatchesTasks, TaskMatchesJob, NEW r \in Requests,
           FinishCompute(r) \/ Deliver(r) \/ SendFails(r) \/ Return(r)
    PROVE  Flow
<1>1. job[r] \in Generating
  BY DEF FinishCompute, Deliver, SendFails, Return, Generating
<1>2. CASE \E result \in {"finished", "failed"} : EndJob(r, result)
  BY <1>1, <1>2, EndJobFlow DEF Flow
<1>3. CASE /\ UNCHANGED <<permits, task, cancelled>>
           /\ \E j \in Generating : job' = [job EXCEPT ![r] = j]
  <2>1. /\ job'[r] \in Generating
        /\ \A x \in Requests \ {r} : job'[x] = job[x]
        /\ task' = task
    BY <1>3 DEF Domains
  <2>2. \A x \in Requests : /\ HoldsAdmission(x)' <=> HoldsAdmission(x)
                            /\ HoldsSlot(x)' <=> HoldsSlot(x)
    BY <1>1, <2>1 DEF HoldsAdmission, HoldsSlot
  <2> QED BY <1>3, <2>2, SameOwners DEF permits
<1>4. /\ "compute" \in Generating
      /\ \A e \in {"text", "tail", "finish", "error"} : e \in Generating
      /\ job[r] \in Sending => FollowUps(job[r]) \subseteq Generating
  BY DEF Generating, Sending, FollowUps
<1> QED BY <1>2, <1>3, <1>4 DEF FinishCompute, AfterPass, Deliver, SendFails,
        Return

LEMMA FinishPrepareFlow ==
    ASSUME Domains, QueueMatchesTasks, TaskMatchesJob,
           NEW r \in Requests, FinishPrepare(r)
    PROVE  Flow
<1>1. task[r] \in {"prepare", "left"} /\ job[r] = "tokenizing"
  BY DEF FinishPrepare, Domains, Tasks, TaskMatchesJob, Beside, Generating,
     Sending, Replies
<1>2. \A x \in Requests \ {r} : task'[x] = task[x] /\ job'[x] = job[x]
  BY DEF FinishPrepare, Domains
<1>3. r \in Admitted /\ r \notin Active
  BY <1>1 DEF Admitted, HoldsAdmission, Active, HoldsSlot, Preparing,
     Generating, Sending
<1>4. task'[r] \in {"prepare", "left", "idle"}
  BY <1>1 DEF FinishPrepare, Domains
<1>5. r \notin Waiters(slotQueue) /\ UNCHANGED <<slots, slotQueue>>
  BY <1>1 DEF QueueMatchesTasks, FinishPrepare
<1>6. CASE admission' = admission + 1 /\ job'[r] \in {"none", "refused", "failed"}
  <2>1. Admitted' = Admitted \ {r} /\ Active' = Active
    BY <1>2, <1>3, <1>4, <1>6 DEF Admitted, HoldsAdmission, Active, HoldsSlot,
       Preparing, Generating, Sending
  <2>2. Withdraws(r)
    BY <1>3, <1>5, <1>6, <2>1 DEF Withdraws
  <2> QED BY <2>2 DEF Flow
<1>7. CASE admission' = admission /\ job'[r] = "prepared"
  <2>1. Admitted' = Admitted /\ Active' = Active
    BY <1>2, <1>3, <1>4, <1>7 DEF Admitted, HoldsAdmission, Active, HoldsSlot,
       Preparing, Generating, Sending
  <2> QED BY <1>5, <1>7, <2>1 DEF Flow, Stays
<1> QED BY <1>6, <1>7 DEF FinishPrepare, ReleaseAdmission, Domains

LEMMA WaitForSlotFlow ==
    ASSUME Domains, QueueMatchesTasks, TaskMatchesJob,
           NEW r \in Requests, WaitForSlot(r)
    PROVE  Flow
<1>1. task[r] = "prepare" /\ job[r] = "prepared" /\ job'[r] = "none"
  BY DEF WaitForSlot, Domains
<1>2. \A x \in Requests \ {r} : task'[x] = task[x] /\ job'[x] = job[x]
  BY DEF WaitForSlot, AcquireSlot, Domains
<1>3. task'[r] \in {"slot", "granted"}
  BY DEF WaitForSlot, AcquireSlot, Domains
<1>4. Admitted' = Admitted /\ r \in Admitted
  BY <1>1, <1>2, <1>3 DEF Admitted, HoldsAdmission, Preparing
<1>5. r \notin Active /\ r \notin Waiters(slotQueue)
  BY <1>1 DEF Active, HoldsSlot, Generating, Sending, QueueMatchesTasks
<1>6. CASE /\ slots > 0 /\ slots' = slots - 1 /\ task'[r] = "granted"
           /\ UNCHANGED slotQueue
  <2>1. Active' = Active \cup {r}
    BY <1>1, <1>2, <1>6 DEF Active, HoldsSlot
  <2>2. SitsDown(r)
    BY <1>4, <1>5, <1>6, <2>1 DEF WaitForSlot, SitsDown
  <2> QED BY <1>4, <2>2 DEF Flow
<1>7. CASE /\ slots = 0 /\ slots' = slots /\ task'[r] = "slot"
           /\ slotQueue' = Append(slotQueue, r)
  <2>1. Active' = Active
    BY <1>1, <1>2, <1>5, <1>7 DEF Active, HoldsSlot, Generating, Sending
  <2>2. Parks(r)
    BY <1>4, <1>5, <1>7, <2>1 DEF WaitForSlot, Parks
  <2> QED BY <1>4, <2>2 DEF Flow
<1> QED BY <1>6, <1>7 DEF WaitForSlot, AcquireSlot, Domains

\* Every step of the server is a move through the gate, or none.
LEMMA StepFlow ==
    ASSUME Domains, QueueMatchesTasks, TaskMatchesJob, [Next]_vars
    PROVE  Flow
<1> USE DEF HoldsAdmission, HoldsSlot
<1>1. ASSUME NEW r \in Requests, RejectRequest(r) \/ TurnAway(r)
      PROVE  Flow
  BY <1>1, SameOwners DEF Domains, RejectRequest, TurnAway, permits
<1>2. ASSUME NEW r \in Requests, Admit(r)
      PROVE  Flow
  <2>1. /\ task[r] = "idle" /\ job[r] = "none"
        /\ task'[r] = "prepare" /\ job'[r] = "tokenize"
        /\ \A x \in Requests \ {r} : task'[x] = task[x] /\ job'[x] = job[x]
    BY <1>2 DEF Domains, Admit, TaskMatchesJob, Beside
  <2>2. r \notin Admitted
    BY <2>1 DEF Admitted, Preparing, Generating, Sending
  <2>3. Admitted' = Admitted \cup {r} /\ Active' = Active
    BY <2>1 DEF Admitted, Active, Preparing, Generating, Sending
  <2>4. Enters(r)
    BY <1>2, <2>2, <2>3 DEF Admit, Enters
  <2> QED BY <2>4 DEF Flow
<1>3. ASSUME NEW r \in Requests, Install(r)
      PROVE  Flow
  <2>1. /\ \/ job[r] = "tokenize" /\ job'[r] = "tokenizing"
           \/ job[r] = "compute" /\ job'[r] = "computing"
        /\ \A x \in Requests \ {r} : job'[x] = job[x]
        /\ task' = task
    BY <1>3 DEF Domains, Install
  <2>2. Admitted' = Admitted /\ Active' = Active
    BY <2>1 DEF Admitted, Active, Preparing, Generating, Sending
  <2> QED BY <1>3, <2>2 DEF Install, Flow, Stays, permits
<1>4. ASSUME NEW r \in Requests, WaitForSlot(r)
      PROVE  Flow
  BY <1>4, WaitForSlotFlow
<1>5. ASSUME NEW r \in Requests, StartPlain(r) \/ StartStream(r)
      PROVE  Flow
  <2>1. \A x \in Requests \ {r} : task'[x] = task[x] /\ job'[x] = job[x]
    BY <1>5 DEF Domains, StartPlain, StartStream
  <2>2. task[r] = "granted" /\ job[r] = "none"
    BY <1>5 DEF StartPlain, StartStream, TaskMatchesJob, Beside
  <2>3. task'[r] \in {"join", "body"} /\ job'[r] \in {"compute", "role"}
    BY <1>5 DEF StartPlain, StartStream, Domains
  <2> QED BY <1>5, <2>1, <2>2, <2>3, SameOwners DEF StartPlain, StartStream,
          permits, Preparing, Generating, Sending
<1>6. ASSUME NEW r \in Requests,
             ReplyInvalid(r) \/ JoinPlain(r) \/ SendReply(r) \/ EndOfBody(r)
      PROVE  Flow
  <2>1. \A x \in Requests \ {r} : task'[x] = task[x] /\ job'[x] = job[x]
    BY <1>6 DEF Domains, ReplyInvalid, JoinPlain, SendReply, EndOfBody
  <2>2. /\ task[r] \in {"prepare", "join", "body"} \cup Replies
        /\ job[r] \in {"refused", "finished", "failed", "none"}
    BY <1>6 DEF ReplyInvalid, JoinPlain, SendReply, EndOfBody, TaskMatchesJob,
       Beside
  <2>3. task'[r] \in {"idle"} \cup Replies /\ job'[r] = "none"
    BY <1>6, <2>2 DEF ReplyInvalid, JoinPlain, SendReply, EndOfBody, Domains,
       Replies, TaskMatchesJob, Beside
  <2> QED BY <1>6, <2>1, <2>2, <2>3, SameOwners DEF ReplyInvalid, JoinPlain,
          SendReply, EndOfBody, permits, Replies, Preparing, Generating, Sending
<1>7. ASSUME NEW r \in Requests, DropBodyGuard(r) \/ DropReceiver(r)
      PROVE  Flow
  BY <1>7, SameOwners DEF Domains, DropBodyGuard, DropReceiver, Dropped, permits
<1>8. ASSUME NEW r \in Requests, ReadEvent(r)
      PROVE  Flow
  BY <1>8, SameOwners DEF ReadEvent, permits
<1>9. ASSUME NEW r \in Requests, LeaveDuringPrepare(r)
      PROVE  Flow
  <2>1. /\ task[r] = "prepare" /\ task'[r] \in {"idle", "left"}
        /\ UNCHANGED <<slots, slotQueue>>
        /\ \A x \in Requests \ {r} : task'[x] = task[x] /\ job'[x] = job[x]
    BY <1>9 DEF Domains, LeaveDuringPrepare, Dropped
  <2>2. CASE /\ job[r] = "prepared" /\ job'[r] = "none"
             /\ admission' = admission + 1
    <3>1. /\ r \in Admitted \ Active /\ Admitted' = Admitted \ {r}
          /\ Active' = Active
      BY <2>1, <2>2 DEF Admitted, Active, Preparing, Generating, Sending
    <3>2. r \notin Waiters(slotQueue)
      BY <2>1 DEF QueueMatchesTasks
    <3>3. Withdraws(r)
      BY <2>1, <2>2, <3>1, <3>2 DEF Withdraws
    <3> QED BY <3>3 DEF Flow
  <2>3. CASE /\ \/ job[r] \in {"refused", "failed"} /\ job'[r] = "none"
                \/ job'[r] = job[r]
             /\ admission' = admission
    BY <2>1, <2>3, SameOwners DEF Preparing, Generating, Sending
  <2> QED BY <1>9, <2>2, <2>3 DEF Domains, LeaveDuringPrepare, ReleaseAdmission
<1>10. ASSUME NEW r \in Requests, LeaveSlotQueue(r)
       PROVE  Flow
  <2>1. /\ task[r] = "slot" /\ task'[r] = "idle" /\ job[r] = "none"
        /\ job' = job
        /\ \A x \in Requests \ {r} : task'[x] = task[x]
    BY <1>10 DEF Domains, LeaveSlotQueue, TaskMatchesJob, Beside
  <2>2. /\ r \in Admitted \ Active /\ Admitted' = Admitted \ {r}
        /\ Active' = Active
    BY <2>1 DEF Admitted, Active, Preparing, Generating, Sending
  <2>3. Withdraws(r)
    BY <1>10, <2>2 DEF LeaveSlotQueue, ReleaseAdmission, Withdraws
  <2> QED BY <2>3 DEF Flow
<1>11. ASSUME NEW r \in Requests, LeaveGranted(r)
       PROVE  Flow
  BY <1>11, LeaveGrantedFlow DEF Flow
<1>12. ASSUME NEW r \in Requests, LeaveJoin(r)
       PROVE  Flow
  <2>1. /\ task[r] = "join" /\ task'[r] \in {"idle", "left"}
        /\ \/ job[r] \in {"finished", "failed"} /\ job'[r] = "none"
           \/ job'[r] = job[r]
        /\ \A x \in Requests \ {r} : task'[x] = task[x] /\ job'[x] = job[x]
    BY <1>12 DEF Domains, LeaveJoin, Dropped
  <2> QED BY <1>12, <2>1, SameOwners DEF LeaveJoin, permits, Preparing,
          Generating, Sending
<1>13. CASE CtrlC \/ StopAccepting \/ Exit \/ Exited \/ UNCHANGED vars
  BY <1>13, SameOwners DEF CtrlC, StopAccepting, Exit, Exited, vars, permits
<1>14. ASSUME NEW r \in Requests, Work(r)
       PROVE  Flow
  BY <1>14, FinishPrepareFlow, GeneratingFlow DEF Work
<1> QED
  BY <1>1, <1>2, <1>3, <1>4, <1>5, <1>6, <1>7, <1>8, <1>9, <1>10, <1>11, <1>12,
     <1>13, <1>14 DEF Next, Arrive, Handle, Leave

(***************************************************************************)
(* The inductive invariant.                                                *)
(***************************************************************************)
IInv ==
    /\ Domains
    /\ QueueMatchesTasks
    /\ TaskMatchesJob
    /\ CancelledIffAbandoned
    /\ NoLostWakeup
    /\ PermitsConserved

LEMMA IInvInit == Init => IInv
<1> SUFFICES ASSUME Init
             PROVE  IInv
  OBVIOUS
<1> USE ConfigAssumption DEF Init
<1>1. Domains
  BY DEF Domains, Capacity, Phases, Tasks, Jobs
<1>2. QueueMatchesTasks
  BY DEF QueueMatchesTasks, Waiters, EachOnce
<1>3. TaskMatchesJob
  BY DEF TaskMatchesJob, Beside, Replies
<1>4. CancelledIffAbandoned /\ NoLostWakeup
  BY DEF CancelledIffAbandoned, NoLostWakeup
<1>5. PermitsConserved
  <2>1. Admitted = {} /\ Active = {}
    BY DEF Admitted, HoldsAdmission, Active, HoldsSlot, Preparing, Generating,
       Sending
  <2>2. Capacity \in Nat
    BY DEF Capacity
  <2> QED BY <2>1, <2>2, FS_EmptySet DEF PermitsConserved
<1> QED BY <1>1, <1>2, <1>3, <1>4, <1>5 DEF IInv

LEMMA IInvNext == IInv /\ [Next]_vars => IInv'
<1> SUFFICES ASSUME IInv, [Next]_vars
             PROVE  IInv'
  OBVIOUS
<1>1. /\ Domains /\ QueueMatchesTasks /\ TaskMatchesJob
      /\ CancelledIffAbandoned /\ NoLostWakeup /\ PermitsConserved
  BY DEF IInv
<1>2. Domains'
  BY <1>1, DomainsStep DEF QueueMatchesTasks
<1>3. QueueMatchesTasks' /\ TaskMatchesJob'
  BY <1>1, QueueStep, BesideStep
<1>4. CancelledIffAbandoned' /\ NoLostWakeup'
  BY <1>1, CancelledStep, WakeupStep
<1>5. PermitsConserved'
  <2>1. /\ Moves(admission, Admitted, admission', Admitted')
        /\ Moves(slots, Active, slots', Active')
    BY <1>1, StepFlow, FlowMoves
  <2>2. /\ admission \in Nat /\ slots \in Nat
        /\ Capacity \in Nat /\ MaxConcurrent \in Nat
    BY <1>1, ConfigAssumption DEF Domains, Capacity
  <2>3. Admitted \in SUBSET Requests /\ Active \in SUBSET Requests
    BY DEF Admitted, Active
  <2>4. admission' + Cardinality(Admitted') = Capacity
    BY <1>1, <2>1, <2>2, <2>3, MovesConserve DEF PermitsConserved
  <2>5. slots' + Cardinality(Active') = MaxConcurrent
    BY <1>1, <2>1, <2>2, <2>3, MovesConserve DEF PermitsConserved
  <2> QED BY <2>4, <2>5 DEF PermitsConserved, Capacity
<1> QED BY <1>2, <1>3, <1>4, <1>5 DEF IInv

THEOREM Invariance == Spec => []IInv
BY IInvInit, IInvNext, PTL DEF Spec

\* What conservation says of the counters.
LEMMA IInvBounds ==
    ASSUME IInv
    PROVE  TypeOK /\ ResourceBounds
<1>1. Admitted \in SUBSET Requests /\ Active \in SUBSET Requests
  BY DEF Admitted, Active
<1>2. Cardinality(Admitted) \in Nat /\ Cardinality(Active) \in Nat
  BY <1>1, RequestsAssumption, FS_Subset, FS_CardinalityType
<1>3. /\ admission + Cardinality(Admitted) = Capacity
      /\ slots + Cardinality(Active) = MaxConcurrent
      /\ admission \in Nat /\ slots \in Nat
      /\ Capacity \in Nat /\ MaxConcurrent \in Nat
  BY ConfigAssumption DEF IInv, PermitsConserved, Domains, Capacity
<1>4. admission \in 0 .. Capacity /\ slots \in 0 .. MaxConcurrent
  BY <1>2, <1>3
<1>5. ResourceBounds
  BY <1>2, <1>3 DEF ResourceBounds
<1>6. TypeOK
  BY <1>4 DEF IInv, Domains, TypeOK
<1> QED BY <1>5, <1>6

\* Every variable of the server stays in its domain, for any number of clients
\* and any configuration the code accepts: in particular no semaphore goes
\* below zero or above its size, and no channel beyond its bound.
THEOREM TypeCorrect == Spec => []TypeOK
BY Invariance, IInvBounds, PTL

\* No permit of `chat` is lost or returned twice, whichever of the handler, a
\* blocking job, a parked result or the response body is dropped while it owns
\* the permit.
THEOREM PermitsAreConserved == Spec => []PermitsConserved
<1>1. IInv => PermitsConserved
  BY DEF IInv
<1> QED BY <1>1, Invariance, PTL

\* The limits of the configuration hold for every stage of a request, also
\* counting the jobs whose client has left.
THEOREM ResourcesAreBounded == Spec => []ResourceBounds
BY Invariance, IInvBounds, PTL

\* The slot semaphore never has a free permit beside a parked handler, and its
\* queue is exactly the parked handlers, each once.
THEOREM WaitersAreServed == Spec => [](NoLostWakeup /\ QueueMatchesTasks)
<1>1. IInv => NoLostWakeup /\ QueueMatchesTasks
  BY DEF IInv
<1> QED BY <1>1, Invariance, PTL

\* A token is cancelled by a drop guard exactly while an abandoned job runs:
\* nobody's generation is cancelled by another client that leaves, and none
\* runs on unwatched.
THEOREM CancellationIsExact ==
    Spec => [](CancelledIffAbandoned /\ TaskMatchesJob)
<1>1. IInv => CancelledIffAbandoned /\ TaskMatchesJob
  BY DEF IInv
<1> QED BY <1>1, Invariance, PTL

(***************************************************************************)
(* The server implements the gate of module Gate, and who is turned away.  *)
(***************************************************************************)
\* The gate counts as the server does.
LEMMA SameCardinality == \A S : G!Cardinality(S) = Cardinality(S)
BY DEF Cardinality, G!Cardinality

LEMMA GateCounts ==
    ASSUME IInv
    PROVE  /\ admission > 0 => Cardinality(Admitted) < Capacity
           /\ slots > 0 => Cardinality(Active) < MaxConcurrent
           /\ admission = 0 => Cardinality(Admitted) = Capacity
           /\ slots = 0 => Cardinality(Active) = MaxConcurrent
<1>1. /\ Admitted \in SUBSET Requests /\ Active \in SUBSET Requests
  BY DEF Admitted, Active
<1>2. Cardinality(Admitted) \in Nat /\ Cardinality(Active) \in Nat
  BY <1>1, RequestsAssumption, FS_Subset, FS_CardinalityType
<1> QED BY <1>2, ConfigAssumption DEF IInv, PermitsConserved, Domains, Capacity

LEMMA GateStart == Init => G!GateInit
<1> SUFFICES ASSUME Init
             PROVE  G!GateInit
  OBVIOUS
<1>1. Admitted = {} /\ Active = {}
  BY DEF Init, Admitted, HoldsAdmission, Active, HoldsSlot, Preparing,
     Generating, Sending
<1> QED BY <1>1 DEF Init, G!GateInit

\* Every move through the semaphores is a step of the gate.
LEMMA GateStep == IInv /\ [Next]_vars => [G!GateNext]_G!gateVars
<1> SUFFICES ASSUME IInv, [Next]_vars
             PROVE  [G!GateNext]_G!gateVars
  OBVIOUS
<1>1. Flow
  BY StepFlow DEF IInv
<1>2. G!InLine = Waiters(slotQueue)
  BY DEF G!InLine, Waiters
<1>3. CASE Stays
  BY <1>3 DEF Stays, G!gateVars
<1>4. ASSUME NEW r \in Requests, Enters(r)
      PROVE  G!GateNext
  <2>1. Cardinality(Admitted) < Capacity
    BY <1>4, GateCounts DEF Enters
  <2>2. G!Enter(r)
    BY <1>4, <2>1, SameCardinality DEF Enters, G!Enter
  <2> QED BY <2>2 DEF G!GateNext
<1>5. ASSUME NEW r \in Requests, SitsDown(r)
      PROVE  G!GateNext
  <2>1. slotQueue = << >>
    BY <1>5 DEF IInv, NoLostWakeup, SitsDown
  <2>2. Cardinality(Active) < MaxConcurrent
    BY <1>5, GateCounts DEF SitsDown
  <2>3. G!SitDown(r)
    BY <1>2, <1>5, <2>1, <2>2, SameCardinality DEF SitsDown,
       G!SitDown
  <2> QED BY <2>3 DEF G!GateNext
<1>6. ASSUME NEW r \in Requests, Parks(r)
      PROVE  G!GateNext
  <2>1. Cardinality(Active) = MaxConcurrent
    BY <1>6, GateCounts DEF Parks
  <2>2. G!QueueUp(r)
    BY <1>2, <1>6, <2>1, SameCardinality DEF Parks, G!QueueUp
  <2> QED BY <2>2 DEF G!GateNext
<1>7. ASSUME NEW r \in Requests, Departs(r)
      PROVE  G!GateNext
  <2>1. G!StandUp(r)
    BY <1>7 DEF Departs, HandsOver, G!StandUp
  <2> QED BY <2>1 DEF G!GateNext
<1>8. ASSUME NEW r \in Requests, Withdraws(r)
      PROVE  G!GateNext
  <2>1. G!GiveUp(r)
    BY <1>2, <1>8 DEF Withdraws, WithoutAt, G!GiveUp
  <2> QED BY <2>1 DEF G!GateNext
<1> QED BY <1>1, <1>3, <1>4, <1>5, <1>6, <1>7, <1>8 DEF Flow

\* Handlers, jobs, parked results and clients that leave at any await make up
\* nothing but a bounded gate with seats and a first-come-first-served line.
THEOREM ServerImplementsGate == Spec => GateSpec
<1>1. Init => G!GateInit
  BY GateStart
<1>2. IInv /\ [Next]_vars => [G!GateNext]_G!gateVars
  BY GateStep
<1> QED BY <1>1, <1>2, Invariance, PTL DEF Spec, GateSpec, G!GateSpec

-----------------------------------------------------------------------------

\* A handler that finds no permit is the only source of a 429.
LEMMA OnlyTurnAway ==
    ASSUME IInv, Next, NEW x \in Requests, task[x] = "idle", task'[x] = "busy"
    PROVE  TurnAway(x)
<1>1. /\ task \in [Requests -> Tasks] /\ QueueMatchesTasks /\ TaskMatchesJob
      /\ Domains
  BY DEF IInv, Domains
<1>2. ASSUME NEW r \in Requests, RejectRequest(r) \/ Admit(r)
      PROVE  FALSE
  BY <1>1, <1>2 DEF RejectRequest, Admit
<1>3. ASSUME NEW r \in Requests, TurnAway(r)
      PROVE  TurnAway(x)
  BY <1>1, <1>3 DEF TurnAway
<1>4. ASSUME NEW r \in Requests, Handle(r) \/ Install(r) \/ ReadEvent(r)
      PROVE  FALSE
  BY <1>1, <1>4 DEF Handle, ReplyInvalid, WaitForSlot, AcquireSlot, StartPlain,
     StartStream, JoinPlain, SendReply, EndOfBody, DropBodyGuard, Dropped,
     Install, ReadEvent
<1>5. ASSUME NEW r \in Requests, Work(r)
      PROVE  FALSE
  <2>1. CASE FinishPrepare(r) \/ UNCHANGED task
    BY <1>1, <2>1 DEF FinishPrepare
  <2>2. CASE /\ job[r] \in Generating
             /\ \E result \in {"finished", "failed"} : EndJob(r, result)
    BY <1>1, <2>2, GeneratingNotParked, EndJobTasks
  <2> QED BY <1>5, <2>1, <2>2 DEF Work, FinishCompute, AfterPass, Deliver,
          SendFails, Return, Generating
<1>6. ASSUME NEW r \in Requests, Leave(r) /\ ~LeaveGranted(r)
      PROVE  FALSE
  BY <1>1, <1>6 DEF Leave, LeaveDuringPrepare, LeaveSlotQueue, LeaveJoin,
     DropReceiver, Dropped
<1>7. ASSUME NEW r \in Requests, LeaveGranted(r)
      PROVE  FALSE
  <2> DEFINE tasks == [task EXCEPT ![r] = "idle"]
  <2>1. /\ tasks \in [Requests -> Tasks]
        /\ \A y \in Requests : tasks[y] = "slot" <=> task[y] = "slot"
        /\ tasks[x] = "idle"
    BY <1>1, <1>7 DEF LeaveGranted, Tasks
  <2>2. ReleaseSlot(tasks)
    BY <1>7 DEF LeaveGranted
  <2> HIDE DEF tasks
  <2> QED BY <1>1, <2>1, <2>2, ReleaseQueue
<1>8. CASE CtrlC \/ StopAccepting \/ Exit \/ Exited
  BY <1>8 DEF CtrlC, StopAccepting, Exit, Exited, vars
<1> QED BY <1>2, <1>3, <1>4, <1>5, <1>6, <1>7, <1>8 DEF Next, Arrive

\* A 429 is given only while every admission permit is owned by a request that
\* was admitted before.
THEOREM TurnAwayIsJustified == Spec => TurnedAwayOnlyWhenFull
<1>1. IInv /\ [Next]_vars =>
         [\A r \in Requests : task[r] = "idle" /\ task'[r] = "busy"
              => Cardinality(Admitted) = Capacity]_vars
  <2> SUFFICES ASSUME IInv, Next, NEW r \in Requests,
                      task[r] = "idle", task'[r] = "busy"
               PROVE  Cardinality(Admitted) = Capacity
    OBVIOUS
  <2>1. admission = 0
    BY OnlyTurnAway DEF TurnAway
  <2> QED BY <2>1, GateCounts
<1> QED BY <1>1, Invariance, PTL DEF Spec, TurnedAwayOnlyWhenFull
=============================================================================
