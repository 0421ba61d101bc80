-------------------------- MODULE SchedulerProofs --------------------------
(***************************************************************************)
(* The batch system uses the worker pool as module Cluster specifies and   *)
(* keeps the promise of module BatchService, for every set of jobs, tasks  *)
(* and workers and any number of failures.                                 *)
(***************************************************************************)
EXTENDS Scheduler, ClusterProofs, SequenceTheorems

-----------------------------------------------------------------------------
(***************************************************************************)
(* The pool within the composed system                                     *)
(***************************************************************************)

\* A registration that is served names a port.
LEMMA ServedPort ==
    ASSUME SchedulerTypeOK, PeersKnown, requests # <<>>,
           Head(requests).kind \in {"worker", "broken"}
    PROVE  Head(requests).id \in Port
<1>1. 1 \in DOMAIN requests /\ Head(requests) = requests[1]
    BY DEF SchedulerTypeOK, MainTypeOK
<1> QED BY <1>1 DEF PeersKnown

\* Every step of the system is a step of the pool or leaves it alone.
LEMMA PoolStep ==
    ASSUME SchedulerTypeOK, PeersKnown, [Next]_vars
    PROVE  [ClusterNext]_clusterVars
<1>1. ASSUME Main PROVE [ClusterNext]_clusterVars
  <2>1. CASE ServeWorker
      BY <2>1, ServedPort DEF ServeWorker, ClusterNext
  <2>2. CASE ServeAdd
      BY <2>2 DEF ServeAdd, ClusterNext, Thread
  <2>3. CASE ServeReply \/ ServeBroken \/ ServeJob \/ UploadDone \/ UploadLost
             \/ EnqueueLink \/ EnqueueCount \/ EnqueueModify
      BY <2>3 DEF ServeReply, ServeBroken, ServeJob, UploadDone, UploadLost,
                  EnqueueLink, EnqueueCount, EnqueueModify, clusterVars
  <2> QED BY <1>1, <2>1, <2>2, <2>3 DEF Main
<1>2. ASSUME Core PROVE UNCHANGED clusterVars
    BY <1>2 DEF Core, CorePoll, CoreIterationEnds, CoreNext, CoreAnnounce, CoreSpawn,
        CoreJoin, CoreUnlink, CoreMiss, CoreUncount, CoreFinish, CoreFrame, clusterVars
<1>3. ASSUME NEW d \in Dispatcher, DispatchTask(d) PROVE [ClusterNext]_clusterVars
  <2> USE DEF ClusterNext, Retry, Thread
  <2>1. CASE GetFree(d)
      BY <2>1 DEF GetFree
  <2>2. CASE Connect(d)
      BY <2>2 DEF Connect
  <2>3. CASE Receive(d)
      BY <2>3 DEF Receive
  <2>4. CASE PrintOpcode(d)
      BY <2>4 DEF PrintOpcode
  <2>5. CASE PrintText(d)
      BY <2>5 DEF PrintText
  <2>6. CASE Close(d)
      BY <2>6 DEF Close
  <2>7. CASE Release(d)
      BY <2>7 DEF Release
  <2> QED BY <1>3, <2>1, <2>2, <2>3, <2>4, <2>5, <2>6, <2>7 DEF DispatchTask
<1>4. ASSUME NEW p \in Port, WorkerStart(p) \/ Worker(p) \/ WorkerKill(p)
      PROVE  UNCHANGED clusterVars
    BY <1>4 DEF Worker, WorkerStart, WorkerAccept, WorkerExecute, WorkerAnswer, WorkerFinish,
        WorkerKill, WorkerFrame, clusterVars
<1>5. ASSUME NEW j \in Job, ClientSubmit(j) \/ Client(j) \/ ClientKill(j)
      PROVE  UNCHANGED clusterVars
    BY <1>5 DEF Client, ClientSubmit, ClientUpload, ClientDone, ClientKill,
        ClientFrame, clusterVars
<1>6. ASSUME UNCHANGED vars PROVE UNCHANGED clusterVars
    BY <1>6 DEF vars
<1> QED BY <1>1, <1>2, <1>3, <1>4, <1>5, <1>6 DEF Next

-----------------------------------------------------------------------------
(***************************************************************************)
(* The client's stream                                                     *)
(***************************************************************************)
MessageType == [op : {"job_start", "job_print", "text", "job_finish"},
                task : Dispatcher \union {NoTask}]

\* The items the system writes are messages, and they are distinct.
LEMMA Messages ==
    /\ Message("job_start", NoTask) \in MessageType
    /\ Message("job_print", NoTask) \in MessageType
    /\ Message("job_finish", NoTask) \in MessageType
    /\ \A d \in Dispatcher : Message("text", d) \in MessageType
    /\ Message("job_start", NoTask) # Message("job_finish", NoTask)
    /\ Message("job_print", NoTask) # Message("job_start", NoTask)
    /\ Message("job_print", NoTask) # Message("job_finish", NoTask)
    /\ \A d, e \in Dispatcher : Message("text", d) = Message("text", e) => d = e
    /\ \A d \in Dispatcher : /\ Message("text", d) # Message("job_start", NoTask)
                             /\ Message("text", d) # Message("job_print", NoTask)
                             /\ Message("text", d) # Message("job_finish", NoTask)
    BY DEF Message, MessageType

\* A write adds its item to the stream of a client that is there, and nothing
\* else to any stream.
LEMMA WriteSends ==
    ASSUME SchedulerTypeOK, NEW j \in Job, NEW m \in MessageType, Write(j, m)
    PROVE  /\ out' \in [Job -> Seq(MessageType)]
           /\ \A k \in Job : \A x : Sent(k, x) => Sent(k, x)'
           /\ \A k \in Job : \A x : Sent(k, x)' => Sent(k, x) \/ (k = j /\ x = m /\ ~Unreachable(j))
           /\ ~Unreachable(j) => Sent(j, m)'
<1>1. out \in [Job -> Seq(MessageType)]
    BY DEF SchedulerTypeOK, ClientTypeOK, MessageType
<1>2. CASE Unreachable(j)
    BY <1>1, <1>2 DEF Write, Sent
<1>3. CASE ~Unreachable(j)
  <2>1. out' = [out EXCEPT ![j] = Append(out[j], m)]
      BY <1>3 DEF Write
  <2>2. /\ out'[j] \in Seq(MessageType)
        /\ DOMAIN out'[j] = DOMAIN out[j] \union {Len(out[j]) + 1}
        /\ \A i \in DOMAIN out[j] : out'[j][i] = out[j][i]
        /\ out'[j][Len(out[j]) + 1] = m
      BY <1>1, <2>1, AppendElements
  <2>3. \A k \in Job : k # j => out'[k] = out[k]
      BY <1>1, <2>1
  <2> QED BY <1>1, <1>3, <2>1, <2>2, <2>3 DEF Sent
<1> QED BY <1>2, <1>3

-----------------------------------------------------------------------------
(***************************************************************************)
(* Types                                                                   *)
(***************************************************************************)

RequestType == [kind : {"worker", "broken", "job"}, id : Port \union Job]

\* Serving the oldest connection leaves a queue of known peers.
LEMMA ServedRequest ==
    ASSUME MainTypeOK, PeersKnown, requests # <<>>
    PROVE  /\ Tail(requests) \in Seq(RequestType)
           /\ Head(requests).id \in Port \union Job
           /\ Head(requests).kind = "job" => Head(requests).id \in Job
           /\ \A i \in DOMAIN Tail(requests) :
                 IF Tail(requests)[i].kind = "job" THEN Tail(requests)[i].id \in Job
                 ELSE Tail(requests)[i].id \in Port
<1>1. requests \in Seq(RequestType)
    BY DEF MainTypeOK, RequestType
<1>2. /\ Head(requests) \in RequestType /\ Tail(requests) \in Seq(RequestType)
      /\ 1 \in DOMAIN requests /\ Head(requests) = requests[1]
      /\ \A i \in DOMAIN Tail(requests) :
            i + 1 \in DOMAIN requests /\ Tail(requests)[i] = requests[i + 1]
    BY <1>1, TailElements
<1>3. Head(requests).id \in Port \union Job
    BY <1>2 DEF RequestType
<1> QED BY <1>2, <1>3 DEF PeersKnown

\* The accept thread preserves the types.
LEMMA MainType ==
    ASSUME SchedulerInv, ClusterTypeOK', Main
    PROVE  SchedulerTypeOK' /\ PeersKnown' /\ VisitInRange'
<1> USE DEF SchedulerInv, SchedulerTypeOK, queueVars, coreVars, workerVars, mainVars
<1>1. CASE ServeWorker \/ ServeBroken
  <2> USE <1>1 DEF ServeWorker, ServeBroken
  <2>1. MainTypeOK' /\ PeersKnown'
      BY ServedRequest DEF MainTypeOK, PeersKnown, RequestType
  <2>2. CoreTypeOK' /\ TaskTypeOK' /\ ClientTypeOK' /\ VisitInRange'
    <3>1. UNCHANGED <<queueVars, coreVars, workerVars, client, out, disp, conn, kills>>
        OBVIOUS
    <3>2. CoreTypeOK' /\ VisitInRange'
        BY <3>1 DEF CoreTypeOK, VisitInRange
    <3>3. TaskTypeOK'
        BY <3>1 DEF TaskTypeOK
    <3>4. ClientTypeOK'
        BY <3>1 DEF ClientTypeOK
    <3> QED BY <3>2, <3>3, <3>4
  <2> QED BY <2>1, <2>2
<1>2. CASE ServeAdd \/ ServeReply \/ UploadDone \/ UploadLost
  <2> USE <1>2 DEF ServeAdd, ServeReply, UploadDone, UploadLost
  <2>1. MainTypeOK' /\ PeersKnown'
      BY DEF MainTypeOK, PeersKnown
  <2>2. CoreTypeOK' /\ ClientTypeOK' /\ VisitInRange'
      BY DEF CoreTypeOK, ClientTypeOK, VisitInRange
  <2>3. TaskTypeOK'
      BY DEF TaskTypeOK
  <2> QED BY <2>1, <2>2, <2>3
<1>3. CASE ServeJob
  <2> USE <1>3 DEF ServeJob
  <2>1. peer' \in Job /\ peer' \in Port \union Job
      BY ServedRequest
  <2>2. requests' \in Seq(RequestType) /\ jobIdNext' \in Nat /\ jobId' \in [Job -> Nat \union {-1}]
      BY ServedRequest DEF MainTypeOK
  <2>3. PeersKnown'
      BY ServedRequest, <2>1 DEF PeersKnown
  <2>4. CoreTypeOK' /\ VisitInRange'
      BY DEF CoreTypeOK, VisitInRange
  <2>5. TaskTypeOK' /\ ClientTypeOK'
      BY DEF TaskTypeOK, ClientTypeOK
  <2> QED BY <2>1, <2>2, <2>3, <2>4, <2>5 DEF MainTypeOK, RequestType
<1>4. CASE EnqueueLink \/ EnqueueCount \/ EnqueueModify
  <2> USE <1>4 DEF EnqueueLink, EnqueueCount, EnqueueModify
  <2>1. MainTypeOK' /\ PeersKnown'
      BY DEF MainTypeOK, PeersKnown
  <2>2. JobQueue' \in Seq(Job)
      BY AppendElements, SMTT(30) DEF CoreTypeOK, PeersKnown
  <2>3. qsize' \in Nat /\ qsize' >= qsize
      BY DEF CoreTypeOK
  <2>4. CoreTypeOK'
      BY <2>2, <2>3 DEF CoreTypeOK
  <2>5. VisitInRange'
      BY <2>3 DEF CoreTypeOK, VisitInRange
  <2>6. TaskTypeOK' /\ ClientTypeOK'
      BY DEF TaskTypeOK, ClientTypeOK
  <2> QED BY <2>1, <2>4, <2>5, <2>6
<1> QED BY <1>1, <1>2, <1>3, <1>4 DEF Main

\* Core's writes keep the streams typed.
LEMMA CoreWrites ==
    ASSUME SchedulerTypeOK, curJob \in Job, UNCHANGED <<client, kills>>,
           \/ Write(curJob, Message("job_start", NoTask))
           \/ Write(curJob, Message("job_finish", NoTask))
           \/ UNCHANGED out
    PROVE  ClientTypeOK'
<1>1. out' \in [Job -> Seq(MessageType)]
    BY Messages, WriteSends DEF SchedulerTypeOK, ClientTypeOK, MessageType
<1> QED BY <1>1 DEF SchedulerTypeOK, ClientTypeOK, MessageType

\* Unlinking an entry leaves a list of jobs.
LEMMA UnlinkedType ==
    ASSUME JobQueue \in Seq(Job), NEW i \in DOMAIN JobQueue
    PROVE  Unlinked(JobQueue, i) \in Seq(Job) /\ SubSeq(JobQueue, 1, i - 1) \in Seq(Job)
<1>1. i \in 1 .. Len(JobQueue) /\ Len(JobQueue) \in Nat
    OBVIOUS
<1>2. SubSeq(JobQueue, 1, i - 1) \in Seq(Job) /\ SubSeq(JobQueue, i + 1, Len(JobQueue)) \in Seq(Job)
    BY <1>1, SubSeqProperties
<1> QED BY <1>2, ConcatProperties DEF Unlinked

\* Where an iterator starts, and where it goes on, is a linked entry.
LEMMA IteratorEntries ==
    ASSUME JobQueue \in Seq(Job)
    PROVE  /\ FirstEntry = NoJob \/ \E i \in DOMAIN JobQueue : JobQueue[i] = FirstEntry
           /\ FirstEntry \in Job \union {NoJob}
           /\ \A j : \A k \in Followers(j) :
                 k \in Job /\ \E i \in DOMAIN JobQueue : JobQueue[i] = k
<1>1. CASE JobQueue = <<>>
    BY <1>1 DEF FirstEntry, Followers
<1>2. CASE JobQueue # <<>>
  <2>1. Len(JobQueue) \in Nat \ {0} /\ DOMAIN JobQueue = 1 .. Len(JobQueue)
      BY <1>2
  <2>2. Head(JobQueue) = JobQueue[1]
      BY <1>2
  <2>3. FirstEntry = JobQueue[1] \/ FirstEntry = JobQueue[Len(JobQueue)]
      BY <1>2, <2>2 DEF FirstEntry
  <2>4. ASSUME NEW j, NEW k \in Followers(j)
        PROVE  k \in Job /\ \E i \in DOMAIN JobQueue : JobQueue[i] = k
    <3>1. PICK n \in 1 .. Len(JobQueue) - 1 : k = JobQueue[n + 1]
        BY <2>4 DEF Followers
    <3>2. n + 1 \in DOMAIN JobQueue
        BY <2>1, <3>1
    <3> QED BY <3>1, <3>2
  <2>5. 1 \in DOMAIN JobQueue /\ Len(JobQueue) \in DOMAIN JobQueue
      BY <2>1
  <2> QED BY <2>3, <2>4, <2>5
<1> QED BY <1>1, <1>2

\* The iterators of Core that may be open after a step.
LEMMA NextTyped ==
    ASSUME JobQueue \in Seq(Job), next \in [outer : Job \union {NoJob}, inner : Job \union {NoJob}],
           \/ UNCHANGED next \/ next' = NoIterator
           \/ next' = [next EXCEPT !.outer = FirstEntry]
           \/ next' = [next EXCEPT !.inner = FirstEntry]
           \/ next' = [next EXCEPT !.inner = NoJob]
           \/ next' = [next EXCEPT !.outer = NoJob]
           \/ \E j \in Followers(next.outer) : next' = [next EXCEPT !.outer = j]
    PROVE  next' \in [outer : Job \union {NoJob}, inner : Job \union {NoJob}]
    BY IteratorEntries DEF NoIterator

\* The Core thread preserves the types.
LEMMA CoreType ==
    ASSUME SchedulerInv, ClusterTypeOK', Core
    PROVE  SchedulerTypeOK' /\ PeersKnown' /\ VisitInRange'
<1> USE DEF SchedulerInv, SchedulerTypeOK, queueVars, coreVars, workerVars, mainVars, CoreFrame
<1>0. /\ JobQueue \in Seq(Job)
      /\ next' \in [outer : Job \union {NoJob}, inner : Job \union {NoJob}]
  <2>1. /\ JobQueue \in Seq(Job)
        /\ next \in [outer : Job \union {NoJob}, inner : Job \union {NoJob}]
      BY DEF CoreTypeOK
  <2>2. \/ UNCHANGED next \/ next' = NoIterator
        \/ next' = [next EXCEPT !.outer = FirstEntry]
        \/ next' = [next EXCEPT !.inner = FirstEntry]
        \/ next' = [next EXCEPT !.inner = NoJob]
        \/ next' = [next EXCEPT !.outer = NoJob]
        \/ \E j \in Followers(next.outer) : next' = [next EXCEPT !.outer = j]
      BY DEF Core, CorePoll, CoreIterationEnds, CoreNext, CoreAnnounce, CoreSpawn,
         CoreJoin, CoreUnlink, CoreMiss, CoreUncount, CoreFinish, CoreDies
  <2> QED BY <2>1, <2>2, NextTyped
<1>1. CASE CorePoll \/ CoreIterationEnds \/ CoreJoin
  <2> USE <1>1 DEF CorePoll, CoreIterationEnds, CoreJoin
  <2>1. MainTypeOK' /\ PeersKnown' /\ ClientTypeOK' /\ TaskTypeOK'
    <3>1. UNCHANGED <<mainVars, workerVars, client, out, disp, conn, kills>>
        OBVIOUS
    <3>2. MainTypeOK' /\ PeersKnown'
        BY <3>1 DEF MainTypeOK, PeersKnown
    <3>3. ClientTypeOK'
        BY <3>1 DEF ClientTypeOK
    <3>4. TaskTypeOK'
        BY <3>1 DEF TaskTypeOK
    <3> QED BY <3>2, <3>3, <3>4
  <2>2. /\ UNCHANGED <<JobQueue, qsize, nextTask, closed, lost>>
        /\ stale' \subseteq {"outer", "inner"} /\ itrIdx' \in Nat
        /\ curJob' \in Job \union {NoJob} /\ core' \in {"poll", "iter", "scan"}
    <3>1. CASE CorePoll
        BY <3>1 DEF CoreTypeOK
    <3>2. CASE CoreIterationEnds
        BY <3>2 DEF CoreTypeOK
    <3>3. CASE CoreJoin
        BY <3>3 DEF CoreTypeOK
    <3> QED BY <3>1, <3>2, <3>3
  <2>3. CoreTypeOK'
      BY <1>0, <2>2 DEF CoreTypeOK
  <2>4. VisitInRange'
      BY DEF VisitInRange
  <2> QED BY <2>1, <2>3, <2>4
<1>2. CASE CoreNext
  <2> USE <1>2 DEF CoreNext, CoreDies
  <2>1. MainTypeOK' /\ PeersKnown' /\ ClientTypeOK' /\ TaskTypeOK'
      BY DEF MainTypeOK, PeersKnown, ClientTypeOK, TaskTypeOK
  <2>2. /\ curJob' \in Job \union {NoJob} /\ (core' = "visit" => curJob' \in Job)
        /\ \/ core' = "dead" /\ itrIdx' = 0
           \/ core' = "visit" /\ itrIdx' = itrIdx + 1 /\ itrIdx < qsize
        /\ UNCHANGED <<queueVars, nextTask, closed>>
      BY DEF CoreTypeOK
  <2> HIDE <1>2 DEF CoreNext
  <2>3. CoreTypeOK' /\ VisitInRange'
      BY <1>0, <2>2 DEF CoreTypeOK, VisitInRange
  <2> QED BY <2>1, <2>3
<1>3. CASE CoreAnnounce \/ CoreFinish
  <2> USE <1>3 DEF CoreAnnounce, CoreFinish, CoreDies
  <2>1. MainTypeOK' /\ PeersKnown' /\ TaskTypeOK'
      BY DEF MainTypeOK, PeersKnown, TaskTypeOK
  <2>2. curJob \in Job
      BY DEF VisitInRange, ThreadsInOrder
  <2>3. ClientTypeOK'
      BY <2>2, CoreWrites
  <2>4. /\ UNCHANGED <<queueVars, nextTask, curJob>> /\ closed' \subseteq closed \union {curJob}
        /\ \/ core' = "dead" /\ itrIdx' = 0
           \/ core' = "spawn" /\ core = "visit" /\ UNCHANGED itrIdx
           \/ core' = "iter" /\ UNCHANGED itrIdx
      OBVIOUS
  <2>5. CoreTypeOK' /\ VisitInRange'
    <3> HIDE <1>3 DEF CoreAnnounce, CoreFinish
    <3> QED BY <1>0, <2>2, <2>4 DEF CoreTypeOK, VisitInRange
  <2> QED BY <2>1, <2>3, <2>5
<1>4. CASE CoreSpawn
  <2> USE <1>4 DEF CoreSpawn
  <2>1. MainTypeOK' /\ PeersKnown' /\ ClientTypeOK' /\ TaskTypeOK'
      BY DEF MainTypeOK, PeersKnown, ClientTypeOK, TaskTypeOK
  <2>2. curJob \in Job /\ nextTask[curJob] < NumTasks[curJob]
      BY SchedulerAssumption DEF VisitInRange, ThreadsInOrder, CoreTypeOK
  <2>3. nextTask' \in [Job -> Nat] /\ \A j \in Job : nextTask'[j] <= NumTasks[j]
    <3>1. nextTask \in [Job -> Nat] /\ \A j \in Job : nextTask[j] <= NumTasks[j]
        BY DEF CoreTypeOK
    <3>2. NumTasks \in [Job -> Nat]
        BY SchedulerAssumption
    <3>3. nextTask' = nextTask \/ nextTask' = [nextTask EXCEPT ![curJob] = nextTask[curJob] + 1]
        OBVIOUS
    <3> HIDE <1>4 DEF CoreSpawn, SchedulerInv
    <3> QED BY <2>2, <3>1, <3>2, <3>3
  <2>4. CoreTypeOK' /\ VisitInRange'
    <3>1. /\ UNCHANGED <<queueVars, curJob, closed>>
          /\ (core' = "dead" /\ itrIdx' = 0) \/ (core' = "iter" /\ UNCHANGED itrIdx)
        BY Zenon DEF CoreDies
    <3> HIDE <1>4 DEF CoreSpawn
    <3> QED BY <1>0, <2>3, <3>1 DEF CoreTypeOK, VisitInRange
  <2> QED BY <2>1, <2>4
<1>5. CASE CoreUnlink
  <2> USE <1>5 DEF CoreUnlink
  <2>1. MainTypeOK' /\ PeersKnown' /\ ClientTypeOK' /\ TaskTypeOK'
      BY DEF MainTypeOK, PeersKnown, ClientTypeOK, TaskTypeOK
  <2>2. JobQueue' \in Seq(Job) /\ lost' \subseteq Job
      BY UnlinkedType DEF CoreTypeOK, PeersKnown
  <2>3. /\ UNCHANGED <<qsize, stale, curJob, itrIdx, nextTask, closed>>
        /\ core = "scan" /\ core' = "uncount"
      OBVIOUS
  <2>4. CoreTypeOK' /\ VisitInRange'
    <3> HIDE <1>5 DEF CoreUnlink
    <3> QED BY <1>0, <2>2, <2>3 DEF CoreTypeOK, VisitInRange
  <2> QED BY <2>1, <2>4
<1>a. CASE CoreMiss
  <2>1. /\ UNCHANGED <<clusterVars, mainVars, workerVars, client, conn, kills, out, disp>>
        /\ UNCHANGED <<queueVars, curJob, nextTask, closed>>
        /\ (core' = "dead" /\ itrIdx' = 0) \/ (core' = "finish" /\ UNCHANGED itrIdx)
      BY <1>a, Zenon DEF CoreMiss, CoreDies
  <2>2. MainTypeOK' /\ PeersKnown' /\ ClientTypeOK' /\ TaskTypeOK'
      BY <2>1 DEF MainTypeOK, PeersKnown, ClientTypeOK, TaskTypeOK
  <2>3. CoreTypeOK' /\ VisitInRange'
      BY <1>0, <2>1 DEF CoreTypeOK, VisitInRange
  <2> QED BY <2>2, <2>3
<1>6. CASE CoreUncount
  <2> USE <1>6 DEF CoreUncount
  <2>1. MainTypeOK' /\ PeersKnown'
      BY DEF MainTypeOK, PeersKnown
  <2>2. ClientTypeOK' /\ TaskTypeOK'
      BY DEF ClientTypeOK, TaskTypeOK
  <2>3. qsize' \in Nat
      BY DEF CoreTypeOK, VisitInRange
  <2>4. CoreTypeOK' /\ VisitInRange'
      BY <1>0, <2>3 DEF CoreTypeOK, VisitInRange
  <2> QED BY <2>1, <2>2, <2>4
<1> QED BY <1>1, <1>2, <1>3, <1>4, <1>5, <1>a, <1>6 DEF Core

\* The dispatch threads preserve the types.
LEMMA DispatchType ==
    ASSUME SchedulerInv, ClusterTypeOK', NEW d \in Dispatcher, DispatchTask(d)
    PROVE  SchedulerTypeOK' /\ PeersKnown' /\ VisitInRange'
<1> USE DEF SchedulerInv, SchedulerTypeOK, queueVars, coreVars, workerVars, mainVars, DispFrame
<1>1. /\ UNCHANGED <<mainVars, queueVars, coreVars, client, kills>>
      /\ UNCHANGED <<wproc, cur, runs, cutOff>>
    BY DEF DispatchTask, GetFree, Connect, Receive, PrintOpcode, PrintText, Close, Release
<1>2. MainTypeOK' /\ PeersKnown' /\ CoreTypeOK' /\ VisitInRange'
    BY <1>1 DEF MainTypeOK, PeersKnown, CoreTypeOK, VisitInRange
<1>3. d[1] \in Job
    BY SchedulerAssumption
<1>4. \/ UNCHANGED out
      \/ Write(d[1], Message("job_print", NoTask))
      \/ Write(d[1], Message("text", d))
    BY DEF DispatchTask, GetFree, Connect, Receive, PrintOpcode, PrintText, Close, Release
<1>5. ClientTypeOK'
    BY <1>1, <1>3, <1>4, WriteSends, Messages DEF ClientTypeOK, MessageType
<1>6. /\ \E x \in {"get", "connect", "await", "print", "text", "close", "add", "done"} :
            disp' = [disp EXCEPT ![d] = x] \/ disp' = disp
      /\ \E x \in {"none", "open", "closed"} : conn' = [conn EXCEPT ![d] = x] \/ conn' = conn
    BY DEF DispatchTask, GetFree, Connect, Receive, PrintOpcode, PrintText, Close, Release, Retry
<1>7. backlog' = backlog \/ backlog' = [backlog EXCEPT ![node[d]] = Append(backlog[node[d]], d)]
    BY DEF DispatchTask, GetFree, Connect, Receive, PrintOpcode, PrintText, Close, Release
<1>8. TaskTypeOK'
  <2>1. disp' \in [Dispatcher -> {"new", "get", "connect", "await", "print", "text",
                                  "close", "add", "done"}]
      BY <1>6 DEF TaskTypeOK
  <2>2. conn' \in [Dispatcher -> {"none", "open", "finished", "reset", "closed"}]
      BY <1>6 DEF TaskTypeOK
  <2>3. backlog' \in [Port -> Seq(Dispatcher)]
    <3>1. backlog \in [Port -> Seq(Dispatcher)]
        BY DEF TaskTypeOK
    <3>2. CASE node[d] \in Port
      <4>1. Append(backlog[node[d]], d) \in Seq(Dispatcher)
          BY <3>1, <3>2, AppendElements
      <4> QED BY <1>7, <3>1, <4>1
    <3>3. CASE node[d] \notin Port
        BY <1>7, <3>1, <3>3
    <3> QED BY <3>2, <3>3
  <2> QED BY <1>1, <2>1, <2>2, <2>3 DEF TaskTypeOK
<1> QED BY <1>2, <1>5, <1>8

\* Appending to or marking the queue of connections keeps its peers known.
LEMMA RequestAdded ==
    ASSUME MainTypeOK, PeersKnown, NEW r \in RequestType,
           IF r.kind = "job" THEN r.id \in Job ELSE r.id \in Port,
           requests' = Append(requests, r), UNCHANGED <<main, peer, jobIdNext, jobId>>
    PROVE  MainTypeOK' /\ PeersKnown'
<1>1. /\ requests' \in Seq(RequestType)
      /\ DOMAIN requests' = DOMAIN requests \union {Len(requests) + 1}
      /\ \A i \in DOMAIN requests : requests'[i] = requests[i]
      /\ requests'[Len(requests) + 1] = r
    BY AppendElements DEF MainTypeOK, RequestType
<1> QED BY <1>1 DEF MainTypeOK, PeersKnown, RequestType

\* A function of counts stays one when one of them is incremented.
LEMMA Counted ==
    ASSUME NEW S, NEW f \in [S -> Nat], NEW x
    PROVE  [f EXCEPT ![x] = f[x] + 1] \in [S -> Nat]
<1>1. CASE x \in S
  <2>1. f[x] + 1 \in Nat
      BY <1>1
  <2> QED BY <1>1, <2>1
<1>2. CASE x \notin S
    BY <1>2
<1> QED BY <1>1, <1>2

\* The worker processes preserve the types.
LEMMA WorkerType ==
    ASSUME SchedulerInv, ClusterTypeOK', NEW p \in Port,
           WorkerStart(p) \/ Worker(p) \/ WorkerKill(p)
    PROVE  SchedulerTypeOK' /\ PeersKnown' /\ VisitInRange'
<1> USE DEF SchedulerInv, SchedulerTypeOK, queueVars, coreVars, mainVars, WorkerFrame
<1>1. UNCHANGED <<peer, main, jobIdNext, jobId, queueVars, coreVars, client, out, disp>>
    BY DEF Worker, WorkerStart, WorkerAccept, WorkerExecute, WorkerAnswer, WorkerFinish, WorkerKill
<1>2. CoreTypeOK' /\ VisitInRange'
    BY <1>1 DEF CoreTypeOK, VisitInRange
<1>3. ClientTypeOK'
  <2>1. kills' = kills \/ (kills.worker < MaxWorkerKill /\ kills' = [kills EXCEPT !.worker = @ + 1])
      BY DEF Worker, WorkerStart, WorkerAccept, WorkerExecute, WorkerAnswer, WorkerFinish, WorkerKill
  <2>2. kills' \in [worker : 0 .. MaxWorkerKill, client : 0 .. MaxClientKill]
      BY <2>1, SchedulerAssumption DEF ClientTypeOK
  <2> QED BY <1>1, <2>2 DEF ClientTypeOK
<1>4. MainTypeOK' /\ PeersKnown'
  <2>1. CASE WorkerStart(p)
    <3>1. [kind |-> "worker", id |-> p] \in RequestType
        BY DEF RequestType
    <3> QED BY <1>1, <2>1, <3>1, RequestAdded DEF WorkerStart
  <2>2. CASE Worker(p)
    <3>1. UNCHANGED requests
        BY <2>2 DEF Worker, WorkerAccept, WorkerExecute, WorkerAnswer, WorkerFinish
    <3> QED BY <1>1, <3>1 DEF MainTypeOK, PeersKnown
  <2>3. CASE WorkerKill(p)
    <3>1. requests' = [i \in DOMAIN requests |->
                         IF requests[i] = [kind |-> "worker", id |-> p]
                         THEN [kind |-> "broken", id |-> p] ELSE requests[i]]
        BY <2>3 DEF WorkerKill
    <3>2. [kind |-> "broken", id |-> p] \in RequestType
        BY DEF RequestType
    <3>3. requests \in Seq(RequestType)
        BY DEF MainTypeOK, RequestType
    <3>4. requests' \in Seq(RequestType)
        BY <3>1, <3>2, <3>3, IsASeq
    <3>5. PeersKnown'
        BY <1>1, <3>1 DEF PeersKnown
    <3> QED BY <1>1, <3>4, <3>5 DEF MainTypeOK, RequestType
  <2> QED BY <2>1, <2>2, <2>3
<1>5. TaskTypeOK'
  <2>1. CASE WorkerStart(p)
      BY <1>1, <2>1 DEF WorkerStart, TaskTypeOK
  <2>2. CASE WorkerAccept(p)
    <3>1. backlog[p] \in Seq(Dispatcher) /\ backlog[p] # <<>>
        BY <2>2 DEF WorkerAccept, TaskTypeOK
    <3>2. Head(backlog[p]) \in Dispatcher /\ Tail(backlog[p]) \in Seq(Dispatcher)
        BY <3>1, TailElements
    <3> QED BY <1>1, <2>2, <3>2 DEF WorkerAccept, TaskTypeOK
  <2>3. ASSUME Exit(p), UNCHANGED runs, cutOff' \in [Dispatcher -> Nat] PROVE TaskTypeOK'
      BY <1>1, <2>3 DEF Exit, TaskTypeOK
  <2>c. runs \in [Dispatcher -> Nat] /\ cutOff \in [Dispatcher -> Nat]
      BY DEF TaskTypeOK
  <2>4. CASE WorkerExecute(p)
    <3>1. CASE cur[p] \in BadTask
        BY <2>3, <2>4, <2>c, <3>1 DEF WorkerExecute
    <3>2. CASE cur[p] \notin BadTask
      <4>1. /\ runs' = [runs EXCEPT ![cur[p]] = runs[cur[p]] + 1]
            /\ wproc' = [wproc EXCEPT ![p] = "ran"]
            /\ UNCHANGED <<backlog, cur, disp, conn, cutOff>>
          BY <1>1, <2>4, <3>2 DEF WorkerExecute
      <4>2. runs' \in [Dispatcher -> Nat]
          BY <2>c, <4>1, Counted
      <4> QED BY <4>1, <4>2 DEF TaskTypeOK
    <3> QED BY <3>1, <3>2
  <2>a. CASE WorkerAnswer(p)
      BY <1>1, <2>a DEF WorkerAnswer, TaskTypeOK
  <2>5. CASE WorkerFinish(p)
    <3>1. CASE Exit(p)
        BY <2>3, <2>5, <2>c, <3>1 DEF WorkerFinish
    <3>2. CASE ~Exit(p)
        BY <1>1, <2>5, <3>2 DEF WorkerFinish, TaskTypeOK
    <3> QED BY <3>1, <3>2
  <2>6. CASE WorkerKill(p)
    <3>1. cutOff' = cutOff \/ cutOff' = [cutOff EXCEPT ![cur[p]] = cutOff[cur[p]] + 1]
        BY <2>6 DEF WorkerKill
    <3>2. cutOff' \in [Dispatcher -> Nat]
        BY <2>c, <3>1, Counted
    <3> QED BY <2>3, <2>6, <3>2 DEF WorkerKill
  <2> QED BY <2>1, <2>2, <2>4, <2>a, <2>5, <2>6 DEF Worker
<1> QED BY <1>2, <1>3, <1>4, <1>5

\* The clients preserve the types.
LEMMA ClientType ==
    ASSUME SchedulerInv, ClusterTypeOK', NEW j \in Job,
           ClientSubmit(j) \/ Client(j) \/ ClientKill(j)
    PROVE  SchedulerTypeOK' /\ PeersKnown' /\ VisitInRange'
<1> USE DEF SchedulerInv, SchedulerTypeOK, queueVars, coreVars, workerVars, ClientFrame
<1>1. UNCHANGED <<main, peer, jobIdNext, jobId, queueVars, coreVars, workerVars, out, disp, conn>>
    BY DEF Client, ClientSubmit, ClientUpload, ClientDone, ClientKill
<1>2. CoreTypeOK' /\ VisitInRange' /\ TaskTypeOK'
    BY <1>1 DEF CoreTypeOK, VisitInRange, TaskTypeOK
<1>3. MainTypeOK' /\ PeersKnown'
  <2>1. CASE ClientSubmit(j)
    <3>1. [kind |-> "job", id |-> j] \in RequestType
        BY DEF RequestType
    <3> QED BY <1>1, <2>1, <3>1, RequestAdded DEF ClientSubmit
  <2>2. CASE Client(j) \/ ClientKill(j)
    <3>1. UNCHANGED requests
        BY <2>2 DEF Client, ClientUpload, ClientDone, ClientKill
    <3> QED BY <1>1, <3>1 DEF MainTypeOK, PeersKnown
  <2> QED BY <2>1, <2>2
<1>4. ClientTypeOK'
  <2>1. kills' = kills \/ (kills.client < MaxClientKill /\ kills' = [kills EXCEPT !.client = @ + 1])
      BY DEF Client, ClientSubmit, ClientUpload, ClientDone, ClientKill
  <2>2. kills' \in [worker : 0 .. MaxWorkerKill, client : 0 .. MaxClientKill]
      BY <2>1, SchedulerAssumption DEF ClientTypeOK
  <2>3. client' \in [Job -> {"new", "sent", "upload", "wait", "done", "gone", "killed"}]
      BY DEF Client, ClientSubmit, ClientUpload, ClientDone, ClientKill, ClientTypeOK
  <2> QED BY <1>1, <2>2, <2>3 DEF ClientTypeOK
<1> QED BY <1>2, <1>3, <1>4

-----------------------------------------------------------------------------
(***************************************************************************)
(* The order of starts, runs, reports and the end of a job                 *)
(***************************************************************************)
StreamInv == ThreadsInOrder /\ ReportsSent /\ FinishedJobIsComplete /\ AnswersAreRuns
             /\ ReportedTasksRan /\ StartedFirst

Removing == {"scan", "uncount", "finish"}

\* Steps that touch neither the streams nor the threads and tasks; a client
\* that is out of reach stays so.
LEMMA StreamFrame ==
    ASSUME StreamInv,
           UNCHANGED <<out, disp, conn, cur, backlog, runs, nextTask>>,
           \/ UNCHANGED <<core, curJob>>
           \/ core' \in {"poll", "iter", "visit", "dead"}
           \/ core \in Removing /\ core' \in Removing /\ UNCHANGED curJob,
           \A j \in Job : Unreachable(j) => Unreachable(j)',
           \A p \in Port : wproc'[p] = "ran" => wproc[p] = "ran",
           VisitInRange
    PROVE  StreamInv'
<1> USE DEF StreamInv, Removing
<1>0. \A d \in Dispatcher : d[1] \in Job
    BY SchedulerAssumption
<1>1. \A j, x : Sent(j, x)' <=> Sent(j, x)
    BY DEF Sent
<1>2. ThreadsInOrder'
    BY DEF ThreadsInOrder
<1>3. ReportsSent' /\ FinishedJobIsComplete' /\ ReportedTasksRan'
    BY <1>0, <1>1 DEF ReportsSent, FinishedJobIsComplete, ReportedTasksRan
<1>4. AnswersAreRuns'
  <2>1. \A d \in Dispatcher : Unanswered(d)' => Unanswered(d)
      BY DEF Unanswered
  <2> QED BY <2>1 DEF AnswersAreRuns
<1>5. StartedFirst'
    BY <1>1 DEF StartedFirst, VisitInRange
<1> QED BY <1>2, <1>3, <1>4, <1>5

\* The accept thread and the clients only move along the frame.
LEMMA MainStream ==
    ASSUME SchedulerInv, SchedulerTypeOK', Main
    PROVE  StreamInv'
<1>1. UNCHANGED <<out, disp, conn, cur, backlog, runs, nextTask, curJob>>
    BY DEF Main, ServeWorker, ServeAdd, ServeReply, ServeBroken, ServeJob, UploadDone,
        UploadLost, EnqueueLink, EnqueueCount, EnqueueModify, coreVars, workerVars
<1>2. core' = core \/ core' = "poll"
    BY DEF Main, ServeWorker, ServeAdd, ServeReply, ServeBroken, ServeJob, UploadDone,
        UploadLost, EnqueueLink, EnqueueCount, EnqueueModify, coreVars
<1>3. client' = client \/ \E j \in Job : client[j] = "sent" /\ client' = [client EXCEPT ![j] = "upload"]
  <2>1. CASE ServeJob
      BY <2>1, ServedRequest DEF ServeJob, SchedulerInv, SchedulerTypeOK
  <2>2. CASE ~ServeJob
      BY <2>2 DEF Main, ServeWorker, ServeAdd, ServeReply, ServeBroken, UploadDone,
        UploadLost, EnqueueLink, EnqueueCount, EnqueueModify
  <2> QED BY <2>1, <2>2
<1>4. \A j \in Job : Unreachable(j) => Unreachable(j)'
    BY <1>3 DEF Unreachable, SchedulerInv, SchedulerTypeOK, ClientTypeOK
<1>5. \A p \in Port : wproc'[p] = "ran" => wproc[p] = "ran"
  <2>1. UNCHANGED wproc \/ wproc' = [wproc EXCEPT ![peer] = "idle"]
      BY DEF Main, ServeWorker, ServeAdd, ServeReply, ServeBroken, ServeJob, UploadDone,
        UploadLost, EnqueueLink, EnqueueCount, EnqueueModify, workerVars
  <2> QED BY <2>1 DEF SchedulerInv, SchedulerTypeOK, TaskTypeOK
<1> QED BY <1>1, <1>2, <1>4, <1>5, StreamFrame DEF SchedulerInv, StreamInv

LEMMA ClientStream ==
    ASSUME SchedulerInv, SchedulerTypeOK', NEW j \in Job,
           ClientSubmit(j) \/ Client(j) \/ ClientKill(j)
    PROVE  StreamInv'
<1>1. UNCHANGED <<out, disp, conn, wproc, cur, backlog, runs, nextTask, core, curJob>>
    BY DEF Client, ClientSubmit, ClientUpload, ClientDone, ClientKill, ClientFrame,
        coreVars, workerVars
<1>2. \A k \in Job : Unreachable(k) => Unreachable(k)'
    BY DEF Client, ClientSubmit, ClientUpload, ClientDone, ClientKill, Unreachable,
        SchedulerInv, SchedulerTypeOK, ClientTypeOK
<1> QED BY <1>1, <1>2, StreamFrame DEF SchedulerInv, StreamInv

\* Core: a job is announced before its first thread starts, its threads have
\* ended when it is removed, and only then is it reported finished.
LEMMA CoreStream ==
    ASSUME SchedulerInv, SchedulerTypeOK', Core
    PROVE  StreamInv'
<1> USE DEF SchedulerInv
<1>0. /\ \A d \in Dispatcher : d[1] \in Job /\ d[2] \in Nat /\ d = <<d[1], d[2]>>
      /\ NumTasks \in [Job -> Nat]
    BY SchedulerAssumption
<1>a. UNCHANGED <<client, conn, wproc, cur, backlog, runs>>
    BY DEF Core, CorePoll, CoreIterationEnds, CoreNext, CoreAnnounce, CoreSpawn,
        CoreJoin, CoreUnlink, CoreMiss, CoreUncount, CoreFinish, CoreFrame, workerVars
<1>b. /\ \A j : Unreachable(j)' <=> Unreachable(j)
      /\ \A d : Unanswered(d)' <=> Unanswered(d)
    BY <1>a DEF Unreachable, Unanswered
<1>1. CASE CorePoll \/ CoreIterationEnds \/ CoreNext \/ CoreUnlink \/ CoreMiss \/ CoreUncount
  <2>1. UNCHANGED <<out, disp, nextTask>>
      BY <1>1 DEF CorePoll, CoreIterationEnds, CoreNext, CoreUnlink, CoreMiss, CoreUncount
  <2>2. \/ core' \in {"poll", "iter", "visit", "dead"}
        \/ core \in Removing /\ core' \in Removing /\ UNCHANGED curJob
      BY <1>1 DEF CorePoll, CoreIterationEnds, CoreNext, CoreUnlink, CoreMiss, CoreUncount,
          CoreDies, Removing
  <2> QED BY <1>a, <1>b, <2>1, <2>2, StreamFrame DEF StreamInv
<1>2. CASE CoreAnnounce
  <2> USE <1>2 DEF CoreAnnounce, CoreDies
  <2>1. curJob \in Job /\ UNCHANGED <<disp, nextTask, curJob>> /\ core' \in {"spawn", "dead"}
      BY DEF VisitInRange
  <2>2. CASE UNCHANGED out /\ core' = "dead"
      BY <1>a, <1>b, <2>1, <2>2, StreamFrame DEF StreamInv
  <2>3. CASE Write(curJob, Message("job_start", NoTask)) /\ core' = "spawn"
    <3>1. /\ \A k \in Job : \A x : Sent(k, x) => Sent(k, x)'
          /\ \A k \in Job : \A x : Sent(k, x)' => Sent(k, x) \/ x = Message("job_start", NoTask)
          /\ Unreachable(curJob) \/ Sent(curJob, Message("job_start", NoTask))'
        BY <2>1, <2>3, Messages, WriteSends
    <3>2. ThreadsInOrder'
        BY <2>1, <2>3 DEF ThreadsInOrder
    <3>3. ReportsSent' /\ ReportedTasksRan'
        BY <1>0, <1>a, <1>b, <2>1, <3>1, Messages DEF ReportsSent, ReportedTasksRan
    <3>4. FinishedJobIsComplete'
        BY <2>1, <3>1, Messages DEF FinishedJobIsComplete, TasksOf
    <3>5. AnswersAreRuns'
        BY <1>a, <1>b, <2>1 DEF AnswersAreRuns
    <3>6. StartedFirst'
        BY <1>a, <1>b, <2>1, <3>1 DEF StartedFirst
    <3> QED BY <3>2, <3>3, <3>4, <3>5, <3>6 DEF StreamInv
  <2> QED BY <2>2, <2>3
<1>3. CASE CoreSpawn
  <2> USE <1>3 DEF CoreSpawn
  <2>1. /\ curJob \in Job /\ UNCHANGED <<out, curJob>>
        /\ Unreachable(curJob) \/ Sent(curJob, Message("job_start", NoTask))
      BY DEF VisitInRange, StartedFirst
  <2>2. CASE core' = "dead" /\ UNCHANGED <<disp, nextTask>>
      BY <1>a, <1>b, <2>1, <2>2, StreamFrame DEF StreamInv
  <2>3. CASE /\ core' = "iter"
             /\ disp' = [disp EXCEPT ![<<curJob, nextTask[curJob]>>] = "get"]
             /\ nextTask' = [nextTask EXCEPT ![curJob] = nextTask[curJob] + 1]
    <3> DEFINE k == nextTask[curJob]
    <3>1. /\ disp' = [disp EXCEPT ![<<curJob, k>>] = "get"]
          /\ nextTask' = [nextTask EXCEPT ![curJob] = k + 1]
        BY <2>3
    <3>2. k \in Nat /\ nextTask \in [Job -> Nat]
        BY <2>1 DEF SchedulerTypeOK, CoreTypeOK
    <3>3. disp \in [Dispatcher -> {"new", "get", "connect", "await", "print", "text",
                                   "close", "add", "done"}]
        BY DEF SchedulerTypeOK, TaskTypeOK
    <3>4. \A j, x : Sent(j, x)' <=> Sent(j, x)
        BY <2>1 DEF Sent
    <3>5. ASSUME NEW d \in Dispatcher PROVE
            \/ d = <<curJob, k>> /\ disp[d] = "new" /\ disp'[d] = "get"
            \/ d # <<curJob, k>> /\ disp'[d] = disp[d]
        BY <1>0, <3>1, <3>3, <3>2 DEF ThreadsInOrder
    <3>6. ThreadsInOrder'
      <4>1. ASSUME NEW d \in Dispatcher PROVE disp'[d] = "new" <=> nextTask'[d[1]] <= d[2]
        <5>1. CASE d[1] = curJob
            BY <1>0, <2>1, <3>1, <3>2, <3>5, <5>1 DEF ThreadsInOrder
        <5>2. CASE d[1] # curJob
            BY <1>0, <2>1, <3>1, <3>2, <3>5, <5>2 DEF ThreadsInOrder
        <5> QED BY <5>1, <5>2
      <4> QED BY <2>3, <4>1 DEF ThreadsInOrder
    <3>7. ReportsSent' /\ ReportedTasksRan' /\ AnswersAreRuns'
        BY <1>a, <1>b, <3>4, <3>5 DEF ReportsSent, ReportedTasksRan, AnswersAreRuns
    <3>8. FinishedJobIsComplete'
        BY <3>4, <3>5 DEF FinishedJobIsComplete, TasksOf
    <3>9. StartedFirst'
      <4>1. \A j \in Job : nextTask'[j] > 0 => Unreachable(j)' \/ Sent(j, Message("job_start", NoTask))'
          BY <1>b, <2>1, <3>1, <3>2, <3>4 DEF StartedFirst
      <4>2. \A q \in Port : cur'[q] \in Dispatcher => disp'[cur'[q]] # "new"
          BY <1>a, <3>5 DEF StartedFirst
      <4>3. \A q \in Port : \A i \in DOMAIN backlog'[q] : disp'[backlog'[q][i]] # "new"
        <5>1. \A q \in Port : \A i \in DOMAIN backlog[q] : backlog[q][i] \in Dispatcher
            BY DEF SchedulerTypeOK, TaskTypeOK
        <5> QED BY <1>a, <3>5, <5>1 DEF StartedFirst
      <4> QED BY <2>3, <4>1, <4>2, <4>3 DEF StartedFirst
    <3> QED BY <3>6, <3>7, <3>8, <3>9 DEF StreamInv
  <2> QED BY <2>2, <2>3, Zenon DEF CoreDies
<1>4. CASE CoreJoin
  <2> USE <1>4 DEF CoreJoin
  <2>1. curJob \in Job /\ UNCHANGED <<out, disp, nextTask, curJob>> /\ core' = "scan"
      BY DEF VisitInRange
  <2>2. \A j, x : Sent(j, x)' <=> Sent(j, x)
      BY <2>1 DEF Sent
  <2>3. ThreadsInOrder'
      BY <2>1 DEF ThreadsInOrder, TasksOf
  <2>4. ReportsSent' /\ ReportedTasksRan' /\ AnswersAreRuns' /\ FinishedJobIsComplete'
      BY <1>a, <1>b, <2>1, <2>2
      DEF ReportsSent, ReportedTasksRan, AnswersAreRuns, FinishedJobIsComplete
  <2>5. StartedFirst'
      BY <1>a, <1>b, <2>1, <2>2 DEF StartedFirst
  <2> QED BY <2>3, <2>4, <2>5 DEF StreamInv
<1>5. CASE CoreFinish
  <2> USE <1>5 DEF CoreFinish, CoreDies
  <2>1. /\ curJob \in Job /\ \A d \in TasksOf(curJob) : disp[d] = "done"
        /\ UNCHANGED <<disp, nextTask, curJob>> /\ core' \in {"iter", "dead"}
      BY DEF ThreadsInOrder
  <2>2. CASE UNCHANGED out /\ core' = "dead"
      BY <1>a, <1>b, <2>1, <2>2, StreamFrame DEF StreamInv
  <2>3. CASE Write(curJob, Message("job_finish", NoTask)) /\ core' = "iter"
    <3>1. /\ \A k \in Job : \A x : Sent(k, x) => Sent(k, x)'
          /\ \A k \in Job : \A x : Sent(k, x)' =>
                Sent(k, x) \/ (k = curJob /\ x = Message("job_finish", NoTask) /\ ~Unreachable(curJob))
        BY <2>1, <2>3, Messages, WriteSends
    <3>2. ThreadsInOrder'
        BY <2>1, <2>3 DEF ThreadsInOrder
    <3>3. ReportsSent' /\ ReportedTasksRan'
        BY <1>0, <1>a, <1>b, <2>1, <3>1, Messages DEF ReportsSent, ReportedTasksRan
    <3>4. FinishedJobIsComplete'
      <4> SUFFICES ASSUME NEW j \in Job, Sent(j, Message("job_finish", NoTask))',
                          NEW d \in TasksOf(j)
                   PROVE  Sent(j, Message("text", d))' /\ disp'[d] = "done"
          BY DEF FinishedJobIsComplete, TasksOf
      <4>1. d \in Dispatcher /\ d[1] = j
          BY DEF TasksOf
      <4>2. CASE Sent(j, Message("job_finish", NoTask))
          BY <2>1, <3>1, <4>1, <4>2 DEF FinishedJobIsComplete
      <4>3. CASE j = curJob /\ ~Unreachable(curJob)
          BY <2>1, <3>1, <4>1, <4>3 DEF ReportsSent
      <4> QED BY <3>1, <4>2, <4>3
    <3>5. AnswersAreRuns'
        BY <1>a, <1>b, <2>1 DEF AnswersAreRuns
    <3>6. StartedFirst'
        BY <1>a, <1>b, <2>1, <2>3, <3>1 DEF StartedFirst
    <3> QED BY <3>2, <3>3, <3>4, <3>5, <3>6 DEF StreamInv
  <2> QED BY <2>2, <2>3
<1> QED BY <1>1, <1>2, <1>3, <1>4, <1>5 DEF Core

\* A dispatch thread reports a task after its run, and ends after the report.
LEMMA DispatchStream ==
    ASSUME SchedulerInv, SchedulerTypeOK', NEW d \in Dispatcher, DispatchTask(d)
    PROVE  StreamInv'
<1> USE DEF SchedulerInv
<1>0. \A e \in Dispatcher : e[1] \in Job
    BY SchedulerAssumption
<1>a. UNCHANGED <<core, curJob, nextTask, client, runs, wproc, cur>>
    BY DEF DispatchTask, GetFree, Connect, Receive, PrintOpcode, PrintText, Close, Release,
        DispFrame, coreVars, workerVars
<1>b. \A j : Unreachable(j)' <=> Unreachable(j)
    BY <1>a DEF Unreachable
<1>c. disp \in [Dispatcher -> {"new", "get", "connect", "await", "print", "text",
                               "close", "add", "done"}]
    BY DEF SchedulerTypeOK, TaskTypeOK
<1>1. /\ disp[d] \notin {"new", "done"}
      /\ \A e \in Dispatcher : e # d => disp'[e] = disp[e]
      /\ disp'[d] # "new"
    BY <1>c DEF DispatchTask, GetFree, Connect, Receive, PrintOpcode, PrintText, Close,
        Release, Retry
<1>2. ThreadsInOrder'
    BY <1>a, <1>1 DEF ThreadsInOrder, TasksOf
<1>3. /\ \A k \in Job : \A x : Sent(k, x) => Sent(k, x)'
      /\ \A k \in Job : \A x : Sent(k, x)' =>
            \/ Sent(k, x)
            \/ x = Message("job_print", NoTask)
            \/ k = d[1] /\ x = Message("text", d) /\ disp[d] = "text"
      /\ disp[d] = "text" /\ disp'[d] = "close" /\ ~Unreachable(d[1]) =>
            Sent(d[1], Message("text", d))'
  <2>1. CASE GetFree(d) \/ Connect(d) \/ Receive(d) \/ Close(d) \/ Release(d)
    <3>1. UNCHANGED out /\ disp[d] # "text"
        BY <2>1 DEF GetFree, Connect, Receive, Close, Release
    <3> QED BY <3>1 DEF Sent
  <2>2. CASE PrintOpcode(d)
    <3>1. disp[d] = "print" /\ (UNCHANGED out \/ Write(d[1], Message("job_print", NoTask)))
        BY <2>2 DEF PrintOpcode
    <3>2. CASE UNCHANGED out
        BY <3>1, <3>2 DEF Sent
    <3>3. CASE Write(d[1], Message("job_print", NoTask))
        BY <1>0, <3>1, <3>3, Messages, WriteSends
    <3> QED BY <3>1, <3>2, <3>3
  <2>3. CASE PrintText(d)
    <3>1. disp[d] = "text"
        BY <2>3 DEF PrintText
    <3>2. CASE UNCHANGED out /\ Retry(d)
        BY <1>c, <3>1, <3>2 DEF Sent, Retry
    <3>3. CASE Write(d[1], Message("text", d))
        BY <1>0, <3>1, <3>3, Messages, WriteSends
    <3> QED BY <2>3, <3>2, <3>3 DEF PrintText
  <2> QED BY <2>1, <2>2, <2>3 DEF DispatchTask
<1>4. ReportsSent'
  <2>1. disp'[d] \in {"close", "add", "done"} => disp[d] \in {"text", "close", "add"}
      BY <1>c DEF DispatchTask, GetFree, Connect, Receive, PrintOpcode, PrintText, Close,
          Release, Retry
  <2>2. disp'[d] \in {"close", "add", "done"} /\ disp[d] = "text" => disp'[d] = "close"
      BY <1>c DEF DispatchTask, GetFree, Connect, Receive, PrintOpcode, PrintText, Close,
          Release, Retry
  <2> QED BY <1>0, <1>b, <1>1, <1>3, <2>1, <2>2 DEF ReportsSent
<1>5. FinishedJobIsComplete'
  <2>1. ASSUME NEW j \in Job, Sent(j, Message("job_finish", NoTask))' 
        PROVE  Sent(j, Message("job_finish", NoTask))
      BY <1>3, <2>1, Messages
  <2> QED BY <1>1, <1>3, <2>1 DEF FinishedJobIsComplete, TasksOf
<1>6. AnswersAreRuns'
  <2>1. disp'[d] \in {"print", "text"} => disp[d] \in {"print", "text"} \/ conn[d] = "finished"
      BY <1>c DEF DispatchTask, GetFree, Connect, Receive, PrintOpcode, PrintText, Close,
          Release, Retry
  <2>2. conn \in [Dispatcher -> {"none", "open", "finished", "reset", "closed"}]
      BY DEF SchedulerTypeOK, TaskTypeOK
  <2>3. \A e \in Dispatcher : conn'[e] = "finished" => conn[e] = "finished"
      BY <2>2 DEF DispatchTask, GetFree, Connect, Receive, PrintOpcode, PrintText, Close, Release
  <2>4. \A e : Unanswered(e)' <=> Unanswered(e)
      BY <1>a DEF Unanswered
  <2> QED BY <1>a, <1>1, <2>1, <2>3, <2>4 DEF AnswersAreRuns
<1>7. ReportedTasksRan'
  <2> SUFFICES ASSUME NEW e \in Dispatcher, Sent(e[1], Message("text", e))'
               PROVE  runs'[e] > 0
      BY DEF ReportedTasksRan
  <2>1. CASE Sent(e[1], Message("text", e))
      BY <1>a, <2>1 DEF ReportedTasksRan
  <2>2. CASE ~Sent(e[1], Message("text", e))
    <3>1. e = d /\ disp[d] = "text"
        BY <1>0, <1>3, <2>2, Messages
    <3> QED BY <1>a, <3>1 DEF AnswersAreRuns
  <2> QED BY <2>1, <2>2
<1>8. StartedFirst'
  <2>1. \A j \in Job : nextTask'[j] > 0 => Unreachable(j)' \/ Sent(j, Message("job_start", NoTask))'
      BY <1>a, <1>b, <1>3 DEF StartedFirst
  <2>2. core' = "spawn" => Unreachable(curJob)' \/ Sent(curJob, Message("job_start", NoTask))'
    <3>1. CASE core = "spawn"
        BY <1>a, <1>b, <1>3, <3>1 DEF StartedFirst, VisitInRange, Sent
    <3> QED BY <1>a, <3>1
  <2>3. \A p \in Port : cur'[p] \in Dispatcher => disp'[cur'[p]] # "new"
      BY <1>a, <1>1 DEF StartedFirst
  <2>4. \A p \in Port : \A i \in DOMAIN backlog'[p] : disp'[backlog'[p][i]] # "new"
    <3>1. backlog \in [Port -> Seq(Dispatcher)]
        BY DEF SchedulerTypeOK, TaskTypeOK
    <3>2. \A p \in Port : backlog'[p] = backlog[p] \/ backlog'[p] = Append(backlog[p], d)
        BY <3>1 DEF DispatchTask, GetFree, Connect, Receive, PrintOpcode, PrintText, Close,
            Release, workerVars
    <3>3. ASSUME NEW p \in Port, NEW i \in DOMAIN backlog'[p]
          PROVE  backlog'[p][i] = d \/ (i \in DOMAIN backlog[p] /\ backlog'[p][i] = backlog[p][i])
      <4>1. CASE backlog'[p] = Append(backlog[p], d)
          BY <3>1, <3>3, <4>1, AppendElements
      <4> QED BY <3>2, <3>3, <4>1
    <3>4. \A p \in Port : \A i \in DOMAIN backlog[p] : backlog[p][i] \in Dispatcher
        BY <3>1
    <3> QED BY <1>1, <3>3, <3>4 DEF StartedFirst
  <2> QED BY <2>1, <2>2, <2>3, <2>4 DEF StartedFirst
<1> QED BY <1>2, <1>4, <1>5, <1>6, <1>7, <1>8 DEF StreamInv

\* The placeholder for "no task" is not a task.
LEMMA NoTaskIsNone == NoTask \notin Dispatcher
    BY SchedulerAssumption DEF NoTask

\* A worker's answer is the completion of a run of a task that has a thread.
LEMMA WorkerStream ==
    ASSUME SchedulerInv, SchedulerTypeOK', NEW p \in Port,
           WorkerStart(p) \/ Worker(p) \/ WorkerKill(p)
    PROVE  StreamInv'
<1> USE DEF SchedulerInv
<1>0. /\ backlog \in [Port -> Seq(Dispatcher)] /\ cur \in [Port -> Dispatcher \union {NoTask}]
      /\ conn \in [Dispatcher -> {"none", "open", "finished", "reset", "closed"}]
      /\ runs \in [Dispatcher -> Nat] /\ NoTask \notin Dispatcher
      /\ wproc \in [Port -> {"down", "boot", "idle", "exec", "ran", "finish"}]
    BY NoTaskIsNone DEF SchedulerTypeOK, TaskTypeOK
<1>1. UNCHANGED <<out, disp, nextTask, core, curJob, client>>
    BY DEF Worker, WorkerStart, WorkerAccept, WorkerExecute, WorkerAnswer, WorkerFinish, WorkerKill,
        WorkerFrame, coreVars
<1>2. /\ \A j : Unreachable(j)' <=> Unreachable(j)
      /\ \A j, x : Sent(j, x)' <=> Sent(j, x)
    BY <1>1 DEF Unreachable, Sent
<1>3. /\ \A e \in Dispatcher : runs'[e] >= runs[e]
      /\ \A e \in Dispatcher :
            conn'[e] = "finished" => conn[e] = "finished" \/ runs'[e] > 0
      /\ \A e \in Dispatcher : Unanswered(e)' => Unanswered(e) \/ runs'[e] > 0
  <2>1. CASE WorkerStart(p) \/ WorkerAccept(p)
    <3>1. /\ UNCHANGED <<runs, conn>>
          /\ \A q \in Port : wproc'[q] = "ran" => wproc[q] = "ran" /\ cur'[q] = cur[q]
        BY <1>0, <2>1 DEF WorkerStart, WorkerAccept
    <3> QED BY <1>0, <3>1 DEF Unanswered
  <2>2. ASSUME Exit(p), UNCHANGED runs
        PROVE  /\ \A e \in Dispatcher : runs'[e] >= runs[e]
               /\ \A e \in Dispatcher : conn'[e] = "finished" => conn[e] = "finished"
               /\ \A e \in Dispatcher : Unanswered(e)' => Unanswered(e)
    <3>1. \A q \in Port : wproc'[q] = "ran" => wproc[q] = "ran" /\ cur'[q] = cur[q]
        BY <1>0, <2>2 DEF Exit
    <3>2. \A e \in Dispatcher : Unanswered(e)' => Unanswered(e)
        BY <3>1 DEF Unanswered
    <3> QED BY <1>0, <2>2, <3>2 DEF Exit
  <2>3. CASE WorkerExecute(p)
    <3>1. CASE cur[p] \in BadTask
        BY <2>2, <2>3, <3>1 DEF WorkerExecute
    <3>2. CASE cur[p] \notin BadTask
      <4>1. /\ runs' = [runs EXCEPT ![cur[p]] = runs[cur[p]] + 1]
            /\ wproc' = [wproc EXCEPT ![p] = "ran"] /\ UNCHANGED <<conn, cur>>
          BY <2>3, <3>2 DEF WorkerExecute
      <4>2. \A e \in Dispatcher : Unanswered(e)' => Unanswered(e) \/ e = cur[p]
          BY <1>0, <4>1 DEF Unanswered
      <4> QED BY <1>0, <4>1, <4>2
    <3> QED BY <3>1, <3>2
  <2>a. CASE WorkerAnswer(p)
    <3>1. /\ UNCHANGED <<runs, cur>> /\ wproc[p] = "ran"
          /\ conn' = [conn EXCEPT ![cur[p]] = "finished"]
          /\ wproc' = [wproc EXCEPT ![p] = "finish"]
        BY <2>a DEF WorkerAnswer
    <3>2. \A e \in Dispatcher : e = cur[p] => runs[e] > 0
        BY <3>1 DEF AnswersAreRuns, Unanswered
    <3>3. \A e \in Dispatcher : Unanswered(e)' => Unanswered(e)
        BY <1>0, <3>1 DEF Unanswered
    <3> QED BY <1>0, <3>1, <3>2, <3>3
  <2>4. CASE WorkerFinish(p)
    <3>1. UNCHANGED runs
        BY <2>4 DEF WorkerFinish
    <3>2. CASE Exit(p)
        BY <2>2, <3>1, <3>2
    <3>3. CASE /\ UNCHANGED conn
               /\ wproc' = [wproc EXCEPT ![p] = "idle"] /\ cur' = [cur EXCEPT ![p] = NoTask]
      <4>1. \A q \in Port : wproc'[q] = "ran" => wproc[q] = "ran" /\ cur'[q] = cur[q]
          BY <1>0, <3>3
      <4> QED BY <1>0, <3>1, <3>3, <4>1 DEF Unanswered
    <3> QED BY <2>4, <3>2, <3>3 DEF WorkerFinish
  <2>5. CASE WorkerKill(p)
      BY <2>2, <2>5 DEF WorkerKill
  <2> QED BY <2>1, <2>3, <2>a, <2>4, <2>5 DEF Worker
<1>4. AnswersAreRuns' /\ ReportedTasksRan'
  <2>1. \A e \in Dispatcher : runs[e] > 0 => runs'[e] > 0
    <3>1. runs' \in [Dispatcher -> Nat]
        BY DEF SchedulerTypeOK, TaskTypeOK
    <3> QED BY <1>0, <1>3, <3>1
  <2> QED BY <1>1, <1>2, <1>3, <2>1 DEF AnswersAreRuns, ReportedTasksRan
<1>5. ThreadsInOrder' /\ ReportsSent' /\ FinishedJobIsComplete'
    BY <1>1, <1>2 DEF ThreadsInOrder, ReportsSent, FinishedJobIsComplete
<1>6. StartedFirst'
  <2>1. \A q \in Port : \A e \in Dispatcher :
          cur'[q] = e => cur[q] = e \/ \E i \in DOMAIN backlog[q] : backlog[q][i] = e
    <3>1. CASE WorkerAccept(p)
      <4>1. 1 \in DOMAIN backlog[p] /\ Head(backlog[p]) = backlog[p][1]
          BY <1>0, <3>1, TailElements DEF WorkerAccept
      <4> QED BY <1>0, <3>1, <4>1 DEF WorkerAccept
    <3>2. CASE ~WorkerAccept(p)
      <4>1. UNCHANGED cur \/ cur' = [cur EXCEPT ![p] = NoTask]
          BY <3>2 DEF Worker, WorkerStart, WorkerExecute, WorkerAnswer, WorkerFinish, WorkerKill, Exit
      <4> QED BY <1>0, <4>1
    <3> QED BY <3>1, <3>2
  <2>2. \A q \in Port : \A i \in DOMAIN backlog'[q] :
          \E k \in DOMAIN backlog[q] : backlog'[q][i] = backlog[q][k]
    <3>1. CASE WorkerAccept(p)
      <4>1. backlog' = [backlog EXCEPT ![p] = Tail(backlog[p])] /\ backlog[p] # <<>>
          BY <3>1 DEF WorkerAccept
      <4>2. \A i \in DOMAIN Tail(backlog[p]) :
              i + 1 \in DOMAIN backlog[p] /\ Tail(backlog[p])[i] = backlog[p][i + 1]
          BY <1>0, <4>1, TailElements
      <4> QED BY <1>0, <4>1, <4>2
    <3>2. CASE ~WorkerAccept(p)
      <4>1. UNCHANGED backlog \/ backlog' = [backlog EXCEPT ![p] = <<>>]
          BY <3>2 DEF Worker, WorkerStart, WorkerExecute, WorkerAnswer, WorkerFinish, WorkerKill, Exit
      <4>2. CASE UNCHANGED backlog
          BY <4>2
      <4>3. CASE backlog' = [backlog EXCEPT ![p] = <<>>]
        <5>1. backlog'[p] = <<>> /\ \A q \in Port \ {p} : backlog'[q] = backlog[q]
            BY <1>0, <4>3
        <5> QED BY <5>1
      <4> QED BY <4>1, <4>2, <4>3
    <3> QED BY <3>1, <3>2
  <2>3. \A q \in Port : cur'[q] \in Dispatcher => disp'[cur'[q]] # "new"
      BY <1>1, <2>1 DEF StartedFirst
  <2>4. \A q \in Port : \A i \in DOMAIN backlog'[q] : disp'[backlog'[q][i]] # "new"
      BY <1>1, <2>2 DEF StartedFirst
  <2> QED BY <1>1, <1>2, <2>3, <2>4 DEF StartedFirst
<1> QED BY <1>4, <1>5, <1>6 DEF StreamInv

-----------------------------------------------------------------------------
(***************************************************************************)
(* The inductive invariant                                                 *)
(***************************************************************************)

\* The system starts in the invariant: nothing runs, nothing is queued.
LEMMA SchedulerInitInv == Init => SchedulerInv
<1> SUFFICES ASSUME Init PROVE SchedulerInv
    OBVIOUS
<1> USE SchedulerAssumption DEF Init
<1>0. \A d \in Dispatcher : d[1] \in Job /\ d[2] \in Nat
    OBVIOUS
<1>1. ClusterInv
    BY ClusterInitInv
<1>2. MainTypeOK /\ PeersKnown
    BY DEF MainTypeOK, PeersKnown
<1>3. CoreTypeOK /\ VisitInRange
    BY DEF CoreTypeOK, VisitInRange, NoIterator
<1>4. TaskTypeOK /\ ClientTypeOK
    BY DEF TaskTypeOK, ClientTypeOK
<1>5. ThreadsInOrder /\ ReportsSent /\ AnswersAreRuns
    BY <1>0 DEF ThreadsInOrder, ReportsSent, AnswersAreRuns, Unanswered
<1>6. \A j \in Job : \A x : ~Sent(j, x)
    BY DEF Sent
<1>7. FinishedJobIsComplete /\ ReportedTasksRan
    BY <1>0, <1>6 DEF FinishedJobIsComplete, ReportedTasksRan
<1>8. StartedFirst
    BY DEF StartedFirst, NoTask
<1> QED BY <1>1, <1>2, <1>3, <1>4, <1>5, <1>7, <1>8
        DEF SchedulerInv, SchedulerTypeOK, ClusterInv

\* Every step of every thread and process preserves the invariant.
LEMMA SchedulerStepInv == SchedulerInv /\ [Next]_vars => SchedulerInv'
<1> SUFFICES ASSUME SchedulerInv, [Next]_vars PROVE SchedulerInv'
    OBVIOUS
<1>1. ClusterInv'
    BY PoolStep, ClusterStepInv DEF SchedulerInv
<1>2. ClusterTypeOK'
    BY <1>1 DEF ClusterInv
<1>3. CASE UNCHANGED vars
  <2>1. UNCHANGED <<mainVars, queueVars, coreVars, workerVars, client, out, disp, conn, kills>>
      BY <1>3 DEF vars
  <2>2. MainTypeOK' /\ PeersKnown' /\ CoreTypeOK' /\ VisitInRange' /\ TaskTypeOK' /\ ClientTypeOK'
    <3>1. MainTypeOK' /\ PeersKnown'
        BY <2>1 DEF MainTypeOK, PeersKnown, SchedulerInv, SchedulerTypeOK, mainVars
    <3>2. CoreTypeOK' /\ VisitInRange'
        BY <2>1 DEF CoreTypeOK, VisitInRange, SchedulerInv, SchedulerTypeOK, queueVars, coreVars
    <3>3. TaskTypeOK'
        BY <2>1 DEF TaskTypeOK, SchedulerInv, SchedulerTypeOK, workerVars
    <3>4. ClientTypeOK'
        BY <2>1 DEF ClientTypeOK, SchedulerInv, SchedulerTypeOK
    <3> QED BY <3>1, <3>2, <3>3, <3>4
  <2>3. StreamInv'
      BY <2>1, StreamFrame DEF SchedulerInv, StreamInv, Unreachable, coreVars, workerVars
  <2> QED BY <1>1, <1>2, <2>2, <2>3 DEF SchedulerInv, SchedulerTypeOK, StreamInv
<1>4. CASE Next
  <2>1. SchedulerTypeOK' /\ PeersKnown' /\ VisitInRange'
      BY <1>2, <1>4, MainType, CoreType, DispatchType, WorkerType, ClientType DEF Next
  <2>2. StreamInv'
      BY <1>4, <2>1, MainStream, CoreStream, DispatchStream, WorkerStream, ClientStream DEF Next
  <2> QED BY <1>1, <2>1, <2>2 DEF SchedulerInv, StreamInv
<1> QED BY <1>3, <1>4

\* The invariant holds in every reachable state of the system.
THEOREM SchedulerInvariant == Spec => []SchedulerInv
    BY SchedulerInitInv, SchedulerStepInv, PTL DEF Spec

\* The state of every thread and process keeps its types.  In particular the
\* size field of JobQueue never becomes negative, although createNewJob and
\* removeJobfromQueue update it under different locks.
THEOREM SchedulerTypeCorrect == Spec => []SchedulerTypeOK
<1>1. SchedulerInv => SchedulerTypeOK
    BY DEF SchedulerInv
<1> QED BY <1>1, SchedulerInvariant, PTL

\* A job is reported finished only when each of its tasks was reported and
\* none of its threads is left.
THEOREM FinishedJobsAreComplete == Spec => []FinishedJobIsComplete
<1>1. SchedulerInv => FinishedJobIsComplete
    BY DEF SchedulerInv
<1> QED BY <1>1, SchedulerInvariant, PTL

\* A task is reported only after it ran to completion on a worker.
THEOREM ReportsAreTrue == Spec => []ReportedTasksRan
<1>1. SchedulerInv => ReportedTasksRan
    BY DEF SchedulerInv
<1> QED BY <1>1, SchedulerInvariant, PTL

\* The composed system implements the specification of the worker pool, so
\* every theorem about the pool holds of the whole system.
THEOREM SchedulerUsesPool == Spec => ClusterSpec
<1>1. Init => ClusterInit
    BY DEF Init
<1>2. SchedulerInv /\ [Next]_vars => [ClusterNext]_clusterVars
    BY PoolStep DEF SchedulerInv
<1> QED BY <1>1, <1>2, SchedulerInvariant, PTL DEF Spec, ClusterSpec

-----------------------------------------------------------------------------
(***************************************************************************)
(* The promise to the clients                                              *)
(***************************************************************************)
Started  == {j \in Job : Sent(j, Message("job_start", NoTask))}
Ran      == {d \in Dispatcher : runs[d] > 0}
Reported == {d \in Dispatcher : Sent(d[1], Message("text", d))}
Finished == {j \in Job : Sent(j, Message("job_finish", NoTask))}
Crashed  == {j \in Job : Unreachable(j)}

\* What a client is told changes only when the stream does.
LEMMA SameStream ==
    ASSUME UNCHANGED out
    PROVE  UNCHANGED <<Started, Reported, Finished>>
<1>1. \A j, x : Sent(j, x)' <=> Sent(j, x)
    BY DEF Sent
<1> QED BY <1>1 DEF Started, Reported, Finished

\* The accept thread changes nothing the service is about.
LEMMA MainService ==
    ASSUME SchedulerInv, Main
    PROVE  UNCHANGED <<Started, Ran, Reported, Finished, Crashed>>
<1>1. UNCHANGED <<out, runs>>
    BY DEF Main, ServeWorker, ServeAdd, ServeReply, ServeBroken, ServeJob, UploadDone,
        UploadLost, EnqueueLink, EnqueueCount, EnqueueModify, workerVars
<1>2. client' = client \/ \E j \in Job : client[j] = "sent" /\ client' = [client EXCEPT ![j] = "upload"]
  <2>1. CASE ServeJob
      BY <2>1, ServedRequest DEF ServeJob, SchedulerInv, SchedulerTypeOK
  <2>2. CASE ~ServeJob
      BY <2>2 DEF Main, ServeWorker, ServeAdd, ServeReply, ServeBroken, UploadDone,
        UploadLost, EnqueueLink, EnqueueCount, EnqueueModify
  <2> QED BY <2>1, <2>2
<1>3. \A j \in Job : Unreachable(j)' <=> Unreachable(j)
    BY <1>2 DEF Unreachable, SchedulerInv, SchedulerTypeOK, ClientTypeOK
<1> QED BY <1>1, <1>3, SameStream DEF Ran, Crashed

\* The effect of a write on what the client was told.
LEMMA ToldByWrite ==
    ASSUME SchedulerInv, NEW j \in Job, NEW m \in MessageType, Write(j, m)
    PROVE  /\ Started' = Started \union
                {k \in Job : k = j /\ m = Message("job_start", NoTask) /\ ~Unreachable(j)}
           /\ Reported' = Reported \union
                {d \in Dispatcher : d[1] = j /\ m = Message("text", d) /\ ~Unreachable(j)}
           /\ Finished' = Finished \union
                {k \in Job : k = j /\ m = Message("job_finish", NoTask) /\ ~Unreachable(j)}
<1>0. \A d \in Dispatcher : d[1] \in Job
    BY SchedulerAssumption
<1>1. /\ \A k \in Job : \A x : Sent(k, x) => Sent(k, x)'
      /\ \A k \in Job : \A x : Sent(k, x)' => Sent(k, x) \/ (k = j /\ x = m /\ ~Unreachable(j))
      /\ ~Unreachable(j) => Sent(j, m)'
    BY WriteSends DEF SchedulerInv
<1>2. Started' = Started \union
        {k \in Job : k = j /\ m = Message("job_start", NoTask) /\ ~Unreachable(j)}
    BY <1>1 DEF Started
<1>3. Finished' = Finished \union
        {k \in Job : k = j /\ m = Message("job_finish", NoTask) /\ ~Unreachable(j)}
    BY <1>1 DEF Finished
<1>4. Reported' = Reported \union
        {d \in Dispatcher : d[1] = j /\ m = Message("text", d) /\ ~Unreachable(j)}
    BY <1>0, <1>1 DEF Reported
<1> QED BY <1>2, <1>3, <1>4

\* Core announces a job or reports it finished, or changes nothing.
LEMMA CoreService ==
    ASSUME SchedulerInv, Core
    PROVE  /\ UNCHANGED <<Ran, Reported, Crashed>>
           /\ \/ UNCHANGED <<Started, Finished>>
              \/ \E j \in Job :
                    /\ j \notin Started \union Finished \union Crashed
                    /\ Started' = Started \union {j} /\ UNCHANGED Finished
              \/ \E j \in Job :
                    /\ j \notin Finished \union Crashed
                    /\ TasksOf(j) # {} => j \in Started
                    /\ TasksOf(j) \subseteq Reported
                    /\ Finished' = Finished \union {j} /\ UNCHANGED Started
<1> USE DEF SchedulerInv
<1>0. /\ \A d \in Dispatcher : d[1] \in Job /\ d[2] \in Nat
      /\ NumTasks \in [Job -> Nat]
      /\ \A j \in Job : NumTasks[j] > 0 => <<j, 0>> \in Dispatcher
    BY SchedulerAssumption
<1>1. UNCHANGED <<runs, client>>
    BY DEF Core, CorePoll, CoreIterationEnds, CoreNext, CoreAnnounce, CoreSpawn,
        CoreJoin, CoreUnlink, CoreMiss, CoreUncount, CoreFinish, CoreFrame, workerVars
<1>2. UNCHANGED <<Ran, Crashed>>
    BY <1>1 DEF Ran, Crashed, Unreachable
<1>3. CASE UNCHANGED out
    BY <1>2, <1>3, SameStream
<1>4. CASE CoreAnnounce /\ Write(curJob, Message("job_start", NoTask))
  <2>1. curJob \in Job /\ nextTask[curJob] = 0 /\ NumTasks[curJob] > 0
      BY <1>4 DEF CoreAnnounce, VisitInRange
  <2>2. /\ Started' = Started \union {k \in Job : k = curJob /\ ~Unreachable(curJob)}
        /\ UNCHANGED <<Reported, Finished>>
      BY <1>4, <2>1, Messages, ToldByWrite
  <2>3. curJob \notin Finished
    <3>1. <<curJob, 0>> \in TasksOf(curJob) /\ disp[<<curJob, 0>>] = "new"
        BY <1>0, <2>1 DEF TasksOf, ThreadsInOrder
    <3> QED BY <2>1, <3>1 DEF Finished, FinishedJobIsComplete
  <2>4. CASE Unreachable(curJob) \/ curJob \in Started
      BY <1>2, <2>2, <2>4
  <2>5. CASE ~Unreachable(curJob) /\ curJob \notin Started
    <3>1. Started' = Started \union {curJob}
        BY <2>1, <2>2, <2>5
    <3> QED BY <1>2, <2>1, <2>2, <2>3, <2>5, <3>1 DEF Crashed
  <2> QED BY <2>4, <2>5
<1>5. CASE CoreFinish /\ Write(curJob, Message("job_finish", NoTask))
  <2>1. curJob \in Job /\ \A d \in TasksOf(curJob) : disp[d] = "done"
      BY <1>5 DEF CoreFinish, ThreadsInOrder
  <2>2. /\ Finished' = Finished \union {k \in Job : k = curJob /\ ~Unreachable(curJob)}
        /\ UNCHANGED <<Reported, Started>>
    <3> DEFINE m == Message("job_finish", NoTask)
    <3>1. m \in MessageType /\ curJob \in Job /\ Write(curJob, m)
        BY <1>5, <2>1, Messages
    <3> HIDE DEF m
    <3>2. /\ Started' = Started \union
                {k \in Job : k = curJob /\ m = Message("job_start", NoTask) /\ ~Unreachable(curJob)}
          /\ Reported' = Reported \union
                {e \in Dispatcher : e[1] = curJob /\ m = Message("text", e) /\ ~Unreachable(curJob)}
          /\ Finished' = Finished \union
                {k \in Job : k = curJob /\ m = Message("job_finish", NoTask) /\ ~Unreachable(curJob)}
        BY <3>1, ToldByWrite
    <3>3. /\ m = Message("job_finish", NoTask) /\ m # Message("job_start", NoTask)
          /\ \A e \in Dispatcher : m # Message("text", e)
        BY Messages DEF m
    <3> QED BY <3>2, <3>3
  <2>3. CASE Unreachable(curJob) \/ curJob \in Finished
      BY <1>2, <2>2, <2>3
  <2>4. CASE ~Unreachable(curJob) /\ curJob \notin Finished
    <3>1. Finished' = Finished \union {curJob}
        BY <2>1, <2>2, <2>4
    <3>2. TasksOf(curJob) \subseteq Reported
        BY <2>1, <2>4 DEF TasksOf, ReportsSent, Reported
    <3>3. TasksOf(curJob) # {} => curJob \in Started
      <4> SUFFICES ASSUME NEW d \in TasksOf(curJob) PROVE curJob \in Started
          OBVIOUS
      <4>1. d \in Dispatcher /\ d[1] = curJob /\ d[2] \in Nat /\ disp[d] # "new"
          BY <1>0, <2>1 DEF TasksOf
      <4>2. nextTask[curJob] \in Nat /\ ~(nextTask[curJob] <= d[2])
          BY <2>1, <4>1 DEF ThreadsInOrder, SchedulerTypeOK, CoreTypeOK
      <4>3. nextTask[curJob] > 0
          BY <4>1, <4>2
      <4> QED BY <2>1, <2>4, <4>3 DEF StartedFirst, Started
    <3> QED BY <1>2, <2>1, <2>2, <2>4, <3>1, <3>2, <3>3 DEF Crashed
  <2> QED BY <2>3, <2>4
<1>6. \/ UNCHANGED out
      \/ CoreAnnounce /\ Write(curJob, Message("job_start", NoTask))
      \/ CoreFinish /\ Write(curJob, Message("job_finish", NoTask))
    BY DEF Core, CorePoll, CoreIterationEnds, CoreNext, CoreAnnounce, CoreSpawn,
        CoreJoin, CoreUnlink, CoreMiss, CoreUncount, CoreFinish
<1> QED BY <1>3, <1>4, <1>5, <1>6

\* A dispatch thread reports its task, or changes nothing.
LEMMA DispatchService ==
    ASSUME SchedulerInv, NEW d \in Dispatcher, DispatchTask(d)
    PROVE  /\ UNCHANGED <<Started, Ran, Finished, Crashed>>
           /\ \/ UNCHANGED Reported
              \/ /\ d \in Ran \ Reported
                 /\ d[1] \notin Finished \union Crashed
                 /\ Reported' = Reported \union {d}
<1> USE DEF SchedulerInv
<1>0. \A e \in Dispatcher : e[1] \in Job
    BY SchedulerAssumption
<1>1. UNCHANGED <<runs, client>>
    BY DEF DispatchTask, GetFree, Connect, Receive, PrintOpcode, PrintText, Close, Release,
        DispFrame, workerVars
<1>2. UNCHANGED <<Ran, Crashed>>
    BY <1>1 DEF Ran, Crashed, Unreachable
<1>3. CASE UNCHANGED out
    BY <1>2, <1>3, SameStream
<1>4. CASE Write(d[1], Message("job_print", NoTask))
  <2>1. UNCHANGED <<Started, Reported, Finished>>
    <3> DEFINE m == Message("job_print", NoTask)
    <3>1. m \in MessageType /\ d[1] \in Job /\ Write(d[1], m)
        BY <1>0, <1>4, Messages
    <3> HIDE DEF m
    <3>2. /\ Started' = Started \union
                {k \in Job : k = d[1] /\ m = Message("job_start", NoTask) /\ ~Unreachable(d[1])}
          /\ Reported' = Reported \union
                {e \in Dispatcher : e[1] = d[1] /\ m = Message("text", e) /\ ~Unreachable(d[1])}
          /\ Finished' = Finished \union
                {k \in Job : k = d[1] /\ m = Message("job_finish", NoTask) /\ ~Unreachable(d[1])}
        BY <3>1, ToldByWrite
    <3>3. /\ m # Message("job_finish", NoTask) /\ m # Message("job_start", NoTask)
          /\ \A e \in Dispatcher : m # Message("text", e)
        BY Messages DEF m
    <3> QED BY <3>2, <3>3
  <2> QED BY <1>2, <2>1
<1>5. CASE disp[d] = "text" /\ Write(d[1], Message("text", d))
  <2>1. /\ UNCHANGED <<Started, Finished>>
        /\ Reported' = Reported \union
              {e \in Dispatcher : e[1] = d[1] /\ Message("text", d) = Message("text", e)
                                  /\ ~Unreachable(d[1])}
    <3> DEFINE m == Message("text", d)
    <3>1. m \in MessageType /\ d[1] \in Job /\ Write(d[1], m)
        BY <1>0, <1>5, Messages
    <3> HIDE DEF m
    <3>2. /\ Started' = Started \union
                {k \in Job : k = d[1] /\ m = Message("job_start", NoTask) /\ ~Unreachable(d[1])}
          /\ Reported' = Reported \union
                {e \in Dispatcher : e[1] = d[1] /\ m = Message("text", e) /\ ~Unreachable(d[1])}
          /\ Finished' = Finished \union
                {k \in Job : k = d[1] /\ m = Message("job_finish", NoTask) /\ ~Unreachable(d[1])}
        BY <3>1, ToldByWrite
    <3>3. m = Message("text", d) /\ m # Message("job_finish", NoTask) /\ m # Message("job_start", NoTask)
        BY Messages DEF m
    <3> QED BY <3>2, <3>3
  <2>2. CASE Unreachable(d[1]) \/ d \in Reported
    <3>1. UNCHANGED Reported
        BY <2>1, <2>2, Messages
    <3> QED BY <1>2, <2>1, <3>1
  <2>3. CASE ~Unreachable(d[1]) /\ d \notin Reported
    <3>1. Reported' = Reported \union {d}
        BY <2>1, <2>3, Messages
    <3>2. d \in Ran
        BY <1>5 DEF AnswersAreRuns, Ran
    <3>3. d[1] \notin Finished
        BY <1>0, <1>5 DEF FinishedJobIsComplete, Finished, TasksOf
    <3> QED BY <1>2, <2>1, <2>3, <3>1, <3>2, <3>3 DEF Crashed
  <2> QED BY <2>2, <2>3
<1>6. \/ UNCHANGED out
      \/ Write(d[1], Message("job_print", NoTask))
      \/ disp[d] = "text" /\ Write(d[1], Message("text", d))
    BY DEF DispatchTask, GetFree, Connect, Receive, PrintOpcode, PrintText, Close, Release
<1> QED BY <1>3, <1>4, <1>5, <1>6

\* A worker completes a task of a job that was started, or changes nothing.
LEMMA WorkerService ==
    ASSUME SchedulerInv, NEW p \in Port, WorkerStart(p) \/ Worker(p) \/ WorkerKill(p)
    PROVE  /\ UNCHANGED <<Started, Reported, Finished, Crashed>>
           /\ \/ UNCHANGED Ran
              \/ \E d \in Dispatcher : /\ d \notin Ran
                                       /\ d[1] \in Started \union Crashed
                                       /\ Ran' = Ran \union {d}
<1> USE DEF SchedulerInv
<1>1. UNCHANGED <<out, client>>
    BY DEF Worker, WorkerStart, WorkerAccept, WorkerExecute, WorkerAnswer, WorkerFinish, WorkerKill, WorkerFrame
<1>2. UNCHANGED <<Started, Reported, Finished, Crashed>>
    BY <1>1, SameStream DEF Crashed, Unreachable
<1>3. CASE UNCHANGED runs
    BY <1>2, <1>3 DEF Ran
<1>4. CASE runs' = [runs EXCEPT ![cur[p]] = runs[cur[p]] + 1]
  <2>1. runs \in [Dispatcher -> Nat] /\ cur[p] \in Dispatcher \union {NoTask}
      BY DEF SchedulerTypeOK, TaskTypeOK
  <2>2. CASE cur[p] \notin Dispatcher
    <3>1. runs' = runs
        BY <1>4, <2>1, <2>2
    <3> QED BY <1>2, <3>1 DEF Ran
  <2>3. CASE cur[p] \in Dispatcher
    <3> DEFINE d == cur[p]
    <3>1. Ran' = Ran \union {d}
        BY <1>4, <2>1, <2>3 DEF Ran
    <3>2. d[1] \in Started \union Crashed
      <4>1. d[1] \in Job /\ d[2] \in Nat /\ disp[d] # "new"
          BY <2>3, SchedulerAssumption DEF StartedFirst
      <4>2. nextTask[d[1]] \in Nat /\ ~(nextTask[d[1]] <= d[2])
          BY <2>3, <4>1 DEF ThreadsInOrder, SchedulerTypeOK, CoreTypeOK
      <4>3. nextTask[d[1]] > 0
          BY <4>1, <4>2
      <4> QED BY <4>1, <4>3 DEF StartedFirst, Started, Crashed
    <3>3. CASE d \in Ran
        BY <1>2, <3>1, <3>3
    <3>4. CASE d \notin Ran
        BY <1>2, <2>3, <3>1, <3>2, <3>4
    <3> QED BY <3>3, <3>4
  <2> QED BY <2>2, <2>3
<1>5. UNCHANGED runs \/ runs' = [runs EXCEPT ![cur[p]] = runs[cur[p]] + 1]
    BY DEF Worker, WorkerStart, WorkerAccept, WorkerExecute, WorkerAnswer, WorkerFinish, WorkerKill
<1> QED BY <1>3, <1>4, <1>5

\* A client crashes, or changes nothing.
LEMMA ClientService ==
    ASSUME SchedulerInv, NEW j \in Job, ClientSubmit(j) \/ Client(j) \/ ClientKill(j)
    PROVE  /\ UNCHANGED <<Started, Ran, Reported, Finished>>
           /\ UNCHANGED Crashed \/ (j \notin Crashed /\ Crashed' = Crashed \union {j})
<1>1. UNCHANGED <<out, runs>>
    BY DEF Client, ClientSubmit, ClientUpload, ClientDone, ClientKill, ClientFrame, workerVars
<1>2. UNCHANGED <<Started, Ran, Reported, Finished>>
    BY <1>1, SameStream DEF Ran
<1>3. client \in [Job -> {"new", "sent", "upload", "wait", "done", "gone", "killed"}]
    BY DEF SchedulerInv, SchedulerTypeOK, ClientTypeOK
<1>4. CASE ClientKill(j)
    BY <1>2, <1>3, <1>4 DEF ClientKill, Crashed, Unreachable
<1>5. CASE ClientSubmit(j) \/ Client(j)
    BY <1>2, <1>3, <1>5 DEF Client, ClientSubmit, ClientUpload, ClientDone, Crashed, Unreachable
<1> QED BY <1>4, <1>5

\* Every step of the system is a step of the service or invisible to it.
LEMMA ServiceStep ==
    ASSUME SchedulerInv, [Next]_vars
    PROVE  [Service!ServiceNext]_(Service!serviceVars)
<1> USE DEF Service!ServiceNext, Service!serviceVars, Service!StartJob, Service!RunTask,
            Service!ReportTask, Service!FinishJob, Service!CrashClient,
            Service!ServiceTasksOf, Started, Ran, Reported, Finished, Crashed
<1>1. CASE Main
    BY <1>1, MainService
<1>2. CASE Core
    BY <1>2, CoreService DEF TasksOf
<1>3. CASE \E d \in Dispatcher : DispatchTask(d)
    BY <1>3, DispatchService
<1>4. CASE \E p \in Port : WorkerStart(p) \/ Worker(p) \/ WorkerKill(p)
    BY <1>4, WorkerService
<1>5. CASE \E j \in Job : ClientSubmit(j) \/ Client(j) \/ ClientKill(j)
    BY <1>5, ClientService
<1>6. CASE UNCHANGED vars
  <2>1. UNCHANGED <<out, client, runs>>
      BY <1>6 DEF vars, workerVars
  <2> QED BY <2>1, SameStream DEF Unreachable
<1> QED BY <1>1, <1>2, <1>3, <1>4, <1>5, <1>6 DEF Next

\* The batch system keeps the promise of BatchService to its clients.
THEOREM SchedulerImplementsService == Spec => ImplementsService
<1>1. Init => Service!ServiceInit
  <2> SUFFICES ASSUME Init PROVE Service!ServiceInit
      OBVIOUS
  <2>1. \A j \in Job : ~Unreachable(j) /\ \A x : ~Sent(j, x)
      BY DEF Init, Unreachable, Sent
  <2>2. \A d \in Dispatcher : d[1] \in Job /\ ~(runs[d] > 0)
      BY SchedulerAssumption DEF Init
  <2> QED BY <2>1, <2>2 DEF Service!ServiceInit
<1>2. SchedulerInv /\ [Next]_vars => [Service!ServiceNext]_(Service!serviceVars)
    BY ServiceStep
<1> QED BY <1>1, <1>2, SchedulerInvariant, PTL DEF Spec, ImplementsService, Service!ServiceSpec

-----------------------------------------------------------------------------
(***************************************************************************)
(* A task of a client that is there runs again only if it was cut off      *)
(***************************************************************************)

\* Worker p has task d before it, in its backlog or in execution, or has not
\* answered yet.
Pending(p, d) == \/ wproc[p] \in {"exec", "ran"} /\ cur[p] = d
                 \/ \E i \in DOMAIN backlog[p] : backlog[p][i] = d

\* A task is before one worker at most, the one its thread is connected to
\* and waits for, and it is there once.
PendingAwaited ==
    \A p \in Port, d \in Dispatcher :
        Pending(p, d) => disp[d] = "await" /\ conn[d] = "open" /\ node[d] = p
PendingOnce ==
    \A p \in Port :
        /\ \A i, k \in DOMAIN backlog[p] : backlog[p][i] = backlog[p][k] => i = k
        /\ wproc[p] \in {"exec", "ran"} => \A i \in DOMAIN backlog[p] : backlog[p][i] # cur[p]

\* While its client is there, a task whose worker has not completed it has run
\* as often as its worker was killed before it answered, and once more when
\* the worker has.
RunsCounted ==
    \A d \in Dispatcher : ~Unreachable(d[1]) =>
        /\ disp[d] \in {"new", "get", "connect"} => runs[d] = cutOff[d]
        /\ disp[d] = "await" /\ conn[d] # "finished" /\ ~Unanswered(d) => runs[d] = cutOff[d]
        /\ Unanswered(d) => runs[d] = 1 + cutOff[d]
        /\ runs[d] <= 1 + cutOff[d]

RunInv == PendingAwaited /\ PendingOnce /\ RunsCounted

\* Steps that leave the connections, the workers' tasks and the held nodes alone.
LEMMA RunFrame ==
    ASSUME RunInv, UNCHANGED <<conn, cur, backlog, runs, cutOff>>,
           \A d \in Dispatcher : node'[d] = node[d],
           \A d \in Dispatcher : disp'[d] = disp[d] \/ (disp[d] = "new" /\ disp'[d] = "get"),
           \A p \in Port, x \in {"exec", "ran"} : wproc'[p] = x <=> wproc[p] = x,
           \A j \in Job : Unreachable(j) => Unreachable(j)'
    PROVE  RunInv'
<1>0. \A p \in Port : /\ wproc'[p] = "exec" <=> wproc[p] = "exec"
                      /\ wproc'[p] = "ran" <=> wproc[p] = "ran"
    OBVIOUS
<1>1. PendingAwaited'
  <2> SUFFICES ASSUME NEW p \in Port, NEW d \in Dispatcher, Pending(p, d)'
               PROVE  disp'[d] = "await" /\ conn'[d] = "open" /\ node'[d] = p
      BY DEF PendingAwaited
  <2>1. Pending(p, d)
      BY <1>0 DEF Pending
  <2> QED BY <2>1 DEF RunInv, PendingAwaited
<1>2. PendingOnce'
    BY <1>0 DEF RunInv, PendingOnce
<1>3. RunsCounted'
  <2>1. \A d \in Dispatcher : d[1] \in Job
      BY SchedulerAssumption
  <2>2. \A d : Unanswered(d)' <=> Unanswered(d)
      BY <1>0 DEF Unanswered
  <2> QED BY <2>1, <2>2 DEF RunInv, RunsCounted
<1> QED BY <1>1, <1>2, <1>3 DEF RunInv

LEMMA MainRuns ==
    ASSUME SchedulerInv, RunInv, Main
    PROVE  RunInv'
<1>1. /\ UNCHANGED <<disp, conn, cur, backlog, runs, cutOff>>
      /\ \A p \in Port, x \in {"exec", "ran"} : wproc'[p] = x <=> wproc[p] = x
    BY DEF Main, ServeWorker, ServeAdd, ServeReply, ServeBroken, ServeJob, UploadDone,
        UploadLost, EnqueueLink, EnqueueCount, EnqueueModify, workerVars, SchedulerInv,
        SchedulerTypeOK, TaskTypeOK, Registering
<1>2. \A d \in Dispatcher : node'[d] = node[d]
  <2>1. UNCHANGED node \/ \E x : node' = [node EXCEPT ![Acceptor] = x]
      BY DEF Main, ServeWorker, ServeAdd, ServeReply, ServeBroken, ServeJob, UploadDone,
        UploadLost, EnqueueLink, EnqueueCount, EnqueueModify, clusterVars, createWorkerNode,
        addFreeWorkerNode
  <2> QED BY <2>1, ClusterAssumption DEF SchedulerInv, ClusterInv, ClusterTypeOK, Thread
<1>3. client' = client \/ \E j \in Job : client[j] = "sent" /\ client' = [client EXCEPT ![j] = "upload"]
  <2>1. CASE ServeJob
      BY <2>1, ServedRequest DEF ServeJob, SchedulerInv, SchedulerTypeOK
  <2>2. CASE ~ServeJob
      BY <2>2 DEF Main, ServeWorker, ServeAdd, ServeReply, ServeBroken, UploadDone,
        UploadLost, EnqueueLink, EnqueueCount, EnqueueModify
  <2> QED BY <2>1, <2>2
<1>4. \A j \in Job : Unreachable(j) => Unreachable(j)'
    BY <1>3 DEF Unreachable, SchedulerInv, SchedulerTypeOK, ClientTypeOK
<1> QED BY <1>1, <1>2, <1>4, RunFrame

LEMMA ClientRuns ==
    ASSUME SchedulerInv, RunInv, NEW j \in Job, ClientSubmit(j) \/ Client(j) \/ ClientKill(j)
    PROVE  RunInv'
<1>1. UNCHANGED <<disp, conn, cur, backlog, runs, cutOff, node, wproc>>
    BY DEF Client, ClientSubmit, ClientUpload, ClientDone, ClientKill, ClientFrame,
        workerVars, clusterVars
<1>2. \A k \in Job : Unreachable(k) => Unreachable(k)'
    BY DEF Client, ClientSubmit, ClientUpload, ClientDone, ClientKill, Unreachable,
        SchedulerInv, SchedulerTypeOK, ClientTypeOK
<1> QED BY <1>1, <1>2, RunFrame

LEMMA CoreRuns ==
    ASSUME SchedulerInv, RunInv, Core
    PROVE  RunInv'
<1>1. UNCHANGED <<conn, cur, backlog, runs, cutOff, node, wproc, client>>
    BY DEF Core, CorePoll, CoreIterationEnds, CoreNext, CoreAnnounce, CoreSpawn,
        CoreJoin, CoreUnlink, CoreMiss, CoreUncount, CoreFinish, CoreFrame, workerVars, clusterVars
<1>2. \A d \in Dispatcher : disp'[d] = disp[d] \/ (disp[d] = "new" /\ disp'[d] = "get")
  <2>1. CASE CoreSpawn
    <3>1. \A d \in Dispatcher : d[1] \in Job /\ d[2] \in Nat
        BY SchedulerAssumption
    <3>2. disp \in [Dispatcher -> {"new", "get", "connect", "await", "print", "text",
                                   "close", "add", "done"}] /\ nextTask \in [Job -> Nat]
        BY DEF SchedulerInv, SchedulerTypeOK, TaskTypeOK, CoreTypeOK
    <3>3. \/ UNCHANGED disp
          \/ disp' = [disp EXCEPT ![<<curJob, nextTask[curJob]>>] = "get"]
        BY <2>1 DEF CoreSpawn
    <3>4. ASSUME NEW d \in Dispatcher, d = <<curJob, nextTask[curJob]>> PROVE disp[d] = "new"
      <4>1. nextTask[d[1]] <= d[2]
          BY <3>1, <3>2, <3>4
      <4> QED BY <4>1 DEF SchedulerInv, ThreadsInOrder
    <3> QED BY <3>2, <3>3, <3>4
  <2>2. CASE ~CoreSpawn
      BY <2>2 DEF Core, CorePoll, CoreIterationEnds, CoreNext, CoreAnnounce,
        CoreJoin, CoreUnlink, CoreMiss, CoreUncount, CoreFinish
  <2> QED BY <2>1, <2>2
<1>3. \A k \in Job : Unreachable(k) => Unreachable(k)'
    BY <1>1 DEF Unreachable
<1> QED BY <1>1, <1>2, <1>3, RunFrame

\* A thread connects when its task is before no worker, and takes its node
\* back or gives it up when its task is not before one any more.
LEMMA DispatchRuns ==
    ASSUME SchedulerInv, RunInv, NEW d \in Dispatcher, DispatchTask(d)
    PROVE  RunInv'
<1>0. /\ disp \in [Dispatcher -> {"new", "get", "connect", "await", "print", "text",
                                  "close", "add", "done"}]
      /\ conn \in [Dispatcher -> {"none", "open", "finished", "reset", "closed"}]
      /\ backlog \in [Port -> Seq(Dispatcher)]
      /\ node \in [Thread -> Port \union {NoPort}] /\ d \in Thread /\ Dispatcher \subseteq Thread
    BY DEF SchedulerInv, SchedulerTypeOK, TaskTypeOK, ClusterInv, ClusterTypeOK, Thread
<1>1. /\ UNCHANGED <<runs, cutOff, cur, wproc, client>>
      /\ \A e \in Dispatcher : e # d =>
            disp'[e] = disp[e] /\ conn'[e] = conn[e] /\ node'[e] = node[e]
  <2>1. UNCHANGED <<runs, cutOff, cur, wproc, client>>
      BY DEF DispatchTask, GetFree, Connect, Receive, PrintOpcode, PrintText, Close,
        Release, DispFrame, workerVars
  <2>2. \A e \in Dispatcher : e # d => disp'[e] = disp[e] /\ conn'[e] = conn[e]
      BY <1>0 DEF DispatchTask, GetFree, Connect, Receive, PrintOpcode, PrintText, Close,
        Release, Retry
  <2>3. UNCHANGED node \/ \E x : node' = [node EXCEPT ![d] = x]
      BY DEF DispatchTask, GetFree, Connect, Receive, PrintOpcode, PrintText, Close,
        Release, Retry, getFreeWorkerNode, waitFreeWorkerNode, beginAddFreeWorkerNode,
        addFreeWorkerNode, abandonWorkerNode, clusterVars
  <2> QED BY <1>0, <2>1, <2>2, <2>3
<1>2. /\ \A j : Unreachable(j)' <=> Unreachable(j)
      /\ \A e : Unanswered(e)' <=> Unanswered(e)
    BY <1>1 DEF Unreachable, Unanswered
<1>3. CASE Connect(d) /\ wproc[node[d]] # "down"
  <2>1. /\ disp[d] = "connect" /\ disp'[d] = "await" /\ conn'[d] = "open"
        /\ backlog' = [backlog EXCEPT ![node[d]] = Append(@, d)] /\ UNCHANGED node
      BY <1>0, <1>3 DEF Connect, clusterVars
  <2>2. \A p \in Port : ~Pending(p, d)
      BY <2>1 DEF RunInv, PendingAwaited
  <2>3. CASE node[d] \in Port
    <3> DEFINE q == node[d]
    <3>1. /\ DOMAIN backlog'[q] = DOMAIN backlog[q] \union {Len(backlog[q]) + 1}
          /\ \A i \in DOMAIN backlog[q] : backlog'[q][i] = backlog[q][i]
          /\ backlog'[q][Len(backlog[q]) + 1] = d
          /\ \A p \in Port : p # q => backlog'[p] = backlog[p]
        BY <1>0, <2>1, <2>3, AppendElements
    <3>2. \A p \in Port, e \in Dispatcher : e # d /\ Pending(p, e)' => Pending(p, e)
        BY <1>1, <3>1 DEF Pending
    <3>3. \A p \in Port : Pending(p, d)' => p = q
        BY <1>1, <2>2, <3>1 DEF Pending
    <3>4. PendingAwaited'
      <4> SUFFICES ASSUME NEW p \in Port, NEW e \in Dispatcher, Pending(p, e)'
                   PROVE  disp'[e] = "await" /\ conn'[e] = "open" /\ node'[e] = p
          BY DEF PendingAwaited
      <4>1. CASE e = d
          BY <2>1, <3>3, <4>1
      <4>2. CASE e # d
          BY <1>1, <3>2, <4>2 DEF RunInv, PendingAwaited
      <4> QED BY <4>1, <4>2
    <3>5. PendingOnce'
      <4> SUFFICES ASSUME NEW p \in Port
                   PROVE  /\ \A i, k \in DOMAIN backlog'[p] :
                                backlog'[p][i] = backlog'[p][k] => i = k
                          /\ wproc'[p] \in {"exec", "ran"} => \A i \in DOMAIN backlog'[p] : backlog'[p][i] # cur'[p]
          BY DEF PendingOnce
      <4>1. CASE p = q
        <5>1. \A i \in DOMAIN backlog[q] : backlog[q][i] # d
            BY <2>2, <2>3 DEF Pending
        <5>2. wproc[q] \in {"exec", "ran"} => cur[q] # d
            BY <2>2, <2>3 DEF Pending
        <5> QED BY <1>1, <2>3, <3>1, <4>1, <5>1, <5>2 DEF RunInv, PendingOnce
      <4>2. CASE p # q
          BY <1>1, <3>1, <4>2 DEF RunInv, PendingOnce
      <4> QED BY <4>1, <4>2
    <3>6. RunsCounted'
        BY <1>1, <1>2, <2>1 DEF RunInv, RunsCounted
    <3> QED BY <3>4, <3>5, <3>6 DEF RunInv
  <2>4. CASE node[d] \notin Port
    <3>1. backlog' = backlog
        BY <1>0, <2>1, <2>4
    <3>2. \A p \in Port, e \in Dispatcher : Pending(p, e)' => Pending(p, e)
        BY <1>1, <3>1 DEF Pending
    <3>3. PendingAwaited'
        BY <1>1, <2>2, <3>2 DEF RunInv, PendingAwaited
    <3>4. PendingOnce'
        BY <1>1, <3>1 DEF RunInv, PendingOnce
    <3>5. RunsCounted'
        BY <1>1, <1>2, <2>1 DEF RunInv, RunsCounted
    <3> QED BY <3>3, <3>4, <3>5 DEF RunInv
  <2> QED BY <2>3, <2>4
<1>4. CASE ~(Connect(d) /\ wproc[node[d]] # "down")
  <2>1. UNCHANGED backlog
      BY <1>4 DEF DispatchTask, GetFree, Connect, Receive, PrintOpcode, PrintText, Close,
          Release, workerVars
  <2>2. disp[d] = "await" => conn[d] # "open"
      BY <1>4 DEF DispatchTask, GetFree, Connect, Receive, PrintOpcode, PrintText, Close, Release
  <2>3. (\A p \in Port : ~Pending(p, d)) /\ ~Unanswered(d)
      BY <2>2 DEF RunInv, PendingAwaited, Pending, Unanswered
  <2>4. \A p \in Port, e \in Dispatcher : Pending(p, e)' => Pending(p, e)
      BY <1>1, <2>1 DEF Pending
  <2>5. PendingAwaited'
      BY <1>1, <2>3, <2>4 DEF RunInv, PendingAwaited
  <2>6. PendingOnce'
      BY <1>1, <2>1 DEF RunInv, PendingOnce
  <2>7. \/ Unreachable(d[1])
        \/ disp'[d] \in {"print", "text", "close", "add", "done"}
        \/ disp'[d] \in {"get", "connect"} /\ disp[d] \in {"get", "connect"}
        \/ disp'[d] \in {"get", "connect"} /\ disp[d] = "await" /\ conn[d] = "reset"
    <3>1. CASE GetFree(d)
        BY <1>0, <3>1 DEF GetFree
    <3>2. CASE Connect(d)
        BY <1>0, <1>4, <3>2 DEF Connect, Retry
    <3>3. CASE Receive(d)
        BY <1>0, <3>3 DEF Receive, Retry
    <3>4. CASE PrintOpcode(d) \/ PrintText(d)
        BY <1>0, <3>4 DEF PrintOpcode, PrintText
    <3>5. CASE Close(d) \/ Release(d)
        BY <1>0, <3>5 DEF Close, Release
    <3> QED BY <3>1, <3>2, <3>3, <3>4, <3>5 DEF DispatchTask
  <2>8. RunsCounted'
    <3> SUFFICES ASSUME NEW e \in Dispatcher, ~Unreachable(e[1])'
                 PROVE  /\ disp'[e] \in {"new", "get", "connect"} => runs'[e] = cutOff'[e]
                        /\ disp'[e] = "await" /\ conn'[e] # "finished" /\ ~Unanswered(e)' =>
                              runs'[e] = cutOff'[e]
                        /\ Unanswered(e)' => runs'[e] = 1 + cutOff'[e]
                        /\ runs'[e] <= 1 + cutOff'[e]
        BY DEF RunsCounted
    <3>1. CASE e # d
        BY <1>1, <1>2, <3>1 DEF RunInv, RunsCounted
    <3>2. CASE e = d
        BY <1>1, <1>2, <2>3, <2>7, <3>2 DEF RunInv, RunsCounted
    <3> QED BY <3>1, <3>2
  <2> QED BY <2>5, <2>6, <2>8 DEF RunInv
<1> QED BY <1>3, <1>4

\* A worker takes its tasks one after the other; one that it completes was run
\* for the first time, and the tasks of a worker that exits are not run at all.
LEMMA WorkerRuns ==
    ASSUME SchedulerInv, RunInv, NEW p \in Port, WorkerStart(p) \/ Worker(p) \/ WorkerKill(p)
    PROVE  RunInv'
<1>0. /\ conn \in [Dispatcher -> {"none", "open", "finished", "reset", "closed"}]
      /\ backlog \in [Port -> Seq(Dispatcher)] /\ runs \in [Dispatcher -> Nat]
      /\ cutOff \in [Dispatcher -> Nat]
      /\ cur \in [Port -> Dispatcher \union {NoTask}] /\ NoTask \notin Dispatcher
      /\ wproc \in [Port -> {"down", "boot", "idle", "exec", "ran", "finish"}]
    BY NoTaskIsNone DEF SchedulerInv, SchedulerTypeOK, TaskTypeOK
<1>1. UNCHANGED <<disp, node, client>>
    BY DEF Worker, WorkerStart, WorkerAccept, WorkerExecute, WorkerAnswer, WorkerFinish, WorkerKill,
        WorkerFrame, clusterVars
<1>2. \A j : Unreachable(j)' <=> Unreachable(j)
    BY <1>1 DEF Unreachable
<1>3. ASSUME UNCHANGED <<backlog, conn, runs, cutOff>>,
             wproc[p] # "ran", wproc'[p] \notin {"exec", "ran"},
             \A q \in Port \ {p} : wproc'[q] = wproc[q] /\ cur'[q] = cur[q]
      PROVE  RunInv'
  <2>1. \A q \in Port, d \in Dispatcher : Pending(q, d)' => Pending(q, d)
      BY <1>3 DEF Pending
  <2>2. PendingAwaited'
      BY <1>1, <1>3, <2>1 DEF RunInv, PendingAwaited
  <2>3. PendingOnce'
      BY <1>3 DEF RunInv, PendingOnce
  <2>4. \A d : Unanswered(d)' <=> Unanswered(d)
      BY <1>3 DEF Unanswered
  <2>5. RunsCounted'
      BY <1>1, <1>2, <1>3, <2>4 DEF RunInv, RunsCounted
  <2> QED BY <2>2, <2>3, <2>5 DEF RunInv
<1>4. ASSUME Exit(p), UNCHANGED runs,
             \/ wproc[p] # "ran" /\ UNCHANGED cutOff
             \/ wproc[p] = "ran" /\ cutOff' = [cutOff EXCEPT ![cur[p]] = cutOff[cur[p]] + 1]
      PROVE  RunInv'
  <2>1. /\ wproc'[p] = "down" /\ DOMAIN backlog'[p] = {}
        /\ \A q \in Port \ {p} : wproc'[q] = wproc[q] /\ cur'[q] = cur[q] /\ backlog'[q] = backlog[q]
        /\ \A d \in Dispatcher : conn'[d] = IF node[d] = p /\ conn[d] = "open" THEN "reset" ELSE conn[d]
      BY <1>0, <1>4 DEF Exit
  <2>2. \A d \in Dispatcher : ~Pending(p, d)'
      BY <2>1 DEF Pending
  <2>3. \A q \in Port, d \in Dispatcher : Pending(q, d)' => Pending(q, d) /\ q # p
      BY <2>1, <2>2 DEF Pending
  <2>4. PendingAwaited'
      BY <1>1, <2>1, <2>3 DEF RunInv, PendingAwaited
  <2>5. PendingOnce'
    <3> SUFFICES ASSUME NEW q \in Port
                 PROVE  /\ \A i, k \in DOMAIN backlog'[q] :
                              backlog'[q][i] = backlog'[q][k] => i = k
                        /\ wproc'[q] \in {"exec", "ran"} => \A i \in DOMAIN backlog'[q] : backlog'[q][i] # cur'[q]
        BY DEF PendingOnce
    <3>1. CASE q = p
        BY <2>1, <3>1
    <3>2. CASE q # p
        BY <2>1, <3>2 DEF RunInv, PendingOnce
    <3> QED BY <3>1, <3>2
  <2>6. RunsCounted'
    <3> SUFFICES ASSUME NEW e \in Dispatcher, ~Unreachable(e[1])'
                 PROVE  /\ disp'[e] \in {"new", "get", "connect"} => runs'[e] = cutOff'[e]
                        /\ disp'[e] = "await" /\ conn'[e] # "finished" /\ ~Unanswered(e)' =>
                              runs'[e] = cutOff'[e]
                        /\ Unanswered(e)' => runs'[e] = 1 + cutOff'[e]
                        /\ runs'[e] <= 1 + cutOff'[e]
        BY DEF RunsCounted
    <3>1. CASE wproc[p] = "ran" /\ cur[p] = e
      <4>1. Unanswered(e) /\ runs[e] = 1 + cutOff[e]
          BY <1>2, <3>1 DEF RunInv, RunsCounted, Unanswered
      <4>2. cutOff'[e] = 1 + cutOff[e]
          BY <1>0, <1>4, <3>1
      <4>3. ~Unanswered(e)'
        <5> SUFFICES ASSUME NEW q \in Port, wproc'[q] = "ran", cur'[q] = e PROVE FALSE
            BY DEF Unanswered
        <5>1. q # p /\ Pending(q, e) /\ Pending(p, e)
            BY <2>1, <3>1 DEF Pending
        <5> QED BY <5>1 DEF RunInv, PendingAwaited
      <4> QED BY <1>0, <1>1, <1>4, <4>1, <4>2, <4>3
    <3>2. CASE ~(wproc[p] = "ran" /\ cur[p] = e)
      <4>1. cutOff'[e] = cutOff[e]
          BY <1>0, <1>4, <3>2
      <4>2. Unanswered(e)' <=> Unanswered(e)
          BY <2>1, <3>2 DEF Unanswered
      <4>3. conn'[e] # "finished" => conn[e] # "finished"
          BY <2>1
      <4> QED BY <1>1, <1>2, <1>4, <4>1, <4>2, <4>3 DEF RunInv, RunsCounted
    <3> QED BY <3>1, <3>2
  <2> QED BY <2>4, <2>5, <2>6 DEF RunInv
<1>5. CASE WorkerStart(p)
    BY <1>0, <1>3, <1>5 DEF WorkerStart
<1>6. CASE WorkerAccept(p)
  <2> DEFINE d == Head(backlog[p])
  <2>1. /\ wproc[p] = "idle" /\ backlog[p] # <<>>
        /\ wproc' = [wproc EXCEPT ![p] = "exec"]
        /\ cur' = [cur EXCEPT ![p] = d]
        /\ backlog' = [backlog EXCEPT ![p] = Tail(backlog[p])]
        /\ UNCHANGED <<runs, cutOff, conn>>
      BY <1>6 DEF WorkerAccept
  <2>2. /\ 1 \in DOMAIN backlog[p] /\ d = backlog[p][1]
        /\ \A i \in DOMAIN Tail(backlog[p]) :
              i + 1 \in DOMAIN backlog[p] /\ Tail(backlog[p])[i] = backlog[p][i + 1]
                /\ i \in Nat /\ i # 0
      BY <1>0, <2>1, TailElements
  <2> HIDE DEF d
  <2>3. /\ wproc'[p] = "exec" /\ cur'[p] = d /\ backlog'[p] = Tail(backlog[p])
        /\ \A q \in Port \ {p} : wproc'[q] = wproc[q] /\ cur'[q] = cur[q] /\ backlog'[q] = backlog[q]
      BY <1>0, <2>1
  <2>4. \A q \in Port, e \in Dispatcher : Pending(q, e)' => Pending(q, e)
    <3> SUFFICES ASSUME NEW q \in Port, NEW e \in Dispatcher, Pending(q, e)' PROVE Pending(q, e)
        OBVIOUS
    <3>1. CASE q = p
      <4>1. \/ e = d
            \/ \E i \in DOMAIN Tail(backlog[p]) : Tail(backlog[p])[i] = e
          BY <2>3, <3>1 DEF Pending
      <4>2. \E i \in DOMAIN backlog[p] : backlog[p][i] = e
          BY <2>2, <4>1
      <4> QED BY <3>1, <4>2 DEF Pending
    <3>2. CASE q # p
        BY <2>3, <3>2 DEF Pending
    <3> QED BY <3>1, <3>2
  <2>5. PendingAwaited'
      BY <1>1, <2>1, <2>4 DEF RunInv, PendingAwaited
  <2>6. PendingOnce'
    <3> SUFFICES ASSUME NEW q \in Port
                 PROVE  /\ \A i, k \in DOMAIN backlog'[q] :
                              backlog'[q][i] = backlog'[q][k] => i = k
                        /\ wproc'[q] \in {"exec", "ran"} => \A i \in DOMAIN backlog'[q] : backlog'[q][i] # cur'[q]
        BY DEF PendingOnce
    <3>1. CASE q = p
      <4>1. \A i, k \in DOMAIN backlog[p] : backlog[p][i] = backlog[p][k] => i = k
          BY DEF RunInv, PendingOnce
      <4>2. ASSUME NEW i \in DOMAIN Tail(backlog[p]), NEW k \in DOMAIN Tail(backlog[p]),
                   Tail(backlog[p])[i] = Tail(backlog[p])[k]
            PROVE  i = k
        <5>1. i + 1 = k + 1
            BY <2>2, <4>1, <4>2
        <5> QED BY <2>2, <5>1
      <4>3. ASSUME NEW i \in DOMAIN Tail(backlog[p]) PROVE Tail(backlog[p])[i] # d
        <5>1. i + 1 # 1
            BY <2>2
        <5> QED BY <2>2, <4>1, <5>1
      <4> QED BY <2>3, <3>1, <4>2, <4>3
    <3>2. CASE q # p
        BY <2>3, <3>2 DEF RunInv, PendingOnce
    <3> QED BY <3>1, <3>2
  <2>7. \A e : Unanswered(e)' <=> Unanswered(e)
      BY <2>1, <2>3 DEF Unanswered
  <2>8. RunsCounted'
      BY <1>1, <1>2, <2>1, <2>7 DEF RunInv, RunsCounted
  <2> QED BY <2>5, <2>6, <2>8 DEF RunInv
<1>7. CASE WorkerExecute(p)
  <2>1. CASE cur[p] \in BadTask
      BY <1>4, <1>7, <2>1 DEF WorkerExecute
  <2>2. CASE cur[p] \notin BadTask
    <3> DEFINE d == cur[p]
    <3>1. /\ wproc[p] = "exec"
          /\ runs' = [runs EXCEPT ![d] = runs[d] + 1]
          /\ wproc' = [wproc EXCEPT ![p] = "ran"] /\ UNCHANGED <<backlog, cur, conn, cutOff>>
        BY <1>7, <2>2 DEF WorkerExecute
    <3>2. /\ wproc'[p] = "ran" /\ \A q \in Port \ {p} : wproc'[q] = wproc[q]
        BY <1>0, <3>1
    <3>3. \A q \in Port : \A e : Pending(q, e)' <=> Pending(q, e)
        BY <3>1, <3>2 DEF Pending
    <3>4. PendingAwaited'
        BY <1>1, <3>1, <3>3 DEF RunInv, PendingAwaited
    <3>5. PendingOnce'
        BY <3>1, <3>2 DEF RunInv, PendingOnce
    <3>6. RunsCounted'
      <4> SUFFICES ASSUME NEW e \in Dispatcher, ~Unreachable(e[1])'
                   PROVE  /\ disp'[e] \in {"new", "get", "connect"} => runs'[e] = cutOff'[e]
                          /\ disp'[e] = "await" /\ conn'[e] # "finished" /\ ~Unanswered(e)' =>
                                runs'[e] = cutOff'[e]
                          /\ Unanswered(e)' => runs'[e] = 1 + cutOff'[e]
                          /\ runs'[e] <= 1 + cutOff'[e]
          BY DEF RunsCounted
      <4>1. CASE e # d
        <5>1. runs'[e] = runs[e] /\ (Unanswered(e)' <=> Unanswered(e))
            BY <1>0, <3>1, <3>2, <4>1 DEF Unanswered
        <5> QED BY <1>1, <1>2, <3>1, <4>1, <5>1 DEF RunInv, RunsCounted
      <4>2. CASE e = d
        <5>1. Pending(p, e) /\ disp[e] = "await" /\ conn[e] = "open"
            BY <3>1, <4>2 DEF Pending, RunInv, PendingAwaited
        <5>2. ~Unanswered(e)
          <6> SUFFICES ASSUME NEW q \in Port, wproc[q] = "ran", cur[q] = e PROVE FALSE
              BY DEF Unanswered
          <6>1. q # p /\ Pending(q, e)
              BY <3>1 DEF Pending
          <6> QED BY <5>1, <6>1 DEF RunInv, PendingAwaited
        <5>3. runs[e] = cutOff[e] /\ runs'[e] = runs[e] + 1
            BY <1>0, <1>2, <3>1, <4>2, <5>1, <5>2 DEF RunInv, RunsCounted
        <5>4. Unanswered(e)'
            BY <3>1, <3>2, <4>2 DEF Unanswered
        <5> QED BY <1>0, <1>1, <3>1, <5>1, <5>3, <5>4
      <4> QED BY <4>1, <4>2
    <3> QED BY <3>4, <3>5, <3>6 DEF RunInv
  <2> QED BY <2>1, <2>2
<1>a. CASE WorkerAnswer(p)
  <2> DEFINE d == cur[p]
  <2>1. /\ wproc[p] = "ran" /\ conn' = [conn EXCEPT ![d] = "finished"]
        /\ wproc' = [wproc EXCEPT ![p] = "finish"] /\ UNCHANGED <<backlog, cur, runs, cutOff>>
      BY <1>a DEF WorkerAnswer
  <2>2. /\ wproc'[p] = "finish" /\ \A q \in Port \ {p} : wproc'[q] = wproc[q]
      BY <1>0, <2>1
  <2>3. \A q \in Port, e \in Dispatcher : Pending(q, e)' => Pending(q, e)
      BY <2>1, <2>2 DEF Pending
  <2>4. d \in Dispatcher => \A q \in Port : ~Pending(q, d)'
    <3> SUFFICES ASSUME d \in Dispatcher, NEW q \in Port, Pending(q, d)' PROVE FALSE
        OBVIOUS
    <3>1. Pending(q, d) /\ Pending(p, d)
        BY <2>1, <2>3 DEF Pending
    <3>2. q = p
        BY <3>1 DEF RunInv, PendingAwaited
    <3> QED BY <2>1, <2>2, <3>2 DEF Pending, RunInv, PendingOnce
  <2>5. \A e \in Dispatcher : e # d => conn'[e] = conn[e] /\ (Unanswered(e)' <=> Unanswered(e))
      BY <1>0, <2>1, <2>2 DEF Unanswered
  <2>6. d \in Dispatcher => conn'[d] = "finished" /\ Unanswered(d) /\ ~Unanswered(d)'
      BY <1>0, <2>1, <2>4 DEF Unanswered, Pending
  <2>7. PendingAwaited'
    <3>1. ASSUME NEW q \in Port, NEW e \in Dispatcher, Pending(q, e)' PROVE e # d
        BY <2>1, <2>4, <3>1
    <3> QED BY <1>1, <2>3, <2>5, <3>1 DEF RunInv, PendingAwaited
  <2>8. PendingOnce'
      BY <2>1, <2>2 DEF RunInv, PendingOnce
  <2>9. RunsCounted'
    <3> SUFFICES ASSUME NEW e \in Dispatcher, ~Unreachable(e[1])'
                 PROVE  /\ disp'[e] \in {"new", "get", "connect"} => runs'[e] = cutOff'[e]
                        /\ disp'[e] = "await" /\ conn'[e] # "finished" /\ ~Unanswered(e)' =>
                              runs'[e] = cutOff'[e]
                        /\ Unanswered(e)' => runs'[e] = 1 + cutOff'[e]
                        /\ runs'[e] <= 1 + cutOff'[e]
        BY DEF RunsCounted
    <3>1. CASE e # d
        BY <1>1, <1>2, <2>1, <2>5, <3>1 DEF RunInv, RunsCounted
    <3>2. CASE e = d
      <4>1. disp[e] = "await"
          BY <2>1, <3>2 DEF Pending, RunInv, PendingAwaited
      <4> QED BY <1>1, <1>2, <2>1, <2>6, <3>2, <4>1 DEF RunInv, RunsCounted
    <3> QED BY <3>1, <3>2
  <2> QED BY <2>7, <2>8, <2>9 DEF RunInv
<1>8. CASE WorkerFinish(p)
  <2>1. CASE Exit(p)
      BY <1>4, <1>8, <2>1 DEF WorkerFinish
  <2>2. CASE ~Exit(p)
      BY <1>0, <1>3, <1>8, <2>2 DEF WorkerFinish
  <2> QED BY <2>1, <2>2
<1>9. CASE WorkerKill(p)
    BY <1>4, <1>9 DEF WorkerKill
<1> QED BY <1>5, <1>6, <1>7, <1>a, <1>8, <1>9 DEF Worker

\* The tasks before the workers are those whose threads wait for them, in
\* every reachable state.
THEOREM TasksServedOnce == Spec => []RunInv
<1>1. Init => RunInv
    BY DEF Init, RunInv, PendingAwaited, PendingOnce, RunsCounted, Pending, Unanswered
<1>2. SchedulerInv /\ RunInv /\ [Next]_vars => RunInv'
  <2> SUFFICES ASSUME SchedulerInv, RunInv, [Next]_vars PROVE RunInv'
      OBVIOUS
  <2>1. CASE UNCHANGED vars
    <3>1. UNCHANGED <<conn, cur, backlog, runs, cutOff, node, disp, wproc, client>>
        BY <2>1 DEF vars, workerVars, clusterVars
    <3> QED BY <3>1, RunFrame DEF Unreachable
  <2>2. CASE Next
      BY <2>2, MainRuns, CoreRuns, DispatchRuns, WorkerRuns, ClientRuns DEF Next
  <2> QED BY <2>1, <2>2
<1> QED BY <1>1, <1>2, SchedulerInvariant, PTL DEF Spec

\* A task of a client that has not been killed runs to completion again only
\* if each worker that completed it before was killed before its answer.
THEOREM RepeatsWereCutOff == Spec => []RepeatedOnlyIfCutOff
<1>1. RunInv => RepeatedOnlyIfCutOff
    BY DEF RunInv, RunsCounted, RepeatedOnlyIfCutOff
<1> QED BY <1>1, TasksServedOnce, PTL

-----------------------------------------------------------------------------
(***************************************************************************)
(* Every job is queued, visited and reported finished once                 *)
(***************************************************************************)
JobFinish == Message("job_finish", NoTask)

\* The connections of jobs that wait to be served: one for each job that has
\* no id yet.
RequestsNew ==
    /\ \A i \in DOMAIN requests : requests[i].kind = "job" =>
          jobId[requests[i].id] = -1 /\ client[requests[i].id] # "new"
    /\ \A i, k \in DOMAIN requests :
          requests[i].kind = "job" /\ requests[k].kind = "job" /\ requests[i].id = requests[k].id
          => i = k
    /\ \A j \in Job : client[j] = "new" => jobId[j] = -1
    /\ main \in {"upload", "enqueue"} => jobId[peer] # -1

\* A job that is not in the queue yet.
Unserved(j) == jobId[j] = -1 \/ (main \in {"upload", "enqueue"} /\ peer = j)

\* Core is at a job from its visit to its end.
Serving == {"visit", "spawn", "scan", "uncount", "finish"}

\* Nothing is done for a job before it is queued.
UnservedIdle ==
    \A j \in Job : Unserved(j) =>
        /\ ~Queued(j)
        /\ ~(core \in Serving /\ curJob = j)
        /\ out[j] = <<>> /\ nextTask[j] = 0

QueueDistinct == \A i, k \in DOMAIN JobQueue : JobQueue[i] = JobQueue[k] => i = k

\* The job that Core visits is in the queue until Core looks for it there,
\* and what Core has removed is not there any more.
VisitedQueued ==
    /\ core \in {"visit", "spawn", "scan"} => Queued(curJob)
    /\ core = "uncount" => ~Queued(curJob)

\* As long as JobQueue is unmodified, the iterator is at a linked entry.
NextQueued ==
    "outer" \notin stale /\ core # "uncount" => next.outer = NoJob \/ Queued(next.outer)

\* The socket of a finished job is closed, and Core is not at such a job.
FinishedLeft ==
    \A j \in Job : /\ Sent(j, JobFinish) => j \in closed
                   /\ j \in closed => ~(core \in Serving /\ curJob = j)

OnceInv == /\ RequestsNew /\ UnservedIdle /\ QueueDistinct
           /\ VisitedQueued /\ NextQueued /\ FinishedLeft

\* Steps that leave the queue alone and do nothing for a job that is not in it.
LEMMA OnceFrame ==
    ASSUME OnceInv, UNCHANGED <<JobQueue, closed>>,
           \/ UNCHANGED <<core, curJob>>
           \/ core' \in {"poll", "iter", "dead"}
           \/ core \in {"visit"} /\ core' \in {"spawn", "scan"} /\ UNCHANGED curJob
           \/ core \in {"scan", "uncount"} /\ core' = "finish" /\ UNCHANGED curJob,
           \/ "outer" \in stale' \/ next'.outer = NoJob \/ Queued(next'.outer)
           \/ /\ next'.outer = next.outer /\ ("outer" \in stale => "outer" \in stale')
              /\ core = "uncount" => core' = "uncount",
           \A j \in Job : Unserved(j)' => Unserved(j),
           \A j \in Job : Unserved(j) => out'[j] = out[j] /\ nextTask'[j] = nextTask[j],
           \A j \in Job : Sent(j, JobFinish)' => Sent(j, JobFinish)
    PROVE  UnservedIdle' /\ QueueDistinct' /\ VisitedQueued' /\ NextQueued' /\ FinishedLeft'
<1>1. \A j : Queued(j)' <=> Queued(j)
    BY DEF Queued
<1> USE <1>1 DEF OnceInv
<1>2. UnservedIdle'
    BY DEF UnservedIdle, Serving
<1>3. QueueDistinct' /\ VisitedQueued'
    BY DEF QueueDistinct, VisitedQueued
<1>4. FinishedLeft'
    BY DEF FinishedLeft, Serving
<1>5. NextQueued'
    BY DEF NextQueued
<1> QED BY <1>2, <1>3, <1>4, <1>5

\* What the types say of the parts of the state used here.
LEMMA OnceTypes ==
    ASSUME SchedulerInv
    PROVE  /\ requests \in Seq(RequestType) /\ JobQueue \in Seq(Job)
           /\ jobId \in [Job -> Nat \union {-1}] /\ jobIdNext \in Nat
           /\ client \in [Job -> {"new", "sent", "upload", "wait", "done", "gone", "killed"}]
           /\ out \in [Job -> Seq(MessageType)]
           /\ nextTask \in [Job -> Nat]
           /\ next \in [outer : Job \union {NoJob}, inner : Job \union {NoJob}]
           /\ closed \subseteq Job
    BY DEF SchedulerInv, SchedulerTypeOK, MainTypeOK, CoreTypeOK, ClientTypeOK, RequestType,
       MessageType

\* Serving the oldest connection leaves those of other jobs.
LEMMA ServedOnce ==
    ASSUME requests \in Seq(RequestType), RequestsNew, requests # <<>>
    PROVE  /\ \A i \in DOMAIN Tail(requests) : Tail(requests)[i].kind = "job" =>
                 /\ jobId[Tail(requests)[i].id] = -1 /\ client[Tail(requests)[i].id] # "new"
                 /\ Head(requests).kind = "job" => Tail(requests)[i].id # Head(requests).id
           /\ \A i, k \in DOMAIN Tail(requests) :
                 Tail(requests)[i].kind = "job" /\ Tail(requests)[k].kind = "job"
                    /\ Tail(requests)[i].id = Tail(requests)[k].id => i = k
           /\ Head(requests).kind = "job" =>
                 jobId[Head(requests).id] = -1 /\ client[Head(requests).id] # "new"
<1>1. /\ 1 \in DOMAIN requests /\ Head(requests) = requests[1]
      /\ \A i \in DOMAIN Tail(requests) :
            /\ i + 1 \in DOMAIN requests /\ Tail(requests)[i] = requests[i + 1]
            /\ i \in Nat /\ i + 1 # 1
    BY TailElements
<1>2. ASSUME NEW i \in DOMAIN Tail(requests), NEW k \in DOMAIN Tail(requests), i + 1 = k + 1
      PROVE  i = k
    BY <1>1, <1>2
<1> QED BY <1>1, <1>2 DEF RequestsNew

LEMMA MainOnce ==
    ASSUME SchedulerInv, OnceInv, Main
    PROVE  OnceInv'
<1> USE OnceTypes
<1>1. CASE ServeWorker \/ ServeBroken
  <2>1. /\ main = "accept" /\ main' \in {"add", "dead"} /\ requests # <<>> /\ requests' = Tail(requests)
        /\ UNCHANGED <<jobId, client, JobQueue, core, curJob, out, nextTask, closed, next, stale>>
      BY <1>1 DEF ServeWorker, ServeBroken, queueVars, coreVars
  <2>2. RequestsNew'
      BY <2>1, ServedOnce DEF OnceInv, RequestsNew
  <2> QED BY <2>1, <2>2, OnceFrame DEF OnceInv, Unserved, Sent
<1>2. CASE ServeAdd \/ ServeReply \/ UploadDone \/ UploadLost \/ EnqueueCount \/ EnqueueModify
  <2>1. /\ UNCHANGED <<requests, jobId, client, JobQueue, core, curJob, out, nextTask, closed, next>>
        /\ UNCHANGED stale \/ "outer" \in stale'
        /\ main' \in {"upload", "enqueue"} => main \in {"upload", "enqueue"} /\ UNCHANGED peer
      BY <1>2 DEF ServeAdd, ServeReply, UploadDone, UploadLost, EnqueueCount, EnqueueModify,
         queueVars, coreVars
  <2>2. RequestsNew'
      BY <2>1 DEF OnceInv, RequestsNew
  <2> QED BY <2>1, <2>2, OnceFrame DEF OnceInv, Unserved, Sent
<1>3. CASE ServeJob
  <2> DEFINE j == Head(requests).id
  <2>1. /\ main = "accept" /\ main' = "upload" /\ requests # <<>> /\ requests' = Tail(requests)
        /\ Head(requests).kind = "job" /\ peer' = j
        /\ jobId' = [jobId EXCEPT ![j] = jobIdNext]
        /\ UNCHANGED <<JobQueue, curJob, out, nextTask, closed, next, stale>>
        /\ core' = core \/ (core = "off" /\ core' = "poll")
        /\ client' = client \/ (client[j] = "sent" /\ client' = [client EXCEPT ![j] = "upload"])
      BY <1>3 DEF ServeJob, queueVars
  <2>2. j \in Job /\ jobId[j] = -1 /\ client[j] # "new"
      BY <2>1, ServedOnce, ServedRequest DEF OnceInv, SchedulerInv, SchedulerTypeOK
  <2>3. /\ jobId'[j] # -1 /\ \A k \in Job : k # j => jobId'[k] = jobId[k]
        /\ \A k \in Job : client'[k] = "new" <=> client[k] = "new"
      BY <2>1, <2>2
  <2>4. RequestsNew'
    <3>1. \A i \in DOMAIN requests' : requests'[i].kind = "job" =>
            requests'[i].id \in Job /\ requests'[i].id # j /\ jobId[requests'[i].id] = -1
              /\ client[requests'[i].id] # "new"
        BY <2>1, ServedOnce, ServedRequest DEF OnceInv, SchedulerInv, SchedulerTypeOK
    <3>2. \A i, k \in DOMAIN requests' :
            requests'[i].kind = "job" /\ requests'[k].kind = "job" /\ requests'[i].id = requests'[k].id
            => i = k
        BY <2>1, ServedOnce DEF OnceInv
    <3>3. \A k \in Job : client'[k] = "new" => jobId'[k] = -1
        BY <2>2, <2>3 DEF OnceInv, RequestsNew
    <3> QED BY <2>1, <2>3, <3>1, <3>2, <3>3 DEF RequestsNew
  <2>5. \A k \in Job : Unserved(k)' => Unserved(k)
      BY <2>1, <2>2, <2>3 DEF Unserved
  <2> QED BY <2>1, <2>4, <2>5, OnceFrame DEF OnceInv, Sent
<1>4. CASE EnqueueLink
  <2>1. /\ main = "enqueue" /\ main' = "linked" /\ JobQueue' = Append(JobQueue, peer)
        /\ UNCHANGED <<peer, requests, jobId, client, core, curJob, out, nextTask, closed, next, stale>>
      BY <1>4 DEF EnqueueLink, coreVars
  <2>2. peer \in Job /\ Unserved(peer)
      BY <2>1 DEF SchedulerInv, PeersKnown, Unserved
  <2>3. ~Queued(peer) /\ ~(core \in Serving /\ curJob = peer) /\ ~Sent(peer, JobFinish)
      BY <2>2 DEF OnceInv, UnservedIdle, Sent
  <2>4. /\ DOMAIN JobQueue' = DOMAIN JobQueue \union {Len(JobQueue) + 1}
        /\ \A i \in DOMAIN JobQueue : JobQueue'[i] = JobQueue[i]
        /\ JobQueue'[Len(JobQueue) + 1] = peer
      BY <2>1, <2>2, AppendElements
  <2>5. \A j : Queued(j)' <=> Queued(j) \/ j = peer
      BY <2>4 DEF Queued
  <2>6. RequestsNew'
      BY <2>1 DEF OnceInv, RequestsNew
  <2>7. UnservedIdle'
    <3>1. \A j \in Job : Unserved(j)' => Unserved(j) /\ j # peer
        BY <2>1 DEF Unserved, OnceInv, RequestsNew
    <3> QED BY <2>1, <2>5, <3>1 DEF OnceInv, UnservedIdle
  <2>8. QueueDistinct'
      BY <2>3, <2>4 DEF OnceInv, QueueDistinct, Queued
  <2>9. VisitedQueued'
      BY <2>1, <2>3, <2>5 DEF OnceInv, VisitedQueued, Serving
  <2>10. FinishedLeft'
    <3>1. \A j, x : Sent(j, x)' <=> Sent(j, x)
        BY <2>1 DEF Sent
    <3> QED BY <2>1, <3>1 DEF OnceInv, FinishedLeft
  <2>11. NextQueued'
      BY <2>1, <2>5 DEF OnceInv, NextQueued
  <2> QED BY <2>6, <2>7, <2>8, <2>9, <2>10, <2>11 DEF OnceInv
<1> QED BY <1>1, <1>2, <1>3, <1>4 DEF Main

\* What unlinking an entry leaves of a list without duplicates.
LEMMA UnlinkedElements ==
    ASSUME NEW q \in Seq(Job), \A i, k \in DOMAIN q : q[i] = q[k] => i = k,
           NEW n \in DOMAIN q, NEW r, r = Unlinked(q, n) \/ r = SubSeq(q, 1, n - 1)
    PROVE  /\ r \in Seq(Job)
           /\ \A i, k \in DOMAIN r : r[i] = r[k] => i = k
           /\ \A i \in DOMAIN r : r[i] # q[n] /\ \E k \in DOMAIN q : r[i] = q[k]
<1>1. n \in 1 .. Len(q) /\ Len(q) \in Nat /\ DOMAIN q = 1 .. Len(q)
    OBVIOUS
<1> DEFINE a == SubSeq(q, 1, n - 1)
           b == SubSeq(q, n + 1, Len(q))
<1>2. a \in Seq(Job) /\ Len(a) = n - 1 /\ \A i \in 1 .. n - 1 : a[i] = q[i]
    BY <1>1, SubSeqProperties
<1>3. b \in Seq(Job) /\ Len(b) = Len(q) - n /\ \A i \in 1 .. Len(q) - n : b[i] = q[n + i]
    BY <1>1, SubSeqProperties
<1> HIDE DEF a, b
<1>4. CASE r = a
  <2>1. DOMAIN r = 1 .. n - 1 /\ \A i \in DOMAIN r : i \in DOMAIN q /\ i # n /\ r[i] = q[i]
      BY <1>1, <1>2, <1>4
  <2> QED BY <1>2, <1>4, <2>1
<1>5. CASE r = a \o b
  <2>0. a \o b \in Seq(Job) /\ Len(a \o b) = Len(a) + Len(b)
      BY <1>2, <1>3, ConcatProperties
  <2>1. r \in Seq(Job) /\ Len(r) = Len(q) - 1
      BY <1>1, <1>2, <1>3, <1>5, <2>0
  <2> DEFINE old(i) == IF i < n THEN i ELSE i + 1
  <2>2. ASSUME NEW i \in DOMAIN r PROVE old(i) \in DOMAIN q /\ old(i) # n /\ r[i] = q[old(i)]
    <3>1. i \in 1 .. Len(a) + Len(b)
        BY <1>1, <1>2, <1>3, <2>1
    <3>2. r[i] = IF i <= Len(a) THEN a[i] ELSE b[i - Len(a)]
        BY <1>2, <1>3, <1>5, <3>1, ConcatProperties
    <3>3. CASE i < n
        BY <1>1, <1>2, <3>1, <3>2, <3>3
    <3>4. CASE ~(i < n)
      <4>1. i - (n - 1) \in 1 .. Len(q) - n /\ n + (i - (n - 1)) = i + 1
          BY <1>1, <1>2, <1>3, <3>1, <3>4
      <4>2. r[i] = b[i - (n - 1)]
          BY <1>1, <1>2, <3>1, <3>2, <3>4
      <4>3. r[i] = q[i + 1]
          BY <1>3, <4>1, <4>2
      <4> QED BY <1>1, <1>2, <1>3, <3>1, <3>4, <4>3
    <3> QED BY <3>3, <3>4
  <2>3. ASSUME NEW i \in DOMAIN r, NEW k \in DOMAIN r, old(i) = old(k) PROVE i = k
      BY <1>1, <2>1, <2>3
  <2> HIDE DEF old
  <2> QED BY <2>1, <2>2, <2>3
<1> QED BY <1>4, <1>5 DEF Unlinked, a, b

\* What a write, if there is one, adds to what was sent.
LEMMA WrittenSends ==
    ASSUME SchedulerInv, NEW j \in Job, NEW m \in MessageType, Write(j, m) \/ UNCHANGED out
    PROVE  \A k \in Job : \A x : Sent(k, x)' => Sent(k, x) \/ (k = j /\ x = m)
<1>1. CASE Write(j, m)
    BY <1>1, WriteSends DEF SchedulerInv
<1>2. CASE UNCHANGED out
    BY <1>2 DEF Sent
<1> QED BY <1>1, <1>2

LEMMA CoreOnce ==
    ASSUME SchedulerInv, OnceInv, Core
    PROVE  OnceInv'
<1> USE OnceTypes
<1>0. /\ UNCHANGED <<requests, jobId, client, peer>>
      /\ main' = main \/ (main = "linked" /\ main' = "counted")
    BY DEF Core, CorePoll, CoreIterationEnds, CoreNext, CoreAnnounce, CoreSpawn,
        CoreJoin, CoreUnlink, CoreMiss, CoreUncount, CoreFinish, CoreFrame, mainVars
<1>1. RequestsNew' /\ \A j \in Job : Unserved(j)' <=> Unserved(j)
    BY <1>0 DEF OnceInv, RequestsNew, Unserved
<1>2. CASE CorePoll \/ CoreIterationEnds \/ CoreJoin \/ CoreMiss \/ CoreUncount
  <2>1. /\ UNCHANGED <<JobQueue, out, nextTask, closed>>
        /\ \/ core' \in {"poll", "iter", "dead"}
           \/ core = "visit" /\ core' = "scan" /\ UNCHANGED curJob
           \/ core \in {"scan", "uncount"} /\ core' = "finish" /\ UNCHANGED curJob
      BY <1>2 DEF CorePoll, CoreIterationEnds, CoreJoin, CoreMiss, CoreUncount, CoreDies, queueVars
  <2>2. \/ "outer" \in stale' \/ next'.outer = NoJob \/ Queued(next'.outer)
        \/ /\ next'.outer = next.outer /\ ("outer" \in stale => "outer" \in stale')
           /\ core = "uncount" => core' = "uncount"
    <3>1. CASE CorePoll
        BY <3>1, IteratorEntries DEF CorePoll, Queued
    <3>2. CASE CoreIterationEnds \/ CoreUncount
        BY <3>2 DEF CoreIterationEnds, CoreUncount, NoIterator
    <3>3. CASE CoreJoin \/ CoreMiss
        BY <3>3 DEF CoreJoin, CoreMiss, CoreDies, NoIterator, queueVars
    <3> QED BY <1>2, <3>1, <3>2, <3>3
  <2> QED BY <1>1, <2>1, <2>2, OnceFrame DEF OnceInv, Sent
<1>3. CASE CoreNext
  <2>1. UNCHANGED <<JobQueue, out, nextTask, closed, stale>>
      BY <1>3 DEF CoreNext, queueVars
  <2>2. CASE core' = "dead" /\ next' = NoIterator
      BY <1>1, <2>1, <2>2, OnceFrame DEF OnceInv, Sent, NoIterator
  <2>3. CASE /\ "outer" \notin stale /\ next.outer \notin closed \union {NoJob}
             /\ core' = "visit" /\ curJob' = next.outer
             /\ \/ next' = [next EXCEPT !.outer = NoJob]
                \/ \E j \in Followers(next.outer) : next' = [next EXCEPT !.outer = j]
    <3>1. core = "iter"
        BY <1>3 DEF CoreNext
    <3>2. Queued(curJob')
        BY <2>3, <3>1 DEF OnceInv, NextQueued
    <3>3. \A j : (Queued(j)' <=> Queued(j)) /\ \A x : (Sent(j, x)' <=> Sent(j, x))
        BY <2>1 DEF Queued, Sent
    <3>4. UnservedIdle'
        BY <1>1, <2>1, <3>2, <3>3 DEF OnceInv, UnservedIdle
    <3>5. QueueDistinct' /\ VisitedQueued' /\ FinishedLeft'
        BY <2>1, <2>3, <3>2, <3>3 DEF OnceInv, QueueDistinct, VisitedQueued, FinishedLeft
    <3>6. next'.outer = NoJob \/ Queued(next'.outer)
        BY <2>3, IteratorEntries DEF Queued
    <3>7. NextQueued'
        BY <3>3, <3>6 DEF NextQueued
    <3> QED BY <1>1, <3>4, <3>5, <3>7 DEF OnceInv
  <2> QED BY <1>3, <2>2, <2>3, Zenon DEF CoreNext, CoreDies
<1>4. CASE CoreAnnounce
  <2>1. curJob \in Job /\ core = "visit" /\ core' \in {"spawn", "dead"}
        /\ UNCHANGED <<JobQueue, curJob, nextTask, closed, stale>>
        /\ (Write(curJob, Message("job_start", NoTask)) \/ UNCHANGED out)
        /\ (next' = next \/ next' = NoIterator)
      BY <1>4 DEF CoreAnnounce, CoreDies, SchedulerInv, VisitInRange, queueVars
  <2>2. \A j \in Job : Sent(j, JobFinish)' => Sent(j, JobFinish)
      BY <2>1, WrittenSends, Messages DEF JobFinish
  <2>3. \A j \in Job : Unserved(j) => j # curJob
      BY <2>1 DEF OnceInv, UnservedIdle, Serving
  <2>4. \A j \in Job : Unserved(j) => out'[j] = out[j]
      BY <2>1, <2>3 DEF Write
  <2> QED BY <1>1, <2>1, <2>2, <2>4, OnceFrame DEF OnceInv, NoIterator
<1>5. CASE CoreSpawn
  <2>1. /\ core \in {"visit", "spawn"} /\ core' \in {"iter", "dead"}
        /\ UNCHANGED <<JobQueue, out, closed, stale>>
        /\ nextTask' = nextTask \/ nextTask' = [nextTask EXCEPT ![curJob] = nextTask[curJob] + 1]
        /\ next' = next \/ next' = NoIterator
    <3>1. core \in {"visit", "spawn"} /\ UNCHANGED <<JobQueue, out, closed, stale>>
        BY <1>5 DEF CoreSpawn, queueVars
    <3>2. \/ CoreDies /\ UNCHANGED nextTask
          \/ /\ core' = "iter" /\ UNCHANGED next
             /\ nextTask' = [nextTask EXCEPT ![curJob] = nextTask[curJob] + 1]
        BY <1>5, Zenon DEF CoreSpawn
    <3> QED BY <3>1, <3>2 DEF CoreDies
  <2>2. \A j \in Job : Unserved(j) => j # curJob
      BY <2>1 DEF OnceInv, UnservedIdle, Serving
  <2>3. \A j \in Job : Unserved(j) => nextTask'[j] = nextTask[j]
      BY <2>1, <2>2
  <2> QED BY <1>1, <2>1, <2>3, OnceFrame DEF OnceInv, Sent, NoIterator
<1>6. CASE CoreUnlink
  <2>1. core = "scan" /\ core' = "uncount" /\ UNCHANGED <<curJob, out, nextTask, closed>>
      BY <1>6 DEF CoreUnlink
  <2>3. OnceInv'
    <3>1. PICK n \in DOMAIN JobQueue :
            /\ JobQueue[n] = curJob
            /\ JobQueue' = Unlinked(JobQueue, n) \/ JobQueue' = SubSeq(JobQueue, 1, n - 1)
        BY <1>6 DEF CoreUnlink, Finds
    <3>a. /\ \A i, k \in DOMAIN JobQueue' : JobQueue'[i] = JobQueue'[k] => i = k
          /\ \A i \in DOMAIN JobQueue' :
                JobQueue'[i] # curJob /\ \E k \in DOMAIN JobQueue : JobQueue'[i] = JobQueue[k]
      <4>1. \A i, k \in DOMAIN JobQueue : JobQueue[i] = JobQueue[k] => i = k
          BY DEF OnceInv, QueueDistinct
      <4> DEFINE q == JobQueue
                 r == JobQueue'
      <4>2. q \in Seq(Job) /\ n \in DOMAIN q /\ q[n] = curJob
          BY <3>1
      <4>3. r = Unlinked(q, n) \/ r = SubSeq(q, 1, n - 1)
          BY <3>1
      <4> HIDE DEF q, r
      <4>4. /\ \A i, k \in DOMAIN r : r[i] = r[k] => i = k
            /\ \A i \in DOMAIN r : r[i] # q[n] /\ \E k \in DOMAIN q : r[i] = q[k]
        <5>1. \A i, k \in DOMAIN q : q[i] = q[k] => i = k
            BY <4>1 DEF q
        <5> HIDE OnceTypes
        <5> QED BY <4>2, <4>3, <5>1, UnlinkedElements
      <4> QED BY <4>2, <4>4 DEF q, r
    <3>2. /\ QueueDistinct' /\ ~Queued(curJob)'
          /\ \A j : Queued(j)' => Queued(j)
        BY <2>1, <3>a DEF QueueDistinct, Queued
    <3>3. \A j, x : Sent(j, x)' <=> Sent(j, x)
        BY <2>1 DEF Sent
    <3>4. UnservedIdle'
        BY <1>1, <2>1, <3>2 DEF OnceInv, UnservedIdle, Serving
    <3>5. VisitedQueued' /\ NextQueued'
        BY <2>1, <3>2 DEF VisitedQueued, NextQueued
    <3>6. FinishedLeft'
        BY <2>1, <3>3 DEF OnceInv, FinishedLeft, Serving
    <3> QED BY <1>1, <3>2, <3>4, <3>5, <3>6 DEF OnceInv
  <2> QED BY <2>3
<1>7. CASE CoreFinish
  <2>1. /\ curJob \in Job /\ core = "finish" /\ UNCHANGED <<JobQueue, curJob, nextTask, stale>>
        /\ \/ core' = "dead" /\ UNCHANGED <<out, closed>> /\ next' = NoIterator
           \/ /\ core' = "iter" /\ Write(curJob, JobFinish)
              /\ closed' = closed \union {curJob} /\ UNCHANGED next
      BY <1>7 DEF CoreFinish, CoreDies, SchedulerInv, ThreadsInOrder, queueVars, JobFinish
  <2>2. \A j \in Job : Sent(j, JobFinish)' => Sent(j, JobFinish) \/ (j = curJob /\ j \in closed')
    <3>1. CASE UNCHANGED out
        BY <3>1 DEF Sent
    <3>2. CASE Write(curJob, JobFinish) /\ closed' = closed \union {curJob}
        BY <2>1, <3>2, WrittenSends, Messages DEF JobFinish
    <3> QED BY <2>1, <3>1, <3>2
  <2>3. \A j : Queued(j)' <=> Queued(j)
      BY <2>1 DEF Queued
  <2>4. UnservedIdle'
    <3>1. \A j \in Job : Unserved(j) => j # curJob
        BY <2>1 DEF OnceInv, UnservedIdle, Serving
    <3>2. \A j \in Job : Unserved(j) => out'[j] = out[j]
        BY <2>1, <3>1 DEF Write
    <3> QED BY <1>1, <2>1, <2>3, <3>2 DEF OnceInv, UnservedIdle, Serving
  <2>5. QueueDistinct' /\ VisitedQueued'
      BY <2>1 DEF OnceInv, QueueDistinct, VisitedQueued
  <2>6. FinishedLeft'
      BY <2>1, <2>2 DEF OnceInv, FinishedLeft, Serving
  <2>7. NextQueued'
      BY <2>1, <2>3 DEF OnceInv, NextQueued, NoIterator
  <2> QED BY <1>1, <2>4, <2>5, <2>6, <2>7 DEF OnceInv
<1> QED BY <1>2, <1>3, <1>4, <1>5, <1>6, <1>7 DEF Core

LEMMA DispatchOnce ==
    ASSUME SchedulerInv, OnceInv, NEW d \in Dispatcher, DispatchTask(d)
    PROVE  OnceInv'
<1> USE OnceTypes
<1>1. UNCHANGED <<requests, jobId, client, peer, main, JobQueue, core, curJob, nextTask, closed, next, stale>>
    BY DEF DispatchTask, GetFree, Connect, Receive, PrintOpcode, PrintText, Close, Release,
       DispFrame, mainVars, queueVars, coreVars
<1>2. /\ disp[d] # "new"
      /\ \/ UNCHANGED out
         \/ Write(d[1], Message("job_print", NoTask))
         \/ Write(d[1], Message("text", d))
    BY DEF DispatchTask, GetFree, Connect, Receive, PrintOpcode, PrintText, Close, Release
<1>3. d[1] \in Job /\ d[2] \in Nat /\ nextTask[d[1]] # 0
  <2>1. d[1] \in Job /\ d[2] \in Nat
      BY SchedulerAssumption
  <2>2. ~(nextTask[d[1]] <= d[2])
      BY <1>2 DEF SchedulerInv, ThreadsInOrder
  <2> QED BY <2>1, <2>2
<1>4. \A j \in Job : Unserved(j) => j # d[1]
    BY <1>3 DEF OnceInv, UnservedIdle
<1>5. \A j \in Job : Unserved(j) => out'[j] = out[j]
    BY <1>2, <1>4 DEF Write
<1>6. \A j \in Job : Sent(j, JobFinish)' => Sent(j, JobFinish)
    BY <1>2, <1>3, WrittenSends, Messages DEF JobFinish
<1>7. RequestsNew' /\ \A j \in Job : Unserved(j)' <=> Unserved(j)
    BY <1>1 DEF OnceInv, RequestsNew, Unserved
<1> QED BY <1>1, <1>5, <1>6, <1>7, OnceFrame DEF OnceInv

LEMMA WorkerOnce ==
    ASSUME SchedulerInv, OnceInv, NEW p \in Port, WorkerStart(p) \/ Worker(p) \/ WorkerKill(p)
    PROVE  OnceInv'
<1> USE OnceTypes
<1>1. UNCHANGED <<jobId, client, peer, main, JobQueue, core, curJob, nextTask, out, closed, next, stale>>
    BY DEF Worker, WorkerStart, WorkerAccept, WorkerExecute, WorkerAnswer, WorkerFinish, WorkerKill,
        WorkerFrame, queueVars, coreVars
<1>2. \A i \in DOMAIN requests' : requests'[i].kind = "job" =>
        i \in DOMAIN requests /\ requests'[i] = requests[i]
  <2>1. CASE WorkerStart(p)
    <3> DEFINE r == [kind |-> "worker", id |-> p]
    <3>1. r \in RequestType /\ r.kind # "job" /\ requests' = Append(requests, r)
        BY <2>1 DEF RequestType, WorkerStart
    <3> HIDE DEF r
    <3> QED BY <3>1, AppendElements
  <2>2. CASE Worker(p)
      BY <2>2 DEF Worker, WorkerAccept, WorkerExecute, WorkerAnswer, WorkerFinish
  <2>3. CASE WorkerKill(p)
      BY <2>3 DEF WorkerKill
  <2> QED BY <2>1, <2>2, <2>3
<1>3. RequestsNew' /\ \A j \in Job : Unserved(j)' <=> Unserved(j)
    BY <1>1, <1>2 DEF OnceInv, RequestsNew, Unserved
<1> QED BY <1>1, <1>3, OnceFrame DEF OnceInv, Sent

LEMMA ClientOnce ==
    ASSUME SchedulerInv, OnceInv, NEW j \in Job, ClientSubmit(j) \/ Client(j) \/ ClientKill(j)
    PROVE  OnceInv'
<1> USE OnceTypes
<1>1. UNCHANGED <<jobId, peer, main, JobQueue, core, curJob, nextTask, out, closed, next, stale>>
    BY DEF Client, ClientSubmit, ClientUpload, ClientDone, ClientKill, ClientFrame, queueVars, coreVars
<1>2. RequestsNew'
  <2>1. CASE ClientSubmit(j)
    <3> DEFINE r == [kind |-> "job", id |-> j]
    <3>1. /\ r \in RequestType /\ r.kind = "job" /\ r.id = j /\ requests' = Append(requests, r)
          /\ client[j] = "new" /\ client' = [client EXCEPT ![j] = "sent"]
        BY <2>1 DEF RequestType, ClientSubmit
    <3> HIDE DEF r
    <3>2. /\ DOMAIN requests' = DOMAIN requests \union {Len(requests) + 1}
          /\ \A i \in DOMAIN requests : requests'[i] = requests[i]
          /\ requests'[Len(requests) + 1] = r
        BY <3>1, AppendElements
    <3>3. \A i \in DOMAIN requests : requests[i].kind = "job" => requests[i].id \in Job /\ requests[i].id # j
        BY <3>1 DEF OnceInv, RequestsNew, SchedulerInv, PeersKnown
    <3>4. jobId[j] = -1 /\ client'[j] # "new" /\ \A k \in Job : client'[k] = "new" => client[k] = "new"
        BY <3>1 DEF OnceInv, RequestsNew
    <3>5. \A i \in DOMAIN requests' : requests'[i].kind = "job" =>
            jobId'[requests'[i].id] = -1 /\ client'[requests'[i].id] # "new"
        BY <1>1, <3>1, <3>2, <3>3, <3>4 DEF OnceInv, RequestsNew
    <3>6. \A i, k \in DOMAIN requests' :
            requests'[i].kind = "job" /\ requests'[k].kind = "job" /\ requests'[i].id = requests'[k].id
            => i = k
        BY <3>1, <3>2, <3>3 DEF OnceInv, RequestsNew
    <3> QED BY <1>1, <3>4, <3>5, <3>6 DEF OnceInv, RequestsNew
  <2>2. CASE Client(j) \/ ClientKill(j)
    <3>1. UNCHANGED requests /\ \A k \in Job : client'[k] = "new" <=> client[k] = "new"
        BY <2>2 DEF Client, ClientUpload, ClientDone, ClientKill
    <3>2. \A i \in DOMAIN requests : requests[i].kind = "job" => requests[i].id \in Job
        BY DEF SchedulerInv, PeersKnown
    <3> QED BY <1>1, <3>1, <3>2 DEF OnceInv, RequestsNew
  <2> QED BY <2>1, <2>2
<1> QED BY <1>1, <1>2, OnceFrame DEF OnceInv, Unserved, Sent

\* A job is linked into JobQueue once, Core is only at jobs that are linked
\* and whose sockets are open, and no job is reported finished twice, although
\* list and size are updated without a common lock.
THEOREM JobsServedOnce == Spec => []OnceInv
<1>1. Init => OnceInv
  <2> SUFFICES ASSUME Init PROVE OnceInv
      OBVIOUS
  <2>1. RequestsNew /\ QueueDistinct /\ VisitedQueued
      BY DEF Init, RequestsNew, QueueDistinct, VisitedQueued
  <2>4. NextQueued
      BY DEF Init, NextQueued, NoIterator
  <2>2. UnservedIdle
      BY DEF Init, UnservedIdle, Queued, Serving
  <2>3. FinishedLeft
      BY DEF Init, FinishedLeft, Sent
  <2> QED BY <2>1, <2>2, <2>3, <2>4 DEF OnceInv
<1>2. SchedulerInv /\ OnceInv /\ [Next]_vars => OnceInv'
  <2> SUFFICES ASSUME SchedulerInv, OnceInv, [Next]_vars PROVE OnceInv'
      OBVIOUS
  <2>1. CASE UNCHANGED vars
    <3>1. UNCHANGED <<requests, jobId, client, peer, main, JobQueue, core, curJob, nextTask, out,
                      closed, next, stale>>
        BY <2>1 DEF vars, mainVars, queueVars, coreVars
    <3> QED BY <3>1, OnceFrame DEF OnceInv, Unserved, Sent, RequestsNew
  <2>2. CASE Next
      BY <2>2, MainOnce, CoreOnce, DispatchOnce, WorkerOnce, ClientOnce DEF Next
  <2> QED BY <2>1, <2>2
<1> QED BY <1>1, <1>2, SchedulerInvariant, PTL DEF Spec

-----------------------------------------------------------------------------
(***************************************************************************)
(* No accepted job disappears, but for the race on JobQueue                *)
(***************************************************************************)

\* What JobsAccountedFor says of one job.
Accounted(j) ==
    \/ Queued(j) \/ j \in lost \/ j \in closed
    \/ curJob = j /\ core \in {"uncount", "finish", "dead"}

\* Unlinking an entry keeps the others.
LEMMA UnlinkedKeeps ==
    ASSUME NEW q \in Seq(Job), NEW n \in DOMAIN q, NEW k \in DOMAIN q
    PROVE  /\ k # n => \E i \in DOMAIN Unlinked(q, n) : Unlinked(q, n)[i] = q[k]
           /\ k < n => /\ k \in DOMAIN SubSeq(q, 1, n - 1)
                       /\ SubSeq(q, 1, n - 1)[k] = q[k]
<1>1. n \in 1 .. Len(q) /\ k \in 1 .. Len(q) /\ Len(q) \in Nat
    OBVIOUS
<1> DEFINE a == SubSeq(q, 1, n - 1)
           b == SubSeq(q, n + 1, Len(q))
<1>2. a \in Seq(Job) /\ Len(a) = n - 1 /\ \A i \in 1 .. n - 1 : a[i] = q[i]
    BY <1>1, SubSeqProperties
<1>3. b \in Seq(Job) /\ Len(b) = Len(q) - n /\ \A i \in 1 .. Len(q) - n : b[i] = q[n + i]
    BY <1>1, SubSeqProperties
<1>4. Unlinked(q, n) = a \o b
    BY DEF Unlinked
<1> HIDE DEF a, b
<1>5. /\ a \o b \in Seq(Job) /\ Len(a \o b) = Len(q) - 1
      /\ DOMAIN (a \o b) = 1 .. Len(q) - 1
      /\ \A i \in 1 .. Len(q) - 1 : (a \o b)[i] = IF i <= n - 1 THEN a[i] ELSE b[i - (n - 1)]
  <2>1. /\ a \o b \in Seq(Job) /\ Len(a \o b) = Len(a) + Len(b)
        /\ \A i \in 1 .. Len(a) + Len(b) :
              (a \o b)[i] = IF i <= Len(a) THEN a[i] ELSE b[i - Len(a)]
      BY <1>2, <1>3, ConcatProperties
  <2>2. Len(a) + Len(b) = Len(q) - 1 /\ Len(a) = n - 1
      BY <1>1, <1>2, <1>3
  <2> QED BY <2>1, <2>2
<1>6. CASE k < n
  <2>1. k \in 1 .. n - 1 /\ k \in 1 .. Len(q) - 1
      BY <1>1, <1>6
  <2>2. k \in DOMAIN (a \o b) /\ (a \o b)[k] = q[k]
      BY <1>2, <1>5, <2>1
  <2>3. k \in DOMAIN a /\ a[k] = q[k]
      BY <1>2, <2>1
  <2> QED BY <1>4, <2>2, <2>3 DEF a
<1>7. CASE n < k
  <2>1. k - 1 \in 1 .. Len(q) - 1 /\ ~(k - 1 <= n - 1) /\ k - n \in 1 .. Len(q) - n
        /\ (k - 1) - (n - 1) = k - n /\ n + (k - n) = k
      BY <1>1, <1>7
  <2>2. k - 1 \in DOMAIN (a \o b) /\ (a \o b)[k - 1] = b[k - n]
    <3>1. (a \o b)[k - 1] = b[(k - 1) - (n - 1)]
        BY <1>5, <2>1
    <3> QED BY <1>5, <2>1, <3>1
  <2>3. b[k - n] = q[k]
      BY <1>3, <2>1
  <2> QED BY <1>1, <1>4, <1>7, <2>2, <2>3
<1> QED BY <1>1, <1>6, <1>7

\* A step of Core keeps a job accounted for.
LEMMA CoreAccounts ==
    ASSUME SchedulerInv, Core, NEW j \in Job, Accounted(j)
    PROVE  Accounted(j)'
<1>1. CASE CorePoll \/ CoreIterationEnds \/ CoreNext \/ CoreAnnounce \/ CoreJoin
  <2>1. UNCHANGED <<JobQueue, lost, closed>> /\ core \notin {"uncount", "finish", "dead"}
      BY <1>1 DEF CorePoll, CoreIterationEnds, CoreNext, CoreAnnounce, CoreJoin, queueVars
  <2> QED BY <2>1 DEF Accounted, Queued
<1>2. CASE CoreSpawn \/ CoreMiss
  <2>1. UNCHANGED <<JobQueue, lost, closed>> /\ core \notin {"uncount", "finish", "dead"}
      BY <1>2, Zenon DEF CoreSpawn, CoreMiss, queueVars
  <2> QED BY <2>1 DEF Accounted, Queued
<1>3. CASE CoreUncount
    BY <1>3 DEF CoreUncount, Accounted, Queued
<1>4. CASE CoreFinish
  <2>1. /\ UNCHANGED <<JobQueue, lost, curJob>> /\ closed \subseteq closed'
        /\ core = "finish" /\ (core' = "dead" \/ curJob \in closed')
      BY <1>4 DEF CoreFinish, CoreDies, queueVars
  <2> QED BY <2>1 DEF Accounted, Queued
<1>5. CASE CoreUnlink
  <2>1. /\ core = "scan" /\ core' = "uncount" /\ UNCHANGED <<curJob, closed>>
        /\ lost \subseteq lost' /\ JobQueue \in Seq(Job)
      BY <1>5 DEF CoreUnlink, SchedulerInv, SchedulerTypeOK, CoreTypeOK
  <2>2. PICK n \in DOMAIN JobQueue :
          /\ JobQueue[n] = curJob
          /\ \/ JobQueue' = Unlinked(JobQueue, n)
             \/ /\ n = Len(JobQueue) - 1 /\ JobQueue[n + 1] = peer
                /\ JobQueue' = SubSeq(JobQueue, 1, n - 1) /\ peer \in lost'
      BY <1>5 DEF CoreUnlink, Finds
  <2>3. CASE j \in lost \/ j \in closed
      BY <2>1, <2>3 DEF Accounted
  <2>4. CASE Queued(j)
    <3>1. PICK k \in DOMAIN JobQueue : JobQueue[k] = j
        BY <2>4 DEF Queued
    <3>2. CASE k = n
        BY <2>1, <2>2, <3>1, <3>2 DEF Accounted
    <3>3. CASE k # n /\ JobQueue' = Unlinked(JobQueue, n)
      <4>1. \E i \in DOMAIN Unlinked(JobQueue, n) : Unlinked(JobQueue, n)[i] = JobQueue[k]
          BY <2>1, <3>3, UnlinkedKeeps
      <4> QED BY <3>1, <3>3, <4>1 DEF Accounted, Queued
    <3>4. CASE /\ k # n /\ n = Len(JobQueue) - 1 /\ JobQueue[n + 1] = peer
               /\ JobQueue' = SubSeq(JobQueue, 1, n - 1) /\ peer \in lost'
      <4>1. k < n \/ k = n + 1
          BY <2>1, <3>4
      <4>2. CASE k = n + 1
          BY <3>1, <3>4, <4>2 DEF Accounted
      <4>3. CASE k < n
        <5>1. k \in DOMAIN SubSeq(JobQueue, 1, n - 1) /\ SubSeq(JobQueue, 1, n - 1)[k] = JobQueue[k]
            BY <2>1, <4>3, UnlinkedKeeps
        <5> QED BY <3>1, <3>4, <5>1 DEF Accounted, Queued
      <4> QED BY <4>1, <4>2, <4>3
    <3> QED BY <2>2, <3>2, <3>3, <3>4
  <2> QED BY <2>1, <2>3, <2>4 DEF Accounted
<1> QED BY <1>1, <1>2, <1>3, <1>4, <1>5 DEF Core

\* An accepted job is in JobQueue until Core takes it out to finish it, or the
\* race of createNewJob and removeJobfromQueue drops it.
THEOREM JobsAreAccountedFor == Spec => []JobsAccountedFor
<1>1. Init => JobsAccountedFor
    BY DEF Init, JobsAccountedFor, Accepted
<1>2. SchedulerInv /\ JobsAccountedFor /\ [Next]_vars => JobsAccountedFor'
  <2> SUFFICES ASSUME SchedulerInv, JobsAccountedFor, [Next]_vars, NEW j \in Job, Accepted(j)'
               PROVE  Accounted(j)'
      BY DEF JobsAccountedFor, Accounted
  <2>0. Accepted(j) => Accounted(j)
      BY DEF JobsAccountedFor, Accounted
  <2>1. CASE EnqueueLink
    <3>1. /\ main = "enqueue" /\ JobQueue' = Append(JobQueue, peer) /\ JobQueue \in Seq(Job)
          /\ UNCHANGED <<jobId, peer, lost, closed, core, curJob>> /\ peer \in Job
        BY <2>1 DEF EnqueueLink, coreVars, SchedulerInv, SchedulerTypeOK, CoreTypeOK, PeersKnown
    <3>2. \A k \in Job : Queued(k) \/ k = peer => Queued(k)'
      <4>1. /\ DOMAIN JobQueue' = DOMAIN JobQueue \union {Len(JobQueue) + 1}
            /\ \A i \in DOMAIN JobQueue : JobQueue'[i] = JobQueue[i]
            /\ JobQueue'[Len(JobQueue) + 1] = peer
          BY <3>1, AppendElements
      <4> QED BY <4>1 DEF Queued
    <3>3. CASE j = peer
        BY <3>2, <3>3 DEF Accounted
    <3>4. CASE j # peer
        BY <2>0, <3>1, <3>2, <3>4 DEF Accepted, Accounted
    <3> QED BY <3>3, <3>4
  <2>2. CASE Main /\ ~EnqueueLink
    <3>1. /\ UNCHANGED <<JobQueue, lost, closed, curJob>>
          /\ core' = core \/ (core = "off" /\ core' = "poll")
        BY <2>2 DEF Main, ServeWorker, ServeAdd, ServeReply, ServeBroken, ServeJob, UploadDone,
          UploadLost, EnqueueCount, EnqueueModify, queueVars, coreVars
    <3>2. Accepted(j)
      <4>1. CASE ServeJob
          BY <4>1, ServedRequest DEF ServeJob, Accepted, SchedulerInv, SchedulerTypeOK, MainTypeOK
      <4>2. CASE ~ServeJob
          BY <2>2, <4>2 DEF Main, ServeWorker, ServeAdd, ServeReply, ServeBroken, UploadDone,
            UploadLost, EnqueueCount, EnqueueModify, Accepted
      <4> QED BY <4>1, <4>2
    <3> QED BY <2>0, <3>1, <3>2 DEF Accounted, Queued
  <2>3. CASE Core
    <3>1. UNCHANGED <<jobId, peer>> /\ (main' = main \/ main = "linked")
        BY <2>3 DEF Core, CorePoll, CoreIterationEnds, CoreNext, CoreAnnounce, CoreSpawn,
           CoreJoin, CoreUnlink, CoreMiss, CoreUncount, CoreFinish, CoreFrame, mainVars
    <3> QED BY <2>0, <2>3, <3>1, CoreAccounts DEF Accepted
  <2>4. ASSUME UNCHANGED <<jobId, peer, main, JobQueue, lost, closed, core, curJob>>
        PROVE  Accounted(j)'
      BY <2>0, <2>4 DEF Accepted, Accounted, Queued
  <2>5. CASE \E d \in Dispatcher : DispatchTask(d)
      BY <2>4, <2>5 DEF DispatchTask, GetFree, Connect, Receive, PrintOpcode, PrintText, Close,
         Release, DispFrame, mainVars, queueVars, coreVars
  <2>6. CASE \E p \in Port : WorkerStart(p) \/ Worker(p) \/ WorkerKill(p)
      BY <2>4, <2>6 DEF Worker, WorkerStart, WorkerAccept, WorkerExecute, WorkerAnswer,
         WorkerFinish, WorkerKill, WorkerFrame, queueVars, coreVars
  <2>7. CASE \E k \in Job : ClientSubmit(k) \/ Client(k) \/ ClientKill(k)
      BY <2>4, <2>7 DEF Client, ClientSubmit, ClientUpload, ClientDone, ClientKill, ClientFrame,
         queueVars, coreVars
  <2>8. CASE UNCHANGED vars
      BY <2>4, <2>8 DEF vars, mainVars, queueVars, coreVars
  <2> QED BY <2>1, <2>2, <2>3, <2>5, <2>6, <2>7, <2>8 DEF Next
<1> QED BY <1>1, <1>2, SchedulerInvariant, PTL DEF Spec

-----------------------------------------------------------------------------
(***************************************************************************)
(* The protocol on a client's stream                                       *)
(***************************************************************************)
Finish == {"close", "add", "done"}

\* The stream s of job j follows the protocol.
Protocol(s, j) ==
    \A i \in DOMAIN s :
        /\ s[i].op = "job_start" <=> i = 1 /\ NumTasks[j] > 0
        /\ s[i].op = "job_print" => i = Len(s) \/ s[i + 1].op = "text"
        /\ s[i].op = "text" => /\ s[i - 1].op = "job_print"
                               /\ s[i].task \in TasksOf(j)
                               /\ \A k \in DOMAIN s : s[k] = s[i] => k = i
        /\ s[i].op = "job_finish" => i = Len(s)
        /\ s[i].op # "text" => s[i].task = NoTask

EndsInPrint(s) == s # <<>> /\ s[Len(s)].op = "job_print"

\* Before its first task is dispatched, a job's client has heard nothing, or
\* Core has just announced the job, or died of it.
NothingBeforeStart ==
    \A j \in Job : nextTask[j] = 0 /\ NumTasks[j] > 0 =>
        out[j] = <<>> \/ (core = "spawn" /\ curJob = j) \/ core = "dead"

\* lock1: one thread at most is between an opcode and its text, and it is the
\* one whose opcode is the last item of its client's stream.
OneText == \A d, e \in Dispatcher : disp[d] = "text" /\ disp[e] = "text" => d = e
PrintIsPending ==
    \A j \in Job : ~Unreachable(j) =>
        (EndsInPrint(out[j]) <=> \E d \in TasksOf(j) : disp[d] = "text")

\* A thread that has told its client of its task only has its node to return.
ReportedEnds ==
    \A d \in Dispatcher :
        ~Unreachable(d[1]) /\ Sent(d[1], Message("text", d)) => disp[d] \in Finish

TurnInv ==
    /\ \A j \in Job : Protocol(out[j], j)
    /\ NothingBeforeStart /\ OneText /\ PrintIsPending /\ ReportedEnds

\* What may come next on a stream.
LEMMA ProtocolExtended ==
    ASSUME NEW j \in Job, NEW s \in Seq(MessageType), NEW m \in MessageType, Protocol(s, j),
           \A i \in DOMAIN s : s[i].op # "job_finish",
           m.op = "job_start" <=> s = <<>> /\ NumTasks[j] > 0,
           m.op = "text" => /\ EndsInPrint(s) /\ m.task \in TasksOf(j)
                            /\ \A i \in DOMAIN s : s[i] # m,
           m.op # "text" => ~EndsInPrint(s) /\ m.task = NoTask
    PROVE  /\ Protocol(Append(s, m), j)
           /\ EndsInPrint(Append(s, m)) <=> m.op = "job_print"
<1> DEFINE t == Append(s, m)
           n == Len(s)
<1>1. /\ n \in Nat /\ DOMAIN s = 1 .. n /\ t \in Seq(MessageType) /\ Len(t) = n + 1
      /\ DOMAIN t = 1 .. n + 1 /\ t # <<>> /\ t[n + 1] = m
      /\ \A i \in 1 .. n : t[i] = s[i]
      /\ s = <<>> <=> n = 0
    OBVIOUS
<1> HIDE DEF t, n
<1>2. EndsInPrint(s) <=> n # 0 /\ s[n].op = "job_print"
    BY <1>1 DEF EndsInPrint, n
<1>3. ASSUME NEW i \in 1 .. n
      PROVE  /\ t[i].op = "job_start" <=> i = 1 /\ NumTasks[j] > 0
             /\ t[i].op = "job_print" => t[i + 1].op = "text"
             /\ t[i].op = "text" => /\ t[i - 1].op = "job_print"
                                    /\ t[i].task \in TasksOf(j)
                                    /\ \A k \in 1 .. n + 1 : t[k] = t[i] => k = i
             /\ t[i].op # "job_finish"
             /\ t[i].op # "text" => t[i].task = NoTask
  <2>1. /\ s[i].op = "job_start" <=> i = 1 /\ NumTasks[j] > 0
        /\ s[i].op = "job_print" => i = n \/ s[i + 1].op = "text"
        /\ s[i].op = "text" => /\ s[i - 1].op = "job_print"
                               /\ s[i].task \in TasksOf(j)
                               /\ \A k \in DOMAIN s : s[k] = s[i] => k = i
        /\ s[i].op # "text" => s[i].task = NoTask
        /\ s[i].op # "job_finish" /\ t[i] = s[i] /\ i \in DOMAIN s
      BY <1>1 DEF Protocol, n
  <2>2. t[i].op = "job_print" => t[i + 1].op = "text"
    <3>1. CASE i = n
        BY <1>1, <1>2, <2>1, <3>1
    <3>2. CASE i # n
        BY <1>1, <2>1, <3>2
    <3> QED BY <3>1, <3>2
  <2>3. t[i].op = "text" => t[i - 1].op = "job_print"
    <3>1. CASE i = 1
      <4>1. NumTasks \in [Job -> Nat]
          BY SchedulerAssumption
      <4>2. s[1].op = "text" => TasksOf(j) # {}
          BY <2>1, <3>1
      <4>3. TasksOf(j) # {} => NumTasks[j] > 0
          BY SchedulerAssumption DEF TasksOf
      <4> QED BY <2>1, <3>1, <4>2, <4>3
    <3>2. CASE i # 1
        BY <1>1, <2>1, <3>2
    <3> QED BY <3>1, <3>2
  <2>4. ASSUME t[i].op = "text", NEW k \in 1 .. n + 1, t[k] = t[i] PROVE k = i
    <3>1. CASE k = n + 1
        BY <1>1, <2>1, <2>4, <3>1
    <3>2. CASE k # n + 1
        BY <1>1, <2>1, <2>4, <3>2
    <3> QED BY <3>1, <3>2
  <2> QED BY <2>1, <2>2, <2>3, <2>4
<1>4. /\ m.op = "job_start" <=> n + 1 = 1 /\ NumTasks[j] > 0
      /\ m.op = "text" => /\ t[n + 1 - 1].op = "job_print"
                          /\ \A k \in 1 .. n + 1 : t[k] = m => k = n + 1
    BY <1>1, <1>2
<1>5. Protocol(t, j)
  <2> SUFFICES ASSUME NEW i \in 1 .. n + 1
               PROVE  /\ t[i].op = "job_start" <=> i = 1 /\ NumTasks[j] > 0
                      /\ t[i].op = "job_print" => i = Len(t) \/ t[i + 1].op = "text"
                      /\ t[i].op = "text" => /\ t[i - 1].op = "job_print"
                                             /\ t[i].task \in TasksOf(j)
                                             /\ \A k \in DOMAIN t : t[k] = t[i] => k = i
                      /\ t[i].op = "job_finish" => i = Len(t)
                      /\ t[i].op # "text" => t[i].task = NoTask
      BY <1>1 DEF Protocol
  <2>1. CASE i = n + 1
      BY <1>1, <1>4, <2>1
  <2>2. CASE i \in 1 .. n
      BY <1>1, <1>3, <2>2
  <2> QED BY <1>1, <2>1, <2>2
<1>6. EndsInPrint(t) <=> m.op = "job_print"
    BY <1>1 DEF EndsInPrint
<1> QED BY <1>5, <1>6 DEF t

\* What the types say of the parts of the state used here.
LEMMA TurnTypes ==
    ASSUME SchedulerInv
    PROVE  /\ out \in [Job -> Seq(MessageType)] /\ nextTask \in [Job -> Nat]
           /\ disp \in [Dispatcher -> {"new", "get", "connect", "await", "print", "text",
                                       "close", "add", "done"}]
           /\ client \in [Job -> {"new", "sent", "upload", "wait", "done", "gone", "killed"}]
           /\ \A d \in Dispatcher : d[1] \in Job /\ d[2] \in Nat /\ d = <<d[1], d[2]>>
                                    /\ d[2] < NumTasks[d[1]]
           /\ NumTasks \in [Job -> Nat]
<1>1. /\ NumTasks \in [Job -> Nat]
      /\ \A d \in Dispatcher : d[1] \in Job /\ d[2] \in Nat /\ d = <<d[1], d[2]>>
                               /\ d[2] < NumTasks[d[1]]
    BY SchedulerAssumption
<1> QED BY <1>1 DEF SchedulerInv, SchedulerTypeOK, TaskTypeOK, ClientTypeOK, CoreTypeOK, MessageType

\* A client that is there has heard of the start of a job with a thread.
LEMMA StartedStream ==
    ASSUME SchedulerInv, NEW j \in Job, nextTask[j] > 0, ~Unreachable(j)
    PROVE  out[j] # <<>>
    BY DEF SchedulerInv, StartedFirst, Sent

\* Steps that write nothing and keep the threads within or outside of lock1.
LEMMA TurnFrame ==
    ASSUME TurnInv, UNCHANGED out,
           \A j \in Job : nextTask'[j] = 0 => nextTask[j] = 0,
           \/ UNCHANGED <<core, curJob>>
           \/ core' = "dead"
           \/ core \notin {"spawn", "dead"}
           \/ core = "spawn" /\ nextTask'[curJob] # 0,
           \A d \in Dispatcher : /\ disp'[d] = "text" <=> disp[d] = "text"
                                 /\ disp[d] \in Finish => disp'[d] \in Finish,
           \A j \in Job : Unreachable(j) => Unreachable(j)'
    PROVE  TurnInv'
<1>0. \A d \in Dispatcher : d[1] \in Job
    BY SchedulerAssumption
<1>1. \A j \in Job : Protocol(out[j], j)'
    BY DEF TurnInv, Protocol
<1>2. NothingBeforeStart'
    BY DEF TurnInv, NothingBeforeStart
<1>3. OneText' /\ PrintIsPending'
    BY DEF TurnInv, OneText, PrintIsPending, EndsInPrint, TasksOf
<1>4. ReportedEnds'
  <2>1. \A j, x : Sent(j, x)' <=> Sent(j, x)
      BY DEF Sent
  <2> QED BY <1>0, <2>1 DEF TurnInv, ReportedEnds
<1> QED BY <1>1, <1>2, <1>3, <1>4 DEF TurnInv

LEMMA OthersTurn ==
    ASSUME SchedulerInv, TurnInv,
           \/ Main
           \/ \E p \in Port : WorkerStart(p) \/ Worker(p) \/ WorkerKill(p)
           \/ \E j \in Job : ClientSubmit(j) \/ Client(j) \/ ClientKill(j)
    PROVE  TurnInv'
<1>1. ASSUME Main
      PROVE  /\ UNCHANGED <<out, disp, nextTask, curJob>>
             /\ core' = core \/ core = "off"
             /\ \A j \in Job : Unreachable(j) => Unreachable(j)'
  <2>1. UNCHANGED <<out, disp, nextTask, curJob>> /\ (core' = core \/ core = "off")
      BY <1>1 DEF Main, ServeWorker, ServeAdd, ServeReply, ServeBroken, ServeJob, UploadDone,
        UploadLost, EnqueueLink, EnqueueCount, EnqueueModify, coreVars
  <2>2. client' = client \/ \E j \in Job : client[j] = "sent" /\ client' = [client EXCEPT ![j] = "upload"]
    <3>1. CASE ServeJob
        BY <3>1, ServedRequest DEF ServeJob, SchedulerInv, SchedulerTypeOK
    <3>2. CASE ~ServeJob
        BY <1>1, <3>2 DEF Main, ServeWorker, ServeAdd, ServeReply, ServeBroken, UploadDone,
          UploadLost, EnqueueLink, EnqueueCount, EnqueueModify
    <3> QED BY <3>1, <3>2
  <2> QED BY <2>1, <2>2, TurnTypes DEF Unreachable
<1>2. ASSUME NEW p \in Port, WorkerStart(p) \/ Worker(p) \/ WorkerKill(p)
      PROVE  UNCHANGED <<out, disp, nextTask, core, curJob, client>>
    BY <1>2 DEF Worker, WorkerStart, WorkerAccept, WorkerExecute, WorkerAnswer, WorkerFinish, WorkerKill,
        WorkerFrame, coreVars
<1>3. ASSUME NEW j \in Job, ClientSubmit(j) \/ Client(j) \/ ClientKill(j)
      PROVE  /\ UNCHANGED <<out, disp, nextTask, core, curJob>>
             /\ \A k \in Job : Unreachable(k) => Unreachable(k)'
  <2>1. UNCHANGED <<out, disp, nextTask, core, curJob>>
      BY <1>3 DEF Client, ClientSubmit, ClientUpload, ClientDone, ClientKill, ClientFrame, coreVars
  <2>2. \A k \in Job : Unreachable(k) => Unreachable(k)'
      BY <1>3, TurnTypes DEF Client, ClientSubmit, ClientUpload, ClientDone, ClientKill, Unreachable
  <2> QED BY <2>1, <2>2
<1>4. CASE Main
    BY <1>1, <1>4, TurnFrame
<1>5. CASE \E p \in Port : WorkerStart(p) \/ Worker(p) \/ WorkerKill(p)
  <2>1. UNCHANGED <<out, disp, nextTask, core, curJob, client>>
      BY <1>2, <1>5
  <2> QED BY <2>1, TurnFrame DEF Unreachable
<1>6. CASE \E j \in Job : ClientSubmit(j) \/ Client(j) \/ ClientKill(j)
    BY <1>3, <1>6, TurnFrame
<1> QED BY <1>4, <1>5, <1>6

\* Core announces a job before anything else is written, and reports its end
\* after everything.
LEMMA CoreTurn ==
    ASSUME SchedulerInv, OnceInv, TurnInv, Core
    PROVE  TurnInv'
<1> USE TurnTypes
<1>0. UNCHANGED client /\ \A j : Unreachable(j)' <=> Unreachable(j)
    BY DEF Core, CorePoll, CoreIterationEnds, CoreNext, CoreAnnounce, CoreSpawn,
        CoreJoin, CoreUnlink, CoreMiss, CoreUncount, CoreFinish, CoreFrame, Unreachable
<1>1. CASE CorePoll \/ CoreIterationEnds \/ CoreNext \/ CoreJoin \/ CoreUnlink \/ CoreMiss
           \/ CoreUncount
  <2>1. UNCHANGED <<out, nextTask, disp>> /\ core \notin {"spawn", "dead"}
      BY <1>1 DEF CorePoll, CoreIterationEnds, CoreNext, CoreJoin, CoreUnlink, CoreMiss, CoreUncount
  <2> QED BY <1>0, <2>1, TurnFrame
<1>2. CASE CoreSpawn
  <2>1. /\ curJob \in Job /\ UNCHANGED <<out, curJob>> /\ core \in {"visit", "spawn"}
      BY <1>2 DEF CoreSpawn, SchedulerInv, VisitInRange
  <2>2. CASE core' = "dead" /\ UNCHANGED <<disp, nextTask>>
      BY <1>0, <2>1, <2>2, TurnFrame
  <2>3. CASE /\ core' = "iter"
             /\ disp' = [disp EXCEPT ![<<curJob, nextTask[curJob]>>] = "get"]
             /\ nextTask' = [nextTask EXCEPT ![curJob] = nextTask[curJob] + 1]
    <3>1. /\ disp' = [disp EXCEPT ![<<curJob, nextTask[curJob]>>] = "get"]
          /\ nextTask' = [nextTask EXCEPT ![curJob] = nextTask[curJob] + 1]
        BY <2>3
    <3>2. nextTask'[curJob] # 0 /\ \A j \in Job : nextTask'[j] = 0 => nextTask[j] = 0
        BY <2>1, <3>1
    <3>3. ASSUME NEW d \in Dispatcher PROVE disp'[d] = disp[d] \/ (disp[d] = "new" /\ disp'[d] = "get")
      <4>1. CASE d = <<curJob, nextTask[curJob]>>
        <5>1. nextTask[d[1]] <= d[2]
            BY <2>1, <4>1
        <5> QED BY <3>1, <4>1, <5>1 DEF SchedulerInv, ThreadsInOrder
      <4>2. CASE d # <<curJob, nextTask[curJob]>>
          BY <3>1, <4>2
      <4> QED BY <4>1, <4>2
    <3>4. \A d \in Dispatcher : /\ disp'[d] = "text" <=> disp[d] = "text"
                                /\ disp[d] \in Finish => disp'[d] \in Finish
        BY <3>3 DEF Finish
    <3> QED BY <1>0, <2>1, <2>3, <3>2, <3>4, TurnFrame
  <2> QED BY <1>2, <2>2, <2>3, Zenon DEF CoreSpawn, CoreDies
<1>3. CASE CoreAnnounce
  <2>1. /\ curJob \in Job /\ UNCHANGED <<disp, nextTask, curJob>> /\ core = "visit"
        /\ nextTask[curJob] = 0 /\ NumTasks[curJob] > 0
      BY <1>3 DEF CoreAnnounce, SchedulerInv, VisitInRange
  <2>2. CASE UNCHANGED out
      BY <1>0, <2>1, <2>2, TurnFrame
  <2>3. CASE ~UNCHANGED out
    <3> DEFINE m == Message("job_start", NoTask)
    <3>1. Write(curJob, m) /\ core' = "spawn" /\ ~Unreachable(curJob)
        BY <1>3, <2>3 DEF CoreAnnounce, Write
    <3>2. out[curJob] = <<>>
        BY <2>1 DEF TurnInv, NothingBeforeStart
    <3>3. /\ out'[curJob] = Append(<<>>, m) /\ \A j \in Job : j # curJob => out'[j] = out[j]
        BY <2>1, <3>1, <3>2 DEF Write
    <3>4. m \in MessageType /\ m.op = "job_start" /\ m.task = NoTask
        BY Messages DEF Message
    <3> HIDE DEF m
    <3>5. PICK s \in Seq(MessageType) : s = <<>>
        BY <2>1, <3>2
    <3>6. Protocol(out'[curJob], curJob) /\ ~EndsInPrint(out'[curJob])
      <4>1. Protocol(s, curJob) /\ ~EndsInPrint(s) /\ \A i \in DOMAIN s : s[i].op # "job_finish"
          BY <3>5 DEF Protocol, EndsInPrint
      <4>2. m.op = "job_start" <=> s = <<>> /\ NumTasks[curJob] > 0
          BY <2>1, <3>4, <3>5
      <4>3. m.op # "text" /\ m.op # "job_print"
          BY <3>4
      <4>4. /\ Protocol(Append(s, m), curJob)
            /\ EndsInPrint(Append(s, m)) <=> m.op = "job_print"
          BY <2>1, <3>4, <4>1, <4>2, <4>3, ProtocolExtended
      <4>5. out'[curJob] = Append(s, m)
          BY <3>3, <3>5
      <4> QED BY <4>3, <4>4, <4>5
    <3>7. \A d \in TasksOf(curJob) : disp[d] = "new"
        BY <2>1 DEF SchedulerInv, ThreadsInOrder, TasksOf
    <3>8. \A j \in Job : Protocol(out'[j], j)
        BY <3>3, <3>6 DEF TurnInv
    <3>9. NothingBeforeStart' /\ OneText'
        BY <2>1, <3>1, <3>3 DEF TurnInv, NothingBeforeStart, OneText
    <3>10. PrintIsPending'
      <4> SUFFICES ASSUME NEW j \in Job, ~Unreachable(j)
                   PROVE  EndsInPrint(out'[j]) <=> \E d \in TasksOf(j) : disp[d] = "text"
          BY <1>0, <2>1 DEF PrintIsPending, TasksOf, EndsInPrint
      <4>1. CASE j = curJob
          BY <3>6, <3>7, <4>1
      <4>2. CASE j # curJob
          BY <3>3, <4>2 DEF TurnInv, PrintIsPending
      <4> QED BY <4>1, <4>2
    <3>11. ReportedEnds'
      <4>1. \A d \in Dispatcher : Sent(d[1], Message("text", d))' => Sent(d[1], Message("text", d))
          BY <2>1, <3>1, <3>4, WrittenSends, Messages DEF m
      <4> QED BY <1>0, <2>1, <4>1 DEF TurnInv, ReportedEnds
    <3> QED BY <3>8, <3>9, <3>10, <3>11 DEF TurnInv
  <2> QED BY <2>2, <2>3
<1>4. CASE CoreFinish
  <2>1. /\ curJob \in Job /\ UNCHANGED <<disp, nextTask, curJob>> /\ core = "finish"
        /\ \A d \in TasksOf(curJob) : disp[d] = "done"
      BY <1>4 DEF CoreFinish, SchedulerInv, ThreadsInOrder
  <2>2. CASE UNCHANGED out
      BY <1>0, <2>1, <2>2, TurnFrame
  <2>3. CASE ~UNCHANGED out
    <3> DEFINE m == Message("job_finish", NoTask)
    <3>1. Write(curJob, m) /\ core' = "iter" /\ ~Unreachable(curJob)
        BY <1>4, <2>3 DEF CoreFinish, Write
    <3>2. /\ out'[curJob] = Append(out[curJob], m) /\ \A j \in Job : j # curJob => out'[j] = out[j]
        BY <2>1, <3>1 DEF Write
    <3>3. m \in MessageType /\ m.op = "job_finish" /\ m.task = NoTask
        BY Messages DEF Message
    <3>4. \A i \in DOMAIN out[curJob] : out[curJob][i].op # "job_finish"
      <4> SUFFICES ASSUME NEW i \in DOMAIN out[curJob], out[curJob][i].op = "job_finish" PROVE FALSE
          OBVIOUS
      <4>1. out[curJob][i].task = NoTask
          BY <2>1 DEF TurnInv, Protocol
      <4>2. out[curJob][i] \in MessageType
          BY <2>1
      <4>3. out[curJob][i] = m
          BY <4>1, <4>2 DEF MessageType, Message
      <4> QED BY <2>1, <4>3 DEF OnceInv, FinishedLeft, Serving, Sent, JobFinish
    <3>5. ~EndsInPrint(out[curJob])
        BY <2>1, <3>1 DEF TurnInv, PrintIsPending
    <3>6. NumTasks[curJob] > 0 => nextTask[curJob] > 0
      <4> SUFFICES ASSUME NumTasks[curJob] > 0 PROVE nextTask[curJob] > 0
          OBVIOUS
      <4>1. <<curJob, 0>> \in TasksOf(curJob)
          BY <2>1, SchedulerAssumption DEF TasksOf
      <4>2. ~(nextTask[curJob] <= 0)
          BY <2>1, <4>1 DEF SchedulerInv, ThreadsInOrder, TasksOf
      <4> QED BY <2>1, <4>2
    <3>7. NumTasks[curJob] > 0 => out[curJob] # <<>>
        BY <2>1, <3>1, <3>6, StartedStream
    <3> HIDE DEF m
    <3>8. Protocol(out'[curJob], curJob) /\ ~EndsInPrint(out'[curJob])
      <4>1. Protocol(out[curJob], curJob) /\ out[curJob] \in Seq(MessageType)
          BY <2>1 DEF TurnInv
      <4> QED BY <2>1, <3>2, <3>3, <3>4, <3>5, <3>7, <4>1, ProtocolExtended
    <3>9. \A j \in Job : Protocol(out'[j], j)
        BY <3>2, <3>8 DEF TurnInv
    <3>10. NothingBeforeStart' /\ OneText'
        BY <2>1, <3>1, <3>2, <3>6 DEF TurnInv, NothingBeforeStart, OneText
    <3>11. PrintIsPending'
      <4> SUFFICES ASSUME NEW j \in Job, ~Unreachable(j)
                   PROVE  EndsInPrint(out'[j]) <=> \E d \in TasksOf(j) : disp[d] = "text"
          BY <1>0, <2>1 DEF PrintIsPending, TasksOf, EndsInPrint
      <4>1. CASE j = curJob
          BY <2>1, <3>8, <4>1
      <4>2. CASE j # curJob
          BY <3>2, <4>2 DEF TurnInv, PrintIsPending
      <4> QED BY <4>1, <4>2
    <3>12. ReportedEnds'
      <4>1. \A d \in Dispatcher : Sent(d[1], Message("text", d))' => Sent(d[1], Message("text", d))
          BY <2>1, <3>1, <3>3, WrittenSends, Messages DEF m
      <4> QED BY <1>0, <2>1, <4>1 DEF TurnInv, ReportedEnds
    <3> QED BY <3>9, <3>10, <3>11, <3>12 DEF TurnInv
  <2> QED BY <2>2, <2>3
<1> QED BY <1>1, <1>2, <1>3, <1>4 DEF Core

\* A thread's opcode and its text follow each other on the stream, after the
\* start and before the end of the job.
LEMMA DispatchTurn ==
    ASSUME SchedulerInv, TurnInv, NEW d \in Dispatcher, DispatchTask(d)
    PROVE  TurnInv'
<1> USE TurnTypes
<1>0. /\ UNCHANGED <<nextTask, core, curJob, client>>
      /\ \A j : Unreachable(j)' <=> Unreachable(j)
    BY DEF DispatchTask, GetFree, Connect, Receive, PrintOpcode, PrintText, Close, Release,
       DispFrame, coreVars, Unreachable
<1>1. CASE GetFree(d) \/ Connect(d) \/ Receive(d) \/ Close(d) \/ Release(d)
  <2>1. UNCHANGED out
      BY <1>1 DEF GetFree, Connect, Receive, Close, Release
  <2>2. \A e \in Dispatcher : /\ disp'[e] = "text" <=> disp[e] = "text"
                              /\ disp[e] \in Finish => disp'[e] \in Finish
      BY <1>1 DEF GetFree, Connect, Receive, Close, Release, Retry, Finish
  <2> QED BY <1>0, <2>1, <2>2, TurnFrame
<1> DEFINE j == d[1]
<1>2. /\ j \in Job /\ d \in TasksOf(j) /\ NumTasks[j] > 0
    BY DEF TasksOf
<1>3. ASSUME disp[d] # "new" PROVE nextTask[j] > 0
  <2>1. ~(nextTask[d[1]] <= d[2])
      BY <1>3 DEF SchedulerInv, ThreadsInOrder
  <2> QED BY <1>2, <2>1
<1>4. ASSUME disp[d] # "done" PROVE \A i \in DOMAIN out[j] : out[j][i].op # "job_finish"
  <2> SUFFICES ASSUME NEW i \in DOMAIN out[j], out[j][i].op = "job_finish" PROVE FALSE
      OBVIOUS
  <2>1. out[j][i].task = NoTask
      BY <1>2 DEF TurnInv, Protocol
  <2>2. out[j][i] \in MessageType
      BY <1>2
  <2>3. out[j][i] = Message("job_finish", NoTask)
      BY <2>1, <2>2 DEF MessageType, Message
  <2> QED BY <1>2, <1>4, <2>3 DEF SchedulerInv, FinishedJobIsComplete, Sent
<1> HIDE DEF j
\* The client is out of reach: nothing is written.
<1>5. ASSUME Unreachable(j), UNCHANGED out, disp[d] \in {"print", "text"},
             disp[d] = "print" => \A e \in Dispatcher : disp[e] # "text",
             \A e \in Dispatcher : e # d => disp'[e] = disp[e]
      PROVE  TurnInv'
  <2>1. \A k \in Job : Protocol(out'[k], k)
      BY <1>5 DEF TurnInv
  <2>2. NothingBeforeStart'
      BY <1>0, <1>5 DEF TurnInv, NothingBeforeStart
  <2>3. OneText'
    <3>1. \A e \in Dispatcher : e # d => disp'[e] # "text"
        BY <1>5 DEF TurnInv, OneText
    <3> QED BY <3>1 DEF OneText
  <2>4. PrintIsPending'
    <3> SUFFICES ASSUME NEW k \in Job, ~Unreachable(k)
                 PROVE  EndsInPrint(out[k]) <=> \E e \in TasksOf(k) : disp'[e] = "text"
        BY <1>0, <1>5 DEF PrintIsPending, TasksOf, EndsInPrint
    <3>1. \A e \in TasksOf(k) : e \in Dispatcher /\ e # d
        BY <1>5 DEF TasksOf, j
    <3> QED BY <1>5, <3>1 DEF TurnInv, PrintIsPending
  <2>5. ReportedEnds'
    <3>1. \A k, x : Sent(k, x)' <=> Sent(k, x)
        BY <1>5 DEF Sent
    <3> QED BY <1>0, <1>5, <3>1 DEF TurnInv, ReportedEnds, j
  <2> QED BY <2>1, <2>2, <2>3, <2>4, <2>5 DEF TurnInv
\* The client is there.
<1>6. ASSUME ~Unreachable(j), NEW m \in MessageType, Write(j, m),
             \/ disp[d] = "print" /\ disp'[d] = "text" /\ m = Message("job_print", NoTask)
                  /\ \A e \in Dispatcher : disp[e] # "text"
             \/ disp[d] = "text" /\ disp'[d] = "close" /\ m = Message("text", d),
             \A e \in Dispatcher : e # d => disp'[e] = disp[e]
      PROVE  TurnInv'
  <2>1. /\ out'[j] = Append(out[j], m) /\ \A k \in Job : k # j => out'[k] = out[k]
      BY <1>2, <1>6 DEF Write
  <2>2. out[j] # <<>>
      BY <1>2, <1>3, <1>6, StartedStream
  <2>3. /\ \/ m.op = "job_print" /\ m.task = NoTask
           \/ m.op = "text" /\ m.task = d
        /\ m.op = "job_print" <=> disp[d] = "print"
      BY <1>6 DEF Message
  <2>4. EndsInPrint(out[j]) <=> disp[d] = "text"
    <3>1. EndsInPrint(out[j]) <=> \E e \in TasksOf(j) : disp[e] = "text"
        BY <1>2, <1>6 DEF TurnInv, PrintIsPending
    <3>2. \A e \in TasksOf(j) : e \in Dispatcher
        BY DEF TasksOf
    <3> QED BY <1>2, <1>6, <3>1, <3>2
  <2>5. m.op = "text" => \A i \in DOMAIN out[j] : out[j][i] # m
    <3> SUFFICES ASSUME m.op = "text", NEW i \in DOMAIN out[j], out[j][i] = m PROVE FALSE
        OBVIOUS
    <3>1. disp[d] = "text" /\ m = Message("text", d)
        BY <1>6, <2>3
    <3>2. Sent(d[1], Message("text", d))
        BY <3>1 DEF Sent, j
    <3> QED BY <1>6, <3>1, <3>2 DEF TurnInv, ReportedEnds, Finish, j
  <2>6. Protocol(out'[j], j) /\ (EndsInPrint(out'[j]) <=> m.op = "job_print")
    <3>1. Protocol(out[j], j) /\ out[j] \in Seq(MessageType)
        BY <1>2 DEF TurnInv
    <3>2. \A i \in DOMAIN out[j] : out[j][i].op # "job_finish"
        BY <1>4, <1>6
    <3>3. m.op = "job_start" <=> out[j] = <<>> /\ NumTasks[j] > 0
        BY <2>2, <2>3
    <3>4. m.op = "text" => /\ EndsInPrint(out[j]) /\ m.task \in TasksOf(j)
                           /\ \A i \in DOMAIN out[j] : out[j][i] # m
        BY <1>2, <1>6, <2>3, <2>4, <2>5
    <3>5. m.op # "text" => ~EndsInPrint(out[j]) /\ m.task = NoTask
        BY <1>6, <2>3, <2>4
    <3> QED BY <1>2, <1>6, <2>1, <3>1, <3>2, <3>3, <3>4, <3>5, ProtocolExtended
  <2>7. \A k \in Job : Protocol(out'[k], k)
      BY <2>1, <2>6 DEF TurnInv
  <2>8. NothingBeforeStart'
    <3>1. nextTask[j] # 0
        BY <1>2, <1>3, <1>6
    <3> QED BY <1>0, <2>1, <3>1 DEF TurnInv, NothingBeforeStart
  <2>9. \A e \in Dispatcher : e # d => disp'[e] # "text"
      BY <1>6 DEF TurnInv, OneText
  <2>10. OneText'
      BY <2>9 DEF OneText
  <2>11. PrintIsPending'
    <3> SUFFICES ASSUME NEW k \in Job, ~Unreachable(k)
                 PROVE  EndsInPrint(out'[k]) <=> \E e \in TasksOf(k) : disp'[e] = "text"
        BY <1>0 DEF PrintIsPending, TasksOf, EndsInPrint
    <3>0. \A e \in TasksOf(k) : e \in Dispatcher /\ (e = d => k = j)
        BY DEF TasksOf, j
    <3>1. CASE k = j
        BY <1>2, <1>6, <2>3, <2>6, <2>9, <3>0, <3>1
    <3>2. CASE k # j
      <4>1. EndsInPrint(out[k]) <=> \E e \in TasksOf(k) : disp[e] = "text"
          BY DEF TurnInv, PrintIsPending
      <4>2. out'[k] = out[k]
          BY <2>1, <3>2
      <4>3. \A e \in TasksOf(k) : disp'[e] = disp[e]
          BY <1>6, <3>0, <3>2
      <4> QED BY <4>1, <4>2, <4>3
    <3> QED BY <3>1, <3>2
  <2>12. ReportedEnds'
    <3> SUFFICES ASSUME NEW e \in Dispatcher, ~Unreachable(e[1]), Sent(e[1], Message("text", e))'
                 PROVE  disp'[e] \in Finish
        BY <1>0 DEF ReportedEnds
    <3>1. CASE Sent(e[1], Message("text", e))
      <4>1. disp[e] \in Finish
          BY <3>1 DEF TurnInv, ReportedEnds
      <4> QED BY <1>6, <4>1 DEF Finish
    <3>2. CASE ~Sent(e[1], Message("text", e))
      <4>1. m = Message("text", e)
          BY <1>2, <1>6, <3>2, WrittenSends
      <4>2. e = d /\ disp'[d] = "close"
          BY <1>6, <4>1, Messages
      <4> QED BY <4>2 DEF Finish
    <3> QED BY <3>1, <3>2
  <2> QED BY <2>7, <2>8, <2>10, <2>11, <2>12 DEF TurnInv
<1>7. CASE PrintOpcode(d)
  <2>1. /\ disp[d] = "print" /\ \A e \in Dispatcher : disp[e] # "text"
        /\ \A e \in Dispatcher : e # d => disp'[e] = disp[e]
      BY <1>7 DEF PrintOpcode, Lock1Free, Retry
  <2>2. CASE Unreachable(j)
    <3>1. UNCHANGED out
        BY <1>7, <2>2 DEF PrintOpcode, Write, j
    <3> QED BY <1>5, <2>1, <2>2, <3>1
  <2>3. CASE ~Unreachable(j)
    <3>1. Write(j, Message("job_print", NoTask)) /\ disp'[d] = "text"
        BY <1>7, <2>3 DEF PrintOpcode, j
    <3> QED BY <1>6, <2>1, <2>3, <3>1, Messages
  <2> QED BY <2>2, <2>3
<1>8. CASE PrintText(d)
  <2>1. disp[d] = "text" /\ \A e \in Dispatcher : e # d => disp'[e] = disp[e]
      BY <1>8 DEF PrintText, Retry
  <2>2. CASE Unreachable(j)
    <3>1. UNCHANGED out
        BY <1>8, <2>2 DEF PrintText, Write, j
    <3> QED BY <1>5, <2>1, <2>2, <3>1
  <2>3. CASE ~Unreachable(j)
    <3>1. Write(j, Message("text", d)) /\ disp'[d] = "close"
        BY <1>8, <2>3 DEF PrintText, j
    <3> QED BY <1>6, <2>1, <2>3, <3>1, Messages
  <2> QED BY <2>2, <2>3
<1> QED BY <1>1, <1>7, <1>8 DEF DispatchTask

\* The writers of a stream take their turns in every reachable state.
THEOREM WritersTakeTurns == Spec => []TurnInv
<1>1. Init => TurnInv
  <2> SUFFICES ASSUME Init PROVE TurnInv
      OBVIOUS
  <2>0. \A d \in Dispatcher : d[1] \in Job
      BY SchedulerAssumption
  <2>1. \A j \in Job : out[j] = <<>>
      BY DEF Init
  <2>2. \A j \in Job : Protocol(out[j], j) /\ ~EndsInPrint(out[j])
      BY <2>1 DEF Protocol, EndsInPrint
  <2>3. \A d \in Dispatcher : disp[d] = "new" /\ ~Sent(d[1], Message("text", d))
      BY <2>0, <2>1 DEF Init, Sent
  <2>4. NothingBeforeStart /\ OneText /\ PrintIsPending /\ ReportedEnds
      BY <2>1, <2>2, <2>3 DEF NothingBeforeStart, OneText, PrintIsPending, ReportedEnds, TasksOf
  <2> QED BY <2>2, <2>4 DEF TurnInv
<1>2. SchedulerInv /\ OnceInv /\ TurnInv /\ [Next]_vars => TurnInv'
  <2> SUFFICES ASSUME SchedulerInv, OnceInv, TurnInv, [Next]_vars PROVE TurnInv'
      OBVIOUS
  <2>1. CASE UNCHANGED vars
    <3>1. UNCHANGED <<client, core, curJob, nextTask, out, disp>>
        BY <2>1 DEF vars, coreVars
    <3> QED BY <3>1, TurnFrame DEF Unreachable
  <2>2. CASE Next
      BY <2>2, OthersTurn, CoreTurn, DispatchTurn DEF Next
  <2> QED BY <2>1, <2>2
<1> QED BY <1>1, <1>2, SchedulerInvariant, JobsServedOnce, PTL DEF Spec

\* What a client receives follows the protocol that its feedback loop parses,
\* whatever the number of threads that write to its stream and whichever
\* workers and clients are killed.
THEOREM StreamsFollowTheProtocol == Spec => []StreamWellFormed
<1>1. TurnInv => StreamWellFormed
    BY DEF TurnInv, Protocol, StreamWellFormed
<1> QED BY <1>1, WritersTakeTurns, PTL

=============================================================================
