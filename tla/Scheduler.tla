----------------------------- MODULE Scheduler -----------------------------
(***************************************************************************)
(* The distributed batch system: the scheduler process with its accept     *)
(* thread (Scheduler.run), its Core thread and one DispatchTask thread per *)
(* task (scheduler/Scheduler.java), the worker processes                   *)
(* (worker/Worker.java) and the clients (client/Client.java).              *)
(*                                                                         *)
(* The pool of workers is the module Cluster.  A thread DispatchTask is    *)
(* the pair <<job, task id>> it is created for.  Task ids are numbered     *)
(* from 0 as in the code.                                                  *)
(*                                                                         *)
(* Threads interleave at the operations that other threads or processes    *)
(* can observe: socket operations, the two lists and the monitors.  The    *)
(* environment may kill workers and clients (MaxWorkerKill, MaxClientKill  *)
(* times) and restart workers.                                             *)
(***************************************************************************)
EXTENDS Cluster

CONSTANTS Job,             \* the jobs clients submit
          NumTasks,        \* Job.getNumTasks, a function on Job
          BadJob,          \* jobs whose class JobFactory.getJob cannot load
          BadTask,         \* tasks whose Job.task throws
          NoJob,
          MaxJobs,         \* Core.MaxJobs, 1000 in the code
          MaxTasks,        \* Core.MaxTasks, 100000 in the code
          MaxWorkerKill,   \* bound on how often workers are killed
          MaxClientKill,   \* bound on how often clients are killed
          ClosedWriteFails \* whether a write to a closed connection may throw

ASSUME SchedulerAssumption ==
    /\ NumTasks \in [Job -> Nat]
    /\ Dispatcher = UNION {{<<j, k>> : k \in 0 .. NumTasks[j] - 1} : j \in Job}
    /\ BadJob \subseteq Job /\ BadTask \subseteq Dispatcher
    /\ NoJob \notin Job
    /\ MaxJobs \in Nat /\ MaxTasks \in Nat /\ MaxWorkerKill \in Nat /\ MaxClientKill \in Nat
    /\ ClosedWriteFails \in BOOLEAN

TasksOf(j) == {d \in Dispatcher : d[1] = j}

VARIABLES
    main,      \* what the accept thread is doing
    peer,      \* the worker or job whose connection it is serving
    requests,  \* connections waiting in serverSocket.accept, oldest first
    jobIdNext, \* the field jobIdNext
    jobId,     \* the id each job was given, -1 before
    client,    \* the client process of each job
    out,       \* what a job's client receives, in order
    JobQueue,  \* the entries linked into the list JobQueue
    qsize,     \* the size field of JobQueue
    core,      \* what the Core thread is doing
    curJob,    \* Core's local `job`
    itrIdx,    \* the nextIndex of Core's iterator over JobQueue
    next,      \* the entry each of Core's iterators has captured as its next;
               \* NoJob also when there is no iterator
    stale,     \* which of Core's iterators ("outer", "inner") are stale
    nextTask,  \* JobInfo.nextTaskId
    closed,    \* the jobs whose socket Core has closed
    disp,      \* what each DispatchTask thread is doing
    conn,      \* a DispatchTask's connection to its worker
    wproc,     \* the worker process at each port
    backlog,   \* connections a worker has not accepted yet, oldest first
    cur,       \* the task a worker is serving
    lost,      \* history: the entries that a race dropped from JobQueue
    runs,      \* history: how often each task ran to completion
    cutOff,    \* history: how often its worker was killed before it answered
    kills      \* history: how often a worker, or a client, was killed

mainVars   == <<main, peer, requests, jobIdNext, jobId>>
queueVars  == <<JobQueue, qsize, stale, lost>>
coreVars   == <<core, curJob, itrIdx, next, nextTask, closed>>
workerVars == <<wproc, backlog, cur, runs, cutOff>>
vars == <<clusterVars, mainVars, queueVars, coreVars, workerVars,
          client, out, disp, conn, kills>>

NoTask == <<NoJob, 0>>

\* One item on the connection to a client: an Opcode (its task is NoTask), or
\* the text "task .. finished on worker .." that follows job_print.
Message(op, d) == [op |-> op, task |-> d]

NoIterator == [outer |-> NoJob, inner |-> NoJob]

Init ==
    /\ ClusterInit
    /\ main = "accept" /\ peer = NoJob /\ requests = <<>>
    /\ jobIdNext = 1 /\ jobId = [j \in Job |-> -1]
    /\ client = [j \in Job |-> "new"]
    /\ out = [j \in Job |-> <<>>]
    /\ JobQueue = <<>> /\ qsize = 0 /\ stale = {} /\ lost = {}
    /\ core = "off" /\ curJob = NoJob /\ itrIdx = 0 /\ closed = {}
    /\ next = NoIterator
    /\ nextTask = [j \in Job |-> 0]
    /\ disp = [d \in Dispatcher |-> "new"]
    /\ conn = [d \in Dispatcher |-> "none"]
    /\ wproc = [p \in Port |-> "down"]
    /\ backlog = [p \in Port |-> <<>>]
    /\ cur = [p \in Port |-> NoTask]
    /\ runs = [d \in Dispatcher |-> 0] /\ cutOff = [d \in Dispatcher |-> 0]
    /\ kills = [worker |-> 0, client |-> 0]

-----------------------------------------------------------------------------
(***************************************************************************)
(* The accept thread: Scheduler.run                                        *)
(***************************************************************************)

\* A registration: createWorkerNode up to the lock of the free list.  The
\* message of a worker that was killed meanwhile may be complete all the same.
ServeWorker ==
    /\ main = "accept" /\ requests # <<>>
    /\ Head(requests).kind \in {"worker", "broken"}
    /\ createWorkerNode(Head(requests).id)
    /\ requests' = Tail(requests)
    /\ peer' = Head(requests).id
    /\ main' = "add"
    /\ UNCHANGED <<jobIdNext, jobId, queueVars, coreVars, workerVars,
                   client, out, disp, conn, kills>>

\* createWorkerNode's call of addFreeWorkerNode; its exception ends run.
ServeAdd ==
    /\ main = "add"
    /\ main' = IF Comodified(Acceptor) THEN "dead" ELSE "reply"
    /\ addFreeWorkerNode(Acceptor)
    /\ UNCHANGED <<peer, requests, jobIdNext, jobId, queueVars, coreVars, workerVars,
                   client, out, disp, conn, kills>>

\* The process that registered is still there if it is starting up and has
\* not been replaced by a restarted one with a connection of its own.
Registering(p) ==
    /\ wproc[p] = "boot"
    /\ \A i \in DOMAIN requests : requests[i] # [kind |-> "worker", id |-> p]

\* The answer to a registration; to a dead worker it may throw.
ServeReply ==
    /\ main = "reply"
    /\ IF Registering(peer)
       THEN main' = "accept" /\ wproc' = [wproc EXCEPT ![peer] = "idle"]
       ELSE main' \in {"accept", "dead"} /\ UNCHANGED wproc
    /\ peer' = NoJob
    /\ UNCHANGED <<clusterVars, requests, jobIdNext, jobId, queueVars, coreVars,
                   backlog, cur, runs, cutOff, client, out, disp, conn, kills>>

\* A connection whose peer was killed before its request was complete: readInt
\* or readUTF throws.
ServeBroken ==
    /\ main = "accept" /\ requests # <<>>
    /\ \/ Head(requests).kind = "broken"
       \/ Head(requests).kind = "job" /\ client[Head(requests).id] = "gone"
    /\ main' = "dead"
    /\ requests' = Tail(requests)
    /\ UNCHANGED <<clusterVars, peer, jobIdNext, jobId, queueVars, coreVars, workerVars,
                   client, out, disp, conn, kills>>

\* A job: the Core thread is started by the first one, the job gets its id,
\* and its client may send the job file.
ServeJob ==
    /\ main = "accept" /\ requests # <<>>
    /\ Head(requests).kind = "job"
    /\ peer' = Head(requests).id
    /\ requests' = Tail(requests)
    /\ core' = IF core = "off" THEN "poll" ELSE core
    /\ jobId' = [jobId EXCEPT ![peer'] = jobIdNext]
    /\ jobIdNext' = jobIdNext + 1
    /\ client' = IF client[peer'] = "sent" THEN [client EXCEPT ![peer'] = "upload"]
                 ELSE client
    /\ main' = "upload"
    /\ UNCHANGED <<clusterVars, queueVars, curJob, itrIdx, next, nextTask, closed,
                   workerVars, out, disp, conn, kills>>

\* The whole file was received; JobFactory.getJob loads its class or throws.
UploadDone ==
    /\ main = "upload"
    /\ client[peer] \in {"wait", "killed"}
    /\ main' = IF peer \in BadJob THEN "dead" ELSE "enqueue"
    /\ UNCHANGED <<clusterVars, peer, requests, jobIdNext, jobId, queueVars, coreVars,
                   workerVars, client, out, disp, conn, kills>>

\* The client died: read throws on a reset connection, and returns -1 at the
\* end of the stream, on which the loop `while (len > 0)` spins for ever.
UploadLost ==
    /\ main = "upload"
    /\ \/ client[peer] = "gone" /\ main' \in {"hung", "dead"}
       \/ client[peer] = "killed" /\ main' = "dead"
    /\ UNCHANGED <<clusterVars, peer, requests, jobIdNext, jobId, queueVars, coreVars,
                   workerVars, client, out, disp, conn, kills>>

(***************************************************************************)
(* createNewJob: LinkedList.add links the entry, increments size and then  *)
(* modCount.  It holds the monitor of JobQueue, which Core never takes, so *)
(* Core can observe each of the three steps.                               *)
(***************************************************************************)
EnqueueLink ==
    /\ main = "enqueue"
    /\ JobQueue' = Append(JobQueue, peer)
    /\ main' = "linked"
    /\ UNCHANGED <<clusterVars, peer, requests, jobIdNext, jobId, qsize, stale, lost, coreVars,
                   workerVars, client, out, disp, conn, kills>>

EnqueueCount ==
    /\ main = "linked"
    /\ qsize' = qsize + 1
    /\ main' = "counted"
    /\ UNCHANGED <<clusterVars, peer, requests, jobIdNext, jobId, JobQueue, stale, lost, coreVars,
                   workerVars, client, out, disp, conn, kills>>

EnqueueModify ==
    /\ main = "counted"
    /\ stale' = {"outer", "inner"}
    /\ main' = "accept"
    /\ peer' = NoJob
    /\ UNCHANGED <<clusterVars, requests, jobIdNext, jobId, JobQueue, qsize, lost, coreVars,
                   workerVars, client, out, disp, conn, kills>>

Main == ServeWorker \/ ServeAdd \/ ServeReply \/ ServeBroken \/ ServeJob
        \/ UploadDone \/ UploadLost \/ EnqueueLink \/ EnqueueCount \/ EnqueueModify

-----------------------------------------------------------------------------
(***************************************************************************)
(* Writing to a job's client.  A killed client receives nothing; the write *)
(* itself may go through until the reset arrives, or throw.                *)
(***************************************************************************)
Unreachable(j) == client[j] \in {"gone", "killed"}

Write(j, m) == out' = IF Unreachable(j) THEN out
                      ELSE [out EXCEPT ![j] = Append(@, m)]

-----------------------------------------------------------------------------
(***************************************************************************)
(* The Core thread: Core.run.  Every exception ends it ("dead").           *)
(***************************************************************************)
CoreFrame == UNCHANGED <<clusterVars, mainVars, workerVars, client, conn, kills>>

\* The catch block is the end of Core.run: the iterators are gone.
CoreDies == core' = "dead" /\ itrIdx' = 0 /\ next' = NoIterator

\* The entry a new iterator over JobQueue has as its next: LinkedList.node(0),
\* which is found from the end of the list when size is 1.
FirstEntry ==
    CASE JobQueue = <<>> -> NoJob
      [] JobQueue # <<>> /\ qsize > 1 -> Head(JobQueue)
      [] OTHER -> JobQueue[Len(JobQueue)]

\* The entries linked right behind job j.
Followers(j) == {JobQueue[i + 1] : i \in {k \in 1 .. Len(JobQueue) - 1 : JobQueue[k] = j}}

\* A job is queued and a worker is free: a new iterator over JobQueue.
CorePoll ==
    /\ core = "poll"
    /\ qsize > 0 /\ freeWorkers # <<>>
    /\ core' = "iter" /\ itrIdx' = 0 /\ stale' = {}
    /\ next' = [next EXCEPT !.outer = FirstEntry]
    /\ UNCHANGED <<JobQueue, qsize, lost, curJob, nextTask, closed, out, disp>>
    /\ CoreFrame

\* hasNext() compares the iterator's position with size.
CoreIterationEnds ==
    /\ core = "iter" /\ itrIdx >= qsize
    /\ core' = "poll" /\ curJob' = NoJob /\ itrIdx' = 0 /\ next' = NoIterator
    /\ UNCHANGED <<queueVars, nextTask, closed, out, disp>>
    /\ CoreFrame

\* next() throws if JobQueue was modified, or if size counts an entry that the
\* iterator has not captured; and no stream is had from a closed socket.
CoreNext ==
    /\ core = "iter" /\ itrIdx < qsize
    /\ IF "outer" \in stale \/ next.outer \in closed \union {NoJob}
       THEN CoreDies /\ UNCHANGED curJob
       ELSE /\ core' = "visit"
            /\ curJob' = next.outer
            /\ itrIdx' = itrIdx + 1
            /\ \/ Followers(next.outer) = {} /\ next' = [next EXCEPT !.outer = NoJob]
               \/ \E j \in Followers(next.outer) : next' = [next EXCEPT !.outer = j]
    /\ UNCHANGED <<queueVars, nextTask, closed, out, disp>>
    /\ CoreFrame

\* The first visit of a job with tasks tells its client that it starts.
CoreAnnounce ==
    /\ core = "visit" /\ nextTask[curJob] = 0 /\ NumTasks[curJob] > 0
    /\ \/ /\ Write(curJob, Message("job_start", NoTask))
          /\ core' = "spawn" /\ UNCHANGED <<itrIdx, next>>
       \/ Unreachable(curJob) /\ CoreDies /\ UNCHANGED out
    /\ UNCHANGED <<queueVars, curJob, nextTask, closed, disp>>
    /\ CoreFrame

\* Mutant: the bound on the task id is off by one.
CoreSpawn_OffByOne ==
    /\ \/ core = "spawn"
       \/ core = "visit" /\ nextTask[curJob] \in 1 .. NumTasks[curJob]
    /\ core' = "iter"
    /\ disp' = [disp EXCEPT ![<<curJob, nextTask[curJob]>>] = "get"]
    /\ nextTask' = [nextTask EXCEPT ![curJob] = @ + 1]
    /\ UNCHANGED <<queueVars, curJob, itrIdx, next, closed, out>>
    /\ CoreFrame

\* A visit starts the job's next DispatchTask thread.  The array of threads
\* has MaxJobs rows of MaxTasks, and job ids are never used again.
CoreSpawn ==
    /\ \/ core = "spawn"
       \/ core = "visit" /\ nextTask[curJob] \in 1 .. NumTasks[curJob] - 1
    /\ IF jobId[curJob] >= MaxJobs \/ nextTask[curJob] >= MaxTasks
       THEN CoreDies /\ UNCHANGED <<disp, nextTask>>
       ELSE /\ core' = "iter" /\ UNCHANGED <<itrIdx, next>>
            /\ disp' = [disp EXCEPT ![<<curJob, nextTask[curJob]>>] = "get"]
            /\ nextTask' = [nextTask EXCEPT ![curJob] = @ + 1]
    /\ UNCHANGED <<queueVars, curJob, closed, out>>
    /\ CoreFrame

\* Mutant: the job counts as complete when its last task was dispatched.
CoreJoin_NoWait ==
    /\ core = "visit" /\ nextTask[curJob] = NumTasks[curJob]
    /\ core' = "scan"
    /\ stale' = stale \ {"inner"}
    /\ next' = [next EXCEPT !.inner = FirstEntry]
    /\ UNCHANGED <<JobQueue, qsize, lost, curJob, itrIdx, nextTask, closed, out, disp>>
    /\ CoreFrame

\* Every task was dispatched: Core blocks until the last of the job's threads
\* has ended, then removeJobfromQueue creates an iterator of its own.
CoreJoin ==
    /\ core = "visit" /\ nextTask[curJob] = NumTasks[curJob]
    /\ \A d \in TasksOf(curJob) : disp[d] = "done"
    /\ core' = "scan"
    /\ stale' = stale \ {"inner"}
    /\ next' = [next EXCEPT !.inner = FirstEntry]
    /\ UNCHANGED <<JobQueue, qsize, lost, curJob, itrIdx, nextTask, closed, out, disp>>
    /\ CoreFrame

\* The list q without its entry at position i.
Unlinked(q, i) == SubSeq(q, 1, i - 1) \o SubSeq(q, i + 1, Len(q))

\* The search of removeJobfromQueue goes from the entry at k, as many entries
\* as size says, and finds the job at i.
Finds(k, i) ==
    /\ JobQueue[k] = next.inner /\ JobQueue[i] = curJob
    /\ k <= i /\ i < k + qsize

\* Mutant: the test of the job's id is left out.
CoreUnlink_FirstEntry ==
    /\ core = "scan" /\ "inner" \notin stale
    /\ \E k \in DOMAIN JobQueue :
          JobQueue[k] = next.inner /\ JobQueue' = Unlinked(JobQueue, k)
    /\ core' = "uncount"
    /\ next' = [next EXCEPT !.inner = NoJob]
    /\ UNCHANGED <<qsize, stale, lost, curJob, itrIdx, nextTask, closed, out, disp>>
    /\ CoreFrame

(***************************************************************************)
(* removeJobfromQueue finds the job and unlinks it, or its iterator        *)
(* throws.  It synchronizes on lockx, createNewJob on JobQueue: when the   *)
(* accept thread is linking an entry right behind the one being removed,   *)
(* the new entry can end up linked to the removed one only, and be lost.   *)
(***************************************************************************)
CoreUnlink ==
    /\ core = "scan" /\ "inner" \notin stale
    /\ \E k, i \in DOMAIN JobQueue :
          /\ Finds(k, i)
          /\ \/ JobQueue' = Unlinked(JobQueue, i) /\ UNCHANGED lost
             \/ /\ main = "linked" /\ i = Len(JobQueue) - 1 /\ JobQueue[i + 1] = peer
                /\ JobQueue' = SubSeq(JobQueue, 1, i - 1)
                /\ lost' = lost \union {peer}
    /\ core' = "uncount"
    /\ next' = [next EXCEPT !.inner = NoJob]
    /\ UNCHANGED <<qsize, stale, curJob, itrIdx, nextTask, closed, out, disp>>
    /\ CoreFrame

\* The iterator is stale or gets to the end of the list before size says so,
\* and throws; or the job is not among the entries it is given, and stays.
CoreMiss ==
    /\ core = "scan"
    /\ "inner" \in stale \/ \A k, i \in DOMAIN JobQueue : ~Finds(k, i)
    /\ IF "inner" \in stale \/ \A k \in DOMAIN JobQueue :
                                 JobQueue[k] = next.inner => Len(JobQueue) + 1 < k + qsize
       THEN CoreDies
       ELSE /\ core' = "finish" /\ UNCHANGED itrIdx
            /\ next' = [next EXCEPT !.inner = NoJob]
    /\ UNCHANGED <<queueVars, curJob, nextTask, closed, out, disp>>
    /\ CoreFrame

(***************************************************************************)
(* size-- and modCount++ of the removal.  size-- can interleave with the   *)
(* accept thread's size++, and either update may be lost; in both cases    *)
(* the accept thread's is over.                                            *)
(***************************************************************************)
CoreUncount ==
    /\ core = "uncount"
    /\ \/ qsize' = qsize - 1 /\ UNCHANGED main
       \/ main = "linked" /\ qsize' \in {qsize - 1, qsize + 1} /\ main' = "counted"
    /\ core' = "finish"
    /\ stale' = {"outer", "inner"}
    /\ UNCHANGED <<JobQueue, lost, curJob, itrIdx, next, nextTask, closed, out, disp>>
    /\ UNCHANGED <<clusterVars, peer, requests, jobIdNext, jobId, workerVars,
                   client, conn, kills>>

\* The client is told that its job finished, and the socket is closed.
CoreFinish ==
    /\ core = "finish"
    /\ \/ /\ Write(curJob, Message("job_finish", NoTask))
          /\ core' = "iter" /\ closed' = closed \union {curJob} /\ UNCHANGED <<itrIdx, next>>
       \/ Unreachable(curJob) /\ CoreDies /\ UNCHANGED <<out, closed>>
    /\ UNCHANGED <<queueVars, curJob, nextTask, disp>>
    /\ CoreFrame

Core == CorePoll \/ CoreIterationEnds \/ CoreNext \/ CoreAnnounce \/ CoreSpawn
        \/ CoreJoin \/ CoreUnlink \/ CoreMiss \/ CoreUncount \/ CoreFinish

-----------------------------------------------------------------------------
(***************************************************************************)
(* A DispatchTask thread: DispatchTask.run                                 *)
(***************************************************************************)
DispFrame == UNCHANGED <<mainVars, queueVars, coreVars, client, kills>>

\* The catch block: the node is forgotten and the loop starts over, with the
\* connection left open.
Retry(d) ==
    /\ abandonWorkerNode(d)
    /\ disp' = [disp EXCEPT ![d] = "get"]

GetFree(d) ==
    /\ disp[d] = "get"
    /\ \/ getFreeWorkerNode(d) /\ disp' = [disp EXCEPT ![d] = "connect"]
       \/ waitFreeWorkerNode(d) /\ UNCHANGED disp
    /\ UNCHANGED <<workerVars, out, conn>> /\ DispFrame

\* A worker process listens from before it registers until it exits; the
\* task waits in the backlog of its server socket.
Connect(d) ==
    /\ disp[d] = "connect"
    /\ IF wproc[node[d]] = "down"
       THEN Retry(d) /\ UNCHANGED <<conn, backlog>>
       ELSE /\ disp' = [disp EXCEPT ![d] = "await"]
            /\ conn' = [conn EXCEPT ![d] = "open"]
            /\ backlog' = [backlog EXCEPT ![node[d]] = Append(@, d)]
            /\ UNCHANGED clusterVars
    /\ UNCHANGED <<wproc, cur, runs, cutOff, out>> /\ DispFrame

\* Mutant: the end of the worker's connection is taken for its answer.
Receive_AnyAnswer(d) ==
    /\ disp[d] = "await" /\ conn[d] \in {"finished", "reset"}
    /\ disp' = [disp EXCEPT ![d] = "print"]
    /\ UNCHANGED <<clusterVars, conn, workerVars, out>> /\ DispFrame

\* The worker's answer task_finish, or the end of its connection.
Receive(d) ==
    /\ disp[d] = "await"
    /\ \/ /\ conn[d] = "finished"
          /\ disp' = [disp EXCEPT ![d] = "print"]
          /\ UNCHANGED <<clusterVars, conn>>
       \/ /\ conn[d] = "reset"
          /\ Retry(d)
          /\ conn' = [conn EXCEPT ![d] = "none"]
    /\ UNCHANGED <<workerVars, out>> /\ DispFrame

\* lock1 is held from the opcode to the text that follows it.
Lock1Free == \A d \in Dispatcher : disp[d] # "text"

\* Mutant: the two writes are not synchronized.
PrintOpcode_NoLock(d) ==
    /\ disp[d] = "print"
    /\ Write(d[1], Message("job_print", NoTask))
    /\ disp' = [disp EXCEPT ![d] = "text"]
    /\ UNCHANGED <<clusterVars, conn, workerVars>> /\ DispFrame

PrintOpcode(d) ==
    /\ disp[d] = "print" /\ Lock1Free
    /\ \/ /\ Write(d[1], Message("job_print", NoTask))
          /\ disp' = [disp EXCEPT ![d] = "text"]
          /\ UNCHANGED <<clusterVars, conn>>
       \/ /\ Unreachable(d[1])
          /\ Retry(d) /\ conn' = [conn EXCEPT ![d] = "none"]
          /\ UNCHANGED out
    /\ UNCHANGED workerVars /\ DispFrame

\* Writing the text sets the flag that ends the loop.
PrintText(d) ==
    /\ disp[d] = "text"
    /\ \/ /\ Write(d[1], Message("text", d))
          /\ disp' = [disp EXCEPT ![d] = "close"]
          /\ UNCHANGED <<clusterVars, conn>>
       \/ /\ Unreachable(d[1])
          /\ Retry(d) /\ conn' = [conn EXCEPT ![d] = "none"]
          /\ UNCHANGED out
    /\ UNCHANGED workerVars /\ DispFrame

\* The connection is closed and addFreeWorkerNode called.
Close(d) ==
    /\ disp[d] = "close"
    /\ conn' = [conn EXCEPT ![d] = "closed"]
    /\ beginAddFreeWorkerNode(d)
    /\ disp' = [disp EXCEPT ![d] = "add"]
    /\ UNCHANGED <<workerVars, out>> /\ DispFrame

\* Mutant: the flag is not set, and the task is dispatched again.
Release_FlagNotSet(d) ==
    /\ disp[d] = "add"
    /\ addFreeWorkerNode(d)
    /\ disp' = [disp EXCEPT ![d] = "get"]
    /\ UNCHANGED <<workerVars, out, conn>> /\ DispFrame

\* addFreeWorkerNode returns or throws; the flag is set, and the thread ends.
Release(d) ==
    /\ disp[d] = "add"
    /\ addFreeWorkerNode(d)
    /\ disp' = [disp EXCEPT ![d] = "done"]
    /\ UNCHANGED <<workerVars, out, conn>> /\ DispFrame

DispatchTask(d) == GetFree(d) \/ Connect(d) \/ Receive(d) \/ PrintOpcode(d)
                   \/ PrintText(d) \/ Close(d) \/ Release(d)

-----------------------------------------------------------------------------
(***************************************************************************)
(* A worker process: Worker.run                                            *)
(***************************************************************************)
WorkerFrame == UNCHANGED <<clusterVars, peer, main, jobIdNext, jobId, queueVars,
                           coreVars, client, out, disp>>

\* The server socket is bound, then the worker registers.
WorkerStart(p) ==
    /\ wproc[p] = "down"
    /\ wproc' = [wproc EXCEPT ![p] = "boot"]
    /\ requests' = Append(requests, [kind |-> "worker", id |-> p])
    /\ UNCHANGED <<backlog, cur, runs, cutOff, conn, kills>> /\ WorkerFrame

WorkerAccept(p) ==
    /\ wproc[p] = "idle" /\ backlog[p] # <<>>
    /\ wproc' = [wproc EXCEPT ![p] = "exec"]
    /\ cur' = [cur EXCEPT ![p] = Head(backlog[p])]
    /\ backlog' = [backlog EXCEPT ![p] = Tail(@)]
    /\ UNCHANGED <<requests, runs, cutOff, conn, kills>> /\ WorkerFrame

\* The process ends: connections without an answer are reset.
Exit(p) ==
    /\ wproc' = [wproc EXCEPT ![p] = "down"]
    /\ backlog' = [backlog EXCEPT ![p] = <<>>]
    /\ cur' = [cur EXCEPT ![p] = NoTask]
    /\ conn' = [d \in Dispatcher |->
                  IF node[d] = p /\ conn[d] = "open" THEN "reset" ELSE conn[d]]

\* The task runs to its end, or it throws.
WorkerExecute(p) ==
    /\ wproc[p] = "exec"
    /\ IF cur[p] \in BadTask
       THEN Exit(p) /\ UNCHANGED runs
       ELSE /\ runs' = [runs EXCEPT ![cur[p]] = @ + 1]
            /\ wproc' = [wproc EXCEPT ![p] = "ran"]
            /\ UNCHANGED <<backlog, cur, conn>>
    /\ UNCHANGED <<requests, cutOff, kills>> /\ WorkerFrame

\* Its completion is reported: task_finish and the task's id.
WorkerAnswer(p) ==
    /\ wproc[p] = "ran"
    /\ conn' = [conn EXCEPT ![cur[p]] = "finished"]
    /\ wproc' = [wproc EXCEPT ![p] = "finish"]
    /\ UNCHANGED <<backlog, cur, requests, runs, cutOff, kills>> /\ WorkerFrame

\* worker_finish, which the scheduler never reads.  If the scheduler has
\* closed the connection already, the write may throw and end the worker.
WorkerFinish(p) ==
    /\ wproc[p] = "finish"
    /\ \/ /\ wproc' = [wproc EXCEPT ![p] = "idle"]
          /\ cur' = [cur EXCEPT ![p] = NoTask]
          /\ UNCHANGED <<backlog, conn>>
       \/ /\ ClosedWriteFails /\ conn[cur[p]] = "closed"
          /\ Exit(p)
    /\ UNCHANGED <<requests, runs, cutOff, kills>> /\ WorkerFrame

\* The environment kills a worker; its registration is cut off if the
\* scheduler has not accepted it.
WorkerKill(p) ==
    /\ wproc[p] # "down" /\ kills.worker < MaxWorkerKill
    /\ Exit(p)
    /\ requests' = [i \in DOMAIN requests |->
                      IF requests[i] = [kind |-> "worker", id |-> p]
                      THEN [kind |-> "broken", id |-> p] ELSE requests[i]]
    /\ cutOff' = IF wproc[p] = "ran" THEN [cutOff EXCEPT ![cur[p]] = @ + 1] ELSE cutOff
    /\ kills' = [kills EXCEPT !.worker = @ + 1]
    /\ UNCHANGED runs /\ WorkerFrame

Worker(p) == WorkerAccept(p) \/ WorkerExecute(p) \/ WorkerAnswer(p) \/ WorkerFinish(p)

-----------------------------------------------------------------------------
(***************************************************************************)
(* A client process: Client.main                                           *)
(***************************************************************************)
ClientFrame == UNCHANGED <<clusterVars, main, peer, jobIdNext, jobId, queueVars,
                           coreVars, workerVars, out, disp, conn>>

ClientSubmit(j) ==
    /\ client[j] = "new"
    /\ client' = [client EXCEPT ![j] = "sent"]
    /\ requests' = Append(requests, [kind |-> "job", id |-> j])
    /\ UNCHANGED kills /\ ClientFrame

\* With the job id received, the client sends the file.
ClientUpload(j) ==
    /\ client[j] = "upload"
    /\ client' = [client EXCEPT ![j] = "wait"]
    /\ UNCHANGED <<requests, kills>> /\ ClientFrame

\* The feedback loop ends with job_finish.
ClientDone(j) ==
    /\ client[j] = "wait"
    /\ \E i \in DOMAIN out[j] : out[j][i].op = "job_finish"
    /\ client' = [client EXCEPT ![j] = "done"]
    /\ UNCHANGED <<requests, kills>> /\ ClientFrame

\* The environment kills a client, before ("gone") or after ("killed") the
\* whole file was sent.
ClientKill(j) ==
    /\ client[j] \in {"sent", "upload", "wait"} /\ kills.client < MaxClientKill
    /\ client' = [client EXCEPT ![j] = IF @ = "wait" THEN "killed" ELSE "gone"]
    /\ kills' = [kills EXCEPT !.client = @ + 1]
    /\ UNCHANGED requests /\ ClientFrame

Client(j) == ClientUpload(j) \/ ClientDone(j)

-----------------------------------------------------------------------------
Next ==
    \/ Main
    \/ Core
    \/ \E d \in Dispatcher : DispatchTask(d)
    \/ \E p \in Port : WorkerStart(p) \/ Worker(p) \/ WorkerKill(p)
    \/ \E j \in Job : ClientSubmit(j) \/ Client(j) \/ ClientKill(j)

Spec == Init /\ [][Next]_vars

(***************************************************************************)
(* Every thread and process that can take a step eventually does: the JVM  *)
(* and the operating system schedule all of them.  Nobody has to start or  *)
(* kill a worker or to submit a job.                                       *)
(***************************************************************************)
Fairness ==
    /\ WF_vars(Main)
    /\ WF_vars(Core)
    /\ \A d \in Dispatcher : WF_vars(DispatchTask(d))
    /\ \A p \in Port : WF_vars(Worker(p))
    /\ \A j \in Job : WF_vars(Client(j))

FairSpec == Spec /\ Fairness

-----------------------------------------------------------------------------
(***************************************************************************)
(* Properties                                                              *)
(***************************************************************************)

MainTypeOK ==
    /\ main \in {"accept", "add", "reply", "upload", "enqueue", "linked", "counted",
                 "hung", "dead"}
    /\ peer \in Port \union Job \union {NoJob}
    /\ requests \in Seq([kind : {"worker", "broken", "job"}, id : Port \union Job])
    /\ jobIdNext \in Nat /\ jobId \in [Job -> Nat \union {-1}]

CoreTypeOK ==
    /\ JobQueue \in Seq(Job) /\ qsize \in Nat /\ stale \subseteq {"outer", "inner"}
    /\ core \in {"off", "poll", "iter", "visit", "spawn", "scan", "uncount", "finish", "dead"}
    /\ curJob \in Job \union {NoJob} /\ itrIdx \in Nat
    /\ next \in [outer : Job \union {NoJob}, inner : Job \union {NoJob}]
    /\ nextTask \in [Job -> Nat] /\ \A j \in Job : nextTask[j] <= NumTasks[j]
    /\ closed \subseteq Job /\ lost \subseteq Job

TaskTypeOK ==
    /\ disp \in [Dispatcher -> {"new", "get", "connect", "await", "print", "text",
                                "close", "add", "done"}]
    /\ conn \in [Dispatcher -> {"none", "open", "finished", "reset", "closed"}]
    /\ wproc \in [Port -> {"down", "boot", "idle", "exec", "ran", "finish"}]
    /\ backlog \in [Port -> Seq(Dispatcher)]
    /\ cur \in [Port -> Dispatcher \union {NoTask}]
    /\ runs \in [Dispatcher -> Nat] /\ cutOff \in [Dispatcher -> Nat]

ClientTypeOK ==
    /\ client \in [Job -> {"new", "sent", "upload", "wait", "done", "gone", "killed"}]
    /\ out \in [Job -> Seq([op : {"job_start", "job_print", "text", "job_finish"},
                            task : Dispatcher \union {NoTask}])]
    /\ kills \in [worker : 0 .. MaxWorkerKill, client : 0 .. MaxClientKill]

\* The type invariant of the composed system.
SchedulerTypeOK ==
    ClusterTypeOK /\ MainTypeOK /\ CoreTypeOK /\ TaskTypeOK /\ ClientTypeOK

Sent(j, m) == \E i \in DOMAIN out[j] : out[j][i] = m

\* The bytes a client receives follow the protocol its feedback loop parses,
\* although Core and every DispatchTask of the job write to one stream:
\* job_start comes first, each job_print is followed by its text before
\* anything else, no task is reported twice, and job_finish comes last.
StreamWellFormed ==
    \A j \in Job : \A i \in DOMAIN out[j] :
        LET m == out[j][i] IN
        /\ m.op = "job_start" <=> i = 1 /\ NumTasks[j] > 0
        /\ m.op = "job_print" => i = Len(out[j]) \/ out[j][i + 1].op = "text"
        /\ m.op = "text" => /\ out[j][i - 1].op = "job_print"
                            /\ m.task \in TasksOf(j)
                            /\ \A k \in DOMAIN out[j] : out[j][k] = m => k = i
        /\ m.op = "job_finish" => i = Len(out[j])

\* A task whose completion is reported to the client did run to completion on
\* a worker, whatever was killed and dispatched again meanwhile.
ReportedTasksRan ==
    \A d \in Dispatcher : Sent(d[1], Message("text", d)) => runs[d] > 0

\* While its client is there, a task runs to completion again only when the
\* worker that completed it was killed before it had answered: no other
\* exception of an attempt, and no answer, makes DispatchTask repeat it.
RepeatedOnlyIfCutOff ==
    \A d \in Dispatcher : ~Unreachable(d[1]) => runs[d] <= 1 + cutOff[d]

\* The Core thread joins all of a job's threads before it reports the job
\* finished: the client has been told of every task, and no thread of the
\* job is left that could still use the closed connection.
FinishedJobIsComplete ==
    \A j \in Job : Sent(j, Message("job_finish", NoTask)) =>
        \A d \in TasksOf(j) : Sent(j, Message("text", d)) /\ disp[d] = "done"

(***************************************************************************)
(* The inductive invariant behind FinishedJobIsComplete, ReportedTasksRan  *)
(* and ImplementsService.                                                  *)
(***************************************************************************)

\* The accept thread's connection is a job's while it receives and queues it,
\* and the requests name workers and jobs.
PeersKnown ==
    /\ main \in {"upload", "enqueue", "linked", "counted"} => peer \in Job
    /\ \A i \in DOMAIN requests :
          IF requests[i].kind = "job" THEN requests[i].id \in Job ELSE requests[i].id \in Port

\* A visited job is within the part of the list that size counts.
VisitInRange ==
    core \in {"visit", "spawn", "scan", "uncount"} =>
        curJob \in Job /\ 1 <= itrIdx /\ itrIdx <= qsize

\* The threads of a job are started in order, and before the job is removed
\* they have all ended.
ThreadsInOrder ==
    /\ \A d \in Dispatcher : disp[d] = "new" <=> nextTask[d[1]] <= d[2]
    /\ core = "spawn" => nextTask[curJob] = 0 /\ NumTasks[curJob] > 0
    /\ core \in {"scan", "uncount", "finish"} =>
          curJob \in Job /\ \A d \in TasksOf(curJob) : disp[d] = "done"

\* A thread past its report has told the client, if there is one to tell.
ReportsSent ==
    \A d \in Dispatcher : disp[d] \in {"close", "add", "done"} =>
        Unreachable(d[1]) \/ Sent(d[1], Message("text", d))

\* A worker has completed task d and not answered yet.
Unanswered(d) == \E p \in Port : wproc[p] = "ran" /\ cur[p] = d

\* A worker's answer stands for a completed run until it has been reported.
AnswersAreRuns ==
    \A d \in Dispatcher :
        conn[d] = "finished" \/ disp[d] \in {"print", "text"} \/ Unanswered(d) => runs[d] > 0

\* A client that can be told is told that its job starts before a thread for
\* one of its tasks exists, and workers only serve tasks that have a thread.
StartedFirst ==
    /\ \A j \in Job : nextTask[j] > 0 =>
          Unreachable(j) \/ Sent(j, Message("job_start", NoTask))
    /\ core = "spawn" => Unreachable(curJob) \/ Sent(curJob, Message("job_start", NoTask))
    /\ \A p \in Port : cur[p] \in Dispatcher => disp[cur[p]] # "new"
    /\ \A p \in Port : \A i \in DOMAIN backlog[p] : disp[backlog[p][i]] # "new"

SchedulerInv ==
    /\ SchedulerTypeOK
    /\ ClusterInv
    /\ PeersKnown
    /\ VisitInRange
    /\ ThreadsInOrder
    /\ ReportsSent
    /\ FinishedJobIsComplete
    /\ AnswersAreRuns
    /\ ReportedTasksRan
    /\ StartedFirst

\* The abstract specification, with the client's stream and the workers' runs
\* as its state.
Service == INSTANCE BatchService WITH
    ServiceJob  <- Job,
    ServiceTask <- Dispatcher,
    started  <- {j \in Job : Sent(j, Message("job_start", NoTask))},
    ran      <- {d \in Dispatcher : runs[d] > 0},
    reported <- {d \in Dispatcher : Sent(d[1], Message("text", d))},
    finished <- {j \in Job : Sent(j, Message("job_finish", NoTask))},
    crashed  <- {j \in Job : Unreachable(j)}

\* The whole system keeps BatchService's promise to its clients.
ImplementsService == Service!ServiceSpec

Queued(j) == \E i \in DOMAIN JobQueue : JobQueue[i] = j

\* A job that createNewJob has linked into the queue: the accept thread is not
\* at it any more, and did not give it up.
Accepted(j) ==
    jobId[j] # -1 /\ ~(peer = j /\ main \in {"upload", "enqueue", "hung", "dead"})

\* An accepted job stays queued until Core takes it out to finish it, and then
\* it is finished unless Core dies of writing to its client -- the entries
\* excepted that the race of createNewJob and removeJobfromQueue has dropped.
JobsAccountedFor ==
    \A j \in Job : Accepted(j) =>
        \/ Queued(j) \/ j \in lost \/ j \in closed
        \/ curJob = j /\ core \in {"uncount", "finish", "dead"}

\* The comment of class Core: the Core thread picks up the queued jobs in
\* round robin fashion and dispatches one task each time, so that every
\* queued job is served to the end once there are workers.
QueuedJobFinishes ==
    \A j \in Job : Queued(j) /\ workers # {} ~> client[j] = "done"

\* An increment of size was lost: JobQueue counts fewer entries than it has.
CountLost == main # "linked" /\ qsize < Len(JobQueue)

\* What is left of it: a queued job is finished unless Core dies, or the race
\* on JobQueue drops the job's entry or an increment of size.  Neither a lost
\* wakeup, nor the order of joins and returns, nor a search that missed its
\* job, nor the end of the accept thread keeps it from finishing otherwise.
FinishesUnlessRaced ==
    \A j \in Job : Queued(j) /\ workers # {} ~>
        client[j] = "done" \/ core = "dead" \/ j \in lost \/ CountLost

=============================================================================
