# Verification of spring14

TLA+ specifications, TLC models and TLAPS proofs for the programs of this
repository that carry its own concurrent and crash-prone logic: the distributed
batch system of `pdca/dist-batch-processing`, the recoverable virtual memory of
`aos/l-recoverable-vm/prj4`, the user-level threads of `aos/gthreads`, the
barriers of `aos/mpi`, the caching web proxy of `aos/a3/rpc/gen-cpp` and the
producer and consumer of `aos/prelab`. `PROJECT.json` lists components, runs,
mutants, the map from definitions to source lines, findings, hazards and theorems.

## 1. Inventory

### 1.1 Batch system: `pdca/dist-batch-processing`

A scheduler process accepts registrations from workers and jobs from clients and
hands the tasks of the jobs to free workers.

| part | state | operations |
|---|---|---|
| accept thread, `Scheduler.run` | the connection it serves, `jobIdNext` | register a worker; receive a job's class file, load the class, `createNewJob` |
| job queue, `JobDescriptor` | `LinkedList JobQueue` (entries and a `size` field) | `createNewJob` (monitor `JobQueue`), `removeJobfromQueue` (monitor `lockx`) |
| `Core` thread | a fail-fast iterator over `JobQueue`, `nextTaskId` per job, the array of threads | round robin over the jobs: announce, start one `DispatchTask` per visit, after the last join them all, remove the job, report it finished |
| `DispatchTask` threads, one per task | the node held, the connection to its worker | take a node, connect, wait for the answer, report to the client under `lock1`, return the node; on any exception start again |
| worker pool, `Cluster` | `workers`, `freeWorkers` and its monitor | `createWorkerNode`, `getFreeWorkerNode`, `addFreeWorkerNode` |
| worker process, `Worker.java` | one task at a time | register, accept, execute, answer twice (`task_finish`, `worker_finish`); any exception ends it |
| client process, `Client.java` | the stream it reads | submit, upload, read opcodes until `job_finish` |

Interaction: sockets between the processes; inside the scheduler, the free list
and its monitor, the job queue (two different monitors, and none for iterating),
the `PrintWriter` to each client shared by Core and the job's threads, `join`.

What is hard: the iterators created outside of the locks that guard their lists;
two monitors for one list; connections that the other side closes, or whose
other side is killed, at any step; restart of a worker on the same port while
the scheduler still uses the old one; exceptions that end the thread they reach.

What makes it correct: no node is listed twice, handed to two threads or
forgotten because of a race; no wakeup is lost; a task reported to a client ran,
and nothing but a lost answer makes it run again; no accepted job disappears; a
client's stream is well formed; `job_finish` comes last and only
when everything was reported; a queued job finishes.

### 1.2 Recoverable virtual memory: `aos/l-recoverable-vm/prj4/rvm.cpp`

A library in one process. State in memory: the metadata (`RVM_Id`, `Seg_list`),
mapped segments, `gTransList` with the undo and redo lists of each transaction.
State on disk: one file and one redo log per segment. Operations: `rvm_init`,
`rvm_map`, `rvm_unmap`, `rvm_destroy`, `rvm_begin_trans`, `rvm_about_to_modify`,
`rvm_commit_trans`, `rvm_abort_trans`, `rvm_truncate_log`.

What is hard: the process may die between any two file operations, or with half a
record written, and the next `rvm_map` has to make sense of what it finds; undo and redo records describe
memory at different moments; list nodes are freed and stay linked; all
transactions have one TID.

What makes it correct: `rvm_map` returns the latest committed data, all of a
transaction or nothing; an abort restores; truncation changes nothing visible.

### 1.3 User-level threads: `aos/gthreads`

A library in one process: the table `mythread[]` (id, context, result, `exited`),
`curr_thread`, `tail_index`, `nTotalThreads`, `nActiveThreads`, and a scheduler
context that picks threads round robin. Operations: `gtthread_create`, `_join`,
`_exit`, `_cancel`, `_yield`, a test-and-set mutex, and SIGVTALRM, whose handler
switches to the scheduler.

What is hard: the signal strikes between any two instructions, also of the
scheduler; the "atomic" increments are a load and a store; contexts are saved by
whoever leaves, and not always by the right one; a cancelled thread may hold a
mutex; a slot is visible before it is counted.

What makes it correct: a mutex excludes; the scheduler runs complete slots only; a
join returns the thread's result; a program whose main joins its threads ends.

### 1.4 Barriers: `aos/mpi`

The sense barrier of an OpenMP region (`barrier_sense.c`), the dissemination and
the tournament barrier over MPI (`MPI/diss.c`, `MPI/tourn.c`), and a sense barrier
followed by dissemination (`MPI/mp_mpi_sendiss.c`), all in loops of episodes.

What is hard: a count decremented under a lock and tested without it; messages of
consecutive episodes that look alike; numbers of processes that are not powers of
two; `MPI_Send` that buffers or waits, as it likes.

What makes it correct: nobody leaves an episode before everybody has entered it;
everybody gets through; no message and no wrong count is left for the next episode.

### 1.5 Web-proxy caches: `aos/a3/rpc/gen-cpp`

The handler `httpget` with one of three replacement policies (LRU, LRU-MIN,
random): `web_cache` by URL, `lru_table` by count, the free size, the count of
accesses. The server handles one request after the other, so nothing is
concurrent; what is hard is a long sequence of legal calls: two tables that must
describe the same pages, a free size that must add up, a halving search that must
end, counts kept in 32 bits and counted in 64.

### 1.6 Producer and consumer: `aos/prelab`

A linked list, the number of producers, two mutexes; a producer that starts and
joins a consumer, and a consumer of main's. What is hard: the loop condition of the
consumers reads two variables, mostly without the mutex; mutexes are unlocked by
threads that do not hold them. What makes it correct: the list is not torn, letters
are taken in order and once, the total is right, the program ends.

### 1.7 Parts left out

Most of the repository's lines are not its own program: `cns` is GnuPG and
libgpg-error as distributed; `memsystems` is the USIMM simulator, the cache
replacement championship kit with Pin 2.7 and SCons, and performance code without
a protocol on top. They are third-party code, so that the share of all lines that
the map covers is small, while the programs of sections 1.1 to 1.6 are covered but
for their printing, timing and argument parsing. Also left out: generated Thrift
stubs and the proxy's client; `pdca/test`, `pdca/sandbox`, `aos/mpi/release`,
`aos/l-recoverable-vm/lib` (earlier stages, copies and other implementations); the
shell scripts, job examples and timing output. Section 5 says what is missing from
the programs that are modelled.

## 2. Modules

| module | what it is |
|---|---|
| `Cluster` | the worker pool |
| `Scheduler` | the batch system, composed of accept thread, Core, dispatch threads, workers and clients; EXTENDS `Cluster` |
| `BatchService` | what the batch system promises its clients |
| `Rvm` | the library, its files and logs, and crashes |
| `RvmStore` | an atomic store: what RVM promises about the disk |
| `GTThread` | the thread library under the programs that call it, and the signal |
| `Barriers` | the four barrier programs over MPI and OpenMP |
| `Barrier` | what a barrier with episodes promises |
| `WebCache` | the handler and the three replacement policies |
| `PageCache` | one list of pages by recency: what the policies promise |
| `ProducerConsumer` | the program of that name |
| `PowersOfTwo` | the powers of two, by which the barriers double and LRU-MIN halves |
| `ClusterProofs`, `SchedulerProofs`, `RvmProofs`, `GTThreadProofs`, `BarriersProofs`, `WebCacheProofs`, `ProducerConsumerProofs`, `PowersOfTwoProofs` | theorems |
| `MCScheduler`, `MCRvm`, `MCGTThread`, `MCBarriers`, `MCWebCache` | instances for TLC |

### 2.1 `Cluster`

`workers` and `freeWorkers` are the lists of that name; nodes are their ports, by
which the code compares them. `waiting` is the wait set of the monitor, `node`
what a thread holds, `itr` the state of the iterator of `addFreeWorkerNode`,
which the code creates before `synchronized`: the call is therefore two actions
(`beginAddFreeWorkerNode` or the end of `createWorkerNode`, then
`addFreeWorkerNode`). A modification of the list by another thread makes a fresh
iterator stale; a stale one throws if the list is not empty (`hasNext` of an
empty list is false before anything is compared). `abandoned` and `restarted`
are history variables.

### 2.2 `Scheduler`

A dispatch thread is the pair of job and task id. Each thread and process has a
program-counter variable, and steps are cut where another thread or process can
notice: a socket operation, a change of a shared list, a monitor.

| actions | code |
|---|---|
| `ServeWorker`, `ServeAdd`, `ServeReply`, `ServeBroken` | `Scheduler.run`, a registration; the exception of the pool ends the thread |
| `ServeJob`, `UploadDone`, `UploadLost` | `Scheduler.run`, a job: the file, the class; a client that dies meanwhile leaves the thread reading -1 for ever (`hung`) or an exception ends it |
| `EnqueueLink`, `EnqueueCount`, `EnqueueModify` | `LinkedList.add` in `createNewJob`: link, `size++`, `modCount++`, of which Core holds no lock |
| `CorePoll` ... `CoreFinish` | `Core.run`; `CoreUnlink`, `CoreMiss` and `CoreUncount` are the removal under the other lock: the job is found, or it is not, or the iterator throws; `CoreDies` is the catch block |
| `GetFree`, `Connect`, `Receive`, `PrintOpcode`, `PrintText`, `Close`, `Release` | `DispatchTask.run`; `Retry` is its catch block |
| `WorkerStart`, `WorkerAccept`, `WorkerExecute`, `WorkerAnswer`, `WorkerFinish` | `Worker.run`: running the task and writing `task_finish` are two steps, and a kill may come in between; `Exit` is its catch block |
| `ClientSubmit`, `ClientUpload`, `ClientDone` | `Client.main` |
| `WorkerKill`, `ClientKill` | the environment (external) |

`out[j]` is all that was sent to the client of job j. `runs` counts completed
executions of a task, `cutOff` how often its worker was killed after completing it
and before answering; `closed` has the jobs whose socket Core has closed. An
iterator of `LinkedList` is a position (`itrIdx`), a captured next entry (`next`) and
whether the list was modified since (`stale`). `size` and the links are updated
separately, so that an iterator may find an entry that is not counted, or end before
`size` says; `FirstEntry` walks from the end when `size` is 1, as `node(0)` does. An
entry that the race has left reachable from the tail of the list only counts as lost
(`lost`, a history variable). `MaxJobs` and `MaxTasks` are the bounds of the array of
threads, beyond which Core dies. The outcomes of the race on `JobQueue` are those of the
interleaved link, count and modify steps of the two threads; the processor's
reordering of plain writes beyond that is not modelled. A write to a connection
that the other side has closed may throw or not: the JDK and TCP do not say when.
`ClosedWriteFails` chooses whether a run admits the throw.

Class names, files and texts are abstract: a job is `BadJob` when its class
cannot be loaded, a task is `BadTask` when it throws.

### 2.3 `BatchService`

Per job: started, finished, or its client crashed; per task: ran, reported. A
task runs only after its job was announced (or the client is gone), is reported
once and only after it ran, and a job finishes only when all of its tasks were
reported. `Scheduler` maps its streams and run counters onto these sets.

### 2.4 `Rvm`

`file`, `log` and `logEnd` survive `Crash`, nothing else does. `rvm_commit_trans`,
`rvm_truncate_log` and `rvm_destroy` take a step per file operation (`op`, `idx`
and `pos` say where the call is); the other calls touch the disk at most once.

A record is appended in two steps: `CommitOpen` is `fopen`, which creates the log,
`CommitRecord` the `fclose` that writes what stdio has buffered. A crash in between
leaves the log as `fopen` left it, which is `"empty"` if it is new, or `"torn"`: with
a part of a record in it, since stdio also writes when its buffer is full. The
reading loops do not stop at such an end: `fscanf` returns EOF, which is not 0, and
`Offset` and `nBytes` are uninitialised or left from before. `Loaded` therefore says
that no mapped byte is known once `rvm_map` has read a damaged log, and `wild` that
the process has read one; `TruncateStray` that `rvm_truncate_log` may write anything
to any segment's file. A process that does not survive its reading is a `Crash`.
Crashes are those of the process; a power failure, against which the code does not
sync, is not modelled.

A record is a function from offsets to bytes; the parsing of `"%d %d\n"`, which skips leading
white space of the data, is `ReadBack`, `LosesStep` and `InStep`.
`gTransList` is a list of lists of regions; since `srand(1)` gives all
transactions the same TID, every call acts on the first of them. `segList` keeps
freed nodes, as the code does; `rvm_truncate_log` finds their segment's name in them
still, or another for which there is no log (`TruncateFreed`). `GarbageFlag` admits that the uninitialised
`bSegFound` reads as true.

The application is part of the model and keeps the rules of the interface: it
maps a segment once, unmaps it without modifications pending, destroys it
unmapped, and writes only bytes it declared. A segment's size does not change
from one map to the next. What `malloc` returns for a transaction node is taken
to be zeroed; the code relies on that.

### 2.5 `RvmStore`

`store`, the committed contents, `pending`, the modifications of the transaction,
`committing`, and `damaged`, the segments whose contents a crash now would lose or an
earlier one has lost. `Publish` makes all of `pending` permanent in one step;
`Expose` damages a segment that the transaction being committed modifies, and no
other, from `fopen` to `fclose` and for good if the process dies there; `Ruin` changes
contents, but only while a segment is damaged. `Erase` resets bytes of a segment that is being destroyed (not necessarily all: a crash
between the two `rm` leaves the log, whose bytes a segment created again under
the name is given). `Rvm` maps `Store`, what `rvm_map` would return if the
process died now, onto `store`.

### 2.6 `GTThread`

A program is a function from start routines to sequences of library calls; the
constant `Programs` is the set of programs, one of which runs. A context is a
position: routine, call, step within the call, a value loaded and not yet stored,
the slot the call is about. Variables are named as in the code; `running` says
whose turn the processor is, `joined`, `cancelled` and `struck` are history: `struck`
says that a signal has overwritten a context or has split the last two increments of
`gtthread_create`.

| actions | code |
|---|---|
| `CreateCheck`, `CreateSetup`, `CreateMake`, `Load`, `Increment` | `gtthread_create`: test `tail_index`, fill the slot at `tail_index`, `makecontext`, the three increments (load, store) |
| `JoinFind`, `JoinWait`, `JoinReturn` | `gtthread_join`: look the id up, yield until `exited`, read the result and free the stack |
| `ExitRet`, `ExitMark`, `ExitLeave`, `MainReturns` | `gtthread_exit`, called or by the end of a routine; the return of main |
| `CancelFind`, `CancelMark`, `CancelLeave` | `gtthread_cancel`, which leaves through `dummyctx` |
| `Yield`, `MutexLock`, `MutexUnlock` | the calls of these names |
| `SchedNext`, `SchedWrap`, `SchedSkip`, `SchedPick`, `SchedCheck` | the loop of `scheduler` |
| `Preempt`, `PreemptScheduler` | `sighandler`, while a thread runs and while the scheduler does |
| `CreateOutside`, `CreateElsewhere`, `JoinAgain`, `SchedWild`, `PreemptOutside` | what C leaves undefined: an index outside of the table, a context without a stack, a second `free`, a context that was never made or whose frames are gone |

A saved context is good for one resumption (`Lost` afterwards), except the one
`makecontext` built, from which a thread can start again. Ids come from `rand()`
and are taken to differ. `gtthread_init` is the initial state; a signal between its
last statements is not modelled.

### 2.7 `Barriers`, `Barrier`

`launch` says which program runs, on how many processes and threads, and whether
`MPI_Send` buffers. `wire` counts messages by sender, receiver and tag, which is
all there is to know of messages that MPI keeps in order and that carry nothing. A
send that does not buffer waits for a posted receive that no earlier message matches.
`DissBegin` to `DissWait` are `dissemination_barrier`, in which `DissPost` is the
head of the loop over the rounds and leaves it after the last, `TournBegin` to `TournEnd`
the recursive `tournament_barrier` (`up` goes into the recursion, `down` returns
from it), `RegionBegin`, `Decrement`, `Test`, `Reset`, `Flip`, `Spin` and
`RegionEnd` the parallel region; the test of `count` and its reset are separate
accesses. `Barrier` counts per participant the episodes entered and left; the
programs are mapped onto it by their loop variables and positions.

### 2.8 `WebCache`, `PageCache`

One action per call of the handler (`Hit`, `Fetch`) and per pass of the loop of
`add_to_cache` (`EvictCounted`, `EvictRandom`, `EvictNothing`), and its end
(`Insert`). Pages are their lengths, `Width` stands for the 2^32 of a count and `Word`
for the 2^32 of a length: `Fetch` cuts the `size_t` of the page to a word, and the
code compares words as `int32_t`, so that a page of 2^31 (`Half`) bytes or more may be
negative, or short. `oversized` says that such a page was admitted. `operator[]` of
`std::map` makes missing entries, as `Entry` and `Length` do. `stuck` stands for
the three ways in which the policies fail when there is nothing to evict.
`SizeAccounted` counts the bytes of the pages as the members of a set
(`CachedBytes`). `PageCache` is one list ordered by use; its LRU-MIN takes the first
page of at least the size wanted, or half of it, and so on. `Recency` lists the
pages of `web_cache` by their counts: a page's place is the number of pages with
smaller counts, plus one.

### 2.9 `ProducerConsumer`

One action per access to the list, to `g_num_prod` or to a mutex, and per
`pthread_create` and `pthread_join`. An unlock by a thread that does not hold the
mutex releases it, as glibc's default mutexes do.

## 3. Runs

States are distinct states. All bounds are named constants.

| run | instance | checks | states |
|---|---|---|---|
| `worker_failures` | a job of 2 tasks, 2 workers, one kill, restarts, throwing writes | the pool's `NoDuplicateFree`, `NoLostWakeup`, `ExclusiveUnlessRestarted`, `PoolNotDrained`; `StreamWellFormed`, `FinishedJobIsComplete`, `ReportedTasksRan`, `RepeatedOnlyIfCutOff`, `ImplementsService` | 724,696 |
| `two_clients` | a job of 2 tasks and one of 1 task, which throws, 1 worker, one client killed | `SchedulerTypeOK`, `StreamWellFormed`, `FinishedJobIsComplete`, `JobsAccountedFor`, `ImplementsService` | 639,802 |
| `liveness` | two jobs of 1 task, a job that cannot be loaded, 1 worker, fairness | `FinishesUnlessRaced` | 71,424 |
| `round_robin` | three jobs of 1 task, 1 worker, fairness | `QueuedJobFinishes`, violated | |
| `rvm_recovery` | a segment of 2 bytes, transactions of 2 disjoint regions, 2 log records, damaged logs | `MappedIsCommitted`, `OnlyCommitsChangeStore` | 255,256 |
| `rvm_store` | 2 segments of 1 byte, 2 handles, 1 region per transaction, damaged logs | `RvmTypeOK`, `ImplementsStore` | 496,901 |
| `gtthreads` | 5 programs, `MAXTHREADS` 3, the signal anywhere | `TypeOK`, `MutualExclusion`, `JoinGivesResult`, `SlotsReady`, `Terminates` | 760,813 |
| `gtthreads_end` | the same | `AllThreadsFinished`, violated | |
| `barriers` | dissemination and tournament on 1 to 5 processes, sense on 1 and 3 threads, hybrid on 2 processes of 2 and 3 threads, sends that buffer and that wait, 2 episodes | `TypeOK`, `NothingLeftOver`, `CountRestored`, `FirstEpisodeWaits`, `ImplementsBarrier`, `AllFinish` | 222,405 |
| `web_cache` | 4 URLs, a cache of 4, lengths 0, 1, 2, 4, 5 and three that `int32_t` (4 bits here) does not hold, counts that wrap at 6, 8 requests, all policies | `TypeOK`, `SizeAccounted`, `TablesAgree`, `AlwaysEvictable`, `EvictsByRecency` | 539,837 |
| `producer_consumer` | 3 letters | `TypeOK`, `MutualExclusion`, `LettersInOrder`, `TotalIsTaken`, `Terminates` | 4,672 |
| `letters_left` | 3 letters | `NoLetterLeft`, violated | |

What they show:

- `worker_failures`, `two_clients`: under every interleaving of registration,
  restart, dispatch, return and failure the monitor of the pool does its work,
  although duplicates are looked for with an iterator from outside of it. A stale
  iterator does lose the node being returned; `PoolNotDrained` says that this never
  leaves a pool without a node unless a worker or client failed too. Clients are
  told the truth and in order, whatever is killed. A task of a live client runs to
  completion a second time only when its worker was killed after completing it and
  before answering; for a client that is gone it may be repeated whenever the report
  cannot be written. An accepted job stays queued until Core takes it out to finish
  it, except when `createNewJob` links it behind the entry that
  `removeJobfromQueue` is unlinking: then the entry can be lost.
- `liveness`: a queued job finishes unless Core dies, its entry is lost in that race,
  or an increment of `size` is (Core then polls a list that seems empty, or does not
  see its last entries). Nothing else keeps it from finishing, the death of the accept
  thread included. The run has one worker; that stale iterators of the pool do not
  drain it is `PoolNotDrained`.
- `round_robin`: Core iterates over `JobQueue` with a fail-fast iterator while
  `createNewJob` and Core's own removal modify the list: `next()` throws, the catch
  is outside of the loop, and the queued jobs are never served.
- `rvm_recovery`, `rvm_store`: recovery returns exactly what was committed, from
  any point of a truncation or a destruction and from any point of a commit but one,
  for disjoint regions and data without leading white space, and atomically for one
  region per transaction. The exception is a crash while a record is appended: the
  log of that segment, and only that one, is empty or torn then, what `rvm_map` makes
  of it is undefined, and so is the memory of the process that reads it; truncating it
  may write to the files of other segments.
- `gtthreads`: the mutex excludes wherever the signal strikes, also when a context
  is lost, a thread is cancelled or starts anew (nothing is said of a program once its
  behaviour is undefined, `wild`); with one creator the scheduler never meets a slot
  whose context is not made, and joins return results; programs whose main joins and
  returns do return from main, unless a signal meets the scheduler, a switch to it or
  the last two increments of `gtthread_create`. One such signal is enough for a thread,
  or the program, never to finish, or to be ended too early.
- `gtthreads_end`: a thread is visible to the scheduler (`nTotalThreads`) before it
  is counted (`nActiveThreads`); when the signal strikes in between and the new
  thread finishes first, the count is 0 and the scheduler ends the process.
- `barriers`: all four programs are barriers, in consecutive episodes, however
  `MPI_Send` behaves. The sense barrier waits by its own means in its first episode
  only: `sense` keeps the value that every thread waits for, and the end of the
  parallel region does the waiting from then on.
- `web_cache`: the accounting is right even when the 32-bit counts have wrapped: in
  words always, so that evicting a page gives back what inserting it took, and in
  numbers until a page whose length `int32_t` cannot hold is admitted, after which the
  free size may exceed the cache. Until the counts wrap the tables agree, a victim is always found, and it is the one that the
  policy names.
- `producer_consumer`, `letters_left`: the unlocks of mutexes that are not held do
  no harm, as they come when the producer is done; but both consumers can read an
  empty list, then a count of 0, and leave a letter that was added in between.

Deviations met while modelling that have no run of their own.

Batch system: a job whose class cannot be loaded, or a client that dies during its
upload, ends or hangs the accept thread (`UploadDone`, `UploadLost`), while the
README there says that the scheduler keeps listening; the scheduler closes the
connection once it has read `task_finish`, so that the worker's next write may
throw and end a worker that should keep listening; a worker restarted before its
dispatch thread met the reset connection is listed as free while that thread holds
its node (`ExclusiveUnlessRestarted` states the exception).

Also there: a worker that is killed after completing a task and before answering makes
a live client's task run twice; the two monitors of `JobQueue` can lose an entry or an
increment of `size`, after which a job is never served although Core lives.

RVM: the records of a commit are appended one file operation after another and
nothing marks its end, so that a crash can leave a part of a transaction of several
regions; a crash within an append leaves a log that neither `rvm_map` nor
`rvm_truncate_log` can read; undo records are copied back oldest first, so that a region declared a
second time is restored to what it was in mid-transaction; a region that begins
with white space is read back shifted; a commit or abort through one handle ends
what was declared through another; with an uninitialised `bSegFound` that reads as
true no file is created and a truncation loses what was committed.

Threads: a thread preempted between `exited = 1` and the decrement of
`nActiveThreads` is never resumed, so that a process whose main left by
`gtthread_exit` may never end; `gtthread_cancel` does not save its caller, who
starts anew or resumes in frames that are gone; the mutex of a cancelled holder is
never released; a cancel that races with the exit of its target decrements
`nActiveThreads` twice; two creators race for `tail_index`; a signal that finds the
scheduler at work saves the scheduler's context over that of `curr_thread`; the
join of a cancelled thread returns a result that was never set; a second join frees
the stack again. `Creators`, `Cancels` and `MainExits` in the properties keep such
programs apart where the property does not hold of them.

### Bounds

Two workers, two dispatch threads and the accept thread are what it takes for threads to compete for
a worker, for a client and for the free list at once, and for a stale iterator, its
cause and a waiting thread. One kill of a worker allows the restart under a thread
that still holds the old node; TLC explores no further kills, the proofs have no
such bound. `MaxJobs` and `MaxTasks` are 1000 and 100000 as in the code. Two jobs let
one be linked while the other is being removed; with two jobs and three tasks, what TLC
can explore is one worker for which the threads compete. A segment of two bytes has two disjoint
regions, an overlap and a shift; two log records (`MaxLog`) an order between them; a
`Seg_list` of two nodes (`MaxNodes`) a freed last node that is reused, and one that is
not. Of a process that has read a damaged log, about which little is said, only those
executions are explored in which it adds one record to logs that hold none
(`rvm_store`) or none (`rvm_recovery`, `MaxWild`).
Three
slots let main and two threads share a mutex, and a fourth creation fail; the
programs have every call, a cancelled holder, a double join and a second creator.
One to five processes have powers of two and others, with zero to three rounds and
winners without opponents; two episodes let one process be an episode ahead; three
threads of a region let one decrement while others test and reset. A cache of 4 with
pages up to 4 takes up to four evictions for one insertion, halves twice, and has a
page that does not fit; words of 4 bits have lengths that turn negative and lengths
that turn short; eight requests wrap counts of six. Three letters let both
consumers take one with one left.

Ports, segments of one byte and URLs are interchangeable: the symmetry sets are used
in runs without liveness only.

`CHECK_DEADLOCK FALSE` in the runs of the batch system, of the threads, the barriers
and the cache: these programs end, or come to rest when every job is done, and the
batch system also when Core or the accept thread has died. The runs of RVM and of the
producer and consumer check for deadlock.

### Fairness

The batch system's `FairSpec` has weak fairness of the accept thread, of Core, of
every dispatch thread, of every worker process and of every client: the JVM and the
operating system run threads that can run, and connections are served in order.
Nothing is assumed of the environment: that a job is submitted, that a worker is
started or killed. `FinishesUnlessRaced` therefore starts from a queued job and a
registered worker.

In `GTThread` the scheduler is weakly fair (it is what the processor runs), and the
thread of each slot strongly: a quantum is long enough for a thread that is
scheduled again and again to take a step. A signal that finds the scheduler itself
or a switch to it under way destroys a context, and one is enough for a thread never
to finish: `Terminates` is about executions without such a signal.

The barriers have weak fairness of the whole system only: somebody runs who can.

In `ProducerConsumer` every thread is weakly fair, as threads of the operating system
are, but acquiring a mutex is strongly fair: a thread that finds it free time after
time gets it in the end. POSIX does not promise that; what justifies it is that the
producer after each letter, and a consumer that found the list empty, call
`sched_yield` when they have released the mutex, and so let the others run.

## 4. Proofs

TLAPS proves for all values of the constants that satisfy the named assumptions
(`ClusterAssumption`, `SchedulerAssumption`, `RvmAssumption`, `MissingAssumption`,
`GTThreadAssumption`, `BarriersAssumption`, `WebCacheAssumption`,
`ProducerConsumerAssumption`):

| theorem | statement |
|---|---|
| `ClusterTypeCorrect`, `FreeListHasNoDuplicates`, `NoWakeupIsLost`, `WorkersAreExclusive`, `RacesNeverDrainThePool` | the five invariants of the pool, which `SchedulerUsesPool` carries over to the batch system |
| `SchedulerTypeCorrect`, `FinishedJobsAreComplete`, `ReportsAreTrue` | three invariants of the batch system, for any number of jobs, workers and kills |
| `RepeatsWereCutOff` | `RepeatedOnlyIfCutOff`: a task of a client that is there runs to completion once at most, and once more for each worker killed between completing and answering it |
| `JobsServedOnce` | a job is linked once, Core is only at jobs that are linked and whose sockets are open, and none is reported finished twice, although list and size are updated under different locks. It does not say that an entry stays linked |
| `JobsAreAccountedFor` | `JobsAccountedFor`: an accepted job is linked, taken out by Core to be finished, or was dropped by the race of `createNewJob` and `removeJobfromQueue` |
| `StreamsFollowTheProtocol` | `StreamWellFormed`, for any number of threads that write to a client |
| `SchedulerImplementsService` | the batch system implements `BatchService` |
| `RvmTypeCorrect` | the type invariant of RVM, without conditions |
| `MemoryIsCommitted`, `TruncationKeepsStore` | `MappedIsCommitted` and `OnlyCommitsChangeStore`, under `Disciplined`; both except a process that has read a damaged log |
| `RvmImplementsStore` | RVM implements `RvmStore`, with the exceptions that module states for crashes within an append, under `Disciplined` and with at most one region per transaction |
| `GTThreadProofs`: `TypeCorrect`, `MutexesExclude` | `TypeOK` and `MutualExclusion`, for all programs, mutexes and `MAXTHREADS` |
| `CountedSlotsAreReady`, `JoinsGiveResults` | `SlotsReady` and `JoinGivesResult`, for all programs whose main is the only creator |
| `CountIsRestored`, `FirstEpisodeIsABarrier` | `CountRestored` and `FirstEpisodeWaits`, for any number of processes, threads and episodes |
| `IsABarrier` | `ImplementsBarrier`: the four programs are barriers, for any number of processes, threads and episodes, powers of two or not |
| `AllIsReceived`, `BarriersProofs!TypeCorrect` | `NothingLeftOver` and `TypeOK`; in particular at most two messages of a kind are under way at a time |
| `MessagesAccounted` | the invariant they rest on: messages under way are those sent less those received, over all episodes |
| `WebCacheProofs`: `TypeCorrect`, `TablesDescribeTheSamePages`, `FreeSizeIsAccounted`, `EvictionAlwaysPossible` | `TypeOK`, `TablesAgree`, `SizeAccounted` and `AlwaysEvictable`, for any cache, pages, widths and requests, lengths that `int32_t` does not hold included |
| `LeastRecentlyUsedGoes` | `EvictsByRecency`: until the counts wrap, the steps of LRU and LRU-MIN are those of `PageCache` |
| `ProducerConsumerProofs`: `TypeCorrect`, `ListIsExclusive`, `LettersKeepOrder`, `TotalIsRight` | the four invariants, for any number of letters |

`Disciplined` says that no byte is white space, regions of a transaction are
disjoint, and `bSegFound` does not read as true by accident. TLC finds
counterexamples when white space, overlap or a second region is admitted.
`GTThreadAssumption` asks of programs that they do not create main and that who
unlocks a mutex has locked it and not unlocked it since.

The inductive invariants:

- `ClusterInv` adds to the properties that a thread with an open iterator holds a
  node, and that nodes held or listed are registered. Without the first,
  `addFreeWorkerNode` could append "no node"; without the second,
  `createWorkerNode` of an unregistered port could meet it in the list.
- `SchedulerInv` adds where things are: the accept thread's peer is a job while it
  queues one (`PeersKnown`); Core's iterator stays within `size` (`VisitInRange`,
  which keeps `size` from becoming negative when the two monitors let the updates
  race); threads are started in order and have all ended when the job is removed
  (`ThreadsInOrder`); a thread past its report has sent it (`ReportsSent`); an
  answer stands for a completed run (`AnswersAreRuns`); a task runs only after
  its job was announced (`StartedFirst`). `FinishedJobIsComplete` follows from
  `ThreadsInOrder` and `ReportsSent` at the step that writes `job_finish`.
- `RunInv`: a task that a worker has before it, in its backlog or in execution, is
  there once, at the one worker that its thread is connected to and waits for
  (`PendingAwaited`, `PendingOnce`); until that worker has completed it, the task has
  run as often as it was cut off, unless the client is gone (`RunsCounted`). Hence a
  thread that starts again starts a task that has not run, or was cut off.
- `OnceInv`: the connections that wait to be served belong to jobs without an id,
  one each (`RequestsNew`); nothing is done for a job before it is queued
  (`UnservedIdle`), the queue has no duplicates, the job Core visits is in it
  (`VisitedQueued`) as is the next one of an iterator that is not stale
  (`NextQueued`), and Core is not at a job whose socket is closed (`FinishedLeft`).
  `TurnInv`, for the
  streams: `lock1` lets one thread be between an opcode and its text (`OneText`),
  exactly when the stream ends in `job_print` (`PrintIsPending`), and a thread that
  has reported only has its node to return (`ReportedEnds`).
- `RvmInv` relates memory to disk through `Store`. `FirstHasAll`: only the first
  transaction of the list has regions, because of the shared TID.
  `UndeclaredOnDisk`: bytes no region covers are as on disk. `DeclaredOnDisk`: the
  undo records are as on disk, until the commit has written the region; hence an
  abort restores what is on disk, and after the last record of a commit memory is
  what is on disk. `RegionsDisjoint` keeps one region's record from changing
  another's. `TruncateApplied`: the file holds the records a truncation has
  written, so that removing the log changes nothing. `FilesExist`: listed segments
  with a log have a file, so that nothing a truncation writes is lost. `KnownWhole`: a
  process that is not `wild` has no damaged segment mapped or in its list, but for the
  log it has just created; hence it neither reads nor truncates one.

- `GTThreadProofs!Inv`: a position's step belongs to a call of the right kind
  (`Places`); the slot of a running thread has no context but the one it started
  from (`Entered`), so that a switch without a save cannot bring an old position
  back into a critical section; a mutex somebody is inside of is locked
  (`LockHeld`). `Moves` and `Leaves` say once what all steps that lock nothing do.
- `OneCreator`, for programs whose main creates all threads: slot 0 is main's alone
  (`Own`), how far main is with a creation and what that says of `tail_index`,
  `nTotalThreads` and the value it has loaded (`Creation`), the scheduler runs
  counted slots (`Counted`), a thread that has exited left its result or was
  cancelled (`Results`).
- `BarriersProofs!Inv`: the count of a region is the number of threads that have not
  decremented it, and then some thread will find it 0 or has (`Counting`), or it
  has been reset (`Restored`); threads at the reset have nobody to come. `SenseInv`
  says the same of `sense` in the first episode.
- `BarriersProofs!MpiInv` is about messages that look alike in all episodes. `Place`
  says where a process can be and what that says of its round; `DissWire` and
  `TournWire` that `wire` holds what has been sent less what has been received,
  counted over all episodes. As no count is negative, a process that has passed
  round k has heard of the process 2^k before it, and by induction on the rounds of
  all that lie fewer than 2^(k+1) before it (`DissSpreads`): past the last round,
  of everybody (`DissMeets`). In the tournament the winner of round r has heard of
  the 2^r processes from itself on (`TournGathers`), and who is woken was woken by a chain
  from process 0, which has heard of all (`TournWakes`, `TournMeets`). So nobody
  leaves an episode that somebody has not entered, which is `Barrier`; hence
  processes are one episode apart at most, and two messages of a kind under way are
  the most there can be (`TwoAtMost`); and when all are done as much was received as
  was sent.
- `WebCacheProofs!Inv`: counts in the table are below the next count (`Given`), so
  that a new one overwrites nothing, and the page that room is made for is not in the
  cache (`Wanted`). `SizeInv` is the equation of the sizes as a congruence modulo `Word`, and adds that
  the bytes are finitely many; `Fits` that room
  is made only for pages that fit: when one does not fit in, some page has bytes, and
  LRU-MIN's halving comes to 1, where it finds it (`HalvingFinds`).
- The order of use: the ranks of the pages by count are all the numbers below their
  number (`RankOnto`, by the pigeonhole principle), so that `Recency` lists each page
  once (`Ordered`); taking a page out moves the later ones by one (`OneLess`), and one
  with the largest count comes last (`OneMore`). A victim is the least count in
  `lru_table` among pages of a size; as the tables agree, it is the first such page of
  the list (`FirstLarge`).
- `ProducerConsumerProofs!Inv`: who has been started and joined (`Order`), what the
  producer has to add (`ToAdd`), that a stray unlock comes only after the producer
  is done and takes the mutex from its holder only when the other consumer has
  returned (`Locking`), and how front, back and the letters carried fit together.

Induction over the natural numbers is done with the least-number principle
(`LeastNumber`, `EveryNumber` in `PowersOfTwoProofs`, from the library's theorem on
well-founded relations): a set of numbers that has 0 and the successors of its
members has them all. On it rest what `pow2` computes (`PowerRecursion`,
`PowerExceeds`, `HalvedToOne`, `LowerPowersDivide`) and the inductions on rounds.

Only model-checked: liveness (`FinishesUnlessRaced`, both `Terminates`,
`AllFinish`), which is out of TLAPS's reach, and the violations, which are traces.
Every safety property of the passing runs is stated by a theorem.

## 5. Not modelled, and plan

Not modelled in the programs above:

- the tree barrier, `aos/mpi/tree_final.c`: it tests the count outside of the
  critical section as `barrier_sense.c` does, and a thread that finds 0 late climbs
  a second time; the counts above go below 0 and the threads there spin for ever.
  Nothing in the repository states a property it could be held to.
- the dining philosophers, a program on top of `GTThread` without state of its own;
- `gtthread_init` being interrupted; thread ids that `rand()` gives twice;
- power failures under RVM, which does not sync what it writes;
- failing `malloc`, `pthread_create`, `fopen` and the like, where the code prints and
  exits or does not look;
- the processor's reordering of plain accesses beyond their interleaving.

Left to do: a weaker store for transactions of several regions, which RVM makes
permanent region by region; what can be said of programs with a second creator or a
cancel, beyond `MutualExclusion`.
