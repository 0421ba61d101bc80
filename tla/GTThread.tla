------------------------------ MODULE GTThread ------------------------------
(***************************************************************************)
(* The user-level threads of aos/gthreads: gtthread.c, gtthread_sched.c    *)
(* and gtthread_mutex.c, under the programs that call them.                *)
(*                                                                         *)
(* One context runs at a time: a thread, or the scheduler.  SIGVTALRM may  *)
(* strike between any two accesses to shared memory; sighandler saves the  *)
(* interrupted context in the slot of curr_thread, also when it is the     *)
(* scheduler that was interrupted.  atomic_increment and atomic_decrement  *)
(* are a load and a store (ARCH_SUPPORT is not defined).                   *)
(*                                                                         *)
(* A thread executes a body, a sequence of library calls; a context is a   *)
(* position in it.  Thread ids come from rand() and are taken to differ:   *)
(* the id of a thread is its body, and no body is created twice (so no     *)
(* body both creates and cancels, which can start it anew).  A saved       *)
(* context is good for one resumption, after which its frames are gone;    *)
(* only the one that makecontext built may be entered again.  What C       *)
(* leaves undefined (a slot without a context, a context whose frames are  *)
(* gone, a second free) is "wild" once it is used, and nothing is said of  *)
(* what follows.  gtthread_init is the initial state.                      *)
(***************************************************************************)
EXTENDS Integers, Sequences, FiniteSets

CONSTANTS Body,        \* the start routines; 0 is main
          Programs,    \* the programs: functions from Body to their calls
          Mutex,
          MaxThreads,  \* MAXTHREADS
          None, Lost   \* no value; a context whose frames are gone

Slot == 0 .. MaxThreads - 1
Calls == [op : {"create", "join", "cancel"}, arg : Body]
           \union [op : {"lock", "unlock"}, arg : Mutex]
           \union [op : {"yield", "exit"}, arg : {None}]

\* A position: the call of the body that is reached (0: the body has not been
\* entered), the step within it, a value that was loaded (None if none was) and
\* the slot that the call is about.
Position(b, i) == [body |-> b, call |-> i, at |-> "call", loaded |-> None, slot |-> 0]

Steps == {"call", "setup", "make", "tail", "total", "active", "wait", "exited", "exitDrop", "mark",
          "cancelDrop"}
Positions == [body : Body, call : Nat, at : Steps, loaded : Int \union {None}, slot : Slot]

\* A body that has come to call i has locked m and not unlocked it.
Holding(body, i, m) ==
    \E j \in 1 .. i - 1 :
        /\ body[j] = [op |-> "lock", arg |-> m]
        /\ \A l \in j + 1 .. i - 1 : body[l] # [op |-> "unlock", arg |-> m]

ASSUME GTThreadAssumption ==
    /\ 0 \in Body /\ None \notin Body
    /\ None # Lost /\ {None, Lost} \intersect Positions = {}
    /\ MaxThreads \in Nat \ {0}
    /\ Programs \subseteq [Body -> Seq(Calls)]
    \* main is not created
    /\ \A p \in Programs, b \in Body : \A i \in DOMAIN p[b] : p[b][i].op = "create" =>
           p[b][i].arg # 0
    \* who unlocks a mutex has locked it and not unlocked it since
    /\ \A p \in Programs, b \in Body : \A i \in DOMAIN p[b] : p[b][i].op = "unlock" =>
           Holding(p[b], i, p[b][i].arg)

VARIABLES
    program,
    id, exited, ret,           \* the fields of mythread[]
    ctx,                       \* user_context: a position, None (not made yet), or Lost
    ctx_sched,                 \* where a switch to the scheduler resumes it
    curr_thread, nTotalThreads, nActiveThreads, tail_index,
    lock,                      \* the mutexes
    running,                   \* "thread", "sched", "returned" (main has),
                               \* "ended" (the scheduler has) or "wild"
    pos,                       \* where the running thread is
    sched,                     \* where the scheduler is
    joined,                    \* history: <<id, status>> of completed joins
    cancelled,                 \* history: ids that gtthread_cancel has ended
    struck                     \* history: a signal has destroyed something, see Terminates

table == <<id, exited, ret, ctx>>
counters == <<nTotalThreads, nActiveThreads, tail_index>>
scheduling == <<ctx_sched, sched>>
history == <<joined, cancelled, struck>>
vars == <<program, table, curr_thread, counters, lock, running, pos, scheduling, history>>

Init ==
    /\ program \in Programs
    /\ id = [k \in Slot |-> IF k = 0 THEN 0 ELSE None]
    /\ exited = [k \in Slot |-> FALSE]
    /\ ret = [k \in Slot |-> None]
    \* getcontext in gtthread_init, whose frame is gone when main calls anything
    /\ ctx = [k \in Slot |-> IF k = 0 THEN Lost ELSE None]
    /\ curr_thread = 0
    /\ nTotalThreads = 1 /\ nActiveThreads = 1 /\ tail_index = 1
    /\ lock = [m \in Mutex |-> FALSE]
    /\ running = "thread" /\ pos = Position(0, 1)
    /\ ctx_sched = "start" /\ sched = "start"
    /\ joined = {} /\ cancelled = {} /\ struck = FALSE

-----------------------------------------------------------------------------
(* Steps of the running thread *)

Here == program[pos.body]
At(step) == running = "thread" /\ pos.at = step
AtCall(op) == At("call") /\ pos.call <= Len(Here) /\ Here[pos.call].op = op
Arg == Here[pos.call].arg

GoOn == pos' = Position(pos.body, pos.call + 1)
Goto(step) == pos' = [pos EXCEPT !.at = step, !.loaded = None]

\* A switch to the scheduler; pos means nothing while it runs.
ToScheduler ==
    /\ running' = "sched" /\ sched' = ctx_sched
    /\ pos' = Position(0, 1)

\* swapcontext from a thread to the scheduler, saved as position p.
SwitchAway(p) ==
    /\ ctx' = [ctx EXCEPT ![curr_thread] = p]
    /\ ToScheduler

Wild == /\ running' = "wild"
        /\ UNCHANGED <<program, table, curr_thread, counters, lock, pos, scheduling, history>>

(* gtthread_create *)

CreateCheck ==
    /\ AtCall("create")
    /\ IF nTotalThreads >= MaxThreads THEN GoOn ELSE Goto("setup")
    /\ UNCHANGED <<program, table, curr_thread, counters, lock, running, scheduling, history>>

\* Mutant: the slot is published before makecontext.
CreateSetup_NotMade ==
    /\ At("setup") /\ tail_index \in Slot
    /\ id' = [id EXCEPT ![tail_index] = Arg]
    /\ ctx' = [ctx EXCEPT ![tail_index] = None]
    /\ Goto("tail")
    /\ UNCHANGED <<program, exited, ret, curr_thread, counters, lock, running,
                   scheduling, history>>

\* Every statement indexes mythread with tail_index anew.  What getcontext
\* leaves is no context to run a thread in before makecontext has been at it.
CreateSetup ==
    /\ At("setup") /\ tail_index \in Slot
    /\ id' = [id EXCEPT ![tail_index] = Arg]
    /\ ctx' = [ctx EXCEPT ![tail_index] = None]
    /\ pos' = [pos EXCEPT !.at = "make", !.slot = tail_index]
    /\ UNCHANGED <<program, exited, ret, curr_thread, counters, lock, running,
                   scheduling, history>>

\* Another creator has filled the table since the check.
CreateOutside == At("setup") /\ tail_index \notin Slot /\ Wild

CreateMake ==
    /\ At("make") /\ pos.slot = tail_index
    /\ ctx' = [ctx EXCEPT ![tail_index] = Position(Arg, 0)]
    /\ Goto("tail")
    /\ UNCHANGED <<program, id, exited, ret, curr_thread, counters, lock, running,
                   scheduling, history>>

\* Another creator has moved tail_index: makecontext without a stack.
CreateElsewhere == At("make") /\ pos.slot # tail_index /\ Wild

Counter == CASE pos.at = "tail" -> tail_index
             [] pos.at = "total" -> nTotalThreads
             [] OTHER -> nActiveThreads

Load ==
    /\ running = "thread" /\ pos.at \in {"tail", "total", "active", "exitDrop", "cancelDrop"}
    /\ pos.loaded = None
    /\ pos' = [pos EXCEPT !.loaded = Counter]
    /\ UNCHANGED <<program, table, curr_thread, counters, lock, running, scheduling, history>>

Increment ==
    /\ pos.loaded # None
    /\ \/ /\ At("tail") /\ tail_index' = pos.loaded + 1
          /\ Goto("total") /\ UNCHANGED <<nTotalThreads, nActiveThreads>>
       \/ /\ At("total") /\ nTotalThreads' = pos.loaded + 1
          /\ Goto("active") /\ UNCHANGED <<tail_index, nActiveThreads>>
       \/ /\ At("active") /\ nActiveThreads' = pos.loaded + 1
          /\ GoOn /\ UNCHANGED <<tail_index, nTotalThreads>>
    /\ UNCHANGED <<program, table, curr_thread, lock, running, scheduling, history>>

(* gtthread_join *)

Found(b) == {k \in 1 .. nTotalThreads - 1 : k \in Slot /\ id[k] = b}
IsFirst(k, K) == k \in K /\ \A l \in K : k <= l

JoinFind_FlagIgnored ==
    /\ AtCall("join")
    /\ \/ Found(Arg) = {} /\ pos' = [pos EXCEPT !.at = "wait", !.slot = nTotalThreads]
       \/ \E k \in Slot : IsFirst(k, Found(Arg)) /\ pos' = [pos EXCEPT !.at = "wait", !.slot = k]
    /\ UNCHANGED <<program, table, curr_thread, counters, lock, running, scheduling, history>>

JoinFind ==
    /\ AtCall("join")
    /\ \/ Found(Arg) = {} /\ GoOn
       \/ \E k \in Slot : IsFirst(k, Found(Arg)) /\ pos' = [pos EXCEPT !.at = "wait", !.slot = k]
    /\ UNCHANGED <<program, table, curr_thread, counters, lock, running, scheduling, history>>

JoinWait ==
    /\ At("wait") /\ ~exited[pos.slot]
    /\ SwitchAway(pos)
    /\ UNCHANGED <<program, id, exited, ret, curr_thread, counters, lock, ctx_sched, history>>

HasJoined(b) == \E j \in joined : j[1] = b

JoinReturn_NoWait ==
    /\ At("wait") /\ ~HasJoined(id[pos.slot])
    /\ joined' = joined \union {<<id[pos.slot], ret[pos.slot]>>}
    /\ GoOn
    /\ UNCHANGED <<program, table, curr_thread, counters, lock, running, scheduling, cancelled,
                   struck>>

JoinReturn ==
    /\ At("wait") /\ exited[pos.slot] /\ ~HasJoined(id[pos.slot])
    /\ joined' = joined \union {<<id[pos.slot], ret[pos.slot]>>}
    /\ GoOn
    /\ UNCHANGED <<program, table, curr_thread, counters, lock, running, scheduling, cancelled,
                   struck>>

\* The stack of the thread is freed a second time.
JoinAgain == At("wait") /\ exited[pos.slot] /\ HasJoined(id[pos.slot]) /\ Wild

(* gtthread_exit, called or reached through threadcore *)

AtEnd == At("call") /\ pos.call > Len(Here)

ExitRet ==
    /\ AtCall("exit") \/ (AtEnd /\ curr_thread # 0)
    /\ ret' = [ret EXCEPT ![curr_thread] = pos.body]
    /\ Goto("exited")
    /\ UNCHANGED <<program, id, exited, ctx, curr_thread, counters, lock, running,
                   scheduling, history>>

ExitMark ==
    /\ At("exited")
    /\ exited' = [exited EXCEPT ![curr_thread] = TRUE]
    /\ Goto("exitDrop")
    /\ UNCHANGED <<program, id, ret, ctx, curr_thread, counters, lock, running, scheduling, history>>

ExitLeave ==
    /\ At("exitDrop") /\ pos.loaded # None
    /\ nActiveThreads' = pos.loaded - 1
    /\ SwitchAway(pos)
    /\ UNCHANGED <<program, id, exited, ret, curr_thread, nTotalThreads, tail_index, lock, ctx_sched, history>>

\* The return of main ends the process.
MainReturns ==
    /\ AtEnd /\ curr_thread = 0
    /\ running' = "returned"
    /\ UNCHANGED <<program, table, curr_thread, counters, lock, pos, scheduling, history>>

(* gtthread_cancel *)

CancelFind ==
    /\ AtCall("cancel")
    /\ LET live == {k \in Found(Arg) : ~exited[k]}
       IN \/ live = {} /\ GoOn
          \/ \E k \in Slot : IsFirst(k, live) /\ pos' = [pos EXCEPT !.at = "mark", !.slot = k]
    /\ UNCHANGED <<program, table, curr_thread, counters, lock, running, scheduling, history>>

CancelMark ==
    /\ At("mark")
    /\ exited' = [exited EXCEPT ![pos.slot] = TRUE]
    /\ cancelled' = cancelled \union {id[pos.slot]}
    /\ Goto("cancelDrop")
    /\ UNCHANGED <<program, id, ret, ctx, curr_thread, counters, lock, running, scheduling,
                   joined, struck>>

\* The caller is saved in dummyctx: its slot keeps what it had, which is lost
\* unless the caller is still in its first quantum and starts anew.
CancelLeave ==
    /\ At("cancelDrop") /\ pos.loaded # None
    /\ nActiveThreads' = pos.loaded - 1
    /\ ToScheduler
    /\ UNCHANGED <<program, table, curr_thread, nTotalThreads, tail_index, lock,
                   ctx_sched, history>>

(* gtthread_yield, gtthread_mutex_lock, gtthread_mutex_unlock *)

Yield ==
    /\ AtCall("yield")
    /\ SwitchAway(Position(pos.body, pos.call + 1))
    /\ UNCHANGED <<program, id, exited, ret, curr_thread, counters, lock, ctx_sched, history>>

MutexLock_NoRetry ==
    /\ AtCall("lock")
    /\ lock' = [lock EXCEPT ![Arg] = TRUE]
    /\ IF lock[Arg] THEN SwitchAway(Position(pos.body, pos.call + 1))
       ELSE GoOn /\ UNCHANGED <<ctx, running, sched>>
    /\ UNCHANGED <<program, id, exited, ret, curr_thread, counters, ctx_sched, history>>

\* test-and-set; who fails yields and tries again
MutexLock ==
    /\ AtCall("lock")
    /\ lock' = [lock EXCEPT ![Arg] = TRUE]
    /\ IF lock[Arg] THEN SwitchAway(pos)
       ELSE GoOn /\ UNCHANGED <<ctx, running, sched>>
    /\ UNCHANGED <<program, id, exited, ret, curr_thread, counters, ctx_sched, history>>

MutexUnlock ==
    /\ AtCall("unlock")
    /\ lock' = [lock EXCEPT ![Arg] = FALSE]
    /\ GoOn
    /\ UNCHANGED <<program, table, curr_thread, counters, running, scheduling, history>>

ThreadStep ==
    \/ CreateCheck \/ CreateSetup \/ CreateOutside \/ CreateMake \/ CreateElsewhere
    \/ Load \/ Increment
    \/ JoinFind \/ JoinWait \/ JoinReturn \/ JoinAgain
    \/ ExitRet \/ ExitMark \/ ExitLeave \/ MainReturns
    \/ CancelFind \/ CancelMark \/ CancelLeave \/ Yield \/ MutexLock \/ MutexUnlock

-----------------------------------------------------------------------------
(* The scheduler and the signal *)

SchedNext ==
    /\ running = "sched" /\ sched = "start"
    /\ curr_thread' = curr_thread + 1
    /\ sched' = "wrap"
    /\ UNCHANGED <<program, table, counters, lock, running, pos, ctx_sched, history>>

SchedWrap_SkipsMain ==
    /\ running = "sched" /\ sched = "wrap"
    /\ curr_thread' = IF curr_thread >= nTotalThreads THEN 1 ELSE curr_thread
    /\ sched' = "pick"
    /\ UNCHANGED <<program, table, counters, lock, running, pos, ctx_sched, history>>

SchedWrap ==
    /\ running = "sched" /\ sched = "wrap"
    /\ curr_thread' = curr_thread % nTotalThreads
    /\ sched' = "pick"
    /\ UNCHANGED <<program, table, counters, lock, running, pos, ctx_sched, history>>

SchedSkip ==
    /\ running = "sched" /\ sched = "pick"
    /\ curr_thread \in Slot /\ exited[curr_thread]
    /\ sched' = "check"
    /\ UNCHANGED <<program, table, curr_thread, counters, lock, running, pos, ctx_sched,
                   history>>

Resumable == curr_thread \in Slot /\ ctx[curr_thread] \notin {None, Lost}

SchedPick ==
    /\ running = "sched" /\ sched = "pick"
    /\ Resumable /\ ~exited[curr_thread]
    /\ IF ctx[curr_thread].call = 0 THEN pos' = Position(ctx[curr_thread].body, 1) /\ UNCHANGED ctx
       ELSE pos' = ctx[curr_thread] /\ ctx' = [ctx EXCEPT ![curr_thread] = Lost]
    /\ running' = "thread" /\ ctx_sched' = "check" /\ sched' = "check"
    /\ UNCHANGED <<program, id, exited, ret, curr_thread, counters, lock, history>>

SchedWild ==
    /\ running = "sched" /\ sched = "pick"
    /\ ~Resumable /\ (curr_thread \in Slot => ~exited[curr_thread])
    /\ Wild

SchedCheck ==
    /\ running = "sched" /\ sched = "check"
    /\ IF nActiveThreads = 0 THEN running' = "ended" /\ UNCHANGED sched
       ELSE sched' = "start" /\ UNCHANGED running
    /\ UNCHANGED <<program, table, curr_thread, counters, lock, pos, ctx_sched, history>>

SchedStep == SchedNext \/ SchedWrap \/ SchedSkip \/ SchedPick \/ SchedWild \/ SchedCheck

\* The signal, while a thread runs.
Preempt ==
    /\ running = "thread"
    /\ SwitchAway(pos)
    /\ struck' = (struck \/ pos.at = "active")
    /\ UNCHANGED <<program, id, exited, ret, curr_thread, counters, lock, ctx_sched, joined,
                   cancelled>>

\* The signal, while the scheduler runs or is being switched to: the slot of
\* curr_thread is overwritten, and the scheduler continues from ctx_sched.
PreemptScheduler ==
    /\ running = "sched" /\ curr_thread \in Slot
    /\ ctx' = [ctx EXCEPT ![curr_thread] = Lost]
    /\ sched' = ctx_sched
    /\ struck' = TRUE
    /\ UNCHANGED <<program, id, exited, ret, curr_thread, counters, lock, running, pos,
                   ctx_sched, joined, cancelled>>

\* curr_thread has been incremented and not yet wrapped.
PreemptOutside ==
    /\ running = "sched" /\ curr_thread \notin Slot
    /\ running' = "wild" /\ struck' = TRUE
    /\ UNCHANGED <<program, table, curr_thread, counters, lock, pos, scheduling, joined,
                   cancelled>>

Next == ThreadStep \/ SchedStep \/ Preempt \/ PreemptScheduler \/ PreemptOutside

Spec == Init /\ [][Next]_vars

\* The scheduler runs on, and a quantum is long enough for a thread that is
\* scheduled again and again to take a step.
FairSpec ==
    /\ Spec
    /\ WF_vars(SchedStep)
    /\ \A k \in Slot : SF_vars(curr_thread = k /\ ThreadStep)

-----------------------------------------------------------------------------
(* Properties *)

\* The values the variables of the library and its history take; the counters
\* are plain ints, and curr_thread may leave the table until it is wrapped.
TypeOK ==
    /\ program \in Programs
    /\ id \in [Slot -> Body \union {None}]
    /\ exited \in [Slot -> BOOLEAN]
    /\ ret \in [Slot -> Body \union {None}]
    /\ ctx \in [Slot -> Positions \union {None, Lost}]
    /\ ctx_sched \in {"start", "check"}
    /\ curr_thread \in Nat
    /\ nTotalThreads \in Nat \ {0} /\ nActiveThreads \in Int /\ tail_index \in Nat
    /\ lock \in [Mutex -> BOOLEAN]
    /\ running \in {"thread", "sched", "returned", "ended", "wild"}
    /\ pos \in Positions /\ pos.call # 0
    /\ running = "thread" => curr_thread \in Slot
    /\ sched \in {"start", "wrap", "pick", "check"}
    /\ joined \subseteq (Body \union {None}) \X (Body \union {None})
    /\ cancelled \subseteq Body \union {None}
    /\ struck \in BOOLEAN

\* Slot k is inside the critical section of m.
InCS(k, m) ==
    IF running = "thread" /\ k = curr_thread THEN Holding(Here, pos.call, m)
    ELSE ctx[k] \notin {None, Lost} /\ Holding(program[ctx[k].body], ctx[k].call, m)

\* At most one thread is between gtthread_mutex_lock and gtthread_mutex_unlock
\* of a mutex, wherever the signal strikes, whoever creates, cancels or exits,
\* and also when a caller of gtthread_cancel starts its routine anew.
MutualExclusion == \A m \in Mutex, k, l \in Slot : InCS(k, m) /\ InCS(l, m) => k = l

Creators == {b \in Body : \E i \in DOMAIN program[b] : program[b][i].op = "create"}

\* gtthread_join hands out what the thread returned, unless the thread was
\* cancelled; for programs in which only main creates threads.
JoinGivesResult ==
    Creators \subseteq {0} => \A j \in joined : j[2] = j[1] \/ j[1] \in cancelled

\* When only main creates threads, the scheduler never looks at a slot that
\* gtthread_create has not finished, makecontext included: nTotalThreads counts
\* finished slots, and the table is never overrun.
SlotsReady ==
    Creators \subseteq {0} =>
        /\ nTotalThreads <= tail_index /\ tail_index <= MaxThreads
        /\ \A k \in 0 .. nTotalThreads - 1 : id[k] # None /\ ctx[k] # None

Cancels == \E b \in Body : \E i \in DOMAIN program[b] : program[b][i].op = "cancel"
MainExits == \E i \in DOMAIN program[0] : program[0][i].op = "exit"

\* A program whose main creates all threads and returns after its joins does
\* return from main, wherever the signal strikes the threads, and although one
\* preempted in gtthread_exit is never resumed: no join waits for ever, and
\* nobody is starved of a mutex.  Two kinds of signals may prevent it, and one
\* of either is enough: one that finds the scheduler at work or a switch to it
\* under way, which overwrites a context, and one that finds gtthread_create
\* between its last two increments, after which the scheduler may end too early.
Terminates ==
    Creators \subseteq {0} /\ ~Cancels /\ ~MainExits => <>(running = "returned" \/ struck)

\* The scheduler leaves its loop when "All threads finished".
AllThreadsFinished == running = "ended" => \A k \in 0 .. nTotalThreads - 1 : exited[k]

=============================================================================
