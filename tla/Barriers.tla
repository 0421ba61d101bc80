------------------------------ MODULE Barriers ------------------------------
(***************************************************************************)
(* The barriers of aos/mpi that several processes or threads go through    *)
(* again and again:                                                        *)
(*   "diss"    MPI/diss.c            dissemination barrier                 *)
(*   "tourn"   MPI/tourn.c           tournament barrier                    *)
(*   "sense"   barrier_sense.c       sense barrier of an OpenMP region     *)
(*   "hybrid"  MPI/mp_mpi_sendiss.c  a sense barrier among the threads of  *)
(*                                   each process, then dissemination      *)
(*                                                                         *)
(* MPI delivers the messages of a sender, receiver and tag in order, and   *)
(* they carry nothing, so that their number is all there is to know.       *)
(* MPI_Send may return once the message is buffered or wait for the        *)
(* receiver: the model has a launch for either.  A parallel region ends    *)
(* when all its threads have ended (the implied barrier of OpenMP).  The   *)
(* programs are compiled without optimisation: accesses outside of the     *)
(* critical section are loads and stores.                                  *)
(***************************************************************************)
EXTENDS Integers, FiniteSets, PowersOfTwo

CONSTANTS Launches,  \* [program, procs, threads, buffered]: the ways to start it
          Episodes   \* NUM_BARRIERS, or the 20 iterations of barrier_sense

ASSUME BarriersAssumption ==
    /\ Launches \subseteq [program : {"diss", "tourn", "sense", "hybrid"},
                           procs : Nat \ {0}, threads : Nat \ {0}, buffered : BOOLEAN]
    /\ \A l \in Launches : /\ l.program \in {"diss", "tourn"} => l.threads = 1
                           /\ l.program = "sense" => l.procs = 1
    /\ Episodes \in Nat \ {0}

VARIABLES
    launch,   \* the program and its arguments
    episode,  \* the loop variable i of each process
    pc,       \* where each process is
    round,    \* k of the dissemination, round of the tournament
    wire,     \* messages sent and not received, by sender, receiver and tag
    thread,   \* where each thread of a region is
    count, sense  \* the shared variables of each process's region

vars == <<launch, episode, pc, round, wire, thread, count, sense>>
mpiVars == <<round, wire>>
ompVars == <<thread, count, sense>>

Procs == 0 .. launch.procs - 1
Threads == 1 .. launch.threads
HasRegion == launch.program \in {"sense", "hybrid"}
LocalSense == FALSE  \* private, and set to !true by every thread in every episode

\* ceil(log2(n))
Rounds(n) == CHOOSE r \in 0 .. n : pow2[r] >= n /\ \A s \in 0 .. r - 1 : pow2[s] < n

Tags == 0 .. Rounds(launch.procs)

Init ==
    /\ launch \in Launches
    /\ episode = [p \in Procs |-> 0]
    /\ pc = [p \in Procs |-> "begin"]
    /\ round = [p \in Procs |-> 0]
    /\ wire = [m \in Procs \X Procs \X Tags |-> 0]
    /\ thread = [p \in Procs |-> [t \in Threads |-> "out"]]
    /\ count = [p \in Procs |-> launch.threads]
    \* a global of barrier_sense.c, a local of main in mp_mpi_sendiss.c
    /\ sense = [p \in Procs |-> launch.program # "hybrid"]

-----------------------------------------------------------------------------
(* MPI *)

\* The message a process has posted a receive for.
Posted(p) ==
    CASE pc[p] \in {"send", "wait"} ->
            <<(launch.procs + p - pow2[round[p]]) % launch.procs, p, round[p]>>
      [] pc[p] = "upWait" -> <<p + pow2[round[p] - 1], p, 1>>
      [] pc[p] = "asleep" -> <<p - pow2[round[p] - 1], p, 1>>
      [] OTHER -> <<>>

\* A send that waits for its receive needs one that no earlier message matched.
MPI_Send(m) ==
    /\ launch.buffered \/ (Posted(m[2]) = m /\ wire[m] = 0)
    /\ wire' = [wire EXCEPT ![m] = @ + 1]

MPI_Wait(p) ==
    /\ wire[Posted(p)] > 0
    /\ wire' = [wire EXCEPT ![Posted(p)] = @ - 1]

Goto(p, label) == pc' = [pc EXCEPT ![p] = label]

\* Mutant: the loop of main runs once too often.
Completed_OffByOne(p) ==
    /\ episode' = [episode EXCEPT ![p] = @ + 1]
    /\ Goto(p, IF episode[p] + 1 > Episodes THEN "done" ELSE "begin")

\* The end of an iteration of the loop in main.
Completed(p) ==
    /\ episode' = [episode EXCEPT ![p] = @ + 1]
    /\ Goto(p, IF episode[p] + 1 = Episodes THEN "done" ELSE "begin")

-----------------------------------------------------------------------------
(* dissemination_barrier *)

StartDissemination(p) ==
    /\ round' = [round EXCEPT ![p] = 0]
    /\ Goto(p, "post")
    /\ UNCHANGED episode

DissBegin(p) ==
    /\ launch.program = "diss" /\ pc[p] = "begin"
    /\ StartDissemination(p)
    /\ UNCHANGED <<launch, wire, ompVars>>

\* Mutant: the loop stops one round short.
DissPost_RoundShort(p) ==
    /\ pc[p] = "post"
    /\ IF round[p] < Rounds(launch.procs) - 1 THEN Goto(p, "send") /\ UNCHANGED episode
       ELSE Completed(p)
    /\ UNCHANGED <<launch, mpiVars, ompVars>>

\* The head of the loop, and the receive that is posted.
DissPost(p) ==
    /\ pc[p] = "post"
    /\ IF round[p] < Rounds(launch.procs) THEN Goto(p, "send") /\ UNCHANGED episode
       ELSE Completed(p)
    /\ UNCHANGED <<launch, mpiVars, ompVars>>

DissSend(p) ==
    /\ pc[p] = "send"
    /\ MPI_Send(<<p, (p + pow2[round[p]]) % launch.procs, round[p]>>)
    /\ Goto(p, "wait")
    /\ UNCHANGED <<launch, episode, round, ompVars>>

DissWait(p) ==
    /\ pc[p] = "wait"
    /\ MPI_Wait(p)
    /\ Goto(p, "post") /\ round' = [round EXCEPT ![p] = @ + 1]
    /\ UNCHANGED <<launch, episode, ompVars>>

-----------------------------------------------------------------------------
(* tournament_barrier: recursive in round; "up" descends into the recursion, *)
(* "down" returns from it                                                    *)

Winner(p, r) == p % pow2[r] = 0
Loser(p, r) == p + pow2[r - 1]

TournBegin(p) ==
    /\ launch.program = "tourn" /\ pc[p] = "begin"
    /\ Goto(p, "up") /\ round' = [round EXCEPT ![p] = 1]
    /\ UNCHANGED <<launch, episode, wire, ompVars>>

TournTop(p) ==
    /\ pc[p] = "up" /\ round[p] > Rounds(launch.procs)
    /\ Goto(p, "down") /\ round' = [round EXCEPT ![p] = @ - 1]
    /\ UNCHANGED <<launch, episode, wire, ompVars>>

\* A winner without an opponent goes up without waiting.
TournUp(p) ==
    /\ pc[p] = "up" /\ round[p] <= Rounds(launch.procs) /\ Winner(p, round[p])
    /\ IF Loser(p, round[p]) >= launch.procs
       THEN round' = [round EXCEPT ![p] = @ + 1] /\ UNCHANGED pc
       ELSE Goto(p, "upWait") /\ UNCHANGED round
    /\ UNCHANGED <<launch, episode, wire, ompVars>>

TournWon(p) ==
    /\ pc[p] = "upWait"
    /\ MPI_Wait(p)
    /\ Goto(p, "up") /\ round' = [round EXCEPT ![p] = @ + 1]
    /\ UNCHANGED <<launch, episode, ompVars>>

\* Mutant: the loser does not wait to be woken up.
TournLost_NoWait(p) ==
    /\ pc[p] = "up" /\ round[p] <= Rounds(launch.procs) /\ ~Winner(p, round[p])
    /\ MPI_Send(<<p, p - pow2[round[p] - 1], 1>>)
    /\ Goto(p, "down") /\ round' = [round EXCEPT ![p] = @ - 1]
    /\ UNCHANGED <<launch, episode, ompVars>>

TournLost(p) ==
    /\ pc[p] = "up" /\ round[p] <= Rounds(launch.procs) /\ ~Winner(p, round[p])
    /\ MPI_Send(<<p, p - pow2[round[p] - 1], 1>>)
    /\ Goto(p, "asleep")
    /\ UNCHANGED <<launch, episode, round, ompVars>>

TournWoken(p) ==
    /\ pc[p] = "asleep"
    /\ MPI_Wait(p)
    /\ Goto(p, "down") /\ round' = [round EXCEPT ![p] = @ - 1]
    /\ UNCHANGED <<launch, episode, ompVars>>

\* The return into round r: the loser of that round, if any, is woken up.
TournDown(p) ==
    /\ pc[p] = "down" /\ round[p] > 0
    /\ IF Loser(p, round[p]) < launch.procs
       THEN MPI_Send(<<p, Loser(p, round[p]), 1>>) ELSE UNCHANGED wire
    /\ round' = [round EXCEPT ![p] = @ - 1]
    /\ UNCHANGED <<launch, episode, pc, ompVars>>

TournEnd(p) ==
    /\ pc[p] = "down" /\ round[p] = 0
    /\ Completed(p)
    /\ UNCHANGED <<launch, mpiVars, ompVars>>

-----------------------------------------------------------------------------
(* The parallel region with the sense barrier *)

RegionBegin(p) ==
    /\ HasRegion /\ pc[p] = "begin"
    /\ Goto(p, "region")
    /\ thread' = [thread EXCEPT ![p] = [t \in Threads |-> "start"]]
    /\ UNCHANGED <<launch, episode, mpiVars, count, sense>>

At(p, t, label) == pc[p] = "region" /\ thread[p][t] = label
ThreadTo(p, t, label) == thread' = [thread EXCEPT ![p][t] = label]

Decrement(p, t) ==
    /\ At(p, t, "start")
    /\ count' = [count EXCEPT ![p] = @ - 1]
    /\ ThreadTo(p, t, "test")
    /\ UNCHANGED <<launch, episode, pc, mpiVars, sense>>

\* count is read again, outside of the critical section.
Test(p, t) ==
    /\ At(p, t, "test")
    /\ ThreadTo(p, t, IF count[p] = 0 THEN "reset" ELSE "spin")
    /\ UNCHANGED <<launch, episode, pc, mpiVars, count, sense>>

\* Mutant: the count is not reset for the next episode.
Reset_Dropped(p, t) ==
    /\ At(p, t, "reset")
    /\ ThreadTo(p, t, "flip")
    /\ UNCHANGED <<launch, episode, pc, mpiVars, count, sense>>

Reset(p, t) ==
    /\ At(p, t, "reset")
    /\ count' = [count EXCEPT ![p] = launch.threads]
    /\ ThreadTo(p, t, "flip")
    /\ UNCHANGED <<launch, episode, pc, mpiVars, sense>>

\* Mutant: sense is not set.
Flip_Dropped(p, t) ==
    /\ At(p, t, "flip")
    /\ ThreadTo(p, t, "out")
    /\ UNCHANGED <<launch, episode, pc, mpiVars, count, sense>>

Flip(p, t) ==
    /\ At(p, t, "flip")
    /\ sense' = [sense EXCEPT ![p] = LocalSense]
    /\ ThreadTo(p, t, "out")
    /\ UNCHANGED <<launch, episode, pc, mpiVars, count>>

\* Mutant: the spinning thread looks for the other value.
Spin_Inverted(p, t) ==
    /\ At(p, t, "spin") /\ sense[p] # LocalSense
    /\ ThreadTo(p, t, "out")
    /\ UNCHANGED <<launch, episode, pc, mpiVars, count, sense>>

Spin(p, t) ==
    /\ At(p, t, "spin") /\ sense[p] = LocalSense
    /\ ThreadTo(p, t, "out")
    /\ UNCHANGED <<launch, episode, pc, mpiVars, count, sense>>

\* The implied barrier, then the call of dissemination_barrier if there is one.
RegionEnd(p) ==
    /\ pc[p] = "region" /\ \A t \in Threads : thread[p][t] = "out"
    /\ IF launch.program = "hybrid" THEN StartDissemination(p)
       ELSE Completed(p) /\ UNCHANGED round
    /\ UNCHANGED <<launch, wire, ompVars>>

-----------------------------------------------------------------------------
Process(p) ==
    \/ DissBegin(p) \/ DissPost(p) \/ DissSend(p) \/ DissWait(p)
    \/ TournBegin(p) \/ TournTop(p) \/ TournUp(p) \/ TournWon(p)
    \/ TournLost(p) \/ TournWoken(p) \/ TournDown(p) \/ TournEnd(p)
    \/ RegionBegin(p) \/ RegionEnd(p)

Thread(p, t) ==
    Decrement(p, t) \/ Test(p, t) \/ Reset(p, t) \/ Flip(p, t) \/ Spin(p, t)

AllDone == \A p \in Procs : pc[p] = "done"

Next == \E p \in Procs : Process(p) \/ \E t \in Threads : Thread(p, t)

Spec == Init /\ [][Next]_vars

\* The system does not stop while some process or thread can run.  Nothing is
\* assumed of which one runs: the loops are finite.
FairSpec == Spec /\ WF_vars(Next)

-----------------------------------------------------------------------------
\* Type invariant; at most one message of a round is ahead of its receiver by
\* an episode, and the count of a region never goes below zero.
TypeOK ==
    /\ launch \in Launches
    /\ episode \in [Procs -> 0 .. Episodes]
    /\ pc \in [Procs -> {"begin", "post", "send", "wait", "up", "upWait", "asleep",
                         "down", "region", "done"}]
    /\ round \in [Procs -> 0 .. launch.procs + 1]
    /\ wire \in [Procs \X Procs \X Tags -> 0 .. 2]
    /\ thread \in [Procs -> [Threads -> {"start", "test", "reset", "flip", "spin", "out"}]]
    /\ count \in [Procs -> 0 .. launch.threads]
    /\ sense \in [Procs -> BOOLEAN]

\* A participant is a thread of a process.  It has entered an episode when it
\* has called the barrier function, or decremented the count of its region.
Arrived(p, t) ==
    /\ pc[p] \notin {"begin", "done"}
    /\ pc[p] = "region" => thread[p][t] # "start"

entered == [x \in Procs \X Threads |-> episode[x[1]] + (IF Arrived(x[1], x[2]) THEN 1 ELSE 0)]
left == [x \in Procs \X Threads |-> episode[x[1]]]

AbstractBarrier == INSTANCE Barrier

\* All four programs are barriers: nobody begins the next iteration of main's
\* loop before everybody has come to this one, for numbers of processes that
\* are not powers of two and for processes that are an episode ahead.
ImplementsBarrier == AbstractBarrier!Spec

\* When all processes have called MPI_Finalize no message is left over.
NothingLeftOver == AllDone => \A m \in DOMAIN wire : wire[m] = 0

\* Outside of the region the count is what the next episode needs, although
\* several threads may find it 0 and reset it, and others see the reset value.
CountRestored == \A p \in Procs : pc[p] # "region" => count[p] = launch.threads

\* In the first episode of barrier_sense.c the spinning itself makes threads
\* wait: nobody is through before all have decremented the count.  (Later
\* episodes find sense already set and rely on the end of the region.)
FirstEpisodeWaits ==
    \A p \in Procs :
        /\ launch.program = "sense" /\ episode[p] = 0 /\ pc[p] = "region"
        /\ \E t \in Threads : thread[p][t] = "out"
        => \A t \in Threads : thread[p][t] # "start"

\* Every process gets through all of its episodes.
AllFinish == <>AllDone

=============================================================================
