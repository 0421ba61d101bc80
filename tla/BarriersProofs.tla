--------------------------- MODULE BarriersProofs ---------------------------
(***************************************************************************)
(* The barriers, for any number of processes, threads and episodes: first  *)
(* the sense barrier of barrier_sense.c and mp_mpi_sendiss.c with its      *)
(* count, which is decremented under a lock and read without it; then the  *)
(* messages of the dissemination and the tournament; then that all four    *)
(* programs implement Barrier.                                             *)
(***************************************************************************)
EXTENDS Barriers, PowersOfTwoProofs, FiniteSetTheorems, TLAPS

-----------------------------------------------------------------------------
(* The inductive invariant *)

\* The variables of the regions, and where processes and threads are.
RegionType ==
    /\ launch \in Launches
    /\ episode \in [Procs -> Nat]
    /\ pc \in [Procs -> {"begin", "post", "send", "wait", "up", "upWait", "asleep",
                         "down", "region", "done"}]
    /\ thread \in [Procs -> [Threads -> {"start", "test", "reset", "flip", "spin", "out"}]]
    /\ count \in [Procs -> Int]
    /\ sense \in [Procs -> BOOLEAN]

\* The threads of the region of p that have not decremented the count.
Coming(p) == {t \in Threads : thread[p][t] = "start"}

\* Nobody has reset the count: it says how many are to come, and when nobody is,
\* some thread will find it 0 or has.
Counting(p) ==
    /\ count[p] = Cardinality(Coming(p))
    /\ \A t \in Threads : thread[p][t] # "flip"
    /\ Coming(p) # {} => \A t \in Threads : thread[p][t] # "reset"
    /\ Coming(p) = {} => \E t \in Threads : thread[p][t] \in {"test", "reset"}

\* The count has been reset; a thread that found it 0 may do so again.
Restored(p) == Coming(p) = {} /\ count[p] = launch.threads

CountInv(p) == IF pc[p] = "region" THEN Counting(p) \/ Restored(p) ELSE count[p] = launch.threads

\* In the first episode sense is set when everybody has come, and not before.
SenseInv(p) ==
    launch.program = "sense" /\ episode[p] = 0 =>
        /\ sense[p] = LocalSense => pc[p] = "region" /\ Coming(p) = {}
        /\ pc[p] = "region" /\ (\E t \in Threads : thread[p][t] = "out") => Coming(p) = {}

Inv == RegionType /\ \A p \in Procs : CountInv(p) /\ SenseInv(p)

-----------------------------------------------------------------------------
(* Steps outside of the region *)

LEMMA ThreadsFinite ==
    ASSUME RegionType
    PROVE  /\ launch.threads \in Nat \ {0}
           /\ IsFiniteSet(Threads) /\ Cardinality(Threads) = launch.threads
           /\ \A p : IsFiniteSet(Coming(p)) /\ Cardinality(Coming(p)) \in Nat
           /\ \A p : Cardinality(Coming(p)) = 0 <=> Coming(p) = {}
<1>1. launch.threads \in Nat \ {0}
    BY BarriersAssumption DEF RegionType
<1>2. IsFiniteSet(Threads) /\ Cardinality(Threads) = launch.threads
    BY <1>1, FS_Interval DEF Threads
<1>3. \A p : IsFiniteSet(Coming(p))
    BY <1>2, FS_Subset DEF Coming
<1> QED BY <1>1, <1>2, <1>3, FS_CardinalityType, FS_EmptySet

\* A step of p that takes it from outside of the region to outside, or its
\* region's end, leaves the count and the sense of all processes alone.
LEMMA OutsideStep ==
    ASSUME Inv, NEW p \in Procs, UNCHANGED <<launch, ompVars>>,
           NEW label \in {"begin", "post", "send", "wait", "up", "upWait", "asleep", "down", "done"},
           pc' = [pc EXCEPT ![p] = label],
           pc[p] # "region" \/ \A t \in Threads : thread[p][t] = "out",
           \/ UNCHANGED episode /\ (pc[p] = "region" => launch.program # "sense")
           \/ episode' = [episode EXCEPT ![p] = @ + 1]
    PROVE  Inv'
<1>1. RegionType'
    BY DEF Inv, RegionType, ompVars, Procs, Threads
<1>2. ASSUME NEW q \in Procs PROVE CountInv(q)' /\ SenseInv(q)'
  <2>1. CountInv(q) /\ SenseInv(q) /\ Coming(q)' = Coming(q)
      BY DEF Inv, Coming, ompVars, Threads
  <2>2. CASE q # p
    <3>1. pc'[q] = pc[q] /\ episode'[q] = episode[q]
        BY <2>2 DEF Inv, RegionType
    <3> QED BY <2>1, <3>1 DEF CountInv, Counting, Restored, SenseInv, ompVars, Threads
  <2>3. CASE q = p
    <3>1. pc'[p] = label /\ pc'[p] # "region"
        BY DEF Inv, RegionType
    <3>2. count[p] = launch.threads
      <4>1. CASE pc[p] = "region"
        <5>1. \A t \in Threads : thread[p][t] = "out"
            BY <4>1
        <5>2. Coming(p) = {}
            BY <5>1 DEF Coming
        <5> QED BY <2>1, <2>3, <4>1, <5>1, <5>2 DEF CountInv, Counting, Restored
      <4> QED BY <2>1, <2>3, <4>1 DEF CountInv
    <3>3. CountInv(p)'
        BY <3>1, <3>2 DEF CountInv, ompVars
    <3>4. SenseInv(p)'
      <4>1. CASE UNCHANGED episode /\ (pc[p] = "region" => launch.program # "sense")
        <5>1. launch.program = "sense" /\ episode[p] = 0 => sense[p] # LocalSense
            BY <2>1, <2>3, <4>1 DEF SenseInv
        <5>2. launch' = launch /\ sense' = sense /\ episode' = episode
            BY <4>1 DEF ompVars
        <5> QED BY <3>1, <5>1, <5>2 DEF SenseInv, LocalSense
      <4>2. CASE episode' = [episode EXCEPT ![p] = @ + 1]
        <5>1. episode'[p] # 0
            BY <4>2 DEF Inv, RegionType
        <5> QED BY <5>1 DEF SenseInv
      <4> QED BY <4>1, <4>2
    <3> QED BY <2>3, <3>3, <3>4
  <2> QED BY <2>2, <2>3
<1> QED BY <1>1, <1>2 DEF Inv, Procs

\* Every step of a process but the one that begins a region is such a step.
LEMMA ProcessInv ==
    ASSUME Inv, NEW p \in Procs, Process(p), ~RegionBegin(p)
    PROVE  Inv'
<1>1. pc \in [Procs -> {"begin", "post", "send", "wait", "up", "upWait", "asleep", "down",
                        "region", "done"}]
    BY DEF Inv, RegionType
<1> USE DEF Goto
<1>2. CASE DissBegin(p) \/ DissSend(p) \/ DissWait(p)
    BY <1>2, OutsideStep DEF DissBegin, StartDissemination, DissSend, DissWait
<1>3. CASE TournBegin(p) \/ TournTop(p) \/ TournWon(p) \/ TournLost(p) \/ TournWoken(p)
    BY <1>3, OutsideStep DEF TournBegin, TournTop, TournWon, TournLost, TournWoken
<1>4. CASE TournUp(p) \/ TournDown(p)
  <2>1. pc[p] \in {"up", "down"} /\ (UNCHANGED pc \/ pc' = [pc EXCEPT ![p] = "upWait"])
      BY <1>4 DEF TournUp, TournDown
  <2>2. UNCHANGED pc => pc' = [pc EXCEPT ![p] = pc[p]]
      BY <1>1
  <2> QED BY <1>4, <2>1, <2>2, OutsideStep DEF TournUp, TournDown
<1>5. CASE TournEnd(p) \/ DissPost(p)
  <2>1. /\ pc[p] # "region" /\ UNCHANGED <<launch, ompVars>>
        /\ \/ UNCHANGED episode /\ pc' = [pc EXCEPT ![p] = "send"]
           \/ episode' = [episode EXCEPT ![p] = @ + 1] /\ pc' = [pc EXCEPT ![p] = "done"]
           \/ episode' = [episode EXCEPT ![p] = @ + 1] /\ pc' = [pc EXCEPT ![p] = "begin"]
      BY <1>5 DEF TournEnd, DissPost, Completed
  <2> QED BY <2>1, OutsideStep
<1>6. CASE RegionEnd(p)
  <2>1. /\ pc[p] = "region" /\ \A t \in Threads : thread[p][t] = "out"
        /\ UNCHANGED <<launch, ompVars>>
        /\ \/ /\ UNCHANGED episode /\ launch.program = "hybrid"
              /\ pc' = [pc EXCEPT ![p] = "post"]
           \/ episode' = [episode EXCEPT ![p] = @ + 1] /\ pc' = [pc EXCEPT ![p] = "done"]
           \/ episode' = [episode EXCEPT ![p] = @ + 1] /\ pc' = [pc EXCEPT ![p] = "begin"]
      BY <1>6 DEF RegionEnd, StartDissemination, Completed
  <2> QED BY <2>1, OutsideStep
<1> QED BY <1>2, <1>3, <1>4, <1>5, <1>6 DEF Process

-----------------------------------------------------------------------------
(* Steps of the region *)

\* What a step in p's region leaves alone in other regions.
LEMMA OtherRegions ==
    ASSUME Inv, NEW p \in Procs, UNCHANGED <<launch, episode>>, RegionType',
           \A q \in Procs \ {p} : /\ pc'[q] = pc[q] /\ thread'[q] = thread[q]
                                  /\ count'[q] = count[q] /\ sense'[q] = sense[q],
           CountInv(p)', SenseInv(p)'
    PROVE  Inv'
<1>1. ASSUME NEW q \in Procs, q # p PROVE CountInv(q)' /\ SenseInv(q)'
  <2>1. CountInv(q) /\ SenseInv(q) /\ Coming(q)' = Coming(q)
      BY <1>1 DEF Inv, Coming, Threads
  <2> QED BY <1>1, <2>1 DEF CountInv, Counting, Restored, SenseInv, Threads
<1> QED BY <1>1 DEF Inv, Procs

LEMMA RegionBeginInv ==
    ASSUME Inv, NEW p \in Procs, RegionBegin(p)
    PROVE  Inv'
<1>1. /\ pc[p] = "begin" /\ UNCHANGED <<launch, episode, count, sense>>
      /\ pc' = [pc EXCEPT ![p] = "region"]
      /\ thread' = [thread EXCEPT ![p] = [t \in Threads |-> "start"]]
    BY DEF RegionBegin, Goto
<1>2. RegionType'
    BY <1>1 DEF Inv, RegionType, Procs, Threads
<1>3. /\ pc'[p] = "region" /\ \A t \in Threads : thread'[p][t] = "start"
      /\ \A q \in Procs \ {p} : pc'[q] = pc[q] /\ thread'[q] = thread[q]
    BY <1>1 DEF Inv, RegionType
<1>4. Coming(p)' = Threads /\ Threads # {}
    BY <1>1, <1>3, ThreadsFinite DEF Coming, Inv, Threads
<1>5. count[p] = launch.threads /\ SenseInv(p)
    BY <1>1 DEF Inv, CountInv
<1>6. CountInv(p)'
    BY <1>1, <1>3, <1>4, <1>5, ThreadsFinite DEF CountInv, Counting, Inv, Threads
<1>7. SenseInv(p)'
    BY <1>1, <1>3, <1>5 DEF SenseInv, Threads
<1> QED BY <1>1, <1>2, <1>3, <1>6, <1>7, OtherRegions

\* What the step of a thread to a label changes.
LEMMA ThreadToFacts ==
    ASSUME Inv, NEW p \in Procs, NEW t \in Threads,
           NEW label \in {"test", "reset", "flip", "spin", "out"},
           ThreadTo(p, t, label), UNCHANGED launch
    PROVE  /\ thread' \in [Procs -> [Threads -> {"start", "test", "reset", "flip", "spin", "out"}]]
           /\ thread'[p][t] = label
           /\ \A s \in Threads \ {t} : thread'[p][s] = thread[p][s]
           /\ \A q \in Procs \ {p} : thread'[q] = thread[q]
           /\ Coming(p)' = Coming(p) \ {t}
<1>1. thread \in [Procs -> [Threads -> {"start", "test", "reset", "flip", "spin", "out"}]]
    BY DEF Inv, RegionType
<1>2. /\ thread' \in [Procs -> [Threads -> {"start", "test", "reset", "flip", "spin", "out"}]]
      /\ thread'[p][t] = label
      /\ \A s \in Threads \ {t} : thread'[p][s] = thread[p][s]
      /\ \A q \in Procs \ {p} : thread'[q] = thread[q]
    BY <1>1 DEF ThreadTo
<1>3. Coming(p)' = Coming(p) \ {t}
    BY <1>2 DEF Coming, Threads
<1> QED BY <1>2, <1>3

\* The last one to decrement the count will find it 0, unless it was reset.
LEMMA DecrementInv ==
    ASSUME Inv, NEW p \in Procs, NEW t \in Threads, Decrement(p, t)
    PROVE  Inv'
<1>1. /\ pc[p] = "region" /\ thread[p][t] = "start" /\ ThreadTo(p, t, "test")
      /\ count' = [count EXCEPT ![p] = @ - 1]
      /\ UNCHANGED <<launch, episode, pc, sense>>
    BY DEF Decrement, At
<1>2. /\ thread' \in [Procs -> [Threads -> {"start", "test", "reset", "flip", "spin", "out"}]]
      /\ thread'[p][t] = "test"
      /\ \A s \in Threads \ {t} : thread'[p][s] = thread[p][s]
      /\ \A q \in Procs \ {p} : thread'[q] = thread[q]
      /\ Coming(p)' = Coming(p) \ {t}
    BY <1>1, ThreadToFacts
<1>3. RegionType /\ CountInv(p) /\ SenseInv(p)
    BY DEF Inv
<1>4. /\ count'[p] = count[p] - 1 /\ count' \in [Procs -> Int]
      /\ \A q \in Procs \ {p} : count'[q] = count[q]
    BY <1>1, <1>3 DEF RegionType
<1>5. RegionType'
    BY <1>1, <1>2, <1>3, <1>4 DEF RegionType, Procs, Threads
<1>6. t \in Coming(p) /\ Counting(p)
    BY <1>1, <1>3 DEF CountInv, Restored, Coming
<1>7. Cardinality(Coming(p)') = Cardinality(Coming(p)) - 1
  <2>1. IsFiniteSet(Coming(p)) /\ Coming(p)' = Coming(p) \ {t}
      BY <1>2, <1>3, ThreadsFinite
  <2>2. Cardinality(Coming(p) \ {t}) = Cardinality(Coming(p)) - 1
      BY <1>6, <2>1, FS_RemoveElement
  <2> QED BY <2>1, <2>2
<1>8. CountInv(p)'
  <2>1. count'[p] = Cardinality(Coming(p)')
      BY <1>4, <1>6, <1>7 DEF Counting
  <2>2. \A s \in Threads : thread'[p][s] \notin {"flip", "reset"}
      BY <1>2, <1>6 DEF Counting
  <2> QED BY <1>1, <1>2, <2>1, <2>2 DEF CountInv, Counting, Threads
<1>9. SenseInv(p)'
    BY <1>1, <1>2, <1>3, <1>6 DEF SenseInv, Threads
<1> QED BY <1>1, <1>2, <1>4, <1>5, <1>8, <1>9, OtherRegions

LEMMA TestInv ==
    ASSUME Inv, NEW p \in Procs, NEW t \in Threads, Test(p, t)
    PROVE  Inv'
<1> DEFINE label == IF count[p] = 0 THEN "reset" ELSE "spin"
<1>1. /\ pc[p] = "region" /\ thread[p][t] = "test" /\ ThreadTo(p, t, label)
      /\ UNCHANGED <<launch, episode, pc, count, sense>>
    BY DEF Test, At
<1>2. label \in {"reset", "spin"} /\ (label = "reset" <=> count[p] = 0)
    OBVIOUS
<1> HIDE DEF label
<1>3. /\ thread' \in [Procs -> [Threads -> {"start", "test", "reset", "flip", "spin", "out"}]]
      /\ thread'[p][t] = label
      /\ \A s \in Threads \ {t} : thread'[p][s] = thread[p][s]
      /\ \A q \in Procs \ {p} : thread'[q] = thread[q]
      /\ Coming(p)' = Coming(p) \ {t}
    BY <1>1, <1>2, ThreadToFacts
<1>4. RegionType /\ CountInv(p) /\ SenseInv(p)
    BY DEF Inv
<1>5. RegionType'
    BY <1>1, <1>3, <1>4 DEF RegionType, Procs, Threads
<1>6. Coming(p)' = Coming(p)
    BY <1>1, <1>3 DEF Coming
<1>7. CountInv(p)'
  <2>1. CASE Counting(p)
    <3>1. count[p] = 0 <=> Coming(p) = {}
        BY <1>4, <2>1, ThreadsFinite DEF Counting
    <3>2. \A s \in Threads : thread'[p][s] # "flip"
        BY <1>2, <1>3, <2>1 DEF Counting
    <3>3. Coming(p) # {} => \A s \in Threads : thread'[p][s] # "reset"
        BY <1>2, <1>3, <2>1, <3>1 DEF Counting
    <3>4. Coming(p) = {} => thread'[p][t] = "reset"
        BY <1>2, <1>3, <3>1
    <3> QED BY <1>1, <1>6, <2>1, <3>2, <3>3, <3>4 DEF CountInv, Counting, Threads
  <2>2. CASE Restored(p)
      BY <1>1, <1>6, <2>2 DEF CountInv, Restored
  <2> QED BY <1>1, <1>4, <2>1, <2>2 DEF CountInv
<1>8. SenseInv(p)'
    BY <1>1, <1>2, <1>3, <1>4, <1>6 DEF SenseInv, Threads
<1> QED BY <1>1, <1>3, <1>5, <1>7, <1>8, OtherRegions

LEMMA ResetInv ==
    ASSUME Inv, NEW p \in Procs, NEW t \in Threads, Reset(p, t)
    PROVE  Inv'
<1>1. /\ pc[p] = "region" /\ thread[p][t] = "reset" /\ ThreadTo(p, t, "flip")
      /\ count' = [count EXCEPT ![p] = launch.threads]
      /\ UNCHANGED <<launch, episode, pc, sense>>
    BY DEF Reset, At
<1>2. /\ thread' \in [Procs -> [Threads -> {"start", "test", "reset", "flip", "spin", "out"}]]
      /\ thread'[p][t] = "flip"
      /\ \A s \in Threads \ {t} : thread'[p][s] = thread[p][s]
      /\ \A q \in Procs \ {p} : thread'[q] = thread[q]
      /\ Coming(p)' = Coming(p) \ {t}
    BY <1>1, ThreadToFacts
<1>3. RegionType /\ CountInv(p) /\ SenseInv(p) /\ launch.threads \in Nat
    BY ThreadsFinite DEF Inv
<1>4. /\ count'[p] = launch.threads /\ count' \in [Procs -> Int]
      /\ \A q \in Procs \ {p} : count'[q] = count[q]
    BY <1>1, <1>3 DEF RegionType
<1>5. RegionType'
    BY <1>1, <1>2, <1>3, <1>4 DEF RegionType, Procs, Threads
<1>6. Coming(p) = {}
    BY <1>1, <1>3 DEF CountInv, Counting, Restored
<1>7. CountInv(p)'
    BY <1>1, <1>2, <1>4, <1>6 DEF CountInv, Restored
<1>8. SenseInv(p)'
    BY <1>1, <1>2, <1>3, <1>6 DEF SenseInv
<1> QED BY <1>1, <1>2, <1>4, <1>5, <1>7, <1>8, OtherRegions

\* Whoever leaves the barrier leaves it after a reset, or among threads that will.
LEMMA LeaveInv ==
    ASSUME Inv, NEW p \in Procs, NEW t \in Threads, Flip(p, t) \/ Spin(p, t)
    PROVE  Inv'
<1>1. /\ pc[p] = "region" /\ thread[p][t] \in {"flip", "spin"} /\ ThreadTo(p, t, "out")
      /\ UNCHANGED <<launch, episode, pc, count>>
    BY DEF Flip, Spin, At
<1>2. /\ thread' \in [Procs -> [Threads -> {"start", "test", "reset", "flip", "spin", "out"}]]
      /\ thread'[p][t] = "out"
      /\ \A s \in Threads \ {t} : thread'[p][s] = thread[p][s]
      /\ \A q \in Procs \ {p} : thread'[q] = thread[q]
      /\ Coming(p)' = Coming(p) \ {t}
    BY <1>1, ThreadToFacts
<1>3. RegionType /\ CountInv(p) /\ SenseInv(p)
    BY DEF Inv
<1>4. sense' \in [Procs -> BOOLEAN] /\ \A q \in Procs \ {p} : sense'[q] = sense[q]
    BY <1>3 DEF Flip, Spin, RegionType, LocalSense
<1>5. RegionType'
    BY <1>1, <1>2, <1>3, <1>4 DEF RegionType, Procs, Threads
<1>6. Coming(p)' = Coming(p)
    BY <1>1, <1>2 DEF Coming
<1>7. CountInv(p)'
  <2>1. CASE Counting(p)
    <3>1. \A s \in Threads : thread[p][s] \in {"test", "reset"} => thread'[p][s] = thread[p][s]
        BY <1>1, <1>2
    <3>2. \A s \in Threads : thread'[p][s] \in {thread[p][s], "out"}
        BY <1>2
    <3> QED BY <1>1, <1>6, <2>1, <3>1, <3>2 DEF CountInv, Counting, Threads
  <2>2. CASE Restored(p)
      BY <1>1, <1>6, <2>2 DEF CountInv, Restored
  <2> QED BY <1>1, <1>3, <2>1, <2>2 DEF CountInv
<1>8. SenseInv(p)'
  <2>1. SUFFICES ASSUME launch.program = "sense", episode[p] = 0 PROVE Coming(p) = {}
      BY <1>1, <1>6 DEF SenseInv
  <2>2. CASE Flip(p, t)
    <3>1. thread[p][t] = "flip"
        BY <2>2 DEF Flip, At
    <3> QED BY <1>1, <1>3, <3>1 DEF CountInv, Counting, Restored
  <2>3. CASE Spin(p, t)
      BY <1>3, <2>1, <2>3 DEF Spin, SenseInv
  <2> QED BY <2>2, <2>3
<1> QED BY <1>1, <1>2, <1>4, <1>5, <1>7, <1>8, OtherRegions

LEMMA InitInv ==
    ASSUME Init
    PROVE  Inv
<1>1. launch \in Launches /\ launch.threads \in Nat
    BY BarriersAssumption DEF Init
<1>2. RegionType
    BY <1>1 DEF Init, RegionType
<1>3. \A p \in Procs : CountInv(p) /\ SenseInv(p)
    BY DEF Init, CountInv, SenseInv, LocalSense
<1> QED BY <1>2, <1>3 DEF Inv

\* The invariant holds in every reachable state.
THEOREM Reachable == Spec => []Inv
<1>1. ASSUME Inv, Next PROVE Inv'
  <2>1. ASSUME NEW p \in Procs, Process(p) PROVE Inv'
      BY <1>1, <2>1, ProcessInv, RegionBeginInv
  <2>2. ASSUME NEW p \in Procs, NEW t \in Threads, Thread(p, t) PROVE Inv'
      BY <1>1, <2>2, DecrementInv, TestInv, ResetInv, LeaveInv DEF Thread
  <2> QED BY <1>1, <2>1, <2>2 DEF Next
<1>2. ASSUME Inv, UNCHANGED vars PROVE Inv'
  <2>1. RegionType' /\ Procs' = Procs /\ Threads' = Threads
      BY <1>2 DEF Inv, vars, ompVars, RegionType, Procs, Threads
  <2>2. ASSUME NEW p \in Procs PROVE CountInv(p)' /\ SenseInv(p)'
    <3>1. CountInv(p) /\ SenseInv(p) /\ Coming(p)' = Coming(p)
        BY <1>2, <2>1 DEF Inv, vars, ompVars, Coming
    <3> QED BY <1>2, <2>1, <3>1 DEF vars, ompVars, CountInv, Counting, Restored, SenseInv, LocalSense
  <2> QED BY <2>1, <2>2 DEF Inv
<1> QED BY InitInv, <1>1, <1>2, PTL DEF Spec

\* The count that a sense barrier leaves behind is what the next episode needs,
\* although it is tested outside of the critical section and may be reset more
\* than once: for any number of processes, threads and episodes.
THEOREM CountIsRestored == Spec => []CountRestored
<1>1. Inv => CountRestored
    BY DEF Inv, CountInv, CountRestored
<1> QED BY <1>1, Reachable, PTL

\* In the first episode of barrier_sense.c no thread gets through before all have
\* decremented the count, for any number of threads.
THEOREM FirstEpisodeIsABarrier == Spec => []FirstEpisodeWaits
<1>1. Inv => FirstEpisodeWaits
    BY DEF Inv, SenseInv, FirstEpisodeWaits, Coming
<1> QED BY <1>1, Reachable, PTL

-----------------------------------------------------------------------------
(***************************************************************************)
(* The messages: what has been sent and received                           *)
(*                                                                         *)
(* How often a process has come to some place, through all its episodes,   *)
(* is its number of complete episodes and one if it is past the place in   *)
(* this one.                                                               *)
(***************************************************************************)
R == Rounds(launch.procs)
Bit(b) == IF b THEN 1 ELSE 0

HasDissemination == launch.program \in {"diss", "hybrid"}
InDiss(p) == pc[p] \in {"post", "send", "wait"}
DissCalled(p) == episode[p] + Bit(InDiss(p))
DissSent(p, k) == episode[p] + Bit(InDiss(p) /\ (round[p] > k \/ (round[p] = k /\ pc[p] = "wait")))
DissReceived(p, k) == episode[p] + Bit(InDiss(p) /\ round[p] > k)

\* To whom a process sends in round k, and from whom it receives.
Dest(p, k) == (p + pow2[k]) % launch.procs
Src(p, k) == (launch.procs + p - pow2[k]) % launch.procs

InTourn(p) == pc[p] \in {"up", "upWait", "asleep", "down"}
TournCalled(p) == episode[p] + Bit(InTourn(p))
TournPassed(p, r) == episode[p] + Bit(\/ pc[p] \in {"asleep", "down"}
                                      \/ pc[p] \in {"up", "upWait"} /\ round[p] > r)
TournLosing(p) == episode[p] + Bit(pc[p] \in {"asleep", "down"})
TournWoke(p, r) == episode[p] + Bit(pc[p] = "down" /\ round[p] < r)
TournIsDown(p) == episode[p] + Bit(pc[p] = "down")

\* w and q meet in round r, and w wins.
Match(w, q, r) == w \in Procs /\ q \in Procs /\ r \in 1 .. R /\ Winner(w, r) /\ q = Loser(w, r)

\* Where the processes of each program can be.
Labels == CASE launch.program = "diss" -> {"begin", "post", "send", "wait", "done"}
            [] launch.program = "hybrid" -> {"begin", "region", "post", "send", "wait", "done"}
            [] launch.program = "sense" -> {"begin", "region", "done"}
            [] launch.program = "tourn" -> {"begin", "up", "upWait", "asleep", "down", "done"}
Place(p) ==
    /\ pc[p] \in Labels
    /\ episode[p] <= Episodes /\ (pc[p] = "done" <=> episode[p] = Episodes)
    /\ pc[p] \in {"send", "wait"} => round[p] < R
    /\ pc[p] = "post" => round[p] <= R
    /\ pc[p] = "up" => round[p] \in 1 .. R + 1 /\ p % pow2[round[p] - 1] = 0
    /\ pc[p] = "upWait" => Match(p, Loser(p, round[p]), round[p])
    /\ pc[p] = "asleep" => /\ round[p] \in 1 .. R /\ p % pow2[round[p] - 1] = 0
                           /\ ~Winner(p, round[p])
    /\ pc[p] = "down" => round[p] <= R /\ p % pow2[round[p]] = 0

DissWire ==
    \A p, q \in Procs, k \in Tags :
        wire[<<p, q, k>>] = IF k < R /\ q = Dest(p, k) THEN DissSent(p, k) - DissReceived(q, k) ELSE 0

TournWire ==
    /\ \A w, q, r : Match(w, q, r) =>
           /\ wire[<<q, w, 1>>] = TournLosing(q) - TournPassed(w, r)
           /\ wire[<<w, q, 1>>] = TournWoke(w, r) - TournIsDown(q)
    /\ \A p, q \in Procs, k \in Tags :
           k # 1 \/ (\A r : ~Match(p, q, r) /\ ~Match(q, p, r)) => wire[<<p, q, k>>] = 0

MpiInv ==
    /\ wire \in [Procs \X Procs \X Tags -> Nat]
    /\ round \in [Procs -> Nat]
    /\ \A p \in Procs : Place(p)
    /\ HasDissemination => DissWire
    /\ launch.program = "tourn" => TournWire
    /\ launch.program = "sense" => \A m \in DOMAIN wire : wire[m] = 0

-----------------------------------------------------------------------------
(* Rounds, rings and matches *)

LEMMA RoundsFacts ==
    ASSUME NEW n \in Nat
    PROVE  /\ Rounds(n) \in 0 .. n /\ pow2[Rounds(n)] >= n
           /\ \A k \in 0 .. Rounds(n) - 1 : pow2[k] \in 1 .. n - 1
<1> DEFINE K == {i \in 0 .. n : pow2[i] >= n}
<1>1. n \in K /\ K \in SUBSET Nat
    BY PowerExceeds
<1>2. PICK x \in K : \A y \in K : x <= y
    BY <1>1, LeastNumber
<1>3. ASSUME NEW s \in 0 .. x - 1 PROVE pow2[s] < n
  <2>1. s \notin K /\ s \in 0 .. n
      BY <1>2
  <2> QED BY <2>1, PowerExceeds
<1>4. \E r \in 0 .. n : pow2[r] >= n /\ \A s \in 0 .. r - 1 : pow2[s] < n
    BY <1>2, <1>3
<1>5. /\ Rounds(n) \in 0 .. n /\ pow2[Rounds(n)] >= n
      /\ \A s \in 0 .. Rounds(n) - 1 : pow2[s] < n
    BY <1>4 DEF Rounds
<1> QED BY <1>5, PowerExceeds

LEMMA LaunchFacts ==
    ASSUME launch \in Launches
    PROVE  /\ launch.procs \in Nat \ {0} /\ launch.threads \in Nat \ {0}
           /\ launch.program \in {"diss", "tourn", "sense", "hybrid"}
           /\ launch.program = "sense" => launch.procs = 1
           /\ launch.program \in {"diss", "tourn"} => launch.threads = 1
           /\ R \in Nat /\ R <= launch.procs /\ pow2[R] >= launch.procs
           /\ \A k \in 0 .. R - 1 : pow2[k] \in 1 .. launch.procs - 1
           /\ Tags = 0 .. R /\ Procs = 0 .. launch.procs - 1
<1>1. /\ launch.procs \in Nat \ {0} /\ launch.threads \in Nat \ {0}
      /\ launch.program \in {"diss", "tourn", "sense", "hybrid"}
      /\ launch.program = "sense" => launch.procs = 1
      /\ launch.program \in {"diss", "tourn"} => launch.threads = 1
    BY BarriersAssumption
<1> QED BY <1>1, RoundsFacts DEF R, Tags, Procs

LEMMA RingFacts ==
    ASSUME launch \in Launches, NEW p \in Procs, NEW k \in Nat, k < R
    PROVE  /\ pow2[k] \in Nat /\ 0 < pow2[k] /\ pow2[k] < launch.procs
           /\ Dest(p, k) = IF p + pow2[k] < launch.procs THEN p + pow2[k] ELSE p + pow2[k] - launch.procs
           /\ Src(p, k) = IF p >= pow2[k] THEN p - pow2[k] ELSE launch.procs + p - pow2[k]
           /\ Dest(p, k) \in Procs /\ Src(p, k) \in Procs
<1> DEFINE n == launch.procs
           d == pow2[k]
<1>1. n \in Nat /\ p \in 0 .. n - 1 /\ d \in 1 .. n - 1 /\ Procs = 0 .. n - 1
    BY LaunchFacts
<1>2. /\ Dest(p, k) = IF p + d < n THEN p + d ELSE p + d - n
      /\ Src(p, k) = IF p >= d THEN p - d ELSE n + p - d
    BY <1>1, RingSteps DEF Dest, Src
<1> HIDE DEF n, d
<1>3. Dest(p, k) \in Procs /\ Src(p, k) \in Procs
    BY <1>1, <1>2
<1> QED BY <1>1, <1>2, <1>3 DEF n, d

\* The one that p receives from sends to p.
LEMMA RingInverse ==
    ASSUME launch \in Launches, NEW p \in Procs, NEW q \in Procs, NEW k \in Nat, k < R
    PROVE  p = Dest(q, k) <=> q = Src(p, k)
<1>1. /\ launch.procs \in Nat /\ p \in 0 .. launch.procs - 1 /\ q \in 0 .. launch.procs - 1
    BY LaunchFacts
<1>2. pow2[k] \in Nat /\ 0 < pow2[k] /\ pow2[k] < launch.procs
    BY RingFacts
<1>3. /\ Dest(q, k) = IF q + pow2[k] < launch.procs THEN q + pow2[k] ELSE q + pow2[k] - launch.procs
      /\ Src(p, k) = IF p >= pow2[k] THEN p - pow2[k] ELSE launch.procs + p - pow2[k]
    BY RingFacts
<1> QED BY <1>1, <1>2, <1>3

LEMMA MatchFacts ==
    ASSUME launch \in Launches, NEW w, NEW q, NEW r, Match(w, q, r)
    PROVE  /\ w \in Procs /\ q \in Procs /\ r \in Nat /\ 1 <= r /\ r <= R
           /\ pow2[r - 1] \in Nat /\ pow2[r - 1] > 0 /\ q = w + pow2[r - 1] /\ w \in Nat /\ q \in Nat
           /\ w < q /\ w % pow2[r] = 0 /\ q % pow2[r] # 0 /\ q % pow2[r - 1] = 0
           /\ 1 \in Tags
<1>1. /\ w \in Procs /\ q \in Procs /\ r \in Nat /\ 1 <= r /\ r <= R /\ w % pow2[r] = 0
      /\ q = w + pow2[r - 1] /\ R \in Nat /\ Tags = 0 .. R /\ w \in Nat /\ q \in Nat
    BY LaunchFacts DEF Match, Winner, Loser
<1>2. r - 1 \in Nat
    BY <1>1
<1> DEFINE d == pow2[r - 1]
<1>3. d \in Nat /\ d > 0 /\ pow2[(r - 1) + 1] = 2 * d
    BY <1>2, PowerExceeds, PowerRecursion
<1>4. (r - 1) + 1 = r
    BY <1>1
<1>5. w % (2 * d) = 0 /\ q = w + d /\ pow2[r] = 2 * d
    BY <1>1, <1>3, <1>4
<1> HIDE DEF d
<1>6. q % (2 * d) # 0 /\ q % d = 0
  <2>1. w \in Nat /\ d \in Nat /\ d # 0
      BY <1>1, <1>3
  <2>2. w % (2 * d) = 0 => (w + d) % d = 0 /\ (w + d) % (2 * d) # 0
      BY <2>1, HalfMultiples
  <2> QED BY <1>5, <2>2
<1>7. w < q /\ 1 \in Tags
    BY <1>1, <1>3, <1>5
<1> QED BY <1>1, <1>3, <1>5, <1>6, <1>7 DEF d

\* A process loses in one round at most, and meets another in one.
LEMMA MatchUnique ==
    ASSUME launch \in Launches, NEW w, NEW q, NEW r, Match(w, q, r), NEW v, NEW s
    PROVE  /\ Match(v, q, s) => v = w /\ s = r
           /\ Match(w, v, r) => v = q
           /\ ~Match(q, w, s)
<1>1. /\ r \in Nat /\ 1 <= r /\ q \in Nat /\ w \in Nat /\ w < q /\ q = w + pow2[r - 1]
      /\ q % pow2[r] # 0 /\ q % pow2[r - 1] = 0 /\ pow2[r - 1] \in Nat
    BY MatchFacts
<1>2. ASSUME Match(v, q, s) PROVE v = w /\ s = r
  <2>1. /\ s \in Nat /\ 1 <= s /\ v \in Nat /\ q = v + pow2[s - 1] /\ pow2[s - 1] \in Nat
        /\ q % pow2[s] # 0 /\ q % pow2[s - 1] = 0
      BY <1>2, MatchFacts
  <2>2. ~(r <= s - 1)
      BY <1>1, <2>1, LowerPowersDivide
  <2>3. ~(s <= r - 1)
      BY <1>1, <2>1, LowerPowersDivide
  <2>4. s = r
      BY <1>1, <2>1, <2>2, <2>3
  <2> QED BY <1>1, <2>1, <2>4
<1>3. Match(w, v, r) => v = q
    BY DEF Match
<1>4. ~Match(q, w, s)
  <2> SUFFICES ASSUME Match(q, w, s) PROVE FALSE
      OBVIOUS
  <2>1. q < w
      BY MatchFacts
  <2> QED BY <1>1, <2>1
<1> QED BY <1>2, <1>3, <1>4

\* Whoever does not win round r, having won the ones before, loses it to someone.
LEMMA LoserHasMatch ==
    ASSUME launch \in Launches, NEW p \in Procs, NEW r \in Nat, 1 <= r, r <= R,
           p % pow2[r - 1] = 0, ~Winner(p, r)
    PROVE  Match(p - pow2[r - 1], p, r)
<1> DEFINE d == pow2[r - 1]
<1>1. R \in Nat /\ launch.procs \in Nat /\ p \in 0 .. launch.procs - 1 /\ r - 1 \in Nat
    BY LaunchFacts
<1>2. d \in Nat /\ d > 0 /\ pow2[(r - 1) + 1] = 2 * d
    BY <1>1, PowerExceeds, PowerRecursion
<1>3. (r - 1) + 1 = r
    OBVIOUS
<1>4. p % d = 0 /\ p % (2 * d) # 0 /\ pow2[r] = 2 * d /\ p \in Nat
    BY <1>1, <1>2, <1>3 DEF Winner
<1> HIDE DEF d
<1>5. p >= d /\ (p - d) % (2 * d) = 0
  <2>1. p \in Nat /\ d \in Nat /\ d # 0
      BY <1>2, <1>4
  <2>2. p % d = 0 /\ p % (2 * d) # 0 => p >= d /\ (p - d) % (2 * d) = 0
      BY <2>1, HalfMultiples
  <2> QED BY <1>4, <2>2
<1>6. p - d \in Procs /\ r \in 1 .. R /\ p = (p - d) + d
  <2>1. Procs = 0 .. launch.procs - 1
      BY LaunchFacts
  <2> QED BY <1>1, <1>2, <1>5, <2>1
<1>7. p = (p - d) + pow2[r - 1]
    BY <1>6 DEF d
<1>8. (p - d) % pow2[r] = 0
    BY <1>4, <1>5
<1>9. Match(p - d, p, r)
    BY <1>6, <1>7, <1>8 DEF Match, Winner, Loser
<1> QED BY <1>9 DEF d

-----------------------------------------------------------------------------
(* Steps and the counts of messages *)

\* A step of p moves p alone.
StepOf(p) ==
    /\ UNCHANGED launch
    /\ round' \in [Procs -> Nat]
    /\ \A q \in Procs : q # p => pc'[q] = pc[q] /\ round'[q] = round[q] /\ episode'[q] = episode[q]

LEMMA SameLaunch ==
    ASSUME UNCHANGED launch
    PROVE  /\ Procs' = Procs /\ R' = R /\ Tags' = Tags /\ Labels' = Labels
           /\ HasDissemination' <=> HasDissemination
           /\ \A p, k : Dest(p, k)' = Dest(p, k)
           /\ \A w, q, r : Match(w, q, r)' <=> Match(w, q, r)
           /\ \A p, r : (Winner(p, r)' <=> Winner(p, r)) /\ Loser(p, r)' = Loser(p, r)
    BY DEF Procs, R, Tags, Labels, HasDissemination, Dest, Match, Winner, Loser

LEMMA OthersStay ==
    ASSUME NEW p \in Procs, StepOf(p), NEW q \in Procs, q # p
    PROVE  /\ Place(q) => Place(q)'
           /\ \A k : DissSent(q, k)' = DissSent(q, k) /\ DissReceived(q, k)' = DissReceived(q, k)
           /\ DissCalled(q)' = DissCalled(q) /\ TournCalled(q)' = TournCalled(q)
           /\ \A r : TournPassed(q, r)' = TournPassed(q, r) /\ TournWoke(q, r)' = TournWoke(q, r)
           /\ TournLosing(q)' = TournLosing(q) /\ TournIsDown(q)' = TournIsDown(q)
<1>1. pc'[q] = pc[q] /\ round'[q] = round[q] /\ episode'[q] = episode[q] /\ UNCHANGED launch
    BY DEF StepOf
<1>2. Place(q) => Place(q)'
    BY <1>1, SameLaunch DEF Place
<1> QED BY <1>1, <1>2 DEF DissSent, DissReceived, DissCalled, TournCalled, TournPassed, TournWoke,
            TournLosing, TournIsDown, InDiss, InTourn, Bit

LEMMA CountTypes ==
    ASSUME RegionType, NEW p \in Procs
    PROVE  /\ episode[p] \in Nat
           /\ \A k : DissSent(p, k) \in Nat /\ DissReceived(p, k) \in Nat
           /\ \A r : TournPassed(p, r) \in Nat /\ TournWoke(p, r) \in Nat
           /\ TournLosing(p) \in Nat /\ TournIsDown(p) \in Nat
           /\ DissCalled(p) \in Nat /\ TournCalled(p) \in Nat
    BY DEF RegionType, DissSent, DissReceived, DissCalled, TournCalled, TournPassed, TournWoke,
       TournLosing, TournIsDown, Bit

-----------------------------------------------------------------------------
(* Dissemination *)

\* Steps that send and receive nothing, send, and receive.
LEMMA DissSilent ==
    ASSUME launch \in Launches, DissWire, NEW p \in Procs, StepOf(p), UNCHANGED wire,
           \A k \in Nat : k < R => /\ DissSent(p, k)' = DissSent(p, k)
                                   /\ DissReceived(p, k)' = DissReceived(p, k)
    PROVE  DissWire'
<1>1. /\ Procs' = Procs /\ R' = R /\ Tags' = Tags /\ \A q, k : Dest(q, k)' = Dest(q, k)
    BY SameLaunch DEF StepOf
<1>2. \A a \in Procs : \A k \in Nat : k < R => /\ DissSent(a, k)' = DissSent(a, k)
                                               /\ DissReceived(a, k)' = DissReceived(a, k)
    BY OthersStay
<1>3. Tags \subseteq Nat
    BY LaunchFacts
<1>4. ASSUME NEW a \in Procs, NEW b \in Procs, NEW k \in Tags
      PROVE  wire'[<<a, b, k>>] =
                 IF k < R /\ b = Dest(a, k) THEN DissSent(a, k)' - DissReceived(b, k)' ELSE 0
  <2>1. wire[<<a, b, k>>] =
            IF k < R /\ b = Dest(a, k) THEN DissSent(a, k) - DissReceived(b, k) ELSE 0
      BY DEF DissWire
  <2> QED BY <1>2, <1>3, <2>1
<1>5. DissWire' <=> \A a, b \in Procs, k \in Tags : wire'[<<a, b, k>>] =
          IF k < R /\ b = Dest(a, k) THEN DissSent(a, k)' - DissReceived(b, k)' ELSE 0
    BY <1>1 DEF DissWire
<1> QED BY <1>4, <1>5

LEMMA DissSends ==
    ASSUME RegionType, MpiInv, DissWire, NEW p \in Procs, StepOf(p), NEW i \in Nat, i < R,
           wire' = [wire EXCEPT ![<<p, Dest(p, i), i>>] = @ + 1],
           DissSent(p, i)' = DissSent(p, i) + 1,
           \A k \in Nat : k < R => /\ k # i => DissSent(p, k)' = DissSent(p, k)
                                   /\ DissReceived(p, k)' = DissReceived(p, k)
    PROVE  DissWire' /\ wire' \in [Procs \X Procs \X Tags -> Nat]
<1>0. launch \in Launches /\ wire \in [Procs \X Procs \X Tags -> Nat]
    BY DEF RegionType, MpiInv
<1>1. /\ Procs' = Procs /\ R' = R /\ Tags' = Tags /\ \A q, k : Dest(q, k)' = Dest(q, k)
    BY SameLaunch DEF StepOf
<1>2. Tags = 0 .. R /\ R \in Nat /\ i \in Tags /\ Dest(p, i) \in Procs
    BY <1>0, LaunchFacts, RingFacts
<1>3. <<p, Dest(p, i), i>> \in Procs \X Procs \X Tags
    BY <1>2
<1>4. wire' \in [Procs \X Procs \X Tags -> Nat]
    BY <1>0, <1>3
<1>5. ASSUME NEW a \in Procs, NEW b \in Procs, NEW k \in Tags
      PROVE  wire'[<<a, b, k>>] =
                 IF k < R /\ b = Dest(a, k) THEN DissSent(a, k)' - DissReceived(b, k)' ELSE 0
  <2>1. wire[<<a, b, k>>] =
            IF k < R /\ b = Dest(a, k) THEN DissSent(a, k) - DissReceived(b, k) ELSE 0
      BY DEF DissWire
  <2>2. /\ wire'[<<p, Dest(p, i), i>>] = wire[<<p, Dest(p, i), i>>] + 1
        /\ <<a, b, k>> # <<p, Dest(p, i), i>> => wire'[<<a, b, k>>] = wire[<<a, b, k>>]
      BY <1>0, <1>3
  <2>3. k \in Nat /\ (k < R => DissReceived(b, k)' = DissReceived(b, k))
      BY <1>2, OthersStay
  <2>4. CASE a = p /\ k = i
    <3>1. CASE b = Dest(p, i)
      <4>1. wire'[<<a, b, k>>] = DissSent(p, i) - DissReceived(b, i) + 1
          BY <2>1, <2>2, <2>4, <3>1
      <4>2. DissSent(p, i) \in Nat /\ DissReceived(b, i) \in Nat
          BY CountTypes
      <4> QED BY <2>3, <2>4, <3>1, <4>1, <4>2
    <3>2. CASE b # Dest(p, i)
        BY <2>1, <2>2, <2>4, <3>2
    <3> QED BY <3>1, <3>2
  <2>5. CASE ~(a = p /\ k = i)
    <3>1. k < R => DissSent(a, k)' = DissSent(a, k)
        BY <2>3, <2>5, OthersStay
    <3>2. wire'[<<a, b, k>>] = wire[<<a, b, k>>]
        BY <2>2, <2>5
    <3> QED BY <2>1, <2>3, <3>1, <3>2
  <2> QED BY <2>4, <2>5
<1> QED BY <1>1, <1>4, <1>5 DEF DissWire

LEMMA DissReceives ==
    ASSUME RegionType, MpiInv, DissWire, NEW p \in Procs, StepOf(p), NEW i \in Nat, i < R,
           wire[<<Src(p, i), p, i>>] > 0,
           wire' = [wire EXCEPT ![<<Src(p, i), p, i>>] = @ - 1],
           DissReceived(p, i)' = DissReceived(p, i) + 1,
           \A k \in Nat : k < R => /\ k # i => DissReceived(p, k)' = DissReceived(p, k)
                                   /\ DissSent(p, k)' = DissSent(p, k)
    PROVE  DissWire' /\ wire' \in [Procs \X Procs \X Tags -> Nat]
<1>0. launch \in Launches /\ wire \in [Procs \X Procs \X Tags -> Nat]
    BY DEF RegionType, MpiInv
<1>1. /\ Procs' = Procs /\ R' = R /\ Tags' = Tags /\ \A q, k : Dest(q, k)' = Dest(q, k)
    BY SameLaunch DEF StepOf
<1>2. Tags = 0 .. R /\ R \in Nat /\ i \in Tags /\ Src(p, i) \in Procs /\ Dest(Src(p, i), i) = p
    BY <1>0, LaunchFacts, RingFacts, RingInverse
<1>3. <<Src(p, i), p, i>> \in Procs \X Procs \X Tags
    BY <1>2
<1>4. wire' \in [Procs \X Procs \X Tags -> Nat]
    BY <1>0, <1>3
<1>5. ASSUME NEW a \in Procs, NEW b \in Procs, NEW k \in Tags
      PROVE  wire'[<<a, b, k>>] =
                 IF k < R /\ b = Dest(a, k) THEN DissSent(a, k)' - DissReceived(b, k)' ELSE 0
  <2>1. wire[<<a, b, k>>] =
            IF k < R /\ b = Dest(a, k) THEN DissSent(a, k) - DissReceived(b, k) ELSE 0
      BY DEF DissWire
  <2>2. /\ wire'[<<Src(p, i), p, i>>] = wire[<<Src(p, i), p, i>>] - 1
        /\ <<a, b, k>> # <<Src(p, i), p, i>> => wire'[<<a, b, k>>] = wire[<<a, b, k>>]
      BY <1>0, <1>3
  <2>3. k \in Nat /\ (k < R => DissSent(a, k)' = DissSent(a, k))
      BY <1>2, OthersStay
  <2>4. CASE b = p /\ k = i
    <3>1. CASE a = Src(p, i)
      <4>1. wire'[<<a, b, k>>] = DissSent(a, i) - DissReceived(p, i) - 1
          BY <1>2, <2>1, <2>2, <2>4, <3>1
      <4>2. DissSent(a, i) \in Nat /\ DissReceived(p, i) \in Nat
          BY CountTypes
      <4> QED BY <1>2, <2>3, <2>4, <3>1, <4>1, <4>2
    <3>2. CASE a # Src(p, i)
      <4>1. b # Dest(a, k)
          BY <1>0, <2>4, <3>2, RingInverse
      <4> QED BY <2>1, <2>2, <2>4, <3>2, <4>1
    <3> QED BY <3>1, <3>2
  <2>5. CASE ~(b = p /\ k = i)
    <3>1. k < R => DissReceived(b, k)' = DissReceived(b, k)
        BY <2>3, <2>5, OthersStay
    <3>2. wire'[<<a, b, k>>] = wire[<<a, b, k>>]
        BY <2>2, <2>5
    <3> QED BY <2>1, <2>3, <3>1, <3>2
  <2> QED BY <2>4, <2>5
<1> QED BY <1>1, <1>4, <1>5 DEF DissWire

LEMMA MpiInvFrom ==
    ASSUME RegionType, MpiInv, NEW p \in Procs, StepOf(p), Place(p)',
           wire' \in [Procs \X Procs \X Tags -> Nat],
           HasDissemination => DissWire',
           launch.program = "tourn" => TournWire',
           launch.program = "sense" => UNCHANGED wire
    PROVE  MpiInv'
<1>1. /\ Procs' = Procs /\ Tags' = Tags /\ (HasDissemination' <=> HasDissemination)
      /\ launch' = launch /\ round' \in [Procs -> Nat]
    BY SameLaunch DEF StepOf
<1>2. \A q \in Procs : Place(q)'
    BY OthersStay DEF MpiInv
<1>3. launch.program = "sense" => \A m \in DOMAIN wire' : wire'[m] = 0
    BY DEF MpiInv
<1> QED BY <1>1, <1>2, <1>3 DEF MpiInv

\* What is known of a process that is somewhere in a program.
LEMMA Whose ==
    ASSUME RegionType, MpiInv, NEW p \in Procs
    PROVE  /\ pc[p] \in {"post", "send", "wait"} => HasDissemination /\ launch.program # "tourn"
           /\ pc[p] \in {"up", "upWait", "asleep", "down"} => launch.program = "tourn" /\ ~HasDissemination
           /\ pc[p] = "region" => launch.program # "tourn" /\ launch.program # "diss"
           /\ HasDissemination => launch.program # "tourn" /\ launch.program # "sense"
           /\ launch \in Launches /\ R \in Nat /\ round[p] \in Nat /\ episode[p] \in Nat
           /\ Episodes \in Nat \ {0} /\ Place(p)
           /\ pc \in [Procs -> {"begin", "post", "send", "wait", "up", "upWait", "asleep",
                                "down", "region", "done"}]
<1>1. /\ launch \in Launches /\ round[p] \in Nat /\ episode[p] \in Nat /\ Place(p)
      /\ pc \in [Procs -> {"begin", "post", "send", "wait", "up", "upWait", "asleep",
                           "down", "region", "done"}]
    BY DEF RegionType, MpiInv
<1>2. launch.program \in {"diss", "tourn", "sense", "hybrid"} /\ R \in Nat
    BY <1>1, LaunchFacts
<1>3. pc[p] \in Labels
    BY <1>1 DEF Place
<1>4. /\ launch.program = "diss" => pc[p] \in {"begin", "post", "send", "wait", "done"}
      /\ launch.program = "hybrid" => pc[p] \in {"begin", "region", "post", "send", "wait", "done"}
      /\ launch.program = "sense" => pc[p] \in {"begin", "region", "done"}
      /\ launch.program = "tourn" => pc[p] \in {"begin", "up", "upWait", "asleep", "down", "done"}
    BY <1>2, <1>3 DEF Labels
<1> QED BY <1>1, <1>2, <1>4, BarriersAssumption DEF HasDissemination

LEMMA LabelFacts ==
    ASSUME launch \in Launches
    PROVE  /\ "begin" \in Labels /\ "done" \in Labels
           /\ HasDissemination => "post" \in Labels /\ "send" \in Labels /\ "wait" \in Labels
           /\ launch.program \in {"sense", "hybrid"} => "region" \in Labels
           /\ launch.program = "tourn" => /\ "up" \in Labels /\ "upWait" \in Labels
                                          /\ "asleep" \in Labels /\ "down" \in Labels
<1>1. launch.program \in {"diss", "tourn", "sense", "hybrid"}
    BY LaunchFacts
<1>2. CASE launch.program = "diss"
    BY <1>2 DEF Labels, HasDissemination
<1>3. CASE launch.program = "hybrid"
    BY <1>3 DEF Labels, HasDissemination
<1>4. CASE launch.program = "sense"
    BY <1>4 DEF Labels, HasDissemination
<1>5. CASE launch.program = "tourn"
    BY <1>5 DEF Labels, HasDissemination
<1> QED BY <1>1, <1>2, <1>3, <1>4, <1>5

\* The end of an episode.
LEMMA CompletedStep ==
    ASSUME RegionType, MpiInv, NEW p \in Procs, Completed(p), UNCHANGED launch, pc[p] # "done",
           UNCHANGED round
    PROVE  /\ StepOf(p) /\ Place(p)' /\ episode'[p] = episode[p] + 1
           /\ pc'[p] \in {"begin", "done"}
<1>1. /\ episode[p] \in Nat /\ Place(p) /\ launch \in Launches /\ Episodes \in Nat
      /\ pc \in [Procs -> {"begin", "post", "send", "wait", "up", "upWait", "asleep",
                           "down", "region", "done"}]
    BY Whose
<1>2. /\ episode'[p] = episode[p] + 1
      /\ pc'[p] = IF episode[p] + 1 = Episodes THEN "done" ELSE "begin"
      /\ \A q \in Procs : q # p => pc'[q] = pc[q] /\ episode'[q] = episode[q]
    BY <1>1 DEF Completed, Goto, RegionType
<1>3. StepOf(p)
    BY <1>2 DEF StepOf, MpiInv
<1>4. episode[p] # Episodes /\ episode[p] <= Episodes
    BY <1>1 DEF Place
<1>5. "begin" \in Labels' /\ "done" \in Labels'
    BY <1>1, LabelFacts, SameLaunch
<1>6. Place(p)'
    BY <1>1, <1>2, <1>4, <1>5 DEF Place
<1> QED BY <1>2, <1>3, <1>6

\* A step to another place within an episode.
LEMMA GotoStep ==
    ASSUME RegionType, MpiInv, NEW p \in Procs, NEW label, Goto(p, label),
           UNCHANGED <<launch, episode>>, NEW i \in Nat, round' = [round EXCEPT ![p] = i]
    PROVE  StepOf(p) /\ pc'[p] = label /\ round'[p] = i /\ episode'[p] = episode[p]
<1>1. /\ round \in [Procs -> Nat]
      /\ pc \in [Procs -> {"begin", "post", "send", "wait", "up", "upWait", "asleep",
                           "down", "region", "done"}]
    BY Whose DEF MpiInv
<1>2. /\ pc'[p] = label /\ round'[p] = i /\ round' \in [Procs -> Nat]
      /\ \A q \in Procs : q # p => pc'[q] = pc[q] /\ round'[q] = round[q]
    BY <1>1 DEF Goto
<1> QED BY <1>2 DEF StepOf

LEMMA PlaceAfter ==
    ASSUME RegionType, MpiInv, NEW p \in Procs, UNCHANGED launch, pc[p] # "done",
           pc'[p] # "done", pc'[p] \in Labels, episode'[p] = episode[p],
           pc'[p] \in {"send", "wait"} => round'[p] < R,
           pc'[p] = "post" => round'[p] <= R,
           pc'[p] = "up" => round'[p] \in 1 .. R + 1 /\ p % pow2[round'[p] - 1] = 0,
           pc'[p] = "upWait" => Match(p, Loser(p, round'[p]), round'[p]),
           pc'[p] = "asleep" => /\ round'[p] \in 1 .. R /\ p % pow2[round'[p] - 1] = 0
                                /\ ~Winner(p, round'[p]),
           pc'[p] = "down" => round'[p] <= R /\ p % pow2[round'[p]] = 0
    PROVE  Place(p)'
<1>1. /\ Labels' = Labels /\ R' = R
      /\ \A w, q, r : Match(w, q, r)' <=> Match(w, q, r)
      /\ \A q, r : (Winner(q, r)' <=> Winner(q, r)) /\ Loser(q, r)' = Loser(q, r)
    BY SameLaunch
<1>2. episode[p] <= Episodes /\ episode[p] # Episodes
    BY Whose DEF Place
<1> QED BY <1>1, <1>2 DEF Place

\* The steps of the dissemination keep the invariant.
LEMMA DissInv ==
    ASSUME RegionType, MpiInv, NEW p \in Procs,
           DissBegin(p) \/ DissPost(p) \/ DissSend(p) \/ DissWait(p)
    PROVE  MpiInv'
<1>0. /\ HasDissemination /\ launch.program # "tourn" /\ launch.program # "sense"
      /\ launch \in Launches /\ R \in Nat /\ round[p] \in Nat /\ episode[p] \in Nat /\ Place(p)
      /\ round \in [Procs -> Nat] /\ wire \in [Procs \X Procs \X Tags -> Nat] /\ DissWire
      /\ "post" \in Labels /\ "send" \in Labels /\ "wait" \in Labels
  <2>1. /\ launch \in Launches /\ R \in Nat /\ round[p] \in Nat /\ episode[p] \in Nat /\ Place(p)
        /\ round \in [Procs -> Nat] /\ wire \in [Procs \X Procs \X Tags -> Nat]
      BY Whose DEF MpiInv
  <2>2. HasDissemination
      BY Whose DEF DissBegin, DissPost, DissSend, DissWait, HasDissemination
  <2> QED BY <2>1, <2>2, LabelFacts DEF MpiInv, HasDissemination
<1> USE <1>0
<1>i. PICK i \in Nat : i = round[p]
    OBVIOUS
<1> USE <1>i
<1>1. CASE DissBegin(p)
  <2>1. /\ pc[p] = "begin" /\ Goto(p, "post") /\ round' = [round EXCEPT ![p] = 0]
        /\ UNCHANGED <<launch, episode, wire>>
      BY <1>1 DEF DissBegin, StartDissemination
  <2>2. StepOf(p) /\ Place(p)' /\ pc'[p] = "post" /\ round'[p] = 0 /\ episode'[p] = episode[p]
    <3>1. StepOf(p) /\ pc'[p] = "post" /\ round'[p] = 0 /\ episode'[p] = episode[p]
        BY <2>1, GotoStep
    <3>2. Place(p)'
        BY <2>1, <3>1, PlaceAfter
    <3> QED BY <3>1, <3>2
  <2>3. \A k \in Nat : k < R => /\ DissSent(p, k)' = DissSent(p, k)
                                /\ DissReceived(p, k)' = DissReceived(p, k)
      BY <2>1, <2>2 DEF DissSent, DissReceived, InDiss, Bit
  <2>4. DissWire'
      BY <2>1, <2>2, <2>3, DissSilent
  <2> QED BY <2>1, <2>2, <2>4, MpiInvFrom
<1>2. CASE DissPost(p) /\ i < R
  <2>1. /\ pc[p] = "post" /\ Goto(p, "send") /\ round' = [round EXCEPT ![p] = i]
        /\ UNCHANGED <<launch, episode, wire>>
      BY <1>2 DEF DissPost, R, mpiVars
  <2>2. StepOf(p) /\ Place(p)' /\ pc'[p] = "send" /\ round'[p] = i /\ episode'[p] = episode[p]
    <3>1. StepOf(p) /\ pc'[p] = "send" /\ round'[p] = i /\ episode'[p] = episode[p]
        BY <2>1, GotoStep
    <3>2. Place(p)'
        BY <1>2, <2>1, <3>1, PlaceAfter
    <3> QED BY <3>1, <3>2
  <2>3. \A k \in Nat : k < R => /\ DissSent(p, k)' = DissSent(p, k)
                                /\ DissReceived(p, k)' = DissReceived(p, k)
      BY <2>1, <2>2 DEF DissSent, DissReceived, InDiss, Bit
  <2>4. DissWire'
      BY <2>1, <2>2, <2>3, DissSilent
  <2> QED BY <2>1, <2>2, <2>4, MpiInvFrom
<1>3. CASE DissPost(p) /\ ~(i < R)
  <2>1. pc[p] = "post" /\ Completed(p) /\ UNCHANGED <<launch, round, wire>>
      BY <1>3 DEF DissPost, R, mpiVars
  <2>2. StepOf(p) /\ Place(p)' /\ episode'[p] = episode[p] + 1 /\ pc'[p] \in {"begin", "done"}
      BY <2>1, CompletedStep
  <2>3. \A k \in Nat : k < R => /\ DissSent(p, k)' = DissSent(p, k)
                                /\ DissReceived(p, k)' = DissReceived(p, k)
      BY <1>3, <2>1, <2>2 DEF DissSent, DissReceived, InDiss, Bit
  <2>4. DissWire'
      BY <2>1, <2>2, <2>3, DissSilent
  <2> QED BY <2>1, <2>2, <2>4, MpiInvFrom
<1>4. CASE DissSend(p)
  <2>1. /\ pc[p] = "send" /\ Goto(p, "wait") /\ round' = [round EXCEPT ![p] = i] /\ i < R
        /\ wire' = [wire EXCEPT ![<<p, Dest(p, i), i>>] = @ + 1]
        /\ UNCHANGED <<launch, episode>>
      BY <1>4 DEF DissSend, MPI_Send, Dest, Place
  <2>2. StepOf(p) /\ Place(p)' /\ pc'[p] = "wait" /\ round'[p] = i /\ episode'[p] = episode[p]
    <3>1. StepOf(p) /\ pc'[p] = "wait" /\ round'[p] = i /\ episode'[p] = episode[p]
        BY <2>1, GotoStep
    <3>2. Place(p)'
        BY <2>1, <3>1, PlaceAfter
    <3> QED BY <3>1, <3>2
  <2>3. /\ DissSent(p, i)' = DissSent(p, i) + 1
        /\ \A k \in Nat : k < R => /\ k # i => DissSent(p, k)' = DissSent(p, k)
                                   /\ DissReceived(p, k)' = DissReceived(p, k)
      BY <2>1, <2>2 DEF DissSent, DissReceived, InDiss, Bit
  <2>4. DissWire' /\ wire' \in [Procs \X Procs \X Tags -> Nat]
      BY <2>1, <2>2, <2>3, DissSends
  <2> QED BY <2>2, <2>4, MpiInvFrom
<1>5. CASE DissWait(p)
  <2>1. /\ pc[p] = "wait" /\ Goto(p, "post") /\ round' = [round EXCEPT ![p] = i + 1] /\ i < R
        /\ wire[<<Src(p, i), p, i>>] > 0
        /\ wire' = [wire EXCEPT ![<<Src(p, i), p, i>>] = @ - 1]
        /\ UNCHANGED <<launch, episode>>
      BY <1>5 DEF DissWait, MPI_Wait, Posted, Src, Place
  <2>0. i + 1 \in Nat
      OBVIOUS
  <2>2. StepOf(p) /\ Place(p)' /\ pc'[p] = "post" /\ round'[p] = i + 1 /\ episode'[p] = episode[p]
    <3>1. StepOf(p) /\ pc'[p] = "post" /\ round'[p] = i + 1 /\ episode'[p] = episode[p]
        BY <2>0, <2>1, GotoStep
    <3>2. Place(p)'
        BY <2>0, <2>1, <3>1, PlaceAfter
    <3> QED BY <3>1, <3>2
  <2>3. DissReceived(p, i)' = DissReceived(p, i) + 1
      BY <2>0, <2>1, <2>2 DEF DissReceived, InDiss, Bit
  <2>4. ASSUME NEW k \in Nat
        PROVE  /\ k # i => DissReceived(p, k)' = DissReceived(p, k)
               /\ DissSent(p, k)' = DissSent(p, k)
    <3>1. k < i + 1 <=> k < i \/ k = i
        BY <2>0
    <3> QED BY <2>0, <2>1, <2>2, <3>1 DEF DissSent, DissReceived, InDiss, Bit
  <2>5. DissWire' /\ wire' \in [Procs \X Procs \X Tags -> Nat]
    <3>1. StepOf(p) /\ wire' = [wire EXCEPT ![<<Src(p, i), p, i>>] = @ - 1] /\ i < R
        BY <2>1, <2>2
    <3>2. wire[<<Src(p, i), p, i>>] > 0
        BY <2>1
    <3> QED BY <2>3, <2>4, <3>1, <3>2, DissReceives
  <2> QED BY <2>2, <2>5, MpiInvFrom
<1> QED BY <1>1, <1>2, <1>3, <1>4, <1>5

\* So do the steps of the regions.
LEMMA RegionMpiInv ==
    ASSUME RegionType, MpiInv, NEW p \in Procs, RegionBegin(p) \/ RegionEnd(p)
    PROVE  MpiInv'
<1>0. /\ launch \in Launches /\ R \in Nat /\ round[p] \in Nat /\ episode[p] \in Nat /\ Place(p)
      /\ round \in [Procs -> Nat] /\ wire \in [Procs \X Procs \X Tags -> Nat]
      /\ launch.program # "tourn" /\ (HasDissemination => DissWire)
    BY Whose DEF MpiInv, RegionBegin, RegionEnd, HasRegion
<1> USE <1>0
<1>1. SUFFICES /\ StepOf(p) /\ Place(p)' /\ UNCHANGED wire
               /\ \A k \in Nat : k < R => /\ DissSent(p, k)' = DissSent(p, k)
                                          /\ DissReceived(p, k)' = DissReceived(p, k)
    BY DissSilent, MpiInvFrom
<1>2. CASE RegionBegin(p)
  <2>1. /\ pc[p] = "begin" /\ Goto(p, "region") /\ round' = [round EXCEPT ![p] = round[p]]
        /\ UNCHANGED <<launch, episode, wire>> /\ "region" \in Labels
      BY <1>2, LabelFacts DEF RegionBegin, HasRegion, mpiVars
  <2>2. StepOf(p) /\ Place(p)' /\ pc'[p] = "region" /\ episode'[p] = episode[p]
    <3>1. StepOf(p) /\ pc'[p] = "region" /\ episode'[p] = episode[p]
        BY <2>1, GotoStep
    <3>2. Place(p)'
        BY <2>1, <3>1, PlaceAfter
    <3> QED BY <3>1, <3>2
  <2> QED BY <2>1, <2>2 DEF DissSent, DissReceived, InDiss, Bit
<1>3. CASE RegionEnd(p) /\ launch.program = "hybrid"
  <2>1. /\ pc[p] = "region" /\ Goto(p, "post") /\ round' = [round EXCEPT ![p] = 0]
        /\ UNCHANGED <<launch, episode, wire>> /\ "post" \in Labels
      BY <1>3, LabelFacts DEF RegionEnd, StartDissemination, HasDissemination
  <2>2. StepOf(p) /\ Place(p)' /\ pc'[p] = "post" /\ round'[p] = 0 /\ episode'[p] = episode[p]
    <3>1. StepOf(p) /\ pc'[p] = "post" /\ round'[p] = 0 /\ episode'[p] = episode[p]
        BY <2>1, GotoStep
    <3>2. Place(p)'
        BY <2>1, <3>1, PlaceAfter
    <3> QED BY <3>1, <3>2
  <2> QED BY <2>1, <2>2 DEF DissSent, DissReceived, InDiss, Bit
<1>4. CASE RegionEnd(p) /\ launch.program # "hybrid"
  <2>1. pc[p] = "region" /\ Completed(p) /\ UNCHANGED <<launch, round, wire>>
      BY <1>4 DEF RegionEnd
  <2>2. StepOf(p) /\ Place(p)' /\ episode'[p] = episode[p] + 1 /\ pc'[p] \in {"begin", "done"}
      BY <2>1, CompletedStep
  <2>3. launch.program = "sense" /\ R = 0
    <3>1. launch.program = "sense"
        BY <1>4, <2>1, Whose, LaunchFacts
    <3>2. launch.procs = 1
        BY <3>1, LaunchFacts
    <3>3. R = 0
      <4>1. \A k \in 0 .. R - 1 : pow2[k] \in 1 .. 1 - 1
          BY <3>2, LaunchFacts
      <4>2. R # 0 => 0 \in 0 .. R - 1
          OBVIOUS
      <4> QED BY <4>1, <4>2
    <3> QED BY <3>1, <3>3
  <2> QED BY <2>1, <2>2, <2>3
<1> QED BY <1>2, <1>3, <1>4

-----------------------------------------------------------------------------
(* The tournament *)

\* Steps that send and receive nothing.
LEMMA TournSilent ==
    ASSUME RegionType, MpiInv, TournWire, NEW p \in Procs, StepOf(p), UNCHANGED wire,
           \A q, r : Match(p, q, r) => /\ TournPassed(p, r)' = TournPassed(p, r)
                                       /\ TournWoke(p, r)' = TournWoke(p, r),
           \A w, r : Match(w, p, r) => /\ TournLosing(p)' = TournLosing(p)
                                       /\ TournIsDown(p)' = TournIsDown(p)
    PROVE  TournWire'
<1>1. /\ Procs' = Procs /\ Tags' = Tags /\ \A w, q, r : Match(w, q, r)' <=> Match(w, q, r)
    BY SameLaunch DEF StepOf
<1>2. ASSUME NEW w, NEW q, NEW r, Match(w, q, r)
      PROVE  /\ wire'[<<q, w, 1>>] = TournLosing(q)' - TournPassed(w, r)'
             /\ wire'[<<w, q, 1>>] = TournWoke(w, r)' - TournIsDown(q)'
  <2>1. /\ wire[<<q, w, 1>>] = TournLosing(q) - TournPassed(w, r)
        /\ wire[<<w, q, 1>>] = TournWoke(w, r) - TournIsDown(q)
      BY <1>2 DEF TournWire
  <2>2. w \in Procs /\ q \in Procs
      BY <1>2 DEF Match
  <2>3. TournPassed(w, r)' = TournPassed(w, r) /\ TournWoke(w, r)' = TournWoke(w, r)
      BY <1>2, <2>2, OthersStay
  <2>4. TournLosing(q)' = TournLosing(q) /\ TournIsDown(q)' = TournIsDown(q)
      BY <1>2, <2>2, OthersStay
  <2> QED BY <2>1, <2>3, <2>4
<1>3. ASSUME NEW a \in Procs, NEW b \in Procs, NEW k \in Tags,
             k # 1 \/ (\A r : ~Match(a, b, r) /\ ~Match(b, a, r))
      PROVE  wire'[<<a, b, k>>] = 0
    BY <1>3 DEF TournWire
<1> QED BY <1>1, <1>2, <1>3 DEF TournWire

\* A step that sends (d = 1) or receives (d = -1) the message m, and what it
\* does to the counts of the process that takes it.
OneMessage(m, d) ==
    /\ wire' \in [Procs \X Procs \X Tags -> Nat] /\ wire'[m] = wire[m] + d
    /\ \A n \in Procs \X Procs \X Tags : n # m => wire'[n] = wire[n]
Counted(p, m, d) ==
    /\ \A q, r : Match(p, q, r) =>
           /\ TournPassed(p, r)' = TournPassed(p, r) - (IF m = <<q, p, 1>> THEN d ELSE 0)
           /\ TournWoke(p, r)' = TournWoke(p, r) + (IF m = <<p, q, 1>> THEN d ELSE 0)
    /\ \A w, r : Match(w, p, r) =>
           /\ TournLosing(p)' = TournLosing(p) + (IF m = <<p, w, 1>> THEN d ELSE 0)
           /\ TournIsDown(p)' = TournIsDown(p) - (IF m = <<w, p, 1>> THEN d ELSE 0)

LEMMA SendsOne ==
    ASSUME MpiInv, NEW m \in Procs \X Procs \X Tags, wire' = [wire EXCEPT ![m] = @ + 1]
    PROVE  OneMessage(m, 1)
<1>1. wire \in [Procs \X Procs \X Tags -> Nat] /\ wire[m] + 1 \in Nat
    BY DEF MpiInv
<1> QED BY <1>1 DEF OneMessage

LEMMA ReceivesOne ==
    ASSUME MpiInv, NEW m \in Procs \X Procs \X Tags, wire[m] > 0, wire' = [wire EXCEPT ![m] = @ - 1],
           NEW d \in Int, d = -1
    PROVE  OneMessage(m, d)
<1>1. wire \in [Procs \X Procs \X Tags -> Nat] /\ wire[m] \in Nat
    BY DEF MpiInv
<1>2. wire[m] - 1 \in Nat /\ wire[m] - 1 = wire[m] + d
    BY <1>1
<1>3. wire'[m] = wire[m] - 1 /\ wire' \in [Procs \X Procs \X Tags -> Nat]
    BY <1>1, <1>2
<1>4. \A n \in Procs \X Procs \X Tags : n # m => wire'[n] = wire[n]
    BY <1>1
<1> QED BY <1>2, <1>3, <1>4 DEF OneMessage

LEMMA TournMessage ==
    ASSUME RegionType, MpiInv, TournWire, NEW p \in Procs, StepOf(p),
           NEW v, NEW u, NEW s, Match(v, u, s), p = v \/ p = u,
           NEW m, m = <<u, v, 1>> \/ m = <<v, u, 1>>,
           NEW d \in Int, OneMessage(m, d), Counted(p, m, d)
    PROVE  TournWire'
<1>1. /\ Procs' = Procs /\ Tags' = Tags /\ \A w, q, r : Match(w, q, r)' <=> Match(w, q, r)
    BY SameLaunch DEF StepOf
<1>2. launch \in Launches /\ wire \in [Procs \X Procs \X Tags -> Nat]
    BY DEF RegionType, MpiInv
<1>3. v \in Procs /\ u \in Procs /\ 1 \in Tags /\ m \in Procs \X Procs \X Tags
  <2>1. v \in Procs /\ u \in Procs /\ 1 \in Tags
      BY <1>2, MatchFacts
  <2> QED BY <2>1
<1>4. /\ wire'[m] = wire[m] + d /\ \A n \in Procs \X Procs \X Tags : n # m => wire'[n] = wire[n]
    BY DEF OneMessage
<1>5. ASSUME NEW w, NEW q, NEW r, Match(w, q, r)
      PROVE  /\ wire'[<<q, w, 1>>] = TournLosing(q)' - TournPassed(w, r)'
             /\ wire'[<<w, q, 1>>] = TournWoke(w, r)' - TournIsDown(q)'
  <2>1. /\ wire[<<q, w, 1>>] = TournLosing(q) - TournPassed(w, r)
        /\ wire[<<w, q, 1>>] = TournWoke(w, r) - TournIsDown(q)
      BY <1>5 DEF TournWire
  <2>2. w \in Procs /\ q \in Procs /\ w < q /\ w \in Nat /\ q \in Nat
      BY <1>2, <1>5, MatchFacts
  <2>3. /\ TournLosing(q) \in Nat /\ TournPassed(w, r) \in Nat
        /\ TournWoke(w, r) \in Nat /\ TournIsDown(q) \in Nat
      BY <2>2, CountTypes
  <2>4. <<q, w, 1>> \in Procs \X Procs \X Tags /\ <<w, q, 1>> \in Procs \X Procs \X Tags
      BY <1>3, <2>2
  <2>5. /\ wire'[<<q, w, 1>>] = wire[<<q, w, 1>>] + (IF m = <<q, w, 1>> THEN d ELSE 0)
        /\ wire'[<<w, q, 1>>] = wire[<<w, q, 1>>] + (IF m = <<w, q, 1>> THEN d ELSE 0)
    <3>1. wire[<<q, w, 1>>] \in Nat /\ wire[<<w, q, 1>>] \in Nat
        BY <1>2, <2>4
    <3> QED BY <1>4, <2>4, <3>1
  <2>6. CASE w = p
    <3>1. q # p
        BY <2>2, <2>6
    <3>2. TournLosing(q)' = TournLosing(q) /\ TournIsDown(q)' = TournIsDown(q)
        BY <2>2, <3>1, OthersStay
    <3>3. /\ TournPassed(w, r)' = TournPassed(w, r) - (IF m = <<q, w, 1>> THEN d ELSE 0)
          /\ TournWoke(w, r)' = TournWoke(w, r) + (IF m = <<w, q, 1>> THEN d ELSE 0)
        BY <1>5, <2>6 DEF Counted
    <3> QED BY <2>1, <2>3, <2>5, <3>2, <3>3
  <2>7. CASE q = p
    <3>1. w # p
        BY <2>2, <2>7
    <3>2. TournPassed(w, r)' = TournPassed(w, r) /\ TournWoke(w, r)' = TournWoke(w, r)
        BY <2>2, <3>1, OthersStay
    <3>3. /\ TournLosing(q)' = TournLosing(q) + (IF m = <<q, w, 1>> THEN d ELSE 0)
          /\ TournIsDown(q)' = TournIsDown(q) - (IF m = <<w, q, 1>> THEN d ELSE 0)
        BY <1>5, <2>7 DEF Counted
    <3> QED BY <2>1, <2>3, <2>5, <3>2, <3>3
  <2>8. CASE w # p /\ q # p
    <3>1. TournPassed(w, r)' = TournPassed(w, r) /\ TournWoke(w, r)' = TournWoke(w, r)
        BY <2>2, <2>8, OthersStay
    <3>2. TournLosing(q)' = TournLosing(q) /\ TournIsDown(q)' = TournIsDown(q)
        BY <2>2, <2>8, OthersStay
    <3>3. m # <<q, w, 1>> /\ m # <<w, q, 1>>
        BY <2>8
    <3> QED BY <2>1, <2>3, <2>5, <3>1, <3>2, <3>3
  <2> QED BY <2>6, <2>7, <2>8
<1>6. ASSUME NEW a \in Procs, NEW b \in Procs, NEW k \in Tags,
             k # 1 \/ (\A r : ~Match(a, b, r) /\ ~Match(b, a, r))
      PROVE  wire'[<<a, b, k>>] = 0
  <2>1. wire[<<a, b, k>>] = 0
      BY <1>6 DEF TournWire
  <2>2. <<a, b, k>> # m
      BY <1>6
  <2> QED BY <1>4, <2>1, <2>2
<1> QED BY <1>1, <1>4, <1>5, <1>6 DEF TournWire

LEMMA TournTypes ==
    ASSUME RegionType, MpiInv, NEW p \in Procs, launch.program = "tourn"
    PROVE  /\ launch \in Launches /\ R \in Nat /\ round[p] \in Nat /\ episode[p] \in Nat /\ Place(p)
           /\ round \in [Procs -> Nat] /\ wire \in [Procs \X Procs \X Tags -> Nat] /\ TournWire
           /\ ~HasDissemination /\ p \in Nat /\ p < launch.procs
           /\ "up" \in Labels /\ "upWait" \in Labels /\ "asleep" \in Labels /\ "down" \in Labels
<1>1. /\ launch \in Launches /\ R \in Nat /\ round[p] \in Nat /\ episode[p] \in Nat /\ Place(p)
      /\ round \in [Procs -> Nat] /\ wire \in [Procs \X Procs \X Tags -> Nat] /\ TournWire
    BY Whose DEF MpiInv
<1>2. p \in Nat /\ p < launch.procs
    BY <1>1, LaunchFacts
<1> QED BY <1>1, <1>2, LabelFacts DEF HasDissemination

\* A step of p that moves it to a label and a round in this episode.
LEMMA TournGoto ==
    ASSUME RegionType, MpiInv, NEW p \in Procs, launch.program = "tourn", InTourn(p) \/ pc[p] = "begin",
           NEW label, Goto(p, label), UNCHANGED <<launch, episode>>,
           NEW i \in Nat, round' = [round EXCEPT ![p] = i],
           label \in {"up", "upWait", "asleep", "down"},
           label = "up" => i \in 1 .. R + 1 /\ p % pow2[i - 1] = 0,
           label = "upWait" => Match(p, Loser(p, i), i),
           label = "asleep" => i \in 1 .. R /\ p % pow2[i - 1] = 0 /\ ~Winner(p, i),
           label = "down" => i <= R /\ p % pow2[i] = 0
    PROVE  /\ StepOf(p) /\ pc'[p] = label /\ round'[p] = i /\ episode'[p] = episode[p]
           /\ Place(p)'
<1>1. StepOf(p) /\ pc'[p] = label /\ round'[p] = i /\ episode'[p] = episode[p]
    BY GotoStep
<1>2. label \in Labels
    BY TournTypes
<1>3. Place(p)'
    BY <1>1, <1>2, PlaceAfter DEF InTourn
<1> QED BY <1>1, <1>3

\* From one round of the recursion to the next, without a message.
LEMMA TournSilentSteps ==
    ASSUME RegionType, MpiInv, NEW p \in Procs,
           TournBegin(p) \/ TournTop(p) \/ TournUp(p) \/ TournEnd(p)
    PROVE  MpiInv'
<1>0. launch.program = "tourn"
    BY Whose DEF TournBegin, TournTop, TournUp, TournEnd
<1> USE <1>0
<1>t. /\ launch \in Launches /\ R \in Nat /\ round[p] \in Nat /\ episode[p] \in Nat /\ Place(p)
      /\ round \in [Procs -> Nat] /\ wire \in [Procs \X Procs \X Tags -> Nat] /\ TournWire
      /\ ~HasDissemination /\ p \in Nat /\ p < launch.procs
    BY TournTypes
<1> USE <1>t
<1>i. PICK i \in Nat : i = round[p]
    OBVIOUS
<1> USE <1>i
<1>1. SUFFICES /\ StepOf(p) /\ Place(p)' /\ UNCHANGED wire
               /\ \A q, r : Match(p, q, r) => /\ TournPassed(p, r)' = TournPassed(p, r)
                                              /\ TournWoke(p, r)' = TournWoke(p, r)
               /\ \A w, r : Match(w, p, r) => /\ TournLosing(p)' = TournLosing(p)
                                              /\ TournIsDown(p)' = TournIsDown(p)
    BY TournSilent, MpiInvFrom
<1>2. CASE TournBegin(p)
  <2>1. /\ pc[p] = "begin" /\ Goto(p, "up") /\ round' = [round EXCEPT ![p] = 1]
        /\ UNCHANGED <<launch, episode, wire>>
      BY <1>2 DEF TournBegin
  <2>2. 1 \in 1 .. R + 1 /\ p % pow2[1 - 1] = 0
      BY PowerRecursion
  <2>3. StepOf(p) /\ pc'[p] = "up" /\ round'[p] = 1 /\ episode'[p] = episode[p] /\ Place(p)'
    <3>1. StepOf(p) /\ pc'[p] = "up" /\ round'[p] = 1 /\ episode'[p] = episode[p]
        BY <2>1, GotoStep
    <3>2. "up" \in Labels
        BY TournTypes
    <3>3. Place(p)'
        BY <2>1, <2>2, <3>1, <3>2, PlaceAfter
    <3> QED BY <3>1, <3>3
  <2>4. \A q, r : Match(p, q, r) => r \in Nat /\ r >= 1
      BY MatchFacts
  <2> QED BY <2>1, <2>3, <2>4 DEF TournPassed, TournWoke, TournLosing, TournIsDown, Bit
<1>3. CASE TournTop(p)
  <2>1. pc[p] = "up" /\ i > R
      BY <1>3 DEF TournTop, R
  <2>2. i = R + 1 /\ p % pow2[R] = 0
    <3>1. i \in 1 .. R + 1 /\ p % pow2[i - 1] = 0
        BY <2>1 DEF Place
    <3>2. i = R + 1 /\ i - 1 = R
        BY <2>1, <3>1
    <3> QED BY <3>1, <3>2
  <2>3. /\ Goto(p, "down") /\ round' = [round EXCEPT ![p] = R] /\ UNCHANGED <<launch, episode, wire>>
      BY <1>3, <2>2 DEF TournTop
  <2>4. /\ StepOf(p) /\ pc'[p] = "down" /\ round'[p] = R /\ episode'[p] = episode[p] /\ Place(p)'
    <3>1. PICK n \in Nat : n = R
        OBVIOUS
    <3>2. /\ round' = [round EXCEPT ![p] = n] /\ n <= R /\ p % pow2[n] = 0
          /\ InTourn(p) /\ Goto(p, "down") /\ UNCHANGED <<launch, episode>>
        BY <2>1, <2>2, <2>3, <3>1 DEF InTourn
    <3>3. StepOf(p) /\ pc'[p] = "down" /\ round'[p] = n /\ episode'[p] = episode[p] /\ Place(p)'
        BY <3>2, TournGoto DEF InTourn
    <3> QED BY <3>1, <3>3
  <2>5. p = 0
    <3>1. pow2[R] \in Nat /\ pow2[R] > 0 /\ p < pow2[R]
        BY LaunchFacts, PowerExceeds
    <3>2. \A d \in Nat : p < d => p % d = p
        OBVIOUS
    <3> QED BY <2>2, <3>1, <3>2
  <2>6. \A w, r : ~Match(w, p, r)
      BY <2>5, MatchFacts
  <2>7. ASSUME NEW q, NEW r, Match(p, q, r)
        PROVE  TournPassed(p, r)' = TournPassed(p, r) /\ TournWoke(p, r)' = TournWoke(p, r)
    <3>1. r \in Nat /\ r <= R
        BY <2>7, MatchFacts
    <3> QED BY <2>1, <2>2, <2>4, <3>1 DEF TournPassed, TournWoke, Bit
  <2> QED BY <2>3, <2>4, <2>6, <2>7
<1>4. CASE TournUp(p) /\ Loser(p, i) >= launch.procs
  <2>1. /\ pc[p] = "up" /\ i \in 1 .. R /\ Winner(p, i) /\ UNCHANGED pc
        /\ round' = [round EXCEPT ![p] = i + 1] /\ UNCHANGED <<launch, episode, wire>>
      BY <1>4 DEF TournUp, R, Place
  <2>2. Goto(p, "up")
      BY <2>1 DEF Goto, RegionType
  <2>3. i + 1 \in Nat /\ i + 1 \in 1 .. R + 1 /\ p % pow2[(i + 1) - 1] = 0
    <3>1. (i + 1) - 1 = i
        OBVIOUS
    <3> QED BY <2>1, <3>1 DEF Winner
  <2>4. StepOf(p) /\ pc'[p] = "up" /\ round'[p] = i + 1 /\ episode'[p] = episode[p] /\ Place(p)'
      BY <2>1, <2>2, <2>3, TournGoto DEF InTourn
  <2>5. ASSUME NEW q, NEW r, Match(p, q, r)
        PROVE  TournPassed(p, r)' = TournPassed(p, r) /\ TournWoke(p, r)' = TournWoke(p, r)
    <3>1. r \in Nat /\ q \in Procs /\ q = Loser(p, r)
        BY <2>5, MatchFacts DEF Match
    <3>2. r # i
        BY <1>4, <3>1, LaunchFacts
    <3>3. i + 1 > r <=> i > r
        BY <3>1, <3>2
    <3> QED BY <2>1, <2>4, <3>1, <3>3 DEF TournPassed, TournWoke, Bit
  <2>6. TournLosing(p)' = TournLosing(p) /\ TournIsDown(p)' = TournIsDown(p)
      BY <2>1, <2>4 DEF TournLosing, TournIsDown, Bit
  <2> QED BY <2>1, <2>4, <2>5, <2>6
<1>5. CASE TournUp(p) /\ ~(Loser(p, i) >= launch.procs)
  <2>1. /\ pc[p] = "up" /\ i \in 1 .. R /\ Winner(p, i) /\ Goto(p, "upWait")
        /\ round' = [round EXCEPT ![p] = i] /\ UNCHANGED <<launch, episode, wire>>
      BY <1>5 DEF TournUp, R, Place
  <2>2. Match(p, Loser(p, i), i)
    <3>1. pow2[i - 1] \in Nat
        BY <2>1, PowerExceeds
    <3>2. Loser(p, i) \in Nat /\ Loser(p, i) < launch.procs
        BY <1>5, <3>1, LaunchFacts DEF Loser
    <3>3. Loser(p, i) \in Procs
        BY <3>2, LaunchFacts
    <3> QED BY <2>1, <3>3 DEF Match
  <2>3. StepOf(p) /\ pc'[p] = "upWait" /\ round'[p] = i /\ episode'[p] = episode[p] /\ Place(p)'
      BY <2>1, <2>2, TournGoto DEF InTourn
  <2> QED BY <2>1, <2>3 DEF TournPassed, TournWoke, TournLosing, TournIsDown, Bit
<1>6. CASE TournEnd(p)
  <2>1. pc[p] = "down" /\ round[p] = 0 /\ Completed(p) /\ UNCHANGED <<launch, round, wire>>
      BY <1>6 DEF TournEnd, mpiVars
  <2>2. StepOf(p) /\ Place(p)' /\ episode'[p] = episode[p] + 1 /\ pc'[p] \in {"begin", "done"}
      BY <2>1, CompletedStep
  <2>3. \A q, r : Match(p, q, r) => r \in Nat /\ r >= 1
      BY MatchFacts
  <2> QED BY <2>1, <2>2, <2>3 DEF TournPassed, TournWoke, TournLosing, TournIsDown, Bit
<1> QED BY <1>2, <1>3, <1>4, <1>5, <1>6

\* A winner hears from its loser, and the loser from its winner.
LEMMA TournReceives ==
    ASSUME RegionType, MpiInv, NEW p \in Procs, TournWon(p) \/ TournWoken(p)
    PROVE  MpiInv'
<1>0. launch.program = "tourn"
    BY Whose DEF TournWon, TournWoken
<1> USE <1>0
<1>t. /\ launch \in Launches /\ R \in Nat /\ round[p] \in Nat /\ episode[p] \in Nat /\ Place(p)
      /\ round \in [Procs -> Nat] /\ wire \in [Procs \X Procs \X Tags -> Nat] /\ TournWire
      /\ ~HasDissemination /\ p \in Nat /\ p < launch.procs
    BY TournTypes
<1> USE <1>t
<1>i. PICK i \in Nat : i = round[p]
    OBVIOUS
<1> USE <1>i
<1>1. CASE TournWon(p)
  <2>1. /\ pc[p] = "upWait" /\ Goto(p, "up") /\ round' = [round EXCEPT ![p] = i + 1]
        /\ UNCHANGED <<launch, episode>> /\ Match(p, Loser(p, i), i)
      BY <1>1 DEF TournWon, Place
  <2>2. PICK u : u = Loser(p, i)
      OBVIOUS
  <2>3. PICK m : m = <<u, p, 1>>
      OBVIOUS
  <2>4. /\ Match(p, u, i) /\ u \in Procs /\ p < u /\ u \in Nat /\ 1 <= i /\ i <= R /\ p % pow2[i] = 0
        /\ m \in Procs \X Procs \X Tags
    <3>1. Match(p, u, i)
        BY <2>1, <2>2
    <3>2. u \in Procs /\ p < u /\ u \in Nat /\ 1 <= i /\ i <= R /\ p % pow2[i] = 0 /\ 1 \in Tags
        BY <3>1, MatchFacts
    <3> QED BY <2>3, <3>1, <3>2
  <2>d. PICK d \in Int : d = -1
      OBVIOUS
  <2>5. OneMessage(m, d) /\ wire' \in [Procs \X Procs \X Tags -> Nat]
    <3>1. Posted(p) = m
        BY <2>1, <2>2, <2>3 DEF Posted, Loser
    <3>2. wire[m] > 0 /\ wire' = [wire EXCEPT ![m] = @ - 1] /\ wire[m] \in Nat
        BY <1>1, <2>4, <3>1 DEF TournWon, MPI_Wait
    <3>3. OneMessage(m, d)
        BY <2>d, <2>4, <3>2, ReceivesOne
    <3> QED BY <3>3 DEF OneMessage
  <2>6. StepOf(p) /\ pc'[p] = "up" /\ round'[p] = i + 1 /\ episode'[p] = episode[p] /\ Place(p)'
    <3>1. i + 1 \in Nat /\ i + 1 \in 1 .. R + 1 /\ p % pow2[(i + 1) - 1] = 0
      <4>1. (i + 1) - 1 = i
          OBVIOUS
      <4> QED BY <2>4, <4>1
    <3>2. StepOf(p) /\ pc'[p] = "up" /\ round'[p] = i + 1 /\ episode'[p] = episode[p]
        BY <2>1, <3>1, GotoStep
    <3>3. "up" \in Labels
        BY TournTypes
    <3>4. Place(p)'
        BY <2>1, <3>1, <3>2, <3>3, PlaceAfter
    <3> QED BY <3>2, <3>4
  <2>7. ASSUME NEW q, NEW r, Match(p, q, r)
        PROVE  /\ TournPassed(p, r)' = TournPassed(p, r) - (IF m = <<q, p, 1>> THEN d ELSE 0)
               /\ TournWoke(p, r)' = TournWoke(p, r) + (IF m = <<p, q, 1>> THEN d ELSE 0)
    <3>1. r \in Nat /\ (q = u <=> r = i)
        BY <2>4, <2>7, MatchFacts, MatchUnique
    <3>2. m # <<p, q, 1>> /\ (m = <<q, p, 1>> <=> q = u)
        BY <2>3, <2>4
    <3>3. i + 1 > r <=> i > r \/ r = i
        BY <3>1
    <3> QED BY <2>d, <2>1, <2>6, <3>1, <3>2, <3>3 DEF TournPassed, TournWoke, Bit
  <2>8. ASSUME NEW w, NEW r, Match(w, p, r)
        PROVE  /\ TournLosing(p)' = TournLosing(p) + (IF m = <<p, w, 1>> THEN d ELSE 0)
               /\ TournIsDown(p)' = TournIsDown(p) - (IF m = <<w, p, 1>> THEN d ELSE 0)
    <3>1. w # u
        BY <2>4, <2>8, MatchUnique
    <3>2. m # <<p, w, 1>> /\ m # <<w, p, 1>>
        BY <2>3, <2>4, <3>1
    <3> QED BY <2>d, <2>1, <2>6, <3>2 DEF TournLosing, TournIsDown, Bit
  <2>9. Counted(p, m, d)
      BY <2>7, <2>8 DEF Counted
  <2>10. TournWire'
      BY <2>3, <2>4, <2>5, <2>6, <2>9, TournMessage
  <2> QED BY <2>5, <2>6, <2>10, MpiInvFrom
<1>2. CASE TournWoken(p)
  <2>1. /\ pc[p] = "asleep" /\ Goto(p, "down") /\ round' = [round EXCEPT ![p] = i - 1]
        /\ UNCHANGED <<launch, episode>> /\ i \in 1 .. R /\ p % pow2[i - 1] = 0 /\ ~Winner(p, i)
      BY <1>2 DEF TournWoken, Place
  <2>2. PICK v : v = p - pow2[i - 1]
      OBVIOUS
  <2>3. PICK m : m = <<v, p, 1>>
      OBVIOUS
  <2>4. Match(v, p, i) /\ v \in Procs /\ v < p /\ v \in Nat /\ m \in Procs \X Procs \X Tags
    <3>1. Match(v, p, i)
        BY <2>1, <2>2, LoserHasMatch
    <3>2. v \in Procs /\ v < p /\ v \in Nat /\ 1 \in Tags
        BY <3>1, MatchFacts
    <3> QED BY <2>3, <3>1, <3>2
  <2>d. PICK d \in Int : d = -1
      OBVIOUS
  <2>5. OneMessage(m, d) /\ wire' \in [Procs \X Procs \X Tags -> Nat]
    <3>1. Posted(p) = m
        BY <2>1, <2>2, <2>3 DEF Posted
    <3>2. wire[m] > 0 /\ wire' = [wire EXCEPT ![m] = @ - 1] /\ wire[m] \in Nat
        BY <1>2, <2>4, <3>1 DEF TournWoken, MPI_Wait
    <3>3. OneMessage(m, d)
        BY <2>d, <2>4, <3>2, ReceivesOne
    <3> QED BY <3>3 DEF OneMessage
  <2>6. StepOf(p) /\ pc'[p] = "down" /\ round'[p] = i - 1 /\ episode'[p] = episode[p] /\ Place(p)'
    <3>1. i - 1 \in Nat /\ i - 1 <= R
        BY <2>1
    <3>2. StepOf(p) /\ pc'[p] = "down" /\ round'[p] = i - 1 /\ episode'[p] = episode[p]
        BY <2>1, <3>1, GotoStep
    <3>3. "down" \in Labels
        BY TournTypes
    <3>4. Place(p)'
        BY <2>1, <3>1, <3>2, <3>3, PlaceAfter
    <3> QED BY <3>2, <3>4
  <2>7. ASSUME NEW q, NEW r, Match(p, q, r)
        PROVE  /\ TournPassed(p, r)' = TournPassed(p, r) - (IF m = <<q, p, 1>> THEN d ELSE 0)
               /\ TournWoke(p, r)' = TournWoke(p, r) + (IF m = <<p, q, 1>> THEN d ELSE 0)
    <3>1. r \in Nat /\ p < q /\ q \in Nat /\ p % pow2[r] = 0
        BY <2>7, MatchFacts
    <3>2. ~(i <= r)
        BY <2>1, <3>1, LowerPowersDivide DEF Winner
    <3>3. m # <<p, q, 1>> /\ m # <<q, p, 1>>
        BY <2>3, <2>4, <3>1
    <3>4. ~(i - 1 < r)
        BY <3>1, <3>2
    <3> QED BY <2>1, <2>6, <3>1, <3>3, <3>4 DEF TournPassed, TournWoke, Bit
  <2>8. ASSUME NEW w, NEW r, Match(w, p, r)
        PROVE  /\ TournLosing(p)' = TournLosing(p) + (IF m = <<p, w, 1>> THEN d ELSE 0)
               /\ TournIsDown(p)' = TournIsDown(p) - (IF m = <<w, p, 1>> THEN d ELSE 0)
    <3>1. w = v
        BY <2>4, <2>8, MatchUnique
    <3>2. m # <<p, w, 1>> /\ m = <<w, p, 1>>
        BY <2>3, <2>4, <3>1
    <3> QED BY <2>d, <2>1, <2>6, <3>2 DEF TournLosing, TournIsDown, Bit
  <2>9. Counted(p, m, d)
      BY <2>7, <2>8 DEF Counted
  <2>10. TournWire'
      BY <2>3, <2>4, <2>5, <2>6, <2>9, TournMessage
  <2> QED BY <2>5, <2>6, <2>10, MpiInvFrom
<1> QED BY <1>1, <1>2

\* A loser tells its winner, and a winner wakes its loser.
LEMMA TournSends ==
    ASSUME RegionType, MpiInv, NEW p \in Procs, TournLost(p) \/ TournDown(p)
    PROVE  MpiInv'
<1>0. launch.program = "tourn"
    BY Whose DEF TournLost, TournDown
<1> USE <1>0
<1>t. /\ launch \in Launches /\ R \in Nat /\ round[p] \in Nat /\ episode[p] \in Nat /\ Place(p)
      /\ round \in [Procs -> Nat] /\ wire \in [Procs \X Procs \X Tags -> Nat] /\ TournWire
      /\ ~HasDissemination /\ p \in Nat /\ p < launch.procs
    BY TournTypes
<1> USE <1>t
<1>i. PICK i \in Nat : i = round[p]
    OBVIOUS
<1> USE <1>i
<1>1. CASE TournLost(p)
  <2>1. /\ pc[p] = "up" /\ Goto(p, "asleep") /\ round' = [round EXCEPT ![p] = i]
        /\ UNCHANGED <<launch, episode>> /\ i \in 1 .. R /\ p % pow2[i - 1] = 0 /\ ~Winner(p, i)
        /\ wire' = [wire EXCEPT ![<<p, p - pow2[i - 1], 1>>] = @ + 1]
      BY <1>1 DEF TournLost, Place, MPI_Send, R
  <2>2. PICK v : v = p - pow2[i - 1]
      OBVIOUS
  <2>3. PICK m : m = <<p, v, 1>>
      OBVIOUS
  <2>4. Match(v, p, i) /\ v \in Procs /\ v < p /\ v \in Nat /\ m \in Procs \X Procs \X Tags
    <3>1. Match(v, p, i)
        BY <2>1, <2>2, LoserHasMatch
    <3>2. v \in Procs /\ v < p /\ v \in Nat /\ 1 \in Tags
        BY <3>1, MatchFacts
    <3> QED BY <2>3, <3>1, <3>2
  <2>5. OneMessage(m, 1) /\ wire' \in [Procs \X Procs \X Tags -> Nat]
    <3>1. wire' = [wire EXCEPT ![m] = @ + 1]
        BY <2>1, <2>2, <2>3
    <3>2. OneMessage(m, 1)
        BY <2>4, <3>1, SendsOne
    <3> QED BY <3>2 DEF OneMessage
  <2>6. StepOf(p) /\ pc'[p] = "asleep" /\ round'[p] = i /\ episode'[p] = episode[p] /\ Place(p)'
    <3>1. StepOf(p) /\ pc'[p] = "asleep" /\ round'[p] = i /\ episode'[p] = episode[p]
        BY <2>1, GotoStep
    <3>2. "asleep" \in Labels
        BY TournTypes
    <3>3. Place(p)'
        BY <2>1, <3>1, <3>2, PlaceAfter
    <3> QED BY <3>1, <3>3
  <2>7. ASSUME NEW q, NEW r, Match(p, q, r)
        PROVE  /\ TournPassed(p, r)' = TournPassed(p, r) - (IF m = <<q, p, 1>> THEN 1 ELSE 0)
               /\ TournWoke(p, r)' = TournWoke(p, r) + (IF m = <<p, q, 1>> THEN 1 ELSE 0)
    <3>1. r \in Nat /\ p < q /\ q \in Nat /\ p % pow2[r] = 0
        BY <2>7, MatchFacts
    <3>2. ~(i <= r)
        BY <2>1, <3>1, LowerPowersDivide DEF Winner
    <3>3. m # <<p, q, 1>> /\ m # <<q, p, 1>>
        BY <2>3, <2>4, <3>1
    <3>4. i > r
        BY <3>1, <3>2
    <3> QED BY <2>1, <2>6, <3>1, <3>3, <3>4 DEF TournPassed, TournWoke, Bit
  <2>8. ASSUME NEW w, NEW r, Match(w, p, r)
        PROVE  /\ TournLosing(p)' = TournLosing(p) + (IF m = <<p, w, 1>> THEN 1 ELSE 0)
               /\ TournIsDown(p)' = TournIsDown(p) - (IF m = <<w, p, 1>> THEN 1 ELSE 0)
    <3>1. w = v
        BY <2>4, <2>8, MatchUnique
    <3>2. m = <<p, w, 1>> /\ m # <<w, p, 1>>
        BY <2>3, <2>4, <3>1
    <3> QED BY <2>1, <2>6, <3>2 DEF TournLosing, TournIsDown, Bit
  <2>9. Counted(p, m, 1)
      BY <2>7, <2>8 DEF Counted
  <2>10. TournWire'
      BY <2>3, <2>4, <2>5, <2>6, <2>9, TournMessage
  <2> QED BY <2>5, <2>6, <2>10, MpiInvFrom
<1>2. CASE TournDown(p)
  <2>1. /\ pc[p] = "down" /\ UNCHANGED pc /\ round' = [round EXCEPT ![p] = i - 1]
        /\ UNCHANGED <<launch, episode>> /\ i \in 1 .. R /\ p % pow2[i] = 0
      BY <1>2 DEF TournDown, Place
  <2>2. Goto(p, "down")
      BY <2>1 DEF Goto, RegionType
  <2>3. StepOf(p) /\ pc'[p] = "down" /\ round'[p] = i - 1 /\ episode'[p] = episode[p] /\ Place(p)'
    <3>1. i - 1 \in Nat /\ i - 1 <= R /\ p % pow2[i - 1] = 0
        BY <2>1, LowerPowersDivide
    <3> QED BY <2>1, <2>2, <3>1, TournGoto DEF InTourn
  <2>4. PICK u : u = Loser(p, i)
      OBVIOUS
  <2>5. u \in Nat /\ u = p + pow2[i - 1]
    <3>1. pow2[i - 1] \in Nat
        BY <2>1, PowerExceeds
    <3> QED BY <2>4, <3>1 DEF Loser
  <2>6. CASE u >= launch.procs
    <3>1. UNCHANGED wire
        BY <1>2, <2>4, <2>5, <2>6, LaunchFacts DEF TournDown
    <3>2. ASSUME NEW q, NEW r, Match(p, q, r)
          PROVE  TournPassed(p, r)' = TournPassed(p, r) /\ TournWoke(p, r)' = TournWoke(p, r)
      <4>1. r \in Nat /\ q \in Procs /\ q = Loser(p, r)
          BY <3>2, MatchFacts DEF Match
      <4>2. r # i
        <5>1. q \in Nat /\ q < launch.procs /\ launch.procs \in Nat
            BY <4>1, LaunchFacts
        <5>2. r = i => q = u
            BY <2>4, <4>1
        <5> QED BY <2>5, <2>6, <5>1, <5>2
      <4>3. i - 1 < r <=> i < r
          BY <4>1, <4>2
      <4> QED BY <2>1, <2>3, <4>1, <4>3 DEF TournPassed, TournWoke, Bit
    <3>3. TournLosing(p)' = TournLosing(p) /\ TournIsDown(p)' = TournIsDown(p)
        BY <2>1, <2>3 DEF TournLosing, TournIsDown, Bit
    <3>4. TournWire'
        BY <2>3, <3>1, <3>2, <3>3, TournSilent
    <3> QED BY <2>3, <3>1, <3>4, MpiInvFrom
  <2>7. CASE u < launch.procs
    <3>1. PICK m : m = <<p, u, 1>>
        OBVIOUS
    <3>2. /\ Match(p, u, i) /\ u \in Procs /\ p < u /\ m \in Procs \X Procs \X Tags
      <4>1. u \in Procs
          BY <2>5, <2>7, LaunchFacts
      <4>2. Match(p, u, i)
          BY <2>1, <2>4, <4>1 DEF Match, Winner
      <4>3. p < u /\ 1 \in Tags
          BY <4>2, MatchFacts
      <4> QED BY <3>1, <4>1, <4>2, <4>3
    <3>3. OneMessage(m, 1) /\ wire' \in [Procs \X Procs \X Tags -> Nat]
      <4>1. wire' = [wire EXCEPT ![<<p, u, 1>>] = @ + 1]
          BY <1>2, <2>4, <2>7 DEF TournDown, MPI_Send
      <4>2. OneMessage(m, 1)
          BY <3>1, <3>2, <4>1, SendsOne
      <4> QED BY <4>2 DEF OneMessage
    <3>4. ASSUME NEW q, NEW r, Match(p, q, r)
          PROVE  /\ TournPassed(p, r)' = TournPassed(p, r) - (IF m = <<q, p, 1>> THEN 1 ELSE 0)
                 /\ TournWoke(p, r)' = TournWoke(p, r) + (IF m = <<p, q, 1>> THEN 1 ELSE 0)
      <4>1. r \in Nat /\ (q = u <=> r = i)
          BY <3>2, <3>4, MatchFacts, MatchUnique
      <4>2. m # <<q, p, 1>> /\ (m = <<p, q, 1>> <=> q = u)
          BY <2>5, <3>1, <3>2
      <4>3. i - 1 < r <=> i < r \/ r = i
          BY <4>1
      <4> QED BY <2>1, <2>3, <4>1, <4>2, <4>3 DEF TournPassed, TournWoke, Bit
    <3>5. ASSUME NEW w, NEW r, Match(w, p, r)
          PROVE  /\ TournLosing(p)' = TournLosing(p) + (IF m = <<p, w, 1>> THEN 1 ELSE 0)
                 /\ TournIsDown(p)' = TournIsDown(p) - (IF m = <<w, p, 1>> THEN 1 ELSE 0)
      <4>1. w # u
          BY <3>2, <3>5, MatchUnique
      <4>2. m # <<p, w, 1>> /\ m # <<w, p, 1>>
          BY <2>5, <3>1, <3>2, <4>1
      <4> QED BY <2>1, <2>3, <4>2 DEF TournLosing, TournIsDown, Bit
    <3>6. Counted(p, m, 1)
        BY <3>4, <3>5 DEF Counted
    <3>7. TournWire'
        BY <2>3, <3>1, <3>2, <3>3, <3>6, TournMessage
    <3> QED BY <2>3, <3>3, <3>7, MpiInvFrom
  <2> QED BY <2>5, <2>6, <2>7, LaunchFacts
<1> QED BY <1>1, <1>2


-----------------------------------------------------------------------------
(* Who has come when a process is through *)

\* How far q is behind p on the ring.
Behind(q, p) == IF q <= p THEN p - q ELSE launch.procs + p - q
DissAt(p, k) == episode[p] + Bit(InDiss(p) /\ round[p] >= k)

\* A process in round k has heard, through others, of the pow2[k] processes
\* that end with it.
LEMMA Heard ==
    ASSUME RegionType, MpiInv, HasDissemination, NEW p \in Procs, NEW k \in Nat, k < R
    PROVE  DissAt(p, k + 1) <= DissAt(Src(p, k), k)
<1>1. launch \in Launches /\ DissWire /\ wire \in [Procs \X Procs \X Tags -> Nat]
    BY DEF RegionType, MpiInv
<1>2. PICK s \in Procs : s = Src(p, k) /\ Dest(s, k) = p
    BY <1>1, RingFacts, RingInverse
<1>3. k \in Tags /\ R \in Nat
    BY <1>1, LaunchFacts
<1>4. wire[<<s, p, k>>] = DissSent(s, k) - DissReceived(p, k)
    BY <1>1, <1>2, <1>3 DEF DissWire
<1>5. wire[<<s, p, k>>] \in Nat
    BY <1>1, <1>3
<1>6. DissSent(s, k) \in Nat /\ DissReceived(p, k) \in Nat
    BY CountTypes
<1>7. DissReceived(p, k) <= DissSent(s, k)
    BY <1>4, <1>5, <1>6
<1>8. round[p] \in Nat /\ round[s] \in Nat /\ episode[p] \in Nat /\ episode[s] \in Nat
    BY DEF RegionType, MpiInv
<1>9. DissAt(p, k + 1) = DissReceived(p, k)
  <2>1. round[p] >= k + 1 <=> round[p] > k
      BY <1>8
  <2> QED BY <2>1 DEF DissAt, DissReceived, Bit
<1>10. DissSent(s, k) <= DissAt(s, k)
    BY <1>8 DEF DissAt, DissSent, Bit
<1>11. DissAt(s, k) \in Nat
    BY <1>8 DEF DissAt, Bit
<1> QED BY <1>2, <1>6, <1>7, <1>9, <1>10, <1>11

LEMMA DissSpreads ==
    ASSUME RegionType, MpiInv, HasDissemination
    PROVE  \A k \in Nat : k <= R => \A p, q \in Procs :
               Behind(q, p) < pow2[k] => DissAt(p, k) <= DissCalled(q)
<1>0. launch \in Launches /\ launch.procs \in Nat /\ Procs = 0 .. launch.procs - 1 /\ R \in Nat
    BY LaunchFacts DEF RegionType
<1>t. \A a \in Procs, k \in Nat : /\ DissAt(a, k) \in Nat /\ DissCalled(a) \in Nat
                                  /\ DissAt(a, k + 1) <= DissAt(a, k) /\ DissAt(a, k) <= DissCalled(a)
  <2>1. \A a \in Procs : round[a] \in Nat /\ episode[a] \in Nat
      BY DEF RegionType, MpiInv
  <2> QED BY <2>1 DEF DissAt, DissCalled, Bit
<1> DEFINE K == {k \in Nat : k <= R => \A p, q \in Procs :
                                 Behind(q, p) < pow2[k] => DissAt(p, k) <= DissCalled(q)}
<1>1. 0 \in K
  <2>1. ASSUME NEW p \in Procs, NEW q \in Procs, Behind(q, p) < pow2[0]
        PROVE  DissAt(p, 0) <= DissCalled(q)
    <3>1. pow2[0] = 1
        BY PowerRecursion
    <3>2. q = p
        BY <1>0, <2>1, <3>1 DEF Behind
    <3> QED BY <1>t, <3>2
  <2> QED BY <2>1
<1>2. ASSUME NEW k \in Nat, k \in K PROVE k + 1 \in K
  <2>1. ASSUME k + 1 <= R, NEW p \in Procs, NEW q \in Procs, Behind(q, p) < pow2[k + 1]
        PROVE  DissAt(p, k + 1) <= DissCalled(q)
    <3>1. pow2[k + 1] = 2 * pow2[k] /\ k < R /\ k <= R
        BY <1>0, <2>1, PowerRecursion
    <3>2. PICK d \in Nat : d = pow2[k]
        BY PowerExceeds
    <3>3. PICK s \in Procs : s = Src(p, k) /\ s = IF p >= d THEN p - d ELSE launch.procs + p - d
      <4>1. /\ Src(p, k) = IF p >= pow2[k] THEN p - pow2[k] ELSE launch.procs + p - pow2[k]
            /\ Src(p, k) \in Procs
          BY <1>0, <3>1, RingFacts
      <4> QED BY <3>2, <4>1
    <3>4. CASE Behind(q, p) < d
      <4>1. DissAt(p, k) <= DissCalled(q)
          BY <1>2, <3>1, <3>2, <3>4
      <4> QED BY <1>t, <4>1
    <3>5. CASE ~(Behind(q, p) < d)
      <4>1. Behind(q, s) < d
        <5>1. PICK n \in Nat : n = launch.procs /\ p \in 0 .. n - 1 /\ q \in 0 .. n - 1 /\ s \in 0 .. n - 1
            BY <1>0
        <5>2. /\ ~((IF q <= p THEN p - q ELSE n + p - q) < d)
              /\ (IF q <= p THEN p - q ELSE n + p - q) < 2 * d
              /\ s = IF p >= d THEN p - d ELSE n + p - d
            BY <2>1, <3>1, <3>2, <3>3, <3>5, <5>1 DEF Behind
        <5>3. (IF q <= s THEN s - q ELSE n + s - q) < d
          <6>1. CASE p >= d
              BY <5>1, <5>2, <6>1
          <6>2. CASE ~(p >= d)
              BY <5>1, <5>2, <6>2
          <6> QED BY <6>1, <6>2
        <5> QED BY <5>1, <5>3 DEF Behind
      <4>2. DissAt(s, k) <= DissCalled(q)
          BY <1>2, <3>1, <3>2, <4>1
      <4>3. DissAt(p, k + 1) <= DissAt(s, k)
          BY <3>1, <3>3, Heard
      <4> QED BY <1>t, <4>2, <4>3
    <3> QED BY <3>4, <3>5
  <2> QED BY <2>1
<1> HIDE DEF K
<1>3. Nat \subseteq K
    BY <1>1, <1>2, EveryNumber
<1> QED BY <1>3 DEF K

\* A process that has received in every round has heard of all.
LEMMA DissMeets ==
    ASSUME RegionType, MpiInv, HasDissemination, NEW p \in Procs, NEW q \in Procs
    PROVE  DissAt(p, R) <= DissCalled(q) /\ episode[p] <= DissCalled(q)
<1>1. /\ launch.procs \in Nat /\ Procs = 0 .. launch.procs - 1 /\ R \in Nat /\ pow2[R] >= launch.procs
    BY LaunchFacts DEF RegionType
<1>2. Behind(q, p) < pow2[R]
  <2>1. pow2[R] \in Nat
      BY <1>1, PowerExceeds
  <2> QED BY <1>1, <2>1 DEF Behind
<1>3. DissAt(p, R) <= DissCalled(q)
    BY <1>1, <1>2, DissSpreads
<1>4. episode[p] <= DissAt(p, R) /\ episode[p] \in Nat /\ DissAt(p, R) \in Nat /\ DissCalled(q) \in Nat
    BY CountTypes DEF DissAt, Bit, RegionType
<1> QED BY <1>3, <1>4

\* In a tournament, the winner of round r knows of the pow2[r] processes that
\* begin with it.
LEMMA TournGathers ==
    ASSUME RegionType, MpiInv, launch.program = "tourn"
    PROVE  \A r \in Nat : r <= R => \A p, q \in Procs :
               p % pow2[r] = 0 /\ p <= q /\ q < p + pow2[r] => TournPassed(p, r) <= TournCalled(q)
<1>0. /\ launch \in Launches /\ launch.procs \in Nat /\ Procs = 0 .. launch.procs - 1 /\ R \in Nat
      /\ TournWire /\ wire \in [Procs \X Procs \X Tags -> Nat]
    BY LaunchFacts DEF RegionType, MpiInv
<1>t. \A a \in Procs, r \in Nat : /\ TournPassed(a, r) \in Nat /\ TournCalled(a) \in Nat
                                  /\ TournPassed(a, r + 1) <= TournPassed(a, r)
                                  /\ TournPassed(a, r) <= TournCalled(a)
                                  /\ TournLosing(a) <= TournPassed(a, r) /\ TournLosing(a) \in Nat
  <2>1. \A a \in Procs : round[a] \in Nat /\ episode[a] \in Nat
      BY DEF RegionType, MpiInv
  <2> QED BY <2>1 DEF TournPassed, TournCalled, TournLosing, InTourn, Bit
<1> DEFINE K == {r \in Nat : r <= R => \A p, q \in Procs :
               p % pow2[r] = 0 /\ p <= q /\ q < p + pow2[r] => TournPassed(p, r) <= TournCalled(q)}
<1>1. 0 \in K
  <2>1. ASSUME NEW p \in Procs, NEW q \in Procs, p <= q, q < p + pow2[0]
        PROVE  TournPassed(p, 0) <= TournCalled(q)
    <3>1. pow2[0] = 1
        BY PowerRecursion
    <3>2. q = p
        BY <1>0, <2>1, <3>1
    <3> QED BY <1>t, <3>2
  <2> QED BY <2>1
<1>2. ASSUME NEW r \in Nat, r \in K PROVE r + 1 \in K
  <2>1. ASSUME r + 1 <= R, NEW p \in Procs, NEW q \in Procs, p % pow2[r + 1] = 0,
               p <= q, q < p + pow2[r + 1]
        PROVE  TournPassed(p, r + 1) <= TournCalled(q)
    <3>1. PICK d \in Nat : d = pow2[r] /\ d # 0 /\ pow2[r + 1] = 2 * d
        BY PowerRecursion, PowerExceeds
    <3>2. p \in Nat /\ p % (2 * d) = 0 /\ q \in Nat /\ q < launch.procs
        BY <1>0, <2>1, <3>1
    <3>3. p % d = 0 /\ (p + d) % d = 0
      <4>1. p % (2 * d) = 0 => p % d = 0 /\ (p + d) % d = 0
          BY <3>1, <3>2, HalfMultiples
      <4> QED BY <3>2, <4>1
    <3>4. CASE q < p + d
      <4>1. TournPassed(p, r) <= TournCalled(q)
        <5>1. r <= R
            BY <1>0, <2>1
        <5>2. p % pow2[r] = 0 /\ p <= q /\ q < p + pow2[r]
            BY <2>1, <3>1, <3>3, <3>4
        <5> QED BY <1>2, <5>1, <5>2
      <4> QED BY <1>t, <4>1
    <3>5. CASE ~(q < p + d)
      <4>1. PICK u \in Procs : u = p + d /\ u <= q /\ q < u + d /\ u % d = 0
        <5>1. p + d \in Nat /\ p + d <= q /\ q < (p + d) + d
            BY <2>1, <3>1, <3>2, <3>5
        <5>2. p + d \in Procs
            BY <1>0, <3>2, <5>1
        <5> QED BY <3>3, <5>1, <5>2
      <4>2. Match(p, u, r + 1)
        <5>1. (r + 1) - 1 = r /\ r + 1 \in 1 .. R
            BY <1>0, <2>1
        <5> QED BY <2>1, <3>1, <4>1, <5>1 DEF Match, Winner, Loser
      <4>3. TournPassed(p, r + 1) <= TournLosing(u)
        <5>1. wire[<<u, p, 1>>] = TournLosing(u) - TournPassed(p, r + 1)
            BY <1>0, <4>2 DEF TournWire
        <5>2. wire[<<u, p, 1>>] \in Nat
          <6>1. 1 \in Tags
              BY <1>0, <4>2, MatchFacts
          <6> QED BY <1>0, <6>1
        <5>3. TournLosing(u) \in Nat /\ TournPassed(p, r + 1) \in Nat
            BY CountTypes
        <5> QED BY <5>1, <5>2, <5>3
      <4>4. TournPassed(u, r) <= TournCalled(q)
        <5>1. r <= R
            BY <1>0, <2>1
        <5>2. u % pow2[r] = 0 /\ u <= q /\ q < u + pow2[r]
            BY <3>1, <4>1
        <5> QED BY <1>2, <5>1, <5>2
      <4>5. TournLosing(u) <= TournPassed(u, r) /\ TournLosing(u) \in Nat /\ TournPassed(u, r) \in Nat
          BY <1>t
      <4>6. TournPassed(p, r + 1) \in Nat /\ TournCalled(q) \in Nat
          BY <1>t
      <4> QED BY <4>3, <4>4, <4>5, <4>6
    <3> QED BY <3>4, <3>5
  <2> QED BY <2>1
<1> HIDE DEF K
<1>3. Nat \subseteq K
    BY <1>1, <1>2, EveryNumber
<1> QED BY <1>3 DEF K

\* Whoever is on the way down was woken by its winner, and so on up to process 0.
LEMMA TournWakes ==
    ASSUME RegionType, MpiInv, launch.program = "tourn", NEW p \in Procs
    PROVE  TournIsDown(p) <= TournIsDown(0)
<1>0. /\ launch \in Launches /\ launch.procs \in Nat /\ Procs = 0 .. launch.procs - 1 /\ R \in Nat
      /\ TournWire /\ wire \in [Procs \X Procs \X Tags -> Nat] /\ pow2[R] >= launch.procs
      /\ 0 \in Procs
    BY LaunchFacts DEF RegionType, MpiInv
<1>t. \A a \in Procs : TournIsDown(a) \in Nat
    BY CountTypes
<1> DEFINE L == {a \in Procs : ~(TournIsDown(a) <= TournIsDown(0))}
<1> SUFFICES ASSUME L # {} PROVE FALSE
    OBVIOUS
<1>1. L \in SUBSET Nat
    BY <1>0
<1>2. PICK x \in L : \A y \in L : x <= y
    BY <1>1, LeastNumber
<1>3. x \in Procs /\ x \in Nat /\ x # 0 /\ x < launch.procs
    BY <1>0, <1>t
<1>4. PICK r \in 1 .. R : x % pow2[r - 1] = 0 /\ x % pow2[r] # 0
  <2> DEFINE U == {r \in 0 .. R : x % pow2[r] # 0}
  <2>1. x % pow2[R] # 0
    <3>1. pow2[R] \in Nat /\ x < pow2[R]
        BY <1>0, <1>3, PowerExceeds
    <3>2. \A d \in Nat : x < d => x % d = x
        BY <1>3
    <3> QED BY <1>3, <3>1, <3>2
  <2>2. U \in SUBSET Nat /\ R \in U
      BY <1>0, <2>1
  <2>3. PICK r \in U : \A s \in U : r <= s
      BY <2>2, LeastNumber
  <2>4. r # 0
    <3>1. pow2[0] = 1 /\ x % 1 = 0
        BY <1>3, PowerRecursion
    <3> QED BY <2>3, <3>1
  <2>5. r \in 1 .. R /\ r - 1 \in 0 .. R /\ ~(r <= r - 1)
      BY <1>0, <2>3, <2>4
  <2>6. x % pow2[r - 1] = 0
      BY <2>3, <2>5
  <2> QED BY <2>3, <2>5, <2>6
<1>5. PICK w : w = x - pow2[r - 1]
    OBVIOUS
<1>6. Match(w, x, r)
  <2>1. ~Winner(x, r) /\ r \in Nat /\ 1 <= r /\ r <= R
      BY <1>0, <1>4 DEF Winner
  <2> QED BY <1>0, <1>3, <1>4, <1>5, <2>1, LoserHasMatch
<1>7. w \in Procs /\ w < x /\ w \in Nat /\ 1 \in Tags
    BY <1>0, <1>6, MatchFacts
<1>8. TournIsDown(x) <= TournWoke(w, r)
  <2>1. wire[<<w, x, 1>>] = TournWoke(w, r) - TournIsDown(x)
      BY <1>0, <1>6 DEF TournWire
  <2>2. wire[<<w, x, 1>>] \in Nat
      BY <1>0, <1>3, <1>7
  <2>3. TournIsDown(x) \in Nat /\ TournWoke(w, r) \in Nat
      BY <1>3, <1>7, CountTypes
  <2> QED BY <2>1, <2>2, <2>3
<1>9. TournWoke(w, r) <= TournIsDown(w) /\ TournWoke(w, r) \in Nat
    BY <1>7, CountTypes DEF TournWoke, TournIsDown, Bit, RegionType
<1>10. TournIsDown(w) <= TournIsDown(0)
  <2>1. w \notin L
      BY <1>2, <1>3, <1>7
  <2> QED BY <1>7, <2>1
<1>11. TournIsDown(x) <= TournIsDown(0)
    BY <1>t, <1>0, <1>3, <1>7, <1>8, <1>9, <1>10
<1> QED BY <1>11

LEMMA TournMeets ==
    ASSUME RegionType, MpiInv, launch.program = "tourn", NEW p \in Procs, NEW q \in Procs
    PROVE  TournIsDown(p) <= TournCalled(q) /\ episode[p] <= TournCalled(q)
<1>1. /\ launch.procs \in Nat /\ Procs = 0 .. launch.procs - 1 /\ R \in Nat /\ pow2[R] >= launch.procs
      /\ 0 \in Procs
    BY LaunchFacts DEF RegionType
<1>2. pow2[R] \in Nat /\ pow2[R] # 0 /\ 0 % pow2[R] = 0 /\ q < pow2[R] /\ 0 <= q
  <2>1. pow2[R] \in Nat /\ pow2[R] # 0
      BY <1>1, PowerExceeds
  <2>2. \A d \in Nat : d # 0 => 0 % d = 0
      OBVIOUS
  <2> QED BY <1>1, <2>1, <2>2
<1>3. TournPassed(0, R) <= TournCalled(q)
    BY <1>1, <1>2, TournGathers
<1>4. TournIsDown(0) <= TournPassed(0, R) /\ TournIsDown(0) \in Nat /\ TournPassed(0, R) \in Nat
  <2>1. episode[0] \in Nat /\ TournIsDown(0) \in Nat /\ TournPassed(0, R) \in Nat
      BY <1>1, CountTypes
  <2> QED BY <2>1 DEF TournIsDown, TournPassed, Bit
<1>5. TournIsDown(p) <= TournIsDown(0)
    BY TournWakes
<1>6. episode[p] <= TournIsDown(p) /\ episode[p] \in Nat /\ TournIsDown(p) \in Nat /\ TournCalled(q) \in Nat
    BY CountTypes DEF TournIsDown, Bit, RegionType
<1> QED BY <1>3, <1>4, <1>5, <1>6


-----------------------------------------------------------------------------
(* The invariants of the messages *)

\* The value that a round keeps between episodes is bounded too.
RoundBound == \A p \in Procs : round[p] <= R + 1

LEMMA RoundBoundStep ==
    ASSUME RegionType, MpiInv, RoundBound, NEW p \in Procs, Process(p)
    PROVE  RoundBound'
<1>0. /\ launch \in Launches /\ R \in Nat /\ round[p] \in Nat /\ Place(p) /\ round \in [Procs -> Nat]
    BY Whose DEF MpiInv
<1>1. /\ launch' = launch /\ Procs' = Procs /\ R' = R
  <2>1. launch' = launch
      BY DEF Process, DissBegin, DissPost, DissSend, DissWait, TournBegin, TournTop, TournUp,
         TournWon, TournLost, TournWoken, TournDown, TournEnd, RegionBegin, RegionEnd
  <2> QED BY <2>1, SameLaunch
<1>2. SUFFICES \/ UNCHANGED round
               \/ \E i \in 0 .. R + 1 : round' = [round EXCEPT ![p] = i]
    BY <1>0, <1>1 DEF RoundBound
<1>3. CASE DissBegin(p) \/ RegionEnd(p)
  <2>1. UNCHANGED round \/ round' = [round EXCEPT ![p] = 0]
      BY <1>3 DEF DissBegin, RegionEnd, StartDissemination
  <2> QED BY <1>0, <2>1
<1>4. CASE DissPost(p) \/ DissSend(p) \/ TournEnd(p) \/ RegionBegin(p) \/ TournLost(p)
    BY <1>4 DEF DissPost, DissSend, TournEnd, RegionBegin, TournLost, mpiVars
<1>5. CASE DissWait(p)
  <2>1. round' = [round EXCEPT ![p] = round[p] + 1] /\ round[p] < R
      BY <1>0, <1>5 DEF DissWait, Place
  <2>2. round[p] + 1 \in 0 .. R + 1
      BY <1>0, <2>1
  <2> QED BY <2>1, <2>2
<1>6. CASE TournBegin(p)
  <2>1. round' = [round EXCEPT ![p] = 1] /\ 1 \in 0 .. R + 1
      BY <1>0, <1>6 DEF TournBegin
  <2> QED BY <2>1
<1>7. CASE TournTop(p) \/ TournWoken(p) \/ TournDown(p)
  <2>1. round' = [round EXCEPT ![p] = round[p] - 1] /\ round[p] > 0
      BY <1>0, <1>7 DEF TournTop, TournWoken, TournDown, R, Place
  <2>2. round[p] - 1 \in 0 .. R + 1
      BY <1>0, <2>1 DEF RoundBound
  <2> QED BY <2>1, <2>2
<1>8. CASE TournUp(p) \/ TournWon(p)
  <2>1. UNCHANGED round \/ round' = [round EXCEPT ![p] = round[p] + 1]
      BY <1>8 DEF TournUp, TournWon
  <2>2. round[p] <= R
      BY <1>0, <1>8 DEF TournUp, TournWon, R, Place, Match
  <2>3. round[p] + 1 \in 0 .. R + 1
      BY <1>0, <2>2
  <2> QED BY <2>1, <2>3
<1> QED BY <1>3, <1>4, <1>5, <1>6, <1>7, <1>8 DEF Process

LEMMA MpiInit ==
    ASSUME Init
    PROVE  MpiInv /\ RoundBound
<1>1. RegionType
    BY InitInv DEF Inv
<1>2. /\ launch \in Launches /\ R \in Nat /\ Tags = 0 .. R /\ Episodes \in Nat \ {0} /\ "begin" \in Labels
      /\ 1 \in Nat
    BY <1>1, LaunchFacts, LabelFacts, BarriersAssumption DEF RegionType
<1>3. /\ wire \in [Procs \X Procs \X Tags -> Nat] /\ round \in [Procs -> Nat]
      /\ \A m \in Procs \X Procs \X Tags : wire[m] = 0
    BY DEF Init
<1>4. \A p \in Procs : pc[p] = "begin" /\ episode[p] = 0 /\ round[p] = 0
    BY DEF Init
<1>5. \A p \in Procs : Place(p)
    BY <1>2, <1>4 DEF Place
<1>6. DissWire
  <2>1. \A p \in Procs : \A k : DissSent(p, k) = 0 /\ DissReceived(p, k) = 0
      BY <1>4 DEF DissSent, DissReceived, InDiss, Bit
  <2>2. ASSUME NEW p \in Procs, NEW q \in Procs, NEW k \in Tags PROVE wire[<<p, q, k>>] = 0
      BY <1>3
  <2>3. \A p, q \in Procs : \A k : DissSent(p, k) - DissReceived(q, k) = 0
      BY <2>1
  <2> QED BY <2>2, <2>3 DEF DissWire
<1>7. TournWire
  <2>1. \A p \in Procs : /\ TournLosing(p) = 0 /\ TournIsDown(p) = 0
                         /\ \A r : TournPassed(p, r) = 0 /\ TournWoke(p, r) = 0
      BY <1>4 DEF TournLosing, TournIsDown, TournPassed, TournWoke, Bit
  <2>2. ASSUME NEW p \in Procs, NEW q \in Procs, NEW k \in Tags PROVE wire[<<p, q, k>>] = 0
      BY <1>3
  <2>3. ASSUME NEW w, NEW q, NEW r, Match(w, q, r)
        PROVE  /\ wire[<<q, w, 1>>] = TournLosing(q) - TournPassed(w, r)
               /\ wire[<<w, q, 1>>] = TournWoke(w, r) - TournIsDown(q)
    <3>1. w \in Procs /\ q \in Procs /\ 1 \in Tags
        BY <1>2, <2>3, MatchFacts
    <3> QED BY <2>1, <2>2, <3>1
  <2> QED BY <2>2, <2>3 DEF TournWire
<1>8. RoundBound
    BY <1>2, <1>4 DEF RoundBound
<1> QED BY <1>3, <1>5, <1>6, <1>7, <1>8 DEF MpiInv

\* Steps of threads do not concern the messages.
LEMMA MpiStays ==
    ASSUME MpiInv, RoundBound, UNCHANGED <<launch, episode, pc, round, wire>>
    PROVE  MpiInv' /\ RoundBound'
<1>1. /\ Procs' = Procs /\ R' = R /\ Tags' = Tags /\ (HasDissemination' <=> HasDissemination)
      /\ Labels' = Labels /\ \A p, k : Dest(p, k)' = Dest(p, k)
      /\ \A w, q, r : Match(w, q, r)' <=> Match(w, q, r)
      /\ \A p, r : (Winner(p, r)' <=> Winner(p, r)) /\ Loser(p, r)' = Loser(p, r)
    BY SameLaunch
<1>2. \A p : Place(p)' <=> Place(p)
    BY <1>1 DEF Place
<1>3. DissWire' <=> DissWire
  <2>1. \A p, k : DissSent(p, k)' = DissSent(p, k) /\ DissReceived(p, k)' = DissReceived(p, k)
      BY DEF DissSent, DissReceived, InDiss, Bit
  <2> QED BY <1>1, <2>1 DEF DissWire
<1>4. TournWire' <=> TournWire
  <2>1. /\ \A p : TournLosing(p)' = TournLosing(p) /\ TournIsDown(p)' = TournIsDown(p)
        /\ \A p, r : TournPassed(p, r)' = TournPassed(p, r) /\ TournWoke(p, r)' = TournWoke(p, r)
      BY DEF TournLosing, TournIsDown, TournPassed, TournWoke, Bit
  <2> QED BY <1>1, <2>1 DEF TournWire
<1>5. wire' = wire /\ round' = round /\ launch' = launch
    OBVIOUS
<1> QED BY <1>1, <1>2, <1>3, <1>4, <1>5 DEF MpiInv, RoundBound

\* In every reachable state, each process is at a place of its program and what
\* is on the wire is what has been sent and not received.
THEOREM MessagesAccounted == Spec => [](Inv /\ MpiInv /\ RoundBound)
<1>1. ASSUME Inv, MpiInv, RoundBound, Next PROVE MpiInv' /\ RoundBound'
  <2>0. RegionType
      BY <1>1 DEF Inv
  <2>1. ASSUME NEW p \in Procs, Process(p) PROVE MpiInv' /\ RoundBound'
    <3>1. RoundBound'
        BY <1>1, <2>0, <2>1, RoundBoundStep
    <3>2. CASE DissBegin(p) \/ DissPost(p) \/ DissSend(p) \/ DissWait(p)
        BY <1>1, <2>0, <3>1, <3>2, DissInv
    <3>3. CASE TournBegin(p) \/ TournTop(p) \/ TournUp(p) \/ TournEnd(p)
        BY <1>1, <2>0, <3>1, <3>3, TournSilentSteps
    <3>4. CASE TournWon(p) \/ TournWoken(p)
        BY <1>1, <2>0, <3>1, <3>4, TournReceives
    <3>5. CASE TournLost(p) \/ TournDown(p)
        BY <1>1, <2>0, <3>1, <3>5, TournSends
    <3>6. CASE RegionBegin(p) \/ RegionEnd(p)
        BY <1>1, <2>0, <3>1, <3>6, RegionMpiInv
    <3> QED BY <2>1, <3>2, <3>3, <3>4, <3>5, <3>6 DEF Process
  <2>2. ASSUME NEW p \in Procs, NEW t \in Threads, Thread(p, t) PROVE MpiInv' /\ RoundBound'
    <3>1. UNCHANGED <<launch, episode, pc, round, wire>>
        BY <2>2 DEF Thread, Decrement, Test, Reset, Flip, Spin, mpiVars
    <3> QED BY <1>1, <3>1, MpiStays
  <2> QED BY <1>1, <2>1, <2>2 DEF Next
<1>2. ASSUME MpiInv, RoundBound, UNCHANGED vars PROVE MpiInv' /\ RoundBound'
    BY <1>2, MpiStays DEF vars
<1> QED BY MpiInit, <1>1, <1>2, Reachable, PTL DEF Spec

-----------------------------------------------------------------------------
(* What follows for every number of processes *)

\* Nothing is left on the wire when all processes are done: every message that is
\* sent is received, by all programs and for any number of processes.
THEOREM AllIsReceived == Spec => []NothingLeftOver
<1>1. ASSUME Inv, MpiInv PROVE NothingLeftOver
  <2>0. /\ RegionType /\ launch \in Launches /\ wire \in [Procs \X Procs \X Tags -> Nat]
        /\ Episodes \in Nat
      BY <1>1, BarriersAssumption DEF Inv, RegionType, MpiInv
  <2>1. SUFFICES ASSUME AllDone, NEW a \in Procs, NEW b \in Procs, NEW k \in Tags
                 PROVE  wire[<<a, b, k>>] = 0
    <3>1. DOMAIN wire = Procs \X Procs \X Tags
        BY <2>0
    <3> QED BY <3>1 DEF NothingLeftOver
  <2>2. \A p \in Procs : pc[p] = "done" /\ episode[p] = Episodes
    <3>1. \A p \in Procs : pc[p] = "done" /\ Place(p)
        BY <1>1, <2>1 DEF AllDone, MpiInv
    <3> QED BY <3>1 DEF Place
  <2>3. CASE HasDissemination
    <3>1. \A p \in Procs : \A i : DissSent(p, i) = Episodes /\ DissReceived(p, i) = Episodes
        BY <2>0, <2>2 DEF DissSent, DissReceived, InDiss, Bit
    <3> QED BY <1>1, <2>0, <2>1, <2>3, <3>1 DEF MpiInv, DissWire
  <2>4. CASE launch.program = "tourn"
    <3>1. /\ \A p \in Procs : TournLosing(p) = Episodes /\ TournIsDown(p) = Episodes
          /\ \A p \in Procs : \A r : TournPassed(p, r) = Episodes /\ TournWoke(p, r) = Episodes
        BY <2>0, <2>2 DEF TournLosing, TournIsDown, TournPassed, TournWoke, Bit
    <3>2. TournWire
        BY <1>1, <2>4 DEF MpiInv
    <3>3. CASE k # 1 \/ (\A r : ~Match(a, b, r) /\ ~Match(b, a, r))
        BY <2>1, <3>2, <3>3 DEF TournWire
    <3>4. CASE k = 1 /\ \E r : Match(a, b, r)
      <4>1. PICK r : Match(a, b, r)
          BY <3>4
      <4>2. wire[<<a, b, 1>>] = TournWoke(a, r) - TournIsDown(b)
          BY <3>2, <4>1 DEF TournWire
      <4> QED BY <2>0, <2>1, <3>1, <3>4, <4>2
    <3>5. CASE k = 1 /\ \E r : Match(b, a, r)
      <4>1. PICK r : Match(b, a, r)
          BY <3>5
      <4>2. wire[<<a, b, 1>>] = TournLosing(a) - TournPassed(b, r)
          BY <3>2, <4>1 DEF TournWire
      <4> QED BY <2>0, <2>1, <3>1, <3>5, <4>2
    <3> QED BY <3>3, <3>4, <3>5
  <2>5. CASE launch.program = "sense"
      BY <1>1, <2>0, <2>1, <2>5 DEF MpiInv
  <2> QED BY <2>0, <2>3, <2>4, <2>5, LaunchFacts DEF HasDissemination
<1> QED BY <1>1, MessagesAccounted, PTL


\* The wire never holds more than two messages of a kind: one for this episode
\* and one from a sender that is an episode ahead.
LEMMA TwoAtMost ==
    ASSUME RegionType, MpiInv, NEW a \in Procs, NEW b \in Procs, NEW k \in Tags
    PROVE  wire[<<a, b, k>>] <= 2
<1>0. /\ launch \in Launches /\ wire \in [Procs \X Procs \X Tags -> Nat]
      /\ episode[a] \in Nat /\ episode[b] \in Nat
    BY DEF RegionType, MpiInv
<1>1. CASE HasDissemination
  <2>1. episode[a] <= DissCalled(b)
      BY <1>1, DissMeets
  <2>2. DissCalled(b) <= episode[b] + 1 /\ DissCalled(b) \in Nat
      BY <1>0 DEF DissCalled, Bit
  <2>3. /\ DissSent(a, k) \in Nat /\ DissReceived(b, k) \in Nat
        /\ DissSent(a, k) <= episode[a] + 1 /\ episode[b] <= DissReceived(b, k)
      BY <1>0 DEF DissSent, DissReceived, Bit
  <2>4. wire[<<a, b, k>>] = DissSent(a, k) - DissReceived(b, k) \/ wire[<<a, b, k>>] = 0
      BY <1>1 DEF MpiInv, DissWire
  <2>5. DissSent(a, k) - DissReceived(b, k) <= 2
      BY <1>0, <2>1, <2>2, <2>3
  <2> QED BY <2>4, <2>5
<1>2. CASE launch.program = "tourn"
  <2>0. TournWire
      BY <1>2 DEF MpiInv
  <2>1. episode[a] <= TournCalled(b)
      BY <1>2, TournMeets
  <2>2. TournCalled(b) <= episode[b] + 1 /\ TournCalled(b) \in Nat
      BY <1>0 DEF TournCalled, Bit
  <2>3. CASE k # 1 \/ (\A r : ~Match(a, b, r) /\ ~Match(b, a, r))
    <3>1. wire[<<a, b, k>>] = 0
        BY <2>0, <2>3 DEF TournWire
    <3> QED BY <3>1
  <2>4. CASE k = 1 /\ \E r : Match(a, b, r)
    <3>1. PICK r : Match(a, b, r)
        BY <2>4
    <3>2. wire[<<a, b, k>>] = TournWoke(a, r) - TournIsDown(b)
        BY <2>0, <2>4, <3>1 DEF TournWire
    <3>3. /\ TournWoke(a, r) \in Nat /\ TournIsDown(b) \in Nat
          /\ TournWoke(a, r) <= episode[a] + 1 /\ episode[b] <= TournIsDown(b)
        BY <1>0 DEF TournWoke, TournIsDown, Bit
    <3> QED BY <1>0, <2>1, <2>2, <3>2, <3>3
  <2>5. CASE k = 1 /\ \E r : Match(b, a, r)
    <3>1. PICK r : Match(b, a, r)
        BY <2>5
    <3>2. wire[<<a, b, k>>] = TournLosing(a) - TournPassed(b, r)
        BY <2>0, <2>5, <3>1 DEF TournWire
    <3>3. /\ TournLosing(a) \in Nat /\ TournPassed(b, r) \in Nat
          /\ TournLosing(a) <= episode[a] + 1 /\ episode[b] <= TournPassed(b, r)
        BY <1>0 DEF TournLosing, TournPassed, Bit
    <3> QED BY <1>0, <2>1, <2>2, <3>2, <3>3
  <2> QED BY <2>3, <2>4, <2>5
<1>3. CASE launch.program = "sense"
  <2>1. wire[<<a, b, k>>] = 0
      BY <1>0, <1>3 DEF MpiInv
  <2> QED BY <2>1
<1> QED BY <1>0, <1>1, <1>2, <1>3, LaunchFacts DEF HasDissemination

\* The type invariant: no message is ever more than one ahead of the one that its
\* receiver waits for, and no count of a region goes below zero.
THEOREM TypeCorrect == Spec => []TypeOK
<1>1. ASSUME Inv, MpiInv, RoundBound PROVE TypeOK
  <2>0. /\ RegionType /\ launch \in Launches /\ wire \in [Procs \X Procs \X Tags -> Nat]
        /\ Episodes \in Nat /\ R \in Nat /\ R <= launch.procs /\ launch.procs \in Nat
        /\ launch.threads \in Nat
    <3>1. RegionType /\ launch \in Launches
        BY <1>1 DEF Inv, RegionType
    <3> QED BY <1>1, <3>1, BarriersAssumption, LaunchFacts DEF MpiInv
  <2>1. wire \in [Procs \X Procs \X Tags -> 0 .. 2]
    <3>1. ASSUME NEW m \in Procs \X Procs \X Tags PROVE wire[m] \in 0 .. 2
      <4>1. PICK a \in Procs, b \in Procs, k \in Tags : m = <<a, b, k>>
          OBVIOUS
      <4>2. wire[m] <= 2
          BY <1>1, <2>0, <4>1, TwoAtMost
      <4>3. wire[m] \in Nat
          BY <2>0
      <4> QED BY <4>2, <4>3
    <3> QED BY <2>0, <3>1
  <2>2. episode \in [Procs -> 0 .. Episodes]
    <3>1. \A p \in Procs : episode[p] \in Nat /\ episode[p] <= Episodes
        BY <1>1, <2>0 DEF MpiInv, Place, RegionType
    <3>2. \A p \in Procs : episode[p] \in 0 .. Episodes
        BY <2>0, <3>1
    <3> QED BY <2>0, <3>2 DEF RegionType
  <2>3. round \in [Procs -> 0 .. launch.procs + 1]
    <3>1. round \in [Procs -> Nat] /\ \A p \in Procs : round[p] <= R + 1
        BY <1>1 DEF MpiInv, RoundBound
    <3>2. \A p \in Procs : round[p] \in 0 .. launch.procs + 1
        BY <2>0, <3>1
    <3> QED BY <3>1, <3>2
  <2>4. count \in [Procs -> 0 .. launch.threads]
    <3>1. ASSUME NEW p \in Procs PROVE count[p] \in 0 .. launch.threads
      <4>1. CountInv(p)
          BY <1>1 DEF Inv
      <4>2. Cardinality(Coming(p)) \in 0 .. launch.threads
        <5>1. Coming(p) \subseteq Threads
            BY DEF Coming
        <5>2. IsFiniteSet(Threads) /\ Cardinality(Threads) = launch.threads /\ Cardinality(Coming(p)) \in Nat
            BY <2>0, ThreadsFinite
        <5>3. Cardinality(Coming(p)) <= Cardinality(Threads)
            BY <5>1, <5>2, FS_Subset
        <5> QED BY <2>0, <5>2, <5>3
      <4> QED BY <2>0, <4>1, <4>2 DEF CountInv, Counting, Restored
    <3> QED BY <2>0, <3>1 DEF RegionType
  <2> QED BY <2>0, <2>1, <2>2, <2>3, <2>4 DEF TypeOK, RegionType
<1> QED BY <1>1, MessagesAccounted, PTL

-----------------------------------------------------------------------------
(* Every program is a barrier *)

LEMMA EnteredLeft ==
    ASSUME NEW p \in Procs, NEW t \in Threads
    PROVE  /\ entered[<<p, t>>] = episode[p] + Bit(Arrived(p, t))
           /\ left[<<p, t>>] = episode[p]
    BY DEF entered, left, Bit

LEMMA EnteredLeftAfter ==
    ASSUME UNCHANGED launch
    PROVE  /\ DOMAIN entered' = DOMAIN entered /\ DOMAIN left' = DOMAIN left
           /\ DOMAIN entered = Procs \X Threads /\ DOMAIN left = Procs \X Threads
           /\ entered' = [x \in Procs \X Threads |-> entered'[x]]
           /\ left' = [x \in Procs \X Threads |-> left'[x]]
           /\ \A p \in Procs, t \in Threads :
                  /\ entered'[<<p, t>>] = episode'[p] + Bit(Arrived(p, t)')
                  /\ left'[<<p, t>>] = episode'[p]
<1>1. Procs' = Procs /\ Threads' = Threads
    BY DEF Procs, Threads
<1> QED BY <1>1 DEF entered, left, Bit


\* A step in which nobody arrives and no episode ends.
LEMMA Quiet ==
    ASSUME UNCHANGED launch, \A q \in Procs : episode'[q] = episode[q],
           \A q \in Procs, u \in Threads : Arrived(q, u)' <=> Arrived(q, u)
    PROVE  UNCHANGED <<entered, left>>
<1>1. Procs' = Procs /\ Threads' = Threads
    BY DEF Procs, Threads
<1>2. ASSUME NEW x \in Procs \X Threads
      PROVE  /\ x[1] \in Procs /\ x[2] \in Threads
             /\ episode'[x[1]] = episode[x[1]] /\ (Arrived(x[1], x[2])' <=> Arrived(x[1], x[2]))
    OBVIOUS
<1>3. left' = left
    BY <1>1, <1>2 DEF left
<1>4. entered' = entered
  <2>1. \A x \in Procs \X Threads : episode'[x[1]] + (IF Arrived(x[1], x[2])' THEN 1 ELSE 0)
                                    = episode[x[1]] + (IF Arrived(x[1], x[2]) THEN 1 ELSE 0)
      BY <1>2
  <2>2. entered' = [x \in Procs \X Threads |->
                      episode'[x[1]] + (IF Arrived(x[1], x[2])' THEN 1 ELSE 0)]
      BY <1>1 DEF entered
  <2> QED BY <2>1, <2>2 DEF entered
<1> QED BY <1>3, <1>4

\* A participant arrives.
LEMMA Enters ==
    ASSUME RegionType, NEW p \in Procs, NEW t \in Threads,
           UNCHANGED launch, \A q \in Procs : episode'[q] = episode[q],
           ~Arrived(p, t), Arrived(p, t)',
           \A q \in Procs, u \in Threads : <<q, u>> # <<p, t>> => (Arrived(q, u)' <=> Arrived(q, u))
    PROVE  AbstractBarrier!Next
<1>1. Procs' = Procs /\ Threads' = Threads
    BY DEF Procs, Threads
<1>2. UNCHANGED left
  <2>1. \A x \in Procs \X Threads : episode'[x[1]] = episode[x[1]]
      OBVIOUS
  <2> QED BY <1>1, <2>1 DEF left
<1>3. entered[<<p, t>>] = left[<<p, t>>]
  <2>1. episode[p] + 0 = episode[p]
      BY DEF RegionType
  <2> QED BY <2>1, EnteredLeft DEF Bit
<1>4. entered' = [entered EXCEPT ![<<p, t>>] = @ + 1]
  <2>1. ASSUME NEW x \in Procs \X Threads
        PROVE  episode'[x[1]] + (IF Arrived(x[1], x[2])' THEN 1 ELSE 0)
               = IF x = <<p, t>> THEN entered[<<p, t>>] + 1 ELSE entered[x]
    <3>1. PICK q \in Procs, u \in Threads : x = <<q, u>>
        OBVIOUS
    <3>2. CASE x = <<p, t>>
      <4>1. entered[<<p, t>>] = episode[p]
          BY <1>3, EnteredLeft
      <4> QED BY <3>1, <3>2, <4>1
    <3>3. CASE x # <<p, t>>
      <4>1. (Arrived(q, u)' <=> Arrived(q, u)) /\ episode'[q] = episode[q]
          BY <3>1, <3>3
      <4>2. entered[<<q, u>>] = episode[q] + Bit(Arrived(q, u))
          BY EnteredLeft
      <4> QED BY <3>1, <3>3, <4>1, <4>2 DEF Bit
    <3> QED BY <3>2, <3>3
  <2>2. entered' = [x \in Procs \X Threads |->
                      episode'[x[1]] + (IF Arrived(x[1], x[2])' THEN 1 ELSE 0)]
      BY <1>1 DEF entered
  <2>3. [entered EXCEPT ![<<p, t>>] = @ + 1] =
            [x \in Procs \X Threads |-> IF x = <<p, t>> THEN entered[<<p, t>>] + 1 ELSE entered[x]]
      BY DEF entered
  <2> QED BY <2>1, <2>2, <2>3
<1>5. <<p, t>> \in AbstractBarrier!Participants
    BY DEF AbstractBarrier!Participants, entered
<1>6. AbstractBarrier!Enter(<<p, t>>)
    BY <1>2, <1>3, <1>4 DEF AbstractBarrier!Enter
<1> QED BY <1>5, <1>6 DEF AbstractBarrier!Next

\* A process completes its episode: all its threads leave.
LEMMA Leaves ==
    ASSUME RegionType, NEW p \in Procs, Completed(p), UNCHANGED <<launch, thread>>,
           \A t \in Threads : Arrived(p, t),
           \A q \in Procs, u \in Threads : episode[p] + 1 <= entered[<<q, u>>]
    PROVE  AbstractBarrier!Next
<1>1. Procs' = Procs /\ Threads' = Threads
    BY DEF Procs, Threads
<1>2. /\ episode \in [Procs -> Nat] /\ episode'[p] = episode[p] + 1 /\ pc'[p] \in {"begin", "done"}
      /\ \A q \in Procs : q # p => episode'[q] = episode[q] /\ pc'[q] = pc[q]
    BY DEF RegionType, Completed, Goto
<1>3. ASSUME NEW q \in Procs, NEW u \in Threads
      PROVE  episode'[q] + Bit(Arrived(q, u)') = episode[q] + Bit(Arrived(q, u))
  <2>1. CASE q = p
    <3>1. ~(Arrived(p, u)') /\ Arrived(p, u)
        BY <1>2 DEF Arrived
    <3> QED BY <1>2, <2>1, <3>1 DEF Bit
  <2>2. CASE q # p
    <3>1. Arrived(q, u)' <=> Arrived(q, u)
        BY <1>2, <2>2 DEF Arrived
    <3> QED BY <1>2, <2>2, <3>1 DEF Bit
  <2> QED BY <2>1, <2>2
<1>4. UNCHANGED entered
  <2>1. ASSUME NEW x \in Procs \X Threads
        PROVE  episode'[x[1]] + (IF Arrived(x[1], x[2])' THEN 1 ELSE 0)
               = episode[x[1]] + (IF Arrived(x[1], x[2]) THEN 1 ELSE 0)
    <3>1. PICK q \in Procs, u \in Threads : x = <<q, u>>
        OBVIOUS
    <3> QED BY <1>3, <3>1 DEF Bit
  <2>2. entered' = [x \in Procs \X Threads |->
                      episode'[x[1]] + (IF Arrived(x[1], x[2])' THEN 1 ELSE 0)]
      BY <1>1 DEF entered
  <2> QED BY <2>1, <2>2 DEF entered
<1>5. ASSUME NEW x \in Procs \X Threads
      PROVE  \/ left'[x] = left[x]
             \/ left'[x] = left[x] + 1 /\ AbstractBarrier!MayLeave(x)
  <2>1. PICK q \in Procs, u \in Threads : x = <<q, u>>
      OBVIOUS
  <2>2. left'[<<q, u>>] = episode'[q] /\ left[<<q, u>>] = episode[q]
      BY EnteredLeft, EnteredLeftAfter
  <2>3. CASE q # p
      BY <1>2, <2>1, <2>2, <2>3
  <2>4. CASE q = p
    <3>1. entered[<<p, u>>] = episode[p] + 1 /\ episode[p] \in Nat
      <4>1. entered[<<p, u>>] = episode[p] + Bit(Arrived(p, u)) /\ Arrived(p, u)
          BY EnteredLeft
      <4> QED BY <1>2, <4>1 DEF Bit
    <3>2. \A y \in Procs \X Threads : entered[y] >= entered[x]
      <4>1. ASSUME NEW y \in Procs \X Threads PROVE entered[y] >= entered[x]
        <5>1. PICK a \in Procs, b \in Threads : y = <<a, b>>
            OBVIOUS
        <5>2. entered[y] >= episode[p] + 1
          <6>1. entered[<<a, b>>] = episode[a] + Bit(Arrived(a, b))
              BY EnteredLeft
          <6> QED BY <1>2, <5>1, <6>1 DEF Bit
        <5> QED BY <2>1, <2>4, <3>1, <5>2
      <4> QED BY <4>1
    <3>3. AbstractBarrier!Participants = Procs \X Threads
        BY DEF AbstractBarrier!Participants, entered
    <3>4. AbstractBarrier!MayLeave(x)
        BY <2>1, <2>2, <2>4, <3>1, <3>2, <3>3 DEF AbstractBarrier!MayLeave
    <3> QED BY <1>2, <2>1, <2>2, <2>4, <3>4
  <2> QED BY <2>3, <2>4
<1>6. AbstractBarrier!Leave
  <2>1. AbstractBarrier!Participants = Procs \X Threads
      BY DEF AbstractBarrier!Participants, entered
  <2>2. DOMAIN left' = Procs \X Threads
      BY EnteredLeftAfter
  <2> QED BY <1>4, <1>5, <2>1, <2>2 DEF AbstractBarrier!Leave
<1> QED BY <1>6 DEF AbstractBarrier!Next


\* A step of a process within its episode.
LEMMA Within ==
    ASSUME RegionType, NEW p \in Procs, NEW label, Goto(p, label), label \notin {"begin", "done", "region"},
           pc[p] \notin {"begin", "done"}, pc[p] = "region" => \A t \in Threads : thread[p][t] = "out",
           UNCHANGED <<launch, episode, thread>>
    PROVE  UNCHANGED <<entered, left>>
<1>1. pc'[p] = label /\ \A q \in Procs : q # p => pc'[q] = pc[q]
    BY DEF Goto, RegionType
<1>2. ASSUME NEW q \in Procs, NEW u \in Threads PROVE Arrived(q, u)' <=> Arrived(q, u)
  <2>1. CASE q = p
      BY <1>1, <2>1 DEF Arrived
  <2>2. CASE q # p
      BY <1>1, <2>2 DEF Arrived
  <2> QED BY <2>1, <2>2
<1> QED BY <1>2, Quiet

\* A process of one thread calls the barrier function.
LEMMA Calls ==
    ASSUME RegionType, NEW p \in Procs, NEW label, Goto(p, label), label \notin {"begin", "done", "region"},
           pc[p] = "begin", launch.program \in {"diss", "tourn"},
           UNCHANGED <<launch, episode, thread>>
    PROVE  AbstractBarrier!Next
<1>1. pc'[p] = label /\ \A q \in Procs : q # p => pc'[q] = pc[q]
    BY DEF Goto, RegionType
<1>2. Threads = {1} /\ 1 \in Threads
  <2>1. launch.threads = 1
      BY LaunchFacts DEF RegionType
  <2> QED BY <2>1 DEF Threads
<1>3. ~Arrived(p, 1) /\ Arrived(p, 1)'
    BY <1>1 DEF Arrived
<1>4. ASSUME NEW q \in Procs, NEW u \in Threads, <<q, u>> # <<p, 1>>
      PROVE  Arrived(q, u)' <=> Arrived(q, u)
  <2>1. q # p
      BY <1>2, <1>4
  <2> QED BY <1>1, <2>1 DEF Arrived
<1> QED BY <1>2, <1>3, <1>4, Enters

\* The end of a dissemination and of a tournament, and of the region of
\* barrier_sense.c: everybody has come.
LEMMA AllHere ==
    ASSUME RegionType, MpiInv, NEW p \in Procs,
           \/ pc[p] = "post" /\ round[p] = R
           \/ pc[p] = "down"
           \/ launch.program = "sense" /\ pc[p] = "region" /\ \A t \in Threads : thread[p][t] = "out"
    PROVE  /\ \A t \in Threads : Arrived(p, t)
           /\ \A q \in Procs, u \in Threads : episode[p] + 1 <= entered[<<q, u>>]
<1>0. \A q \in Procs : episode[q] \in Nat
    BY DEF RegionType
<1>1. \A t \in Threads : Arrived(p, t)
    BY DEF Arrived
<1>2. ASSUME NEW q \in Procs, NEW u \in Threads PROVE episode[p] + 1 <= entered[<<q, u>>]
  <2>1. entered[<<q, u>>] = episode[q] + Bit(Arrived(q, u))
      BY EnteredLeft
  <2>2. CASE pc[p] = "post" /\ round[p] = R
    <3>1. HasDissemination /\ R \in Nat
        BY <2>2, Whose
    <3>2. DissAt(p, R) <= DissCalled(q)
        BY <3>1, DissMeets
    <3>3. DissAt(p, R) = episode[p] + 1
        BY <2>2, <3>1 DEF DissAt, InDiss, Bit
    <3>4. DissCalled(q) <= entered[<<q, u>>] /\ DissCalled(q) \in Nat /\ entered[<<q, u>>] \in Nat
        BY <1>0, <2>1 DEF DissCalled, InDiss, Arrived, Bit
    <3> QED BY <1>0, <3>2, <3>3, <3>4
  <2>3. CASE pc[p] = "down"
    <3>1. launch.program = "tourn"
        BY <2>3, Whose
    <3>2. TournIsDown(p) <= TournCalled(q)
        BY <3>1, TournMeets
    <3>3. TournIsDown(p) = episode[p] + 1
        BY <2>3 DEF TournIsDown, Bit
    <3>4. TournCalled(q) <= entered[<<q, u>>] /\ TournCalled(q) \in Nat /\ entered[<<q, u>>] \in Nat
        BY <1>0, <2>1 DEF TournCalled, InTourn, Arrived, Bit
    <3> QED BY <1>0, <3>2, <3>3, <3>4
  <2>4. CASE launch.program = "sense" /\ pc[p] = "region" /\ \A t \in Threads : thread[p][t] = "out"
    <3>1. launch.procs = 1
        BY <2>4, LaunchFacts DEF RegionType
    <3>2. q = p
        BY <3>1 DEF Procs
    <3> QED BY <1>0, <1>1, <2>1, <3>2 DEF Bit
  <2> QED BY <2>2, <2>3, <2>4
<1> QED BY <1>1, <1>2

LEMMA ProcessRefines ==
    ASSUME RegionType, MpiInv, NEW p \in Procs, Process(p)
    PROVE  AbstractBarrier!Next \/ UNCHANGED <<entered, left>>
<1>0. /\ launch \in Launches /\ R \in Nat /\ round[p] \in Nat /\ Place(p)
      /\ pc \in [Procs -> {"begin", "post", "send", "wait", "up", "upWait", "asleep",
                           "down", "region", "done"}]
    BY Whose
<1>1. CASE DissBegin(p)
  <2>1. /\ pc[p] = "begin" /\ launch.program = "diss" /\ Goto(p, "post")
        /\ UNCHANGED <<launch, episode, thread>>
      BY <1>1 DEF DissBegin, StartDissemination, ompVars
  <2> QED BY <2>1, Calls
<1>2. CASE DissPost(p) /\ round[p] < R
  <2>1. pc[p] = "post" /\ Goto(p, "send") /\ UNCHANGED <<launch, episode, thread>>
      BY <1>2 DEF DissPost, R, ompVars
  <2> QED BY <2>1, Within
<1>3. CASE DissPost(p) /\ ~(round[p] < R)
  <2>1. pc[p] = "post" /\ Completed(p) /\ UNCHANGED <<launch, thread>>
      BY <1>3 DEF DissPost, R, ompVars
  <2>2. round[p] = R
      BY <1>0, <1>3, <2>1 DEF Place
  <2>3. /\ \A t \in Threads : Arrived(p, t)
        /\ \A q \in Procs, u \in Threads : episode[p] + 1 <= entered[<<q, u>>]
      BY <2>1, <2>2, AllHere
  <2> QED BY <2>1, <2>3, Leaves
<1>4. CASE DissSend(p)
  <2>1. pc[p] = "send" /\ Goto(p, "wait") /\ UNCHANGED <<launch, episode, thread>>
      BY <1>4 DEF DissSend, ompVars
  <2> QED BY <2>1, Within
<1>5. CASE DissWait(p)
  <2>1. pc[p] = "wait" /\ Goto(p, "post") /\ UNCHANGED <<launch, episode, thread>>
      BY <1>5 DEF DissWait, ompVars
  <2> QED BY <2>1, Within
<1>6. CASE TournBegin(p)
  <2>1. /\ pc[p] = "begin" /\ launch.program = "tourn" /\ Goto(p, "up")
        /\ UNCHANGED <<launch, episode, thread>>
      BY <1>6 DEF TournBegin, ompVars
  <2> QED BY <2>1, Calls
<1>7. CASE TournTop(p)
  <2>1. pc[p] = "up" /\ Goto(p, "down") /\ UNCHANGED <<launch, episode, thread>>
      BY <1>7 DEF TournTop, ompVars
  <2> QED BY <2>1, Within
<1>8. CASE TournUp(p)
  <2>1. pc[p] = "up" /\ (Goto(p, "upWait") \/ Goto(p, "up")) /\ UNCHANGED <<launch, episode, thread>>
      BY <1>0, <1>8 DEF TournUp, ompVars, Goto
  <2> QED BY <2>1, Within
<1>9. CASE TournWon(p)
  <2>1. pc[p] = "upWait" /\ Goto(p, "up") /\ UNCHANGED <<launch, episode, thread>>
      BY <1>9 DEF TournWon, ompVars
  <2> QED BY <2>1, Within
<1>10. CASE TournLost(p)
  <2>1. pc[p] = "up" /\ Goto(p, "asleep") /\ UNCHANGED <<launch, episode, thread>>
      BY <1>10 DEF TournLost, ompVars
  <2> QED BY <2>1, Within
<1>11. CASE TournWoken(p)
  <2>1. pc[p] = "asleep" /\ Goto(p, "down") /\ UNCHANGED <<launch, episode, thread>>
      BY <1>11 DEF TournWoken, ompVars
  <2> QED BY <2>1, Within
<1>12. CASE TournDown(p)
  <2>1. pc[p] = "down" /\ Goto(p, "down") /\ UNCHANGED <<launch, episode, thread>>
      BY <1>0, <1>12 DEF TournDown, ompVars, Goto
  <2> QED BY <2>1, Within
<1>13. CASE TournEnd(p)
  <2>1. pc[p] = "down" /\ Completed(p) /\ UNCHANGED <<launch, thread>>
      BY <1>13 DEF TournEnd, ompVars
  <2>2. /\ \A t \in Threads : Arrived(p, t)
        /\ \A q \in Procs, u \in Threads : episode[p] + 1 <= entered[<<q, u>>]
      BY <2>1, AllHere
  <2> QED BY <2>1, <2>2, Leaves
<1>14. CASE RegionBegin(p)
  <2>1. /\ pc[p] = "begin" /\ pc' = [pc EXCEPT ![p] = "region"]
        /\ thread' = [thread EXCEPT ![p] = [t \in Threads |-> "start"]]
        /\ UNCHANGED <<launch, episode>>
      BY <1>14 DEF RegionBegin, Goto
  <2>2. ASSUME NEW q \in Procs, NEW u \in Threads PROVE Arrived(q, u)' <=> Arrived(q, u)
    <3>1. CASE q = p
      <4>1. pc'[p] = "region" /\ thread'[p][u] = "start"
          BY <1>0, <2>1 DEF RegionType
      <4> QED BY <2>1, <3>1, <4>1 DEF Arrived
    <3>2. CASE q # p
      <4>1. pc'[q] = pc[q] /\ thread'[q] = thread[q]
          BY <1>0, <2>1, <3>2 DEF RegionType
      <4> QED BY <4>1 DEF Arrived
    <3> QED BY <3>1, <3>2
  <2> QED BY <2>1, <2>2, Quiet
<1>15. CASE RegionEnd(p) /\ launch.program = "hybrid"
  <2>1. /\ pc[p] = "region" /\ (\A t \in Threads : thread[p][t] = "out") /\ Goto(p, "post")
        /\ UNCHANGED <<launch, episode, thread>>
      BY <1>15 DEF RegionEnd, StartDissemination, ompVars
  <2> QED BY <2>1, Within
<1>16. CASE RegionEnd(p) /\ launch.program # "hybrid"
  <2>1. /\ pc[p] = "region" /\ (\A t \in Threads : thread[p][t] = "out") /\ Completed(p)
        /\ UNCHANGED <<launch, thread>>
      BY <1>16 DEF RegionEnd, ompVars
  <2>2. launch.program = "sense"
      BY <1>0, <1>16, <2>1, Whose, LaunchFacts
  <2>3. /\ \A t \in Threads : Arrived(p, t)
        /\ \A q \in Procs, u \in Threads : episode[p] + 1 <= entered[<<q, u>>]
      BY <2>1, <2>2, AllHere
  <2> QED BY <2>1, <2>3, Leaves
<1> QED BY <1>1, <1>2, <1>3, <1>4, <1>5, <1>6, <1>7, <1>8, <1>9, <1>10, <1>11, <1>12, <1>13,
           <1>14, <1>15, <1>16 DEF Process

LEMMA ThreadRefines ==
    ASSUME RegionType, NEW p \in Procs, NEW t \in Threads, Thread(p, t)
    PROVE  AbstractBarrier!Next \/ UNCHANGED <<entered, left>>
<1>1. PICK label : thread' = [thread EXCEPT ![p][t] = label] /\ label # "start"
    BY DEF Thread, Decrement, Test, Reset, Flip, Spin, ThreadTo
<1>2. UNCHANGED <<launch, episode, pc>> /\ pc[p] = "region"
    BY DEF Thread, Decrement, Test, Reset, Flip, Spin, At
<1>3. thread'[p][t] = label
    BY <1>1 DEF RegionType
<1>4. ASSUME NEW q \in Procs, NEW u \in Threads, <<q, u>> # <<p, t>>
      PROVE  Arrived(q, u)' <=> Arrived(q, u)
  <2>1. thread'[q][u] = thread[q][u]
      BY <1>1, <1>4 DEF RegionType
  <2> QED BY <1>2, <2>1 DEF Arrived
<1>5. Arrived(p, t)'
    BY <1>1, <1>2, <1>3 DEF Arrived
<1>6. CASE Arrived(p, t)
    BY <1>2, <1>4, <1>5, <1>6, Quiet
<1>7. CASE ~Arrived(p, t)
    BY <1>2, <1>4, <1>5, <1>7, Enters
<1> QED BY <1>6, <1>7

\* Dissemination, tournament, sense and hybrid barrier implement the abstract
\* one: nobody leaves an episode before everybody has entered it, for any number
\* of processes, powers of two or not, of threads and of episodes, and with sends
\* that are buffered or wait for the receiver.
THEOREM IsABarrier == Spec => ImplementsBarrier
<1>1. ASSUME Init PROVE AbstractBarrier!Init
  <2>1. \A p \in Procs : pc[p] = "begin" /\ episode[p] = 0
      BY <1>1 DEF Init
  <2>2. DOMAIN entered = Procs \X Threads /\ DOMAIN left = Procs \X Threads
      BY DEF entered, left
  <2>3. ASSUME NEW x \in Procs \X Threads PROVE entered[x] = 0 /\ left[x] = 0
    <3>1. PICK q \in Procs, u \in Threads : x = <<q, u>>
        OBVIOUS
    <3> QED BY <2>1, <3>1, EnteredLeft DEF Bit, Arrived
  <2> QED BY <2>2, <2>3 DEF AbstractBarrier!Init, AbstractBarrier!Participants
<1>2. ASSUME Inv, MpiInv, [Next]_vars PROVE [AbstractBarrier!Next]_<<entered, left>>
  <2>0. RegionType
      BY <1>2 DEF Inv
  <2>1. CASE Next
      BY <1>2, <2>0, <2>1, ProcessRefines, ThreadRefines DEF Next
  <2>2. CASE UNCHANGED vars
    <3>1. UNCHANGED <<launch, episode, pc, thread>>
        BY <2>2 DEF vars, ompVars
    <3>2. \A q \in Procs, u \in Threads : Arrived(q, u)' <=> Arrived(q, u)
        BY <3>1 DEF Arrived
    <3> QED BY <3>1, <3>2, Quiet
  <2> QED BY <1>2, <2>1, <2>2
<1> QED BY <1>1, <1>2, MessagesAccounted, PTL DEF Spec, ImplementsBarrier, AbstractBarrier!Spec

=============================================================================
