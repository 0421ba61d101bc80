--------------------------- MODULE ClusterProofs ---------------------------
(***************************************************************************)
(* The safety of the worker pool, for every set of ports and every number  *)
(* of dispatch threads.                                                    *)
(***************************************************************************)
EXTENDS Cluster, TLAPS

-----------------------------------------------------------------------------
(***************************************************************************)
(* The list operations getFreeWorkerNode and addFreeWorkerNode rest on.    *)
(***************************************************************************)

\* What LinkedList.remove() leaves behind: a shorter list whose elements are
\* the old ones from the second on.
LEMMA TailElements ==
    ASSUME NEW S, NEW s \in Seq(S), s # <<>>
    PROVE  /\ Head(s) \in S /\ Tail(s) \in Seq(S)
           /\ 1 \in DOMAIN s /\ Head(s) = s[1]
           /\ \A i \in DOMAIN Tail(s) : i + 1 \in DOMAIN s /\ Tail(s)[i] = s[i + 1]
    OBVIOUS

\* What LinkedList.add(n) produces: the old elements, then n.
LEMMA AppendElements ==
    ASSUME NEW S, NEW s \in Seq(S), NEW e \in S
    PROVE  /\ Append(s, e) \in Seq(S) /\ Append(s, e) # <<>>
           /\ DOMAIN Append(s, e) = DOMAIN s \union {Len(s) + 1}
           /\ Len(s) + 1 \notin DOMAIN s
           /\ \A i \in DOMAIN s : Append(s, e)[i] = s[i]
           /\ Append(s, e)[Len(s) + 1] = e
    OBVIOUS

-----------------------------------------------------------------------------
(***************************************************************************)
(* The inductive invariant                                                 *)
(***************************************************************************)

\* The empty pool satisfies the invariant.
LEMMA ClusterInitInv == ClusterInit => ClusterInv
<1> SUFFICES ASSUME ClusterInit PROVE ClusterInv
    OBVIOUS
<1> USE DEF ClusterInit
<1>1. ClusterTypeOK
    BY DEF ClusterTypeOK
<1>2. FreeSet = {} /\ NoDuplicateFree
    BY DEF FreeSet, NoDuplicateFree
<1>3. /\ \A t \in Thread : node[t] = NoPort /\ itr[t] = "none"
      /\ NoLostWakeup /\ PoolNotDrained
    BY DEF NoLostWakeup, PoolNotDrained
<1>4. ExclusiveUnlessRestarted
    BY <1>3, ClusterAssumption DEF ExclusiveUnlessRestarted
<1> QED BY <1>1, <1>2, <1>3, <1>4 DEF ClusterInv

\* A registration: the accept thread is about to return a node that no other
\* thread can hold unless its port registered before.
LEMMA CreateInv ==
    ASSUME ClusterInv, NEW p \in Port, createWorkerNode(p)
    PROVE  ClusterInv'
<1> USE ClusterAssumption DEF ClusterInv, createWorkerNode, Thread
<1>1. ClusterTypeOK'
    BY DEF ClusterTypeOK
<1>2. /\ \A t \in Thread : itr'[t] # "none" => node'[t] # NoPort
      /\ \A t \in Thread : node'[t] # NoPort => node'[t] \in workers'
      /\ (FreeSet \subseteq workers)'
    BY DEF ClusterTypeOK, FreeSet
<1>3. NoDuplicateFree' /\ NoLostWakeup'
    BY DEF NoDuplicateFree, NoLostWakeup
<1>4. ExclusiveUnlessRestarted'
    BY DEF ExclusiveUnlessRestarted, FreeSet, ClusterTypeOK
<1>5. PoolNotDrained'
    BY DEF PoolNotDrained, ClusterTypeOK
<1> QED BY <1>1, <1>2, <1>3, <1>4, <1>5

\* getFreeWorkerNode on an empty list: the thread may go to sleep.
LEMMA WaitInv ==
    ASSUME ClusterInv, NEW d \in Dispatcher, waitFreeWorkerNode(d)
    PROVE  ClusterInv'
    BY DEF ClusterInv, waitFreeWorkerNode, ClusterTypeOK, Thread, FreeSet, NoDuplicateFree,
           NoLostWakeup, ExclusiveUnlessRestarted, PoolNotDrained

\* getFreeWorkerNode on a list with a node: the head leaves the list, where
\* it occurred once, for the thread's hands, and is then nowhere else.
LEMMA GetInv ==
    ASSUME ClusterInv, NEW d \in Dispatcher, getFreeWorkerNode(d)
    PROVE  ClusterInv'
<1> USE DEF ClusterInv, getFreeWorkerNode
<1>1. /\ Head(freeWorkers) \in Port /\ freeWorkers' \in Seq(Port)
      /\ 1 \in DOMAIN freeWorkers /\ Head(freeWorkers) = freeWorkers[1]
      /\ \A i \in DOMAIN freeWorkers' :
            i + 1 \in DOMAIN freeWorkers /\ freeWorkers'[i] = freeWorkers[i + 1]
    BY TailElements DEF ClusterTypeOK
<1>2. ClusterTypeOK'
    BY <1>1 DEF ClusterTypeOK, ItrAfterModification, Thread
<1>3. FreeSet' \subseteq FreeSet /\ Head(freeWorkers) \in FreeSet
    BY <1>1 DEF FreeSet
<1>4. DOMAIN freeWorkers' \subseteq Nat \ {0}
    BY <1>1
<1>5. Head(freeWorkers) \notin FreeSet'
    BY <1>1, <1>4 DEF FreeSet, NoDuplicateFree
<1>6. NoDuplicateFree'
  <2> SUFFICES ASSUME NEW i \in DOMAIN freeWorkers', NEW j \in DOMAIN freeWorkers',
                      freeWorkers'[i] = freeWorkers'[j]
               PROVE  i = j
      BY DEF NoDuplicateFree
  <2>1. i + 1 = j + 1
      BY <1>1 DEF NoDuplicateFree
  <2> QED BY <2>1, <1>4
<1>7. NoLostWakeup'
    BY DEF NoLostWakeup
<1>8. /\ \A t \in Thread : itr'[t] # "none" => node'[t] # NoPort
      /\ \A t \in Thread : node'[t] # NoPort => node'[t] \in workers'
      /\ (FreeSet \subseteq workers)'
    BY <1>3 DEF ClusterTypeOK, ItrAfterModification, Thread
<1>9. ExclusiveUnlessRestarted'
    BY <1>3, <1>5 DEF ExclusiveUnlessRestarted, ClusterTypeOK, Thread
<1>10. PoolNotDrained'
    BY <1>1, ClusterAssumption DEF PoolNotDrained, ClusterTypeOK, Thread
<1> QED BY <1>2, <1>6, <1>7, <1>8, <1>9, <1>10

\* A task's thread starts to return its node.
LEMMA BeginAddInv ==
    ASSUME ClusterInv, NEW d \in Dispatcher, beginAddFreeWorkerNode(d)
    PROVE  ClusterInv'
    BY DEF ClusterInv, beginAddFreeWorkerNode, ClusterTypeOK, Thread, FreeSet,
           NoDuplicateFree, NoLostWakeup, ExclusiveUnlessRestarted, PoolNotDrained

\* addFreeWorkerNode drops the node (exception, or already in the list) only
\* while the list has a node, and otherwise appends a port that is not there.
LEMMA AddInv ==
    ASSUME ClusterInv, NEW t \in Thread, addFreeWorkerNode(t)
    PROVE  ClusterInv'
<1> USE DEF ClusterInv, addFreeWorkerNode
<1>0. node[t] \in Port /\ node[t] \in workers
    BY DEF ClusterTypeOK
<1>a. CASE Comodified(t) \/ node[t] \in FreeSet
  <2>1. freeWorkers # <<>>
      BY <1>a DEF Comodified, FreeSet
  <2>2. UNCHANGED <<freeWorkers, waiting, workers, abandoned, restarted>>
      BY <1>a
  <2>3. itr' = [itr EXCEPT ![t] = "none"]
      BY <1>a
  <2>4. ClusterTypeOK'
      BY <2>2, <2>3 DEF ClusterTypeOK
  <2>5. FreeSet' = FreeSet /\ NoDuplicateFree'
      BY <2>2 DEF FreeSet, NoDuplicateFree
  <2>6. NoLostWakeup' /\ PoolNotDrained'
      BY <2>1, <2>2 DEF NoLostWakeup, PoolNotDrained
  <2>7. /\ \A u \in Thread : itr'[u] # "none" => node'[u] # NoPort
        /\ \A u \in Thread : node'[u] # NoPort => node'[u] \in workers'
      BY <2>2, <2>3 DEF ClusterTypeOK
  <2>8. ExclusiveUnlessRestarted'
      BY <2>2, <2>5, ClusterAssumption DEF ExclusiveUnlessRestarted, ClusterTypeOK
  <2> QED BY <2>2, <2>4, <2>5, <2>6, <2>7, <2>8
<1>b. CASE ~Comodified(t) /\ node[t] \notin FreeSet
  <2>1. /\ itr' = ItrAfterModification(t)
        /\ freeWorkers' = Append(freeWorkers, node[t])
        /\ waiting' = {}
      BY <1>b
  <2>2. /\ freeWorkers' \in Seq(Port) /\ freeWorkers' # <<>>
        /\ DOMAIN freeWorkers' = DOMAIN freeWorkers \union {Len(freeWorkers) + 1}
        /\ Len(freeWorkers) + 1 \notin DOMAIN freeWorkers
        /\ \A i \in DOMAIN freeWorkers : freeWorkers'[i] = freeWorkers[i]
        /\ freeWorkers'[Len(freeWorkers) + 1] = node[t]
      BY <1>0, <2>1, AppendElements DEF ClusterTypeOK
  <2>3. FreeSet' = FreeSet \union {node[t]}
      BY <2>2 DEF FreeSet
  <2>4. ClusterTypeOK'
      BY <2>1, <2>2 DEF ClusterTypeOK, ItrAfterModification
  <2>5. NoDuplicateFree'
      BY <1>b, <2>2 DEF NoDuplicateFree, FreeSet
  <2>6. NoLostWakeup' /\ PoolNotDrained'
      BY <2>1, <2>2 DEF NoLostWakeup, PoolNotDrained
  <2>7. /\ \A u \in Thread : itr'[u] # "none" => node'[u] # NoPort
        /\ \A u \in Thread : node'[u] # NoPort => node'[u] \in workers'
        /\ (FreeSet \subseteq workers)'
      BY <1>0, <2>1, <2>3 DEF ClusterTypeOK, ItrAfterModification
  <2>8. ExclusiveUnlessRestarted'
      BY <1>0, <2>3, ClusterAssumption DEF ExclusiveUnlessRestarted, ClusterTypeOK
  <2> QED BY <2>4, <2>5, <2>6, <2>7, <2>8
<1> QED BY <1>a, <1>b

\* A failed dispatch gives its node up, and the failure is on record.
LEMMA AbandonInv ==
    ASSUME ClusterInv, NEW d \in Dispatcher, abandonWorkerNode(d)
    PROVE  ClusterInv'
    BY ClusterAssumption
    DEF ClusterInv, abandonWorkerNode, ClusterTypeOK, Thread, FreeSet,
        NoDuplicateFree, NoLostWakeup, ExclusiveUnlessRestarted, PoolNotDrained

\* Every step of every thread preserves the invariant.
LEMMA ClusterStepInv == ClusterInv /\ [ClusterNext]_clusterVars => ClusterInv'
<1> SUFFICES ASSUME ClusterInv, [ClusterNext]_clusterVars PROVE ClusterInv'
    OBVIOUS
<1>1. CASE UNCHANGED clusterVars
    BY <1>1 DEF clusterVars, ClusterInv, ClusterTypeOK, FreeSet, NoDuplicateFree,
        NoLostWakeup, ExclusiveUnlessRestarted, PoolNotDrained
<1>2. CASE ClusterNext
    BY <1>2, CreateInv, WaitInv, GetInv, BeginAddInv, AddInv, AbandonInv DEF ClusterNext
<1> QED BY <1>1, <1>2

-----------------------------------------------------------------------------
(***************************************************************************)
(* The theorems                                                            *)
(***************************************************************************)

\* The inductive invariant holds in every reachable state of the pool.
THEOREM ClusterInvariant == ClusterSpec => []ClusterInv
    BY ClusterInitInv, ClusterStepInv, PTL DEF ClusterSpec

\* The pool's state keeps its types: nothing but a registered node is ever
\* put into the list, although nodes are dropped and returned concurrently.
THEOREM ClusterTypeCorrect == ClusterSpec => []ClusterTypeOK
<1>1. ClusterInv => ClusterTypeOK
    BY DEF ClusterInv
<1> QED BY <1>1, ClusterInvariant, PTL

\* addFreeWorkerNode never puts a port into the free list twice.
THEOREM FreeListHasNoDuplicates == ClusterSpec => []NoDuplicateFree
<1>1. ClusterInv => NoDuplicateFree
    BY DEF ClusterInv
<1> QED BY <1>1, ClusterInvariant, PTL

\* No dispatch thread sleeps in getFreeWorkerNode while a node is free.
THEOREM NoWakeupIsLost == ClusterSpec => []NoLostWakeup
<1>1. ClusterInv => NoLostWakeup
    BY DEF ClusterInv
<1> QED BY <1>1, ClusterInvariant, PTL

\* A worker that never restarted serves one dispatch thread at a time.
THEOREM WorkersAreExclusive == ClusterSpec => []ExclusiveUnlessRestarted
<1>1. ClusterInv => ExclusiveUnlessRestarted
    BY DEF ClusterInv
<1> QED BY <1>1, ClusterInvariant, PTL

\* The unlocked iterators of addFreeWorkerNode cannot drain the pool.
THEOREM RacesNeverDrainThePool == ClusterSpec => []PoolNotDrained
<1>1. ClusterInv => PoolNotDrained
    BY DEF ClusterInv
<1> QED BY <1>1, ClusterInvariant, PTL

=============================================================================
