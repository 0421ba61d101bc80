------------------------------ MODULE Cluster ------------------------------
(***************************************************************************)
(* The pool of worker nodes of the batch scheduler (class Cluster in       *)
(* scheduler/Scheduler.java).                                              *)
(*                                                                         *)
(* The pool is shared by the accept thread, which registers workers with   *)
(* createWorkerNode, and by one thread per task (DispatchTask), which      *)
(* takes a node with getFreeWorkerNode, gives its worker the task, and     *)
(* returns the node with addFreeWorkerNode -- or, when anything throws,    *)
(* forgets it.  A node is identified by its port, which is how the code    *)
(* compares nodes; its status field is written and never read, and is left *)
(* out.                                                                    *)
(*                                                                         *)
(* addFreeWorkerNode creates its iterator over freeWorkers BEFORE it takes *)
(* the lock.  java.util.LinkedList iterators are fail-fast: if the list is *)
(* modified in between, the first next() throws                            *)
(* ConcurrentModificationException, but an iterator over a list that has   *)
(* become empty never calls next().  The three states of such an iterator  *)
(* are the values of itr.  Its creation is taken to be one step.           *)
(***************************************************************************)
EXTENDS Integers, Sequences, FiniteSets

CONSTANTS Port,        \* the ports workers can register with
          Dispatcher,  \* the DispatchTask threads
          Acceptor,    \* the thread of Scheduler.run
          NoPort       \* no node held

ASSUME ClusterAssumption == Acceptor \notin Dispatcher /\ NoPort \notin Port

Thread == Dispatcher \union {Acceptor}

VARIABLES
    workers,      \* the ports of the list `workers`
    freeWorkers,  \* the list `freeWorkers`
    waiting,      \* the wait set of the monitor of freeWorkers
    node,         \* the node each thread holds
    itr,          \* the iterator of a thread inside addFreeWorkerNode
    abandoned,    \* history: nodes dropped in DispatchTask's catch block
    restarted     \* history: ports that have registered more than once

clusterVars == <<workers, freeWorkers, waiting, node, itr, abandoned, restarted>>

FreeSet == {freeWorkers[i] : i \in DOMAIN freeWorkers}

ClusterInit ==
    /\ workers = {}
    /\ freeWorkers = <<>>
    /\ waiting = {}
    /\ node = [t \in Thread |-> NoPort]
    /\ itr = [t \in Thread |-> "none"]
    /\ abandoned = {}
    /\ restarted = {}

(***************************************************************************)
(* The structural modification of freeWorkers by thread t makes every      *)
(* other open iterator stale; t's own iterator is gone when it returns.    *)
(***************************************************************************)
ItrAfterModification(t) ==
    [u \in Thread |-> IF u = t THEN "none"
                      ELSE IF itr[u] = "fresh" THEN "stale" ELSE itr[u]]

\* Mutant: the branch of a known port returns its node without adding it.
createWorkerNode_RestartNotAdded(p) ==
    /\ node[Acceptor] = NoPort
    /\ workers' = workers \union {p}
    /\ abandoned' = abandoned \ {p}
    /\ IF p \in workers
       THEN restarted' = restarted \union {p} /\ UNCHANGED <<node, itr>>
       ELSE /\ node' = [node EXCEPT ![Acceptor] = p]
            /\ itr' = [itr EXCEPT ![Acceptor] = "fresh"]
            /\ UNCHANGED restarted
    /\ UNCHANGED <<freeWorkers, waiting>>

(***************************************************************************)
(* createWorkerNode up to the lock of freeWorkers: a port that is already  *)
(* known is a restarted worker and keeps its node, a new one gets a node   *)
(* of its own.  Both branches call addFreeWorkerNode, whose iterator is    *)
(* created here.                                                           *)
(***************************************************************************)
createWorkerNode(p) ==
    /\ node[Acceptor] = NoPort
    /\ workers' = workers \union {p}
    /\ restarted' = IF p \in workers THEN restarted \union {p} ELSE restarted
    /\ node' = [node EXCEPT ![Acceptor] = p]
    /\ itr' = [itr EXCEPT ![Acceptor] = "fresh"]
    /\ abandoned' = abandoned \ {p}
    /\ UNCHANGED <<freeWorkers, waiting>>

\* getFreeWorkerNode finds the list empty and waits on its monitor.
waitFreeWorkerNode(d) ==
    /\ node[d] = NoPort
    /\ d \notin waiting
    /\ freeWorkers = <<>>
    /\ waiting' = waiting \union {d}
    /\ UNCHANGED <<workers, freeWorkers, node, itr, abandoned, restarted>>

\* Mutant: the node is read with getFirst() and stays in the list.
getFreeWorkerNode_NotRemoved(d) ==
    /\ node[d] = NoPort
    /\ d \notin waiting
    /\ freeWorkers # <<>>
    /\ node' = [node EXCEPT ![d] = Head(freeWorkers)]
    /\ UNCHANGED <<workers, freeWorkers, waiting, itr, abandoned, restarted>>

\* getFreeWorkerNode takes the first node of the list.
getFreeWorkerNode(d) ==
    /\ node[d] = NoPort
    /\ d \notin waiting
    /\ freeWorkers # <<>>
    /\ node' = [node EXCEPT ![d] = Head(freeWorkers)]
    /\ freeWorkers' = Tail(freeWorkers)
    /\ itr' = ItrAfterModification(d)
    /\ UNCHANGED <<workers, waiting, abandoned, restarted>>

\* DispatchTask calls addFreeWorkerNode: the iterator, without the lock.
beginAddFreeWorkerNode(d) ==
    /\ node[d] # NoPort
    /\ itr[d] = "none"
    /\ itr' = [itr EXCEPT ![d] = "fresh"]
    /\ UNCHANGED <<workers, freeWorkers, waiting, node, abandoned, restarted>>

\* The iterator of thread t throws on its first next().
Comodified(t) == itr[t] = "stale" /\ freeWorkers # <<>>

\* Mutant: the search for the port is left out.
addFreeWorkerNode_NoSearch(t) ==
    /\ itr[t] # "none"
    /\ node' = [node EXCEPT ![t] = NoPort]
    /\ itr' = ItrAfterModification(t)
    /\ freeWorkers' = Append(freeWorkers, node[t])
    /\ waiting' = {}
    /\ UNCHANGED <<workers, abandoned, restarted>>

\* Mutant: nobody is notified.
addFreeWorkerNode_NoNotify(t) ==
    /\ itr[t] # "none"
    /\ node' = [node EXCEPT ![t] = NoPort]
    /\ IF Comodified(t) \/ node[t] \in FreeSet
       THEN itr' = [itr EXCEPT ![t] = "none"] /\ UNCHANGED freeWorkers
       ELSE itr' = ItrAfterModification(t) /\ freeWorkers' = Append(freeWorkers, node[t])
    /\ UNCHANGED <<workers, waiting, abandoned, restarted>>

(***************************************************************************)
(* The synchronized part of addFreeWorkerNode: it throws, finds the port   *)
(* in the list already, or appends the node and wakes every waiter.        *)
(***************************************************************************)
addFreeWorkerNode(t) ==
    /\ itr[t] # "none"
    /\ node' = [node EXCEPT ![t] = NoPort]
    /\ \/ /\ Comodified(t) \/ node[t] \in FreeSet
          /\ itr' = [itr EXCEPT ![t] = "none"]
          /\ UNCHANGED <<freeWorkers, waiting>>
       \/ /\ ~Comodified(t) /\ node[t] \notin FreeSet
          /\ itr' = ItrAfterModification(t)
          /\ freeWorkers' = Append(freeWorkers, node[t])
          /\ waiting' = {}
    /\ UNCHANGED <<workers, abandoned, restarted>>

\* DispatchTask's catch block: the node is not returned to the pool.
abandonWorkerNode(d) ==
    /\ node[d] # NoPort
    /\ itr[d] = "none"
    /\ abandoned' = abandoned \union {node[d]}
    /\ node' = [node EXCEPT ![d] = NoPort]
    /\ UNCHANGED <<workers, freeWorkers, waiting, itr, restarted>>

ClusterNext ==
    \/ \E p \in Port : createWorkerNode(p)
    \/ \E t \in Thread : addFreeWorkerNode(t)
    \/ \E d \in Dispatcher :
          \/ waitFreeWorkerNode(d)
          \/ getFreeWorkerNode(d)
          \/ beginAddFreeWorkerNode(d)
          \/ abandonWorkerNode(d)

ClusterSpec == ClusterInit /\ [][ClusterNext]_clusterVars

-----------------------------------------------------------------------------
(***************************************************************************)
(* Properties                                                              *)
(***************************************************************************)

\* The type invariant of the pool.
ClusterTypeOK ==
    /\ workers \subseteq Port
    /\ freeWorkers \in Seq(Port)
    /\ waiting \subseteq Dispatcher
    /\ node \in [Thread -> Port \union {NoPort}]
    /\ itr \in [Thread -> {"none", "fresh", "stale"}]
    /\ abandoned \subseteq Port
    /\ restarted \subseteq Port

\* addFreeWorkerNode keeps every port in the free list at most once, whatever
\* the restarts, although it looks for duplicates with an iterator that was
\* created outside the lock.
NoDuplicateFree ==
    \A i, j \in DOMAIN freeWorkers : freeWorkers[i] = freeWorkers[j] => i = j

\* No wakeup is lost between getFreeWorkerNode's wait and addFreeWorkerNode's
\* notifyAll: a thread sleeps in the monitor only while the list is empty.
NoLostWakeup == waiting # {} => freeWorkers = <<>>

\* A node whose port never registered twice belongs to one thread at a time,
\* and is in the free list only when no thread holds it.
ExclusiveUnlessRestarted ==
    \A t \in Thread : node[t] \in Port \ restarted =>
        /\ node[t] \notin FreeSet
        /\ \A u \in Thread : node[u] = node[t] => u = t

\* The exception of a stale iterator loses the node being returned, but the
\* races on the list alone never empty the pool: while no node was abandoned
\* because a worker or client failed, some node is free or on its way back.
PoolNotDrained ==
    workers # {} /\ abandoned = {} =>
        freeWorkers # <<>> \/ \E t \in Thread : node[t] # NoPort

\* The inductive invariant behind the four properties: a thread with an open
\* iterator is returning a node, and every node in the list or in the hands
\* of a thread was registered.
ClusterInv ==
    /\ ClusterTypeOK
    /\ \A t \in Thread : itr[t] # "none" => node[t] # NoPort
    /\ \A t \in Thread : node[t] # NoPort => node[t] \in workers
    /\ FreeSet \subseteq workers
    /\ NoDuplicateFree
    /\ NoLostWakeup
    /\ ExclusiveUnlessRestarted
    /\ PoolNotDrained

============================================================================
