-------------------------- MODULE ProducerConsumer --------------------------
(***************************************************************************)
(* The producer and the two consumers of aos/prelab/producer_consumer.c.   *)
(*                                                                         *)
(* The consumers keep looping `while (front != NULL || g_num_prod > 0)'.   *)
(* The two operands are two loads, made with g_num_prod_lock at the first  *)
(* test only; every later iteration unlocks that mutex without having      *)
(* locked it, and a consumer that leaves the loop unlocks both mutexes,    *)
(* whoever holds them.  For the default mutexes of glibc such an unlock    *)
(* releases the mutex.  The program is compiled without optimisation, so   *)
(* that each access is one load or store.                                  *)
(*                                                                         *)
(* A letter is its position in the alphabet; the list is the sequence      *)
(* reached from front, and back is kept as whether it is NULL, which is    *)
(* all the code tests.  A pthread_create that fails ends the process and   *)
(* is left out.                                                            *)
(***************************************************************************)
EXTENDS Integers, Sequences

CONSTANTS Letters,           \* how many letters the producer adds
          MainConsumer,      \* the consumer that main creates and joins
          SecondConsumer,    \* the consumer that the producer creates and joins
          Producer,
          NoOne              \* the holder of a free mutex; no letter

Consumers == {MainConsumer, SecondConsumer}

ASSUME ProducerConsumerAssumption ==
    /\ Letters \in Nat
    /\ MainConsumer # SecondConsumer
    /\ Producer \notin Consumers
    /\ NoOne \notin Consumers \union {Producer}

VARIABLES
    queue,      \* the list from queue->front
    back,       \* queue->back != NULL
    queueLock,  \* holder of queue->lock
    numLock,    \* holder of g_num_prod_lock
    g_num_prod,
    c,          \* letters the producer has added
    mainPc, prodPc, consPc,
    item,       \* prev_node_p of each consumer, from pop to print
    count,      \* letters each consumer has printed
    total,      \* what main prints at the end, -1 before
    taken,      \* history: the letters in the order of their removal
    failed      \* history: an assert of the producer has failed

locks == <<queueLock, numLock>>
list == <<queue, back, taken, failed>>
vars == <<queue, back, queueLock, numLock, g_num_prod, c, mainPc, prodPc,
          consPc, item, count, total, taken, failed>>

Init ==
    /\ queue = <<>> /\ back = FALSE
    /\ queueLock = NoOne /\ numLock = NoOne
    /\ g_num_prod = 1 /\ c = 0
    /\ mainPc = "createProducer" /\ prodPc = "unborn"
    /\ consPc = [k \in Consumers |-> "unborn"]
    /\ item = [k \in Consumers |-> 0]
    /\ count = [k \in Consumers |-> 0]
    /\ total = -1
    /\ taken = <<>> /\ failed = FALSE

-----------------------------------------------------------------------------
(* main *)

MainStays == UNCHANGED <<locks, list, g_num_prod, c, item, count>>

CreateProducer ==
    /\ mainPc = "createProducer"
    /\ mainPc' = "createConsumer" /\ prodPc' = "create"
    /\ MainStays /\ UNCHANGED <<consPc, total>>

CreateConsumer ==
    /\ mainPc = "createConsumer"
    /\ mainPc' = "joinProducer"
    /\ consPc' = [consPc EXCEPT ![MainConsumer] = "lockNum"]
    /\ MainStays /\ UNCHANGED <<prodPc, total>>

JoinProducer ==
    /\ mainPc = "joinProducer" /\ prodPc = "returned"
    /\ mainPc' = "joinConsumer"
    /\ MainStays /\ UNCHANGED <<prodPc, consPc, total>>

\* Mutant: the consumer is detached and main does not wait for it.
JoinConsumer_Detached ==
    /\ mainPc = "joinConsumer"
    /\ mainPc' = "done"
    /\ total' = count[MainConsumer] + count[SecondConsumer]
    /\ MainStays /\ UNCHANGED <<prodPc, consPc>>

\* The producer returns the count of the consumer it has joined.
JoinConsumer ==
    /\ mainPc = "joinConsumer" /\ consPc[MainConsumer] = "returned"
    /\ mainPc' = "done"
    /\ total' = count[MainConsumer] + count[SecondConsumer]
    /\ MainStays /\ UNCHANGED <<prodPc, consPc>>

Main == CreateProducer \/ CreateConsumer \/ JoinProducer \/ JoinConsumer

-----------------------------------------------------------------------------
(* producer_routine *)

ProducerStays == UNCHANGED <<numLock, mainPc, item, count, total, taken>>

ProduceCreate ==
    /\ prodPc = "create"
    /\ consPc' = [consPc EXCEPT ![SecondConsumer] = "lockNum"]
    /\ prodPc' = IF Letters = 0 THEN "decrement" ELSE "lock"
    /\ ProducerStays /\ UNCHANGED <<queue, back, queueLock, failed, g_num_prod, c>>

ProduceLock ==
    /\ prodPc = "lock" /\ queueLock = NoOne
    /\ queueLock' = Producer /\ prodPc' = "link"
    /\ ProducerStays /\ UNCHANGED <<queue, back, failed, g_num_prod, c, consPc>>

\* front, or the next field of the last node, is set; the asserts of both
\* branches compare back with front.
ProduceLink ==
    /\ prodPc = "link"
    /\ failed' = (failed \/ back # (queue # <<>>))
    /\ queue' = IF back THEN Append(queue, c + 1) ELSE <<c + 1>>
    /\ c' = c + 1 /\ prodPc' = "back"
    /\ ProducerStays /\ UNCHANGED <<back, queueLock, g_num_prod, consPc>>

ProduceBack ==
    /\ prodPc = "back"
    /\ back' = TRUE /\ prodPc' = "unlock"
    /\ ProducerStays /\ UNCHANGED <<queue, queueLock, failed, g_num_prod, c, consPc>>

\* Mutant: the loop runs once too often.
ProduceUnlock_OffByOne ==
    /\ prodPc = "unlock"
    /\ queueLock' = NoOne
    /\ prodPc' = IF c <= Letters THEN "lock" ELSE "decrement"
    /\ ProducerStays /\ UNCHANGED <<queue, back, failed, g_num_prod, c, consPc>>

ProduceUnlock ==
    /\ prodPc = "unlock"
    /\ queueLock' = NoOne
    /\ prodPc' = IF c < Letters THEN "lock" ELSE "decrement"
    /\ ProducerStays /\ UNCHANGED <<queue, back, failed, g_num_prod, c, consPc>>

\* Mutant: the producer returns without its decrement.
ProduceDecrement_Dropped ==
    /\ prodPc = "decrement"
    /\ prodPc' = "returned"
    /\ ProducerStays /\ UNCHANGED <<queue, back, queueLock, failed, g_num_prod, c, consPc>>

\* The only thread that writes g_num_prod; it does so without the lock.
ProduceDecrement ==
    /\ prodPc = "decrement"
    /\ g_num_prod' = g_num_prod - 1
    /\ prodPc' = IF g_num_prod = 1 THEN "join" ELSE "returned"
    /\ ProducerStays /\ UNCHANGED <<queue, back, queueLock, failed, c, consPc>>

ProduceJoin ==
    /\ prodPc = "join" /\ consPc[SecondConsumer] = "returned"
    /\ prodPc' = "returned"
    /\ ProducerStays /\ UNCHANGED <<queue, back, queueLock, failed, g_num_prod, c, consPc>>

Produce == \/ ProduceCreate \/ ProduceLock \/ ProduceLink \/ ProduceBack
           \/ ProduceUnlock \/ ProduceDecrement \/ ProduceJoin

-----------------------------------------------------------------------------
(* consumer_routine *)

ConsumerStays == UNCHANGED <<g_num_prod, c, mainPc, prodPc, total, failed>>
Goto(k, label) == consPc' = [consPc EXCEPT ![k] = label]

LockNum(k) ==
    /\ consPc[k] = "lockNum" /\ numLock = NoOne
    /\ numLock' = k /\ Goto(k, "front")
    /\ ConsumerStays /\ UNCHANGED <<queue, back, queueLock, item, count, taken>>

\* The loop condition: g_num_prod is read only if front was NULL.
ReadFront(k) ==
    /\ consPc[k] = "front"
    /\ Goto(k, IF queue # <<>> THEN "unlockNum" ELSE "num")
    /\ ConsumerStays /\ UNCHANGED <<locks, queue, back, item, count, taken>>

\* Mutant: a consumer leaves while the last producer still runs.
ReadNum_OffByOne(k) ==
    /\ consPc[k] = "num"
    /\ Goto(k, IF g_num_prod > 1 THEN "unlockNum" ELSE "leaveNum")
    /\ ConsumerStays /\ UNCHANGED <<locks, queue, back, item, count, taken>>

ReadNum(k) ==
    /\ consPc[k] = "num"
    /\ Goto(k, IF g_num_prod > 0 THEN "unlockNum" ELSE "leaveNum")
    /\ ConsumerStays /\ UNCHANGED <<locks, queue, back, item, count, taken>>

\* From the second iteration on the mutex may be free, or the other's.
UnlockNum(k) ==
    /\ consPc[k] = "unlockNum"
    /\ numLock' = NoOne /\ Goto(k, "lock")
    /\ ConsumerStays /\ UNCHANGED <<queue, back, queueLock, item, count, taken>>

LockQueue(k) ==
    /\ consPc[k] = "lock" /\ queueLock = NoOne
    /\ queueLock' = k /\ Goto(k, "test")
    /\ ConsumerStays /\ UNCHANGED <<queue, back, numLock, item, count, taken>>

FoundEmpty(k) ==
    /\ consPc[k] = "test" /\ queue = <<>>
    /\ queueLock' = NoOne /\ Goto(k, "front")
    /\ ConsumerStays /\ UNCHANGED <<queue, back, numLock, item, count, taken>>

\* Mutant: back is left pointing to the node that is freed.
Take_KeepsBack(k) ==
    /\ consPc[k] = "test" /\ queue # <<>>
    /\ item' = [item EXCEPT ![k] = Head(queue)]
    /\ Goto(k, "unlink")
    /\ ConsumerStays /\ UNCHANGED <<locks, queue, back, count, taken>>

Take(k) ==
    /\ consPc[k] = "test" /\ queue # <<>>
    /\ item' = [item EXCEPT ![k] = Head(queue)]
    /\ back' = (back /\ Len(queue) # 1)
    /\ Goto(k, "unlink")
    /\ ConsumerStays /\ UNCHANGED <<locks, queue, count, taken>>

\* front = front->next
Unlink(k) ==
    /\ consPc[k] = "unlink" /\ queue # <<>>
    /\ queue' = Tail(queue) /\ taken' = Append(taken, item[k])
    /\ Goto(k, "unlock")
    /\ ConsumerStays /\ UNCHANGED <<locks, back, item, count>>

UnlockQueue(k) ==
    /\ consPc[k] = "unlock"
    /\ queueLock' = NoOne /\ Goto(k, "print")
    /\ ConsumerStays /\ UNCHANGED <<queue, back, numLock, item, count, taken>>

PrintLetter(k) ==
    /\ consPc[k] = "print"
    /\ count' = [count EXCEPT ![k] = @ + 1]
    /\ item' = [item EXCEPT ![k] = 0]
    /\ Goto(k, "front")
    /\ ConsumerStays /\ UNCHANGED <<locks, queue, back, taken>>

LeaveNum(k) ==
    /\ consPc[k] = "leaveNum"
    /\ numLock' = NoOne /\ Goto(k, "leaveQueue")
    /\ ConsumerStays /\ UNCHANGED <<queue, back, queueLock, item, count, taken>>

\* Nobody who comes here holds the mutex; the other consumer may.
LeaveQueue(k) ==
    /\ consPc[k] = "leaveQueue"
    /\ queueLock' = NoOne /\ Goto(k, "returned")
    /\ ConsumerStays /\ UNCHANGED <<queue, back, numLock, item, count, taken>>

Consume(k) ==
    \/ LockNum(k) \/ ReadFront(k) \/ ReadNum(k) \/ UnlockNum(k) \/ LockQueue(k)
    \/ FoundEmpty(k) \/ Take(k) \/ Unlink(k) \/ UnlockQueue(k) \/ PrintLetter(k)
    \/ LeaveNum(k) \/ LeaveQueue(k)

Done == mainPc = "done" /\ UNCHANGED vars

Next == Main \/ Produce \/ (\E k \in Consumers : Consume(k)) \/ Done

Spec == Init /\ [][Next]_vars

(***************************************************************************)
(* Threads that can run are run; a thread that wants a mutex which becomes *)
(* free again and again gets it in the end: a consumer that finds the list *)
(* empty calls sched_yield after its unlock, and so does the producer.     *)
(***************************************************************************)
FairSpec ==
    /\ Spec
    /\ WF_vars(Main) /\ WF_vars(Produce) /\ SF_vars(ProduceLock)
    /\ \A k \in Consumers : /\ WF_vars(Consume(k))
                            /\ SF_vars(LockNum(k) \/ LockQueue(k))

-----------------------------------------------------------------------------
ConsumerLabels ==
    {"unborn", "lockNum", "front", "num", "unlockNum", "lock", "test", "unlink",
     "unlock", "print", "leaveNum", "leaveQueue", "returned"}

\* Type invariant; -1 in total says that main has not printed yet.
TypeOK ==
    /\ queue \in Seq(Nat) /\ taken \in Seq(Nat)
    /\ back \in BOOLEAN /\ failed \in BOOLEAN
    /\ queueLock \in Consumers \union {Producer, NoOne}
    /\ numLock \in Consumers \union {NoOne}
    /\ g_num_prod \in {0, 1} /\ c \in 0..Letters /\ total \in Nat \union {-1}
    /\ mainPc \in {"createProducer", "createConsumer", "joinProducer", "joinConsumer", "done"}
    /\ prodPc \in {"unborn", "create", "lock", "link", "back", "unlock", "decrement",
                   "join", "returned"}
    /\ consPc \in [Consumers -> ConsumerLabels]
    /\ item \in [Consumers -> Nat] /\ count \in [Consumers -> Nat]

Producing == prodPc \in {"link", "back", "unlock"}
Popping(k) == consPc[k] \in {"test", "unlink", "unlock"}

\* At most one thread is between lock and unlock of queue->lock, although a
\* consumer that leaves its loop unlocks the mutex whoever holds it.
MutualExclusion ==
    /\ \A k \in Consumers : ~(Producing /\ Popping(k))
    /\ ~(Popping(MainConsumer) /\ Popping(SecondConsumer))

\* The first n letters.
Alphabet(n) == [i \in 1..n |-> i]

\* The letters are taken off the list in the order in which they were added,
\* none twice and none skipped, and the producer's asserts on front and back
\* never fail.
LettersInOrder ==
    /\ ~failed
    /\ taken \o queue = Alphabet(c)

\* When main prints the number of letters, it is the number of letters that
\* were taken off the list: no consumer still holds one.
TotalIsTaken == mainPc = "done" => total = Len(taken)

\* "terminate the loop only when there are no more items in the queue AND
\* the producer threads are all done" (comment in consumer_routine): when both
\* consumers have ended, no letter is left.
NoLetterLeft == mainPc = "done" => queue = <<>>

\* The program ends, for all that the loop condition is read without a lock.
Terminates == <>(mainPc = "done")

=============================================================================
