----------------------- MODULE ProducerConsumerProofs -----------------------
(***************************************************************************)
(* The safety of producer_consumer.c, for every number of letters.         *)
(***************************************************************************)
EXTENDS ProducerConsumer, SequenceTheorems, TLAPS

Leaving(k) == consPc[k] \in {"leaveNum", "leaveQueue", "returned"}
Other(k) == IF k = MainConsumer THEN SecondConsumer ELSE MainConsumer

\* Who has been started, and who is past a join.
Order ==
    /\ mainPc = "createProducer" <=> prodPc = "unborn"
    /\ mainPc \in {"createProducer", "createConsumer"} <=> consPc[MainConsumer] = "unborn"
    /\ prodPc \in {"unborn", "create"} <=> consPc[SecondConsumer] = "unborn"
    /\ prodPc = "returned" => consPc[SecondConsumer] = "returned"
    /\ mainPc \in {"joinConsumer", "done"} => prodPc = "returned"
    /\ mainPc = "done" => consPc[MainConsumer] = "returned"

\* What the producer still has to add.
ToAdd ==
    /\ prodPc \in {"unborn", "create"} => c = 0
    /\ prodPc \in {"lock", "link"} => c < Letters
    /\ g_num_prod = IF prodPc \in {"join", "returned"} THEN 0 ELSE 1

\* A stray unlock comes only when the producer is out of its loop: the mutex
\* is lost to its holder only when the other consumer has returned.
Locking ==
    /\ \A k \in Consumers : Leaving(k) => g_num_prod = 0
    /\ Producing => queueLock = Producer
    /\ \A k \in Consumers : Popping(k) /\ consPc[Other(k)] # "returned" => queueLock = k

\* front and back agree but within an insertion or a removal.
FrontAndBack ==
    /\ \A k \in Consumers : consPc[k] = "unlink" =>
          /\ queue # <<>> /\ item[k] = Head(queue)
          /\ back <=> Len(queue) # 1
    /\ prodPc = "back" => queue # <<>>
    /\ prodPc # "back" /\ (\A k \in Consumers : consPc[k] # "unlink") => (back <=> queue # <<>>)

Carried(k) == IF consPc[k] \in {"unlock", "print"} THEN 1 ELSE 0

\* Each letter taken was printed or is about to be.
Counting ==
    /\ Len(taken) = count[MainConsumer] + count[SecondConsumer]
                      + Carried(MainConsumer) + Carried(SecondConsumer)
    /\ TotalIsTaken

Inv == TypeOK /\ Order /\ ToAdd /\ Locking /\ FrontAndBack /\ LettersInOrder /\ Counting

-----------------------------------------------------------------------------
(* The list operations *)

\* Concatenation of letters is associative.
LEMMA Associative == \A a, b, d \in Seq(Nat) : (a \o b) \o d = a \o (b \o d)
    OBVIOUS

\* Append reaches through a concatenation.
LEMMA AppendConcat ==
    ASSUME NEW t \in Seq(Nat), NEW q \in Seq(Nat), NEW e \in Nat
    PROVE  t \o Append(q, e) = Append(t \o q, e)
<1>1. Append(q, e) = q \o <<e>> /\ t \o q \in Seq(Nat)
    BY AppendIsConcat, ConcatProperties
<1>2. Append(t \o q, e) = (t \o q) \o <<e>>
    BY <1>1, AppendIsConcat
<1>3. <<e>> \in Seq(Nat)
    OBVIOUS
<1>4. (t \o q) \o <<e>> = t \o (q \o <<e>>)
    BY <1>3, Associative, Zenon
<1> QED BY <1>1, <1>2, <1>4

\* The producer adds the next letter at the end.
LEMMA AddLetter ==
    ASSUME NEW t \in Seq(Nat), NEW q \in Seq(Nat), NEW n \in Nat,
           t \o q = Alphabet(n)
    PROVE  t \o Append(q, n + 1) = Alphabet(n + 1)
<1>1. \A e \in Nat : t \o Append(q, e) = Append(t \o q, e)
    BY AppendConcat
<1>2. t \o Append(q, n + 1) = Append(Alphabet(n), n + 1)
    BY <1>1
<1>3. Append(Alphabet(n), n + 1) = Alphabet(n + 1)
    BY DEF Alphabet
<1> QED BY <1>2, <1>3

\* A consumer moves the first letter of the list to what was taken.
LEMMA MoveLetter ==
    ASSUME NEW t \in Seq(Nat), NEW q \in Seq(Nat), q # <<>>
    PROVE  /\ Head(q) \in Nat /\ Tail(q) \in Seq(Nat)
           /\ Append(t, Head(q)) \in Seq(Nat)
           /\ Len(Append(t, Head(q))) = Len(t) + 1
           /\ Tail(q) # <<>> <=> Len(q) # 1
           /\ Append(t, Head(q)) \o Tail(q) = t \o q
<1>1. Head(q) \in Nat /\ Tail(q) \in Seq(Nat) /\ <<Head(q)>> \in Seq(Nat)
    BY HeadTailProperties
<1>2. Append(t, Head(q)) \in Seq(Nat) /\ Len(Append(t, Head(q))) = Len(t) + 1
    BY <1>1, AppendProperties
<1>3. Tail(q) # <<>> <=> Len(q) # 1
  <2>1. Len(Tail(q)) = Len(q) - 1 /\ Len(q) \in Nat
      BY HeadTailProperties, LenProperties
  <2>2. \A x \in Seq(Nat) : x = <<>> <=> Len(x) = 0
      OBVIOUS
  <2>3. Tail(q) = <<>> <=> Len(Tail(q)) = 0
      BY <1>1, <2>2
  <2>4. Len(Tail(q)) = 0 <=> Len(q) = 1
      BY <2>1
  <2> QED BY <2>3, <2>4
<1>4. q = <<Head(q)>> \o Tail(q)
  <2>1. Len(<<Head(q)>> \o Tail(q)) = Len(q) /\ Len(q) \in Nat
      BY <1>1, HeadTailProperties, ConcatProperties, LenProperties
  <2>2. \A i \in 1 .. Len(q) : q[i] = (<<Head(q)>> \o Tail(q))[i]
      BY <1>1, HeadTailProperties
  <2>3. <<Head(q)>> \o Tail(q) \in Seq(Nat)
      BY <1>1, ConcatProperties
  <2> QED BY <2>1, <2>2, <2>3, SeqEqual
<1>5. Append(t, Head(q)) = t \o <<Head(q)>>
    BY <1>1, AppendIsConcat
<1>6. (t \o <<Head(q)>>) \o Tail(q) = t \o (<<Head(q)>> \o Tail(q))
    BY <1>1, Associative, Zenon
<1>7. Append(t, Head(q)) \o Tail(q) = t \o q
    BY <1>4, <1>5, <1>6, Zenon
<1> QED BY <1>1, <1>2, <1>3, <1>7

-----------------------------------------------------------------------------
(* What the invariant says about the list's mutex *)

\* Nobody else is at the list while the producer or a consumer is.
LEMMA Exclusion == Inv => MutualExclusion
<1> SUFFICES ASSUME Inv PROVE MutualExclusion
    OBVIOUS
<1> USE ProducerConsumerAssumption DEF Inv, Consumers
<1>1. ASSUME NEW k \in Consumers, Producing PROVE ~Popping(k)
    BY <1>1 DEF Locking, ToAdd, Leaving, Other, Producing
<1>2. ~(Popping(MainConsumer) /\ Popping(SecondConsumer))
    BY DEF Locking, Other, Popping
<1> QED BY <1>1, <1>2 DEF MutualExclusion

-----------------------------------------------------------------------------
(* Every step keeps the invariant *)

\* Main starts the producer.
LEMMA CreateProducerInv ==
    ASSUME Inv, CreateProducer
    PROVE  Inv'
<1> USE ProducerConsumerAssumption DEF Inv, CreateProducer, MainStays, Consumers, locks, list
<1>1. TypeOK'
    BY DEF TypeOK, ConsumerLabels
<1>2. Order'
    BY DEF Order, TypeOK
<1>3. ToAdd'
    BY DEF ToAdd, Order
<1>4. Locking'
    BY DEF Locking, Leaving, Other, Producing, Popping, TypeOK, Order, ToAdd
<1>5. FrontAndBack'
    BY DEF FrontAndBack, TypeOK, Order
<1>6. LettersInOrder'
    BY DEF LettersInOrder, TypeOK
<1>7. Counting'
    BY DEF Counting, Carried, TotalIsTaken, TypeOK, Order
<1> QED BY <1>1, <1>2, <1>3, <1>4, <1>5, <1>6, <1>7

\* Main starts its consumer.
LEMMA CreateConsumerInv ==
    ASSUME Inv, CreateConsumer
    PROVE  Inv'
<1> USE ProducerConsumerAssumption DEF Inv, CreateConsumer, MainStays, Consumers, locks, list
<1>1. TypeOK'
    BY DEF TypeOK, ConsumerLabels
<1>2. Order'
    BY DEF Order, TypeOK
<1>3. ToAdd'
    BY DEF ToAdd, TypeOK
<1>4. Locking'
    BY DEF Locking, Leaving, Other, Producing, Popping, TypeOK, Order, ToAdd
<1>5. FrontAndBack'
    BY DEF FrontAndBack, TypeOK, Order, ConsumerLabels
<1>6. LettersInOrder'
    BY DEF LettersInOrder, TypeOK
<1>7. Counting'
    BY DEF Counting, Carried, TotalIsTaken, TypeOK, Order
<1> QED BY <1>1, <1>2, <1>3, <1>4, <1>5, <1>6, <1>7

\* Main joins the producer.
LEMMA JoinProducerInv ==
    ASSUME Inv, JoinProducer
    PROVE  Inv'
<1> USE ProducerConsumerAssumption DEF Inv, JoinProducer, MainStays, Consumers, locks, list
<1>1. TypeOK'
    BY DEF TypeOK, ConsumerLabels
<1>2. Order'
    BY DEF Order, TypeOK
<1>3. ToAdd'
    BY DEF ToAdd, TypeOK
<1>4. Locking'
    BY DEF Locking, Leaving, Other, Producing, Popping, TypeOK, Order, ToAdd
<1>5. FrontAndBack'
    BY DEF FrontAndBack, TypeOK
<1>6. LettersInOrder'
    BY DEF LettersInOrder, TypeOK
<1>7. Counting'
    BY DEF Counting, Carried, TotalIsTaken, TypeOK, Order
<1> QED BY <1>1, <1>2, <1>3, <1>4, <1>5, <1>6, <1>7

\* Main joins its consumer and adds up: neither consumer carries a letter.
LEMMA JoinConsumerInv ==
    ASSUME Inv, JoinConsumer
    PROVE  Inv'
<1> USE ProducerConsumerAssumption DEF Inv, JoinConsumer, MainStays, Consumers, locks, list
<1>1. TypeOK'
    BY DEF TypeOK, ConsumerLabels
<1>2. Order'
    BY DEF Order, TypeOK
<1>3. ToAdd'
    BY DEF ToAdd, TypeOK
<1>4. Locking'
    BY DEF Locking, Leaving, Other, Producing, Popping, TypeOK, Order, ToAdd
<1>5. FrontAndBack'
    BY DEF FrontAndBack, TypeOK
<1>6. LettersInOrder'
    BY DEF LettersInOrder, TypeOK
<1>7. Counting'
    BY DEF Counting, Carried, TotalIsTaken, TypeOK, Order
<1> QED BY <1>1, <1>2, <1>3, <1>4, <1>5, <1>6, <1>7

\* The producer starts the second consumer.
LEMMA ProduceCreateInv ==
    ASSUME Inv, ProduceCreate
    PROVE  Inv'
<1> USE ProducerConsumerAssumption DEF Inv, ProduceCreate, ProducerStays, Consumers, locks, list
<1>1. TypeOK'
    BY DEF TypeOK, ConsumerLabels
<1>2. Order'
    BY DEF Order, TypeOK
<1>3. ToAdd'
    BY DEF ToAdd, TypeOK
<1>4. Locking'
    BY DEF Locking, Leaving, Other, Producing, Popping, TypeOK, Order, ToAdd
<1>5. FrontAndBack'
    BY DEF FrontAndBack, TypeOK, Order, ConsumerLabels
<1>6. LettersInOrder'
    BY DEF LettersInOrder, TypeOK
<1>7. Counting'
    BY DEF Counting, Carried, TotalIsTaken, TypeOK, Order
<1> QED BY <1>1, <1>2, <1>3, <1>4, <1>5, <1>6, <1>7

\* The producer enters: no consumer has left, the mutex is nobody's.
LEMMA ProduceLockInv ==
    ASSUME Inv, ProduceLock
    PROVE  Inv'
<1> USE ProducerConsumerAssumption DEF Inv, ProduceLock, ProducerStays, Consumers, locks, list
<1>1. TypeOK'
    BY DEF TypeOK, ConsumerLabels
<1>2. Order'
    BY DEF Order, TypeOK
<1>3. ToAdd'
    BY DEF ToAdd, TypeOK
<1>4. Locking'
    BY DEF Locking, Leaving, Other, Producing, Popping, TypeOK, Order, ToAdd
<1>5. FrontAndBack'
    BY DEF FrontAndBack, TypeOK
<1>6. LettersInOrder'
    BY DEF LettersInOrder, TypeOK
<1>7. Counting'
    BY DEF Counting, Carried, TotalIsTaken, TypeOK, Order
<1> QED BY <1>1, <1>2, <1>3, <1>4, <1>5, <1>6, <1>7

\* The producer links the next letter: nobody else is at the list.
LEMMA ProduceLinkInv ==
    ASSUME Inv, ProduceLink
    PROVE  Inv'
<1> USE ProducerConsumerAssumption DEF Inv, ProduceLink, ProducerStays, Consumers, locks, list
<1>1. TypeOK'
    BY DEF TypeOK, ToAdd
<1>2. Order'
    BY DEF Order, TypeOK
<1>3. ToAdd'
    BY DEF ToAdd, TypeOK
<1>4. Locking'
    BY DEF Locking, Leaving, Other, Producing, Popping, TypeOK, Order, ToAdd
<1>5. FrontAndBack'
  <2>1. \A k \in Consumers : consPc[k] # "unlink"
      BY Exclusion DEF MutualExclusion, Producing, Popping
  <2>2. queue' # <<>>
    <3>1. queue \in Seq(Nat) /\ c + 1 \in Nat
        BY DEF TypeOK
    <3>2. Append(queue, c + 1) # <<>>
        BY <3>1, AppendProperties
    <3>3. <<c + 1>> # <<>>
        OBVIOUS
    <3> QED BY <3>2, <3>3
  <2> QED BY <2>1, <2>2 DEF FrontAndBack
<1>6. LettersInOrder'
  <2>1. \A k \in Consumers : consPc[k] # "unlink"
      BY Exclusion DEF MutualExclusion, Producing, Popping
  <2>2. back <=> queue # <<>>
      BY <2>1 DEF FrontAndBack
  <2>3. queue' = Append(queue, c + 1)
    <3>1. CASE queue = <<>>
        BY <2>2, <3>1
    <3>2. CASE queue # <<>>
        BY <2>2, <3>2
    <3> QED BY <3>1, <3>2
  <2>4. taken' \o queue' = Alphabet(c')
    <3>1. taken \in Seq(Nat) /\ queue \in Seq(Nat) /\ c \in Nat
        BY DEF TypeOK
    <3>2. taken \o queue = Alphabet(c)
        BY DEF LettersInOrder
    <3>3. taken \o Append(queue, c + 1) = Alphabet(c + 1)
        BY <3>1, <3>2, AddLetter
    <3> QED BY <2>3, <3>3
  <2>5. ~failed'
      BY <2>2 DEF LettersInOrder, TypeOK
  <2> QED BY <2>4, <2>5 DEF LettersInOrder
<1>7. Counting'
    BY DEF Counting, Carried, TotalIsTaken, TypeOK, Order
<1> QED BY <1>1, <1>2, <1>3, <1>4, <1>5, <1>6, <1>7

\* The producer sets back.
LEMMA ProduceBackInv ==
    ASSUME Inv, ProduceBack
    PROVE  Inv'
<1> USE ProducerConsumerAssumption DEF Inv, ProduceBack, ProducerStays, Consumers, locks, list
<1>1. TypeOK'
    BY DEF TypeOK, ConsumerLabels
<1>2. Order'
    BY DEF Order, TypeOK
<1>3. ToAdd'
    BY DEF ToAdd, TypeOK
<1>4. Locking'
    BY DEF Locking, Leaving, Other, Producing, Popping, TypeOK, Order, ToAdd
<1>5. FrontAndBack'
  <2>1. \A k \in Consumers : consPc[k] # "unlink"
      BY Exclusion DEF MutualExclusion, Producing, Popping
  <2> QED BY <2>1 DEF FrontAndBack
<1>6. LettersInOrder'
    BY DEF LettersInOrder, TypeOK
<1>7. Counting'
    BY DEF Counting, Carried, TotalIsTaken, TypeOK, Order
<1> QED BY <1>1, <1>2, <1>3, <1>4, <1>5, <1>6, <1>7

\* The producer leaves the list.
LEMMA ProduceUnlockInv ==
    ASSUME Inv, ProduceUnlock
    PROVE  Inv'
<1> USE ProducerConsumerAssumption DEF Inv, ProduceUnlock, ProducerStays, Consumers, locks, list
<1>1. TypeOK'
    BY DEF TypeOK, ConsumerLabels
<1>2. Order'
    BY DEF Order, TypeOK
<1>3. ToAdd'
    BY DEF ToAdd, TypeOK
<1>4. Locking'
    BY DEF Locking, Leaving, Other, Producing, Popping, TypeOK, Order, ToAdd
<1>5. FrontAndBack'
    BY DEF FrontAndBack, TypeOK
<1>6. LettersInOrder'
    BY DEF LettersInOrder, TypeOK
<1>7. Counting'
    BY DEF Counting, Carried, TotalIsTaken, TypeOK, Order
<1> QED BY <1>1, <1>2, <1>3, <1>4, <1>5, <1>6, <1>7

\* The producer is out of its loop.
LEMMA ProduceDecrementInv ==
    ASSUME Inv, ProduceDecrement
    PROVE  Inv'
<1> USE ProducerConsumerAssumption DEF Inv, ProduceDecrement, ProducerStays, Consumers, locks, list
<1>1. TypeOK'
    BY DEF TypeOK, ToAdd
<1>2. Order'
    BY DEF Order, ToAdd, TypeOK
<1>3. ToAdd'
    BY DEF ToAdd, TypeOK
<1>4. Locking'
    BY DEF Locking, Leaving, Other, Producing, Popping, TypeOK, Order, ToAdd
<1>5. FrontAndBack'
    BY DEF FrontAndBack, TypeOK
<1>6. LettersInOrder'
    BY DEF LettersInOrder, TypeOK
<1>7. Counting'
    BY DEF Counting, Carried, TotalIsTaken, TypeOK, Order
<1> QED BY <1>1, <1>2, <1>3, <1>4, <1>5, <1>6, <1>7

\* The producer joins the second consumer.
LEMMA ProduceJoinInv ==
    ASSUME Inv, ProduceJoin
    PROVE  Inv'
<1> USE ProducerConsumerAssumption DEF Inv, ProduceJoin, ProducerStays, Consumers, locks, list
<1>1. TypeOK'
    BY DEF TypeOK, ConsumerLabels
<1>2. Order'
    BY DEF Order, TypeOK
<1>3. ToAdd'
    BY DEF ToAdd, TypeOK
<1>4. Locking'
    BY DEF Locking, Leaving, Other, Producing, Popping, TypeOK, Order, ToAdd
<1>5. FrontAndBack'
    BY DEF FrontAndBack, TypeOK
<1>6. LettersInOrder'
    BY DEF LettersInOrder, TypeOK
<1>7. Counting'
    BY DEF Counting, Carried, TotalIsTaken, TypeOK, Order
<1> QED BY <1>1, <1>2, <1>3, <1>4, <1>5, <1>6, <1>7

\* The lock of the first test.
LEMMA LockNumInv ==
    ASSUME Inv, NEW k \in Consumers, LockNum(k)
    PROVE  Inv'
<1> USE ProducerConsumerAssumption DEF Inv, LockNum, ConsumerStays, Consumers, locks, list, Goto
<1>1. TypeOK'
    BY DEF TypeOK, ConsumerLabels
<1>2. Order'
    BY DEF Order, TypeOK
<1>3. ToAdd'
    BY DEF ToAdd, TypeOK
<1>4. Locking'
    BY DEF Locking, Leaving, Other, Producing, Popping, TypeOK, Order, ToAdd
<1>5. FrontAndBack'
    BY DEF FrontAndBack, TypeOK
<1>6. LettersInOrder'
    BY DEF LettersInOrder, TypeOK
<1>7. Counting'
    BY DEF Counting, Carried, TotalIsTaken, TypeOK, Order
<1> QED BY <1>1, <1>2, <1>3, <1>4, <1>5, <1>6, <1>7

\* The first operand of the loop condition.
LEMMA ReadFrontInv ==
    ASSUME Inv, NEW k \in Consumers, ReadFront(k)
    PROVE  Inv'
<1> USE ProducerConsumerAssumption DEF Inv, ReadFront, ConsumerStays, Consumers, locks, list, Goto
<1>1. TypeOK'
    BY DEF TypeOK, ConsumerLabels
<1>2. Order'
    BY DEF Order, TypeOK
<1>3. ToAdd'
    BY DEF ToAdd, TypeOK
<1>4. Locking'
    BY DEF Locking, Leaving, Other, Producing, Popping, TypeOK, Order, ToAdd
<1>5. FrontAndBack'
    BY DEF FrontAndBack, TypeOK
<1>6. LettersInOrder'
    BY DEF LettersInOrder, TypeOK
<1>7. Counting'
    BY DEF Counting, Carried, TotalIsTaken, TypeOK, Order
<1> QED BY <1>1, <1>2, <1>3, <1>4, <1>5, <1>6, <1>7

\* The second operand: only a consumer that reads 0 leaves.
LEMMA ReadNumInv ==
    ASSUME Inv, NEW k \in Consumers, ReadNum(k)
    PROVE  Inv'
<1> USE ProducerConsumerAssumption DEF Inv, ReadNum, ConsumerStays, Consumers, locks, list, Goto
<1>1. TypeOK'
    BY DEF TypeOK, ConsumerLabels
<1>2. Order'
    BY DEF Order, TypeOK
<1>3. ToAdd'
    BY DEF ToAdd, TypeOK
<1>4. Locking'
    BY DEF Locking, Leaving, Other, Producing, Popping, TypeOK, Order, ToAdd
<1>5. FrontAndBack'
    BY DEF FrontAndBack, TypeOK
<1>6. LettersInOrder'
    BY DEF LettersInOrder, TypeOK
<1>7. Counting'
    BY DEF Counting, Carried, TotalIsTaken, TypeOK, Order
<1> QED BY <1>1, <1>2, <1>3, <1>4, <1>5, <1>6, <1>7

\* The unlock at the start of the loop's body.
LEMMA UnlockNumInv ==
    ASSUME Inv, NEW k \in Consumers, UnlockNum(k)
    PROVE  Inv'
<1> USE ProducerConsumerAssumption DEF Inv, UnlockNum, ConsumerStays, Consumers, locks, list, Goto
<1>1. TypeOK'
    BY DEF TypeOK, ConsumerLabels
<1>2. Order'
    BY DEF Order, TypeOK
<1>3. ToAdd'
    BY DEF ToAdd, TypeOK
<1>4. Locking'
    BY DEF Locking, Leaving, Other, Producing, Popping, TypeOK, Order, ToAdd
<1>5. FrontAndBack'
    BY DEF FrontAndBack, TypeOK
<1>6. LettersInOrder'
    BY DEF LettersInOrder, TypeOK
<1>7. Counting'
    BY DEF Counting, Carried, TotalIsTaken, TypeOK, Order
<1> QED BY <1>1, <1>2, <1>3, <1>4, <1>5, <1>6, <1>7

\* A consumer enters: the other is not at the list, or it would hold the
\* mutex.
LEMMA LockQueueInv ==
    ASSUME Inv, NEW k \in Consumers, LockQueue(k)
    PROVE  Inv'
<1> USE ProducerConsumerAssumption DEF Inv, LockQueue, ConsumerStays, Consumers, locks, list, Goto
<1>1. TypeOK'
    BY DEF TypeOK, ConsumerLabels
<1>2. Order'
    BY DEF Order, TypeOK
<1>3. ToAdd'
    BY DEF ToAdd, TypeOK
<1>4. Locking'
    BY DEF Locking, Leaving, Other, Producing, Popping, TypeOK, Order, ToAdd
<1>5. FrontAndBack'
    BY DEF FrontAndBack, TypeOK
<1>6. LettersInOrder'
    BY DEF LettersInOrder, TypeOK
<1>7. Counting'
    BY DEF Counting, Carried, TotalIsTaken, TypeOK, Order
<1> QED BY <1>1, <1>2, <1>3, <1>4, <1>5, <1>6, <1>7

\* A consumer leaves an empty list.
LEMMA FoundEmptyInv ==
    ASSUME Inv, NEW k \in Consumers, FoundEmpty(k)
    PROVE  Inv'
<1> USE ProducerConsumerAssumption DEF Inv, FoundEmpty, ConsumerStays, Consumers, locks, list, Goto
<1>1. TypeOK'
    BY DEF TypeOK, ConsumerLabels
<1>2. Order'
    BY DEF Order, TypeOK
<1>3. ToAdd'
    BY DEF ToAdd, TypeOK
<1>4. Locking'
    BY DEF Locking, Leaving, Other, Producing, Popping, TypeOK, Order, ToAdd
<1>5. FrontAndBack'
    BY DEF FrontAndBack, TypeOK
<1>6. LettersInOrder'
    BY DEF LettersInOrder, TypeOK
<1>7. Counting'
    BY DEF Counting, Carried, TotalIsTaken, TypeOK, Order
<1> QED BY <1>1, <1>2, <1>3, <1>4, <1>5, <1>6, <1>7

\* A consumer reads the first letter and adjusts back.
LEMMA TakeInv ==
    ASSUME Inv, NEW k \in Consumers, Take(k)
    PROVE  Inv'
<1> USE ProducerConsumerAssumption DEF Inv, Take, ConsumerStays, Consumers, locks, list, Goto
<1>1. TypeOK'
    BY DEF TypeOK, ConsumerLabels
<1>2. Order'
    BY DEF Order, TypeOK
<1>3. ToAdd'
    BY DEF ToAdd, TypeOK
<1>4. Locking'
    BY DEF Locking, Leaving, Other, Producing, Popping, TypeOK, Order, ToAdd
<1>5. FrontAndBack'
  <2>1. prodPc # "back" /\ \A l \in Consumers : consPc[l] # "unlink"
      BY Exclusion DEF MutualExclusion, Producing, Popping
  <2>2. back
      BY <2>1 DEF FrontAndBack
  <2>3. back' <=> Len(queue) # 1
      BY <2>2
  <2>4. item'[k] = Head(queue) /\ consPc'[k] = "unlink"
      BY DEF TypeOK
  <2>5. \A l \in Consumers \ {k} : consPc'[l] # "unlink"
      BY <2>1 DEF TypeOK
  <2> QED BY <2>1, <2>3, <2>4, <2>5 DEF FrontAndBack
<1>6. LettersInOrder'
    BY DEF LettersInOrder, TypeOK
<1>7. Counting'
    BY DEF Counting, Carried, TotalIsTaken, TypeOK, Order
<1> QED BY <1>1, <1>2, <1>3, <1>4, <1>5, <1>6, <1>7

\* A consumer moves front on.
LEMMA UnlinkInv ==
    ASSUME Inv, NEW k \in Consumers, Unlink(k)
    PROVE  Inv'
<1> USE ProducerConsumerAssumption DEF Inv, Unlink, ConsumerStays, Consumers, locks, list, Goto
<1>1. TypeOK'
    BY DEF TypeOK, ConsumerLabels
<1>2. Order'
    BY DEF Order, TypeOK
<1>3. ToAdd'
    BY DEF ToAdd, TypeOK
<1>4. Locking'
    BY DEF Locking, Leaving, Other, Producing, Popping, TypeOK, Order, ToAdd
<1>5. FrontAndBack'
  <2>1. prodPc # "back" /\ \A l \in Consumers \ {k} : consPc[l] # "unlink"
      BY Exclusion DEF MutualExclusion, Producing, Popping
  <2>2. back <=> queue' # <<>>
      BY MoveLetter DEF FrontAndBack, TypeOK
  <2>3. \A l \in Consumers : consPc'[l] # "unlink"
      BY <2>1 DEF TypeOK
  <2> QED BY <2>1, <2>2, <2>3 DEF FrontAndBack
<1>6. LettersInOrder'
  <2>1. taken' = Append(taken, Head(queue))
      BY DEF FrontAndBack
  <2> QED BY <2>1, MoveLetter DEF LettersInOrder, TypeOK
<1>7. Counting'
  <2>1. Len(taken') = Len(taken) + 1
      BY DEF TypeOK
  <2>2. Carried(k) = 0 /\ Carried(k)' = 1
      BY DEF Carried, TypeOK
  <2>3. \A l \in Consumers \ {k} : Carried(l)' = Carried(l)
      BY DEF Carried, TypeOK
  <2>4. mainPc # "done"
      BY DEF Order
  <2>5. TotalIsTaken'
      BY <2>4 DEF TotalIsTaken
  <2>6. \A l \in Consumers : Carried(l) \in {0, 1} /\ count[l] \in Nat
      BY DEF Carried, TypeOK
  <2>7. UNCHANGED count /\ Len(taken) \in Nat
      BY DEF TypeOK
  <2>8. Len(taken) = count[MainConsumer] + count[SecondConsumer]
                       + Carried(MainConsumer) + Carried(SecondConsumer)
      BY DEF Counting
  <2>9. Len(taken') = count'[MainConsumer] + count'[SecondConsumer]
                        + Carried(MainConsumer)' + Carried(SecondConsumer)'
    <3> HIDE DEF Inv, Unlink, ConsumerStays, Goto
    <3>1. CASE k = MainConsumer
        BY <2>1, <2>2, <2>3, <2>6, <2>7, <2>8, <3>1
    <3>2. CASE k = SecondConsumer
        BY <2>1, <2>2, <2>3, <2>6, <2>7, <2>8, <3>2
    <3> QED BY <3>1, <3>2
  <2> QED BY <2>5, <2>9 DEF Counting
<1> QED BY <1>1, <1>2, <1>3, <1>4, <1>5, <1>6, <1>7

\* A consumer leaves the list with a letter.
LEMMA UnlockQueueInv ==
    ASSUME Inv, NEW k \in Consumers, UnlockQueue(k)
    PROVE  Inv'
<1> USE ProducerConsumerAssumption DEF Inv, UnlockQueue, ConsumerStays, Consumers, locks, list, Goto
<1>1. TypeOK'
    BY DEF TypeOK, ConsumerLabels
<1>2. Order'
    BY DEF Order, TypeOK
<1>3. ToAdd'
    BY DEF ToAdd, TypeOK
<1>4. Locking'
    BY DEF Locking, Leaving, Other, Producing, Popping, TypeOK, Order, ToAdd
<1>5. FrontAndBack'
    BY DEF FrontAndBack, TypeOK
<1>6. LettersInOrder'
    BY DEF LettersInOrder, TypeOK
<1>7. Counting'
    BY DEF Counting, Carried, TotalIsTaken, TypeOK, Order
<1> QED BY <1>1, <1>2, <1>3, <1>4, <1>5, <1>6, <1>7

\* The letter is printed and counted.
LEMMA PrintLetterInv ==
    ASSUME Inv, NEW k \in Consumers, PrintLetter(k)
    PROVE  Inv'
<1> USE ProducerConsumerAssumption DEF Inv, PrintLetter, ConsumerStays, Consumers, locks, list, Goto
<1>1. TypeOK'
    BY DEF TypeOK, ConsumerLabels
<1>2. Order'
    BY DEF Order, TypeOK
<1>3. ToAdd'
    BY DEF ToAdd, TypeOK
<1>4. Locking'
    BY DEF Locking, Leaving, Other, Producing, Popping, TypeOK, Order, ToAdd
<1>5. FrontAndBack'
    BY DEF FrontAndBack, TypeOK
<1>6. LettersInOrder'
    BY DEF LettersInOrder, TypeOK
<1>7. Counting'
  <2>1. Carried(k) = 1 /\ Carried(k)' = 0 /\ count'[k] = count[k] + 1
      BY DEF Carried, TypeOK
  <2>2. \A l \in Consumers \ {k} : Carried(l)' = Carried(l) /\ count'[l] = count[l]
      BY DEF Carried, TypeOK
  <2>3. TotalIsTaken'
      BY DEF Order, TotalIsTaken
  <2>4. \A l \in Consumers : Carried(l) \in {0, 1} /\ count[l] \in Nat
      BY DEF Carried, TypeOK
  <2>5. /\ UNCHANGED taken
        /\ Len(taken) = count[MainConsumer] + count[SecondConsumer]
                          + Carried(MainConsumer) + Carried(SecondConsumer)
      BY DEF Counting
  <2>6. Len(taken') = count'[MainConsumer] + count'[SecondConsumer]
                        + Carried(MainConsumer)' + Carried(SecondConsumer)'
    <3> HIDE DEF Inv, PrintLetter, ConsumerStays, Goto
    <3>1. CASE k = MainConsumer
        BY <2>1, <2>2, <2>4, <2>5, <3>1
    <3>2. CASE k = SecondConsumer
        BY <2>1, <2>2, <2>4, <2>5, <3>2
    <3> QED BY <3>1, <3>2
  <2> QED BY <2>3, <2>6 DEF Counting
<1> QED BY <1>1, <1>2, <1>3, <1>4, <1>5, <1>6, <1>7

\* The stray unlock of g_num_prod_lock.
LEMMA LeaveNumInv ==
    ASSUME Inv, NEW k \in Consumers, LeaveNum(k)
    PROVE  Inv'
<1> USE ProducerConsumerAssumption DEF Inv, LeaveNum, ConsumerStays, Consumers, locks, list, Goto
<1>1. TypeOK'
    BY DEF TypeOK, ConsumerLabels
<1>2. Order'
    BY DEF Order, TypeOK
<1>3. ToAdd'
    BY DEF ToAdd, TypeOK
<1>4. Locking'
    BY DEF Locking, Leaving, Other, Producing, Popping, TypeOK, Order, ToAdd
<1>5. FrontAndBack'
    BY DEF FrontAndBack, TypeOK
<1>6. LettersInOrder'
    BY DEF LettersInOrder, TypeOK
<1>7. Counting'
    BY DEF Counting, Carried, TotalIsTaken, TypeOK, Order
<1> QED BY <1>1, <1>2, <1>3, <1>4, <1>5, <1>6, <1>7

\* The stray unlock of queue->lock: the producer is out of its loop, and the
\* other consumer is alone.
LEMMA LeaveQueueInv ==
    ASSUME Inv, NEW k \in Consumers, LeaveQueue(k)
    PROVE  Inv'
<1> USE ProducerConsumerAssumption DEF Inv, LeaveQueue, ConsumerStays, Consumers, locks, list, Goto
<1>1. TypeOK'
    BY DEF TypeOK, ConsumerLabels
<1>2. Order'
    BY DEF Order, TypeOK
<1>3. ToAdd'
    BY DEF ToAdd, TypeOK
<1>4. Locking'
    BY DEF Locking, Leaving, Other, Producing, Popping, TypeOK, Order, ToAdd
<1>5. FrontAndBack'
    BY DEF FrontAndBack, TypeOK
<1>6. LettersInOrder'
    BY DEF LettersInOrder, TypeOK
<1>7. Counting'
    BY DEF Counting, Carried, TotalIsTaken, TypeOK, Order
<1> QED BY <1>1, <1>2, <1>3, <1>4, <1>5, <1>6, <1>7

-----------------------------------------------------------------------------
(* The theorems *)

\* The invariant holds before main has created a thread.
LEMMA InitInv == Init => Inv
<1> SUFFICES ASSUME Init PROVE Inv
    OBVIOUS
<1> USE ProducerConsumerAssumption DEF Init, Consumers
<1>0. TypeOK
  <2>1. queue \in Seq(Nat) /\ taken \in Seq(Nat)
      BY EmptySeq
  <2>2. consPc \in [Consumers -> ConsumerLabels]
      BY DEF ConsumerLabels
  <2>3. item \in [Consumers -> Nat] /\ count \in [Consumers -> Nat]
      OBVIOUS
  <2>4. back \in BOOLEAN /\ failed \in BOOLEAN
      OBVIOUS
  <2> QED BY <2>1, <2>2, <2>3, <2>4 DEF TypeOK
<1>1. Order
    BY DEF Order
<1>2. ToAdd /\ Locking /\ FrontAndBack
    BY DEF ToAdd, Locking, Leaving, Producing, Popping, FrontAndBack
<1>3. LettersInOrder
    BY DEF LettersInOrder, Alphabet
<1>4. Counting
    BY DEF Counting, Carried, TotalIsTaken
<1> QED BY <1>0, <1>1, <1>2, <1>3, <1>4 DEF Inv

\* A step of any thread keeps the invariant.
LEMMA NextInv == Inv /\ [Next]_vars => Inv'
<1> SUFFICES ASSUME Inv, [Next]_vars PROVE Inv'
    OBVIOUS
<1>1. CASE Main
    BY <1>1, CreateProducerInv, CreateConsumerInv, JoinProducerInv,
       JoinConsumerInv
    DEF Main
<1>2. CASE Produce
    BY <1>2, ProduceCreateInv, ProduceLockInv, ProduceLinkInv,
       ProduceBackInv, ProduceUnlockInv, ProduceDecrementInv,
       ProduceJoinInv
    DEF Produce
<1>3. CASE \E k \in Consumers : Consume(k)
    BY <1>3, LockNumInv, ReadFrontInv, ReadNumInv, UnlockNumInv,
       LockQueueInv, FoundEmptyInv, TakeInv, UnlinkInv,
       UnlockQueueInv, PrintLetterInv, LeaveNumInv, LeaveQueueInv
    DEF Consume
<1>4. CASE Done \/ UNCHANGED vars
  <2>1. UNCHANGED vars
      BY <1>4 DEF Done
  <2>2. UNCHANGED <<queue, back, queueLock, numLock, g_num_prod, c, mainPc, prodPc,
                    consPc, item, count, total, taken, failed>>
      BY <2>1 DEF vars
  <2>3. (TypeOK /\ Order /\ ToAdd /\ Locking)'
      BY <2>2 DEF Inv, TypeOK, Order, ToAdd, Locking, Leaving, Other, Producing, Popping
  <2>4. (FrontAndBack /\ LettersInOrder /\ Counting)'
      BY <2>2 DEF Inv, FrontAndBack, LettersInOrder, Counting, Carried, TotalIsTaken
  <2> QED BY <2>3, <2>4 DEF Inv
<1> QED BY <1>1, <1>2, <1>3, <1>4 DEF Next

\* Every reachable state of the program satisfies the invariant.
LEMMA ReachableInv == Spec => []Inv
    BY InitInv, NextInv, PTL DEF Spec

\* For any number of letters, the variables of producer_consumer.c keep their
\* types; g_num_prod is never negative.
THEOREM TypeCorrect == Spec => []TypeOK
<1>1. Inv => TypeOK
    BY DEF Inv
<1> QED BY <1>1, ReachableInv, PTL

\* For any number of letters, at most one thread is at the list, although
\* each consumer that leaves consumer_routine unlocks the mutex of the other.
THEOREM ListIsExclusive == Spec => []MutualExclusion
    BY Exclusion, ReachableInv, PTL

\* For any number of letters, they leave the list in the order in which they
\* came, each once, and the asserts of producer_routine hold.
THEOREM LettersKeepOrder == Spec => []LettersInOrder
<1>1. Inv => LettersInOrder
    BY DEF Inv
<1> QED BY <1>1, ReachableInv, PTL

\* For any number of letters, main prints how many were taken.
THEOREM TotalIsRight == Spec => []TotalIsTaken
<1>1. Inv => TotalIsTaken
    BY DEF Inv, Counting
<1> QED BY <1>1, ReachableInv, PTL

=============================================================================
