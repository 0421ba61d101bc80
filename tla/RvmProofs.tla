----------------------------- MODULE RvmProofs -----------------------------
(***************************************************************************)
(* Recoverable virtual memory, for any segments, sizes and numbers of      *)
(* transactions.                                                           *)
(***************************************************************************)
EXTENDS Rvm, TLAPS, FiniteSetTheorems, WellFoundedInduction, SequenceTheorems

-----------------------------------------------------------------------------
(***************************************************************************)
(* Redo logs                                                               *)
(***************************************************************************)

\* A set of indices of a sequence has a largest one.
LEMMA MaxIndex ==
    ASSUME NEW n \in Nat, NEW I \in SUBSET (1 .. n), I # {}
    PROVE  Max(I) \in I /\ \A j \in I : j <= Max(I)
<1> DEFINE T == {n - i : i \in I}
           R == {x \in Nat \X Nat : x[1] < x[2]}
<1>1. T \subseteq Nat /\ T # {}
  <2>1. \A i \in I : i \in Nat /\ n - i \in Nat /\ n - i \in T
      OBVIOUS
  <2>2. \A x \in T : \E i \in I : x = n - i
      OBVIOUS
  <2> HIDE DEF T
  <2> QED BY <2>1, <2>2
<1>2. IsWellFoundedOn(R, Nat)
    BY NatLessThanWellFounded DEF OpToRel
<1>3. \E x \in T : \A y \in T : ~(<<y, x>> \in R)
  <2> HIDE DEF T, R
  <2> QED BY <1>1, <1>2, WFMin
<1>4. PICK x \in T : \A y \in T : ~(<<y, x>> \in R)
    BY <1>3
<1>5. \A y \in T : x <= y
  <2> SUFFICES ASSUME NEW y \in T PROVE x <= y
      OBVIOUS
  <2>1. x \in Nat /\ y \in Nat
    <3> HIDE DEF T
    <3> QED BY <1>1
  <2>2. ~(<<y, x>> \in R)
      BY <1>4
  <2> HIDE DEF T
  <2> QED BY <2>1, <2>2
<1>6. PICK i \in I : x = n - i
    OBVIOUS
<1>7. \A j \in I : i >= j
  <2> SUFFICES ASSUME NEW j \in I PROVE i >= j
      OBVIOUS
  <2>1. n - j \in T
      OBVIOUS
  <2>2. n - i <= n - j
      BY <1>5, <1>6, <2>1
  <2> HIDE DEF T
  <2> QED BY <2>2
<1> QED BY <1>7 DEF Max

\* Records of bytes that are not blank are read back as they were written.
LEMMA ReadsBack ==
    ASSUME Blank \notin Byte, NEW r \in Records
    PROVE  ReadBack(r) = r /\ ~LosesStep(r)
<1>1. PICK Q \in Ranges : r \in [Q -> Value]
    BY DEF Records
<1>2. DOMAIN r \subseteq Int /\ \A o \in DOMAIN r : r[o] # Blank
    BY <1>1, RvmAssumption DEF Ranges, Offset, Value
<1>3. {o \in DOMAIN r : \A q \in DOMAIN r : q <= o => r[q] = Blank} = {}
    BY <1>2
<1>4. Shift(r) = 0
    BY <1>3, FS_EmptySet DEF Shift
<1> QED BY <1>1, <1>2, <1>4 DEF ReadBack, LosesStep

\* The record of l that decides about byte o.
Decides(l, o, i) ==
    /\ i \in DOMAIN l /\ o \in DOMAIN l[i]
    /\ \A j \in DOMAIN l : o \in DOMAIN l[j] => j <= i

Uncovered(l, o) == \A i \in DOMAIN l : o \notin DOMAIN l[i]

\* A byte is decided by the last record that covers it, if there is one.
LEMMA RecoveredByte ==
    ASSUME Blank \notin Byte, NEW l \in Seq(Records), NEW f, NEW o \in Offset
    PROVE  /\ Uncovered(l, o) => Recovered(f, l)[o] = f[o]
           /\ \A i : Decides(l, o, i) => Recovered(f, l)[o] = l[i][o]
           /\ Uncovered(l, o) \/ \E i : Decides(l, o, i)
<1> DEFINE I == {i \in DOMAIN l : o \in DOMAIN l[i]}
<1>1. \A i \in DOMAIN l : InStep(l, i) /\ ReadBack(l[i]) = l[i]
    BY ReadsBack DEF InStep
<1>2. {i \in DOMAIN l : InStep(l, i) /\ o \in DOMAIN l[i]} = I
    BY <1>1
<1>3. Recovered(f, l)[o] = IF I = {} THEN f[o] ELSE ReadBack(l[Max(I)])[o]
    BY <1>2 DEF Recovered
<1>4. I # {} => Decides(l, o, Max(I))
  <2>1. Len(l) \in Nat /\ I \subseteq 1 .. Len(l)
      OBVIOUS
  <2>2. I # {} => Max(I) \in I /\ \A j \in I : j <= Max(I)
    <3> HIDE DEF I
    <3> QED BY <2>1, MaxIndex
  <2> QED BY <2>2 DEF Decides
<1>5. \A i : Decides(l, o, i) => I # {} /\ i = Max(I)
  <2> SUFFICES ASSUME NEW i, Decides(l, o, i) PROVE I # {} /\ i = Max(I)
      OBVIOUS
  <2>1. i \in I /\ i \in Nat /\ \A j \in DOMAIN l : o \in DOMAIN l[j] => j <= i
      BY DEF Decides
  <2>2. Max(I) \in Nat /\ i <= Max(I) /\ Max(I) <= i
      BY <1>4, <2>1 DEF Decides
  <2> HIDE DEF I
  <2> QED BY <2>1, <2>2
<1>6. Uncovered(l, o) <=> I = {}
    BY DEF Uncovered
<1>7. I # {} => ReadBack(l[Max(I)])[o] = l[Max(I)][o]
    BY <1>1, <1>4 DEF Decides
<1> HIDE DEF I
<1> QED BY <1>3, <1>4, <1>5, <1>6, <1>7

\* What is recovered consists of bytes.
LEMMA RecoveredType ==
    ASSUME NEW l \in Seq(Records), NEW f \in Bytes
    PROVE  Recovered(f, l) \in Bytes
<1> SUFFICES ASSUME NEW o \in Offset PROVE Recovered(f, l)[o] \in Value
    BY DEF Recovered, Bytes
<1> DEFINE I == {i \in DOMAIN l : InStep(l, i) /\ o \in DOMAIN l[i]}
<1>1. Recovered(f, l)[o] = IF I = {} THEN f[o] ELSE ReadBack(l[Max(I)])[o]
    BY DEF Recovered
<1>2. I # {} => Max(I) \in I
  <2>1. Len(l) \in Nat /\ I \subseteq 1 .. Len(l)
      OBVIOUS
  <2> HIDE DEF I
  <2> QED BY <2>1, MaxIndex
<1>3. \A r \in Records : \A q \in DOMAIN r : ReadBack(r)[q] \in Value
    BY DEF ReadBack, Records, Value
<1>4. I # {} => ReadBack(l[Max(I)])[o] \in Value
    BY <1>2, <1>3
<1> HIDE DEF I
<1> QED BY <1>1, <1>4 DEF Bytes

\* An appended record decides about the bytes it covers.
LEMMA RecoveredAppend ==
    ASSUME Blank \notin Byte, NEW l \in Seq(Records), NEW r \in Records, NEW f, NEW o \in Offset
    PROVE  Recovered(f, Append(l, r))[o] = IF o \in DOMAIN r THEN r[o] ELSE Recovered(f, l)[o]
<1> DEFINE m == Append(l, r)
<1>1. /\ m \in Seq(Records) /\ DOMAIN m = DOMAIN l \union {Len(l) + 1}
      /\ m[Len(l) + 1] = r /\ \A i \in DOMAIN l : m[i] = l[i] /\ i <= Len(l)
      /\ Len(l) \in Nat
    OBVIOUS
<1> HIDE DEF m
<1>2. CASE o \in DOMAIN r
  <2>1. Decides(m, o, Len(l) + 1)
      BY <1>1, <1>2 DEF Decides
  <2>2. Recovered(f, m)[o] = m[Len(l) + 1][o]
      BY <1>1, <2>1, RecoveredByte
  <2> QED BY <1>1, <1>2, <2>2 DEF m
<1>3. CASE o \notin DOMAIN r
  <2>1. Uncovered(l, o) => Uncovered(m, o)
      BY <1>1, <1>3 DEF Uncovered
  <2>2. \A i : Decides(l, o, i) => Decides(m, o, i) /\ m[i] = l[i]
      BY <1>1, <1>3 DEF Decides
  <2>3. Recovered(f, m)[o] = Recovered(f, l)[o]
    <3>1. CASE Uncovered(l, o)
        BY <1>1, <2>1, <3>1, RecoveredByte
    <3>2. CASE \E i : Decides(l, o, i)
      <4>1. PICK i : Decides(l, o, i)
          BY <3>2
      <4>2. Recovered(f, m)[o] = m[i][o] /\ Recovered(f, l)[o] = l[i][o]
          BY <1>1, <2>2, <4>1, RecoveredByte
      <4> QED BY <2>2, <4>1, <4>2
    <3> QED BY <3>1, <3>2, RecoveredByte
  <2> QED BY <1>3, <2>3 DEF m
<1> QED BY <1>2, <1>3

\* Writing a record of the log to the file, early or again, changes nothing.
LEMMA RecoveredWritten ==
    ASSUME Blank \notin Byte, NEW l \in Seq(Records), NEW i \in DOMAIN l,
           NEW f, f # Missing, NEW o \in Offset
    PROVE  Recovered(Written(f, l[i]), l)[o] = Recovered(f, l)[o]
<1>1. CASE Uncovered(l, o)
    BY <1>1, RecoveredByte DEF Uncovered, Written
<1>2. CASE \E k : Decides(l, o, k)
    BY <1>2, RecoveredByte
<1> QED BY <1>1, <1>2, RecoveredByte

-----------------------------------------------------------------------------
(***************************************************************************)
(* Types                                                                   *)
(***************************************************************************)

\* The first transaction of the list.
LEMMA FirstTransaction ==
    ASSUME RvmTypeOK
    PROVE  /\ gTransList # <<>> =>
                 /\ Head(gTransList) = gTransList[1] /\ 1 \in DOMAIN gTransList
                 /\ Head(gTransList) \in Seq(RegionType)
                 /\ Tail(gTransList) \in Seq(Seq(RegionType))
                 /\ Len(Tail(gTransList)) = Len(gTransList) - 1
                 /\ \A k \in DOMAIN Tail(gTransList) :
                       k + 1 \in DOMAIN gTransList /\ Tail(gTransList)[k] = gTransList[k + 1]
           /\ op \in {"commit", "append"} => gTransList # <<>>
           /\ \A h \in live : gTransList # <<>>
           /\ IsFiniteSet(live) /\ Cardinality(live) \in Nat
<1>1. gTransList \in Seq(Seq(RegionType))
    BY DEF RvmTypeOK
<1>2. IsFiniteSet(live) /\ Cardinality(live) \in Nat
    BY RvmAssumption, FS_Subset, FS_CardinalityType DEF RvmTypeOK
<1>3. \A h \in live : Cardinality(live) # 0
    BY <1>2, FS_EmptySet
<1>4. gTransList = <<>> => Len(gTransList) = 0
    OBVIOUS
<1>5. op \in {"commit", "append"} => gTransList # <<>>
    BY <1>2, <1>4 DEF RvmTypeOK
<1>6. \A h \in live : gTransList # <<>>
    BY <1>2, <1>3, <1>4 DEF RvmTypeOK
<1> QED BY <1>1, <1>2, <1>5, <1>6

\* Ranges are sets of offsets, and records made of memory are records.
LEMMA RangeOffsets ==
    /\ \A Q \in Ranges : Q \subseteq Offset
    /\ \A b \in Bytes, Q \in Ranges : [o \in Q |-> b[o]] \in Records
    /\ \A r \in Records : DOMAIN r \in Ranges /\ \A o \in DOMAIN r : r[o] \in Value
<1>1. \A Q \in Ranges : Q \subseteq Offset
    BY RvmAssumption DEF Ranges, Offset
<1>2. \A b \in Bytes, Q \in Ranges : [o \in Q |-> b[o]] \in [Q -> Value]
    BY <1>1 DEF Bytes
<1> QED BY <1>1, <1>2 DEF Records

LEMMA ZerosType == Zeros \in Bytes
    BY RvmAssumption DEF Zeros, Bytes, Value

LEMMA JunksType == Junks \in Bytes
    BY DEF Junks, Bytes, Value

LEMMA OnDiskType ==
    ASSUME RvmTypeOK, NEW s \in Seg
    PROVE  OnDisk(s) \in Bytes /\ Store[s] \in Bytes
<1>1. OnDisk(s) \in Bytes
    BY ZerosType DEF OnDisk, RvmTypeOK
<1> QED BY <1>1, RecoveredType DEF Store, RvmTypeOK

\* Mapping a segment leaves bytes in memory.
LEMMA LoadedType ==
    ASSUME RvmTypeOK, NEW s \in Seg, NEW b \in Bytes
    PROVE  Loaded(s, b) \in [Seg -> Bytes]
<1>1. Recovered(b, log[s]) \in Bytes
    BY RecoveredType DEF RvmTypeOK
<1> QED BY <1>1, JunksType DEF Loaded, RvmTypeOK

\* The log that a commit writes to next is that of a mapped segment's region.
LEMMA Appending ==
    ASSUME RvmTypeOK, op \in {"commit", "append"}, pos <= Len(Head(gTransList))
    PROVE  /\ gTransList # <<>> /\ Head(gTransList) \in Seq(RegionType)
           /\ pos \in DOMAIN Head(gTransList) /\ Head(gTransList)[pos] \in RegionType
           /\ Head(gTransList)[pos].seg \in Seg
<1>1. gTransList # <<>> /\ Head(gTransList) \in Seq(RegionType)
    BY FirstTransaction
<1>2. pos \in Nat /\ pos >= 1
    BY DEF RvmTypeOK
<1>3. pos \in DOMAIN Head(gTransList)
    BY <1>1, <1>2
<1>4. Head(gTransList)[pos] \in RegionType
    BY <1>1, <1>3
<1> QED BY <1>1, <1>3, <1>4 DEF RegionType

\* A sequence without one of its entries.
LEMMA WithoutEntry ==
    ASSUME NEW A, NEW q \in Seq(A), NEW i \in DOMAIN q
    PROVE  /\ SubSeq(q, 1, i - 1) \o SubSeq(q, i + 1, Len(q)) \in Seq(A)
           /\ \A j \in DOMAIN (SubSeq(q, 1, i - 1) \o SubSeq(q, i + 1, Len(q))) :
                 \E k \in DOMAIN q :
                    (SubSeq(q, 1, i - 1) \o SubSeq(q, i + 1, Len(q)))[j] = q[k]
<1> DEFINE a == SubSeq(q, 1, i - 1)
           b == SubSeq(q, i + 1, Len(q))
<1>1. i \in 1 .. Len(q) /\ Len(q) \in Nat
    OBVIOUS
<1>2. /\ a \in Seq(A) /\ Len(a) = i - 1
      /\ \A j \in 1 .. i - 1 : a[j] = q[j]
    BY <1>1
<1>3. /\ b \in Seq(A) /\ Len(b) = Len(q) - i
      /\ \A j \in 1 .. Len(q) - i : b[j] = q[i + j]
    BY <1>1
<1> HIDE DEF a, b
<1>4. a \o b \in Seq(A) /\ Len(a \o b) = Len(q) - 1
    BY <1>1, <1>2, <1>3
<1>5. \A j \in 1 .. Len(q) - 1 : \E k \in DOMAIN q : (a \o b)[j] = q[k]
  <2> SUFFICES ASSUME NEW j \in 1 .. Len(q) - 1 PROVE \E k \in DOMAIN q : (a \o b)[j] = q[k]
      OBVIOUS
  <2>1. CASE j <= i - 1
      BY <1>1, <1>2, <1>3, <2>1
  <2>2. CASE j > i - 1
    <3>1. (a \o b)[j] = b[j - (i - 1)] /\ j - (i - 1) \in 1 .. Len(q) - i
        BY <1>1, <1>2, <1>3, <2>2, SMTT(30)
    <3>2. (a \o b)[j] = q[i + (j - (i - 1))] /\ i + (j - (i - 1)) \in 1 .. Len(q)
        BY <1>1, <1>3, <2>2, <3>1, SMTT(30)
    <3> DEFINE k == i + (j - (i - 1))
    <3>3. k \in DOMAIN q /\ (a \o b)[j] = q[k]
        BY <3>2
    <3> HIDE DEF k
    <3> QED BY <3>3
  <2>3. j \in Int /\ i \in Int
      BY <1>1
  <2>4. j <= i - 1 \/ j > i - 1
      BY <2>3
  <2> QED BY <2>1, <2>2, <2>4
<1>6. DOMAIN (a \o b) = 1 .. Len(q) - 1
    BY <1>4
<1>7. a \o b \in Seq(A) /\ \A j \in DOMAIN (a \o b) : \E k \in DOMAIN q : (a \o b)[j] = q[k]
    BY <1>4, <1>5, <1>6
<1> QED BY <1>7 DEF a, b

LEMMA RvmTypeInit == RvmInit => RvmTypeOK
<1> SUFFICES ASSUME RvmInit PROVE RvmTypeOK
    OBVIOUS
<1>1. Cardinality(live) = 0
    BY FS_EmptySet DEF RvmInit
<1>2. wild \in BOOLEAN /\ logEnd \in [Seg -> {"whole", "empty", "torn"}]
    BY DEF RvmInit
<1>3. op = "idle" /\ Len(gTransList) = 0
    BY DEF RvmInit
<1> QED BY <1>1, <1>2, <1>3, ZerosType DEF RvmInit, RvmTypeOK

\* What a crash leaves has its types.
LEMMA DieType ==
    ASSUME RvmTypeOK, Die, UNCHANGED <<file, log>>,
           logEnd' \in [Seg -> {"whole", "empty", "torn"}]
    PROVE  RvmTypeOK'
<1>1. Cardinality(live') = 0
    BY FS_EmptySet DEF Die
<1>2. wild' \in BOOLEAN
    BY DEF Die
<1>3. op' = "idle" /\ Len(gTransList') = 0
    BY DEF Die
<1> QED BY <1>1, <1>2, <1>3, ZerosType DEF Die, RvmTypeOK

\* The nodes of Seg_list after a map are those before it and the new one.
LEMMA ListedType ==
    ASSUME RvmTypeOK, NEW s \in Seg, NEW l \in Listed(s)
    PROVE  /\ l \in Seq([seg : Seg, freed : BOOLEAN])
           /\ \A i \in DOMAIN l : l[i] = [seg |-> s, freed |-> FALSE] \/ (i \in DOMAIN segList /\ l[i] = segList[i])
<1>1. segList \in Seq([seg : Seg, freed : BOOLEAN])
    BY DEF RvmTypeOK
<1> DEFINE new == [seg |-> s, freed |-> FALSE]
<1>2. new \in [seg : Seg, freed : BOOLEAN]
    OBVIOUS
<1>3. l = Append(segList, new) \/ \E i \in DOMAIN segList : l = [segList EXCEPT ![i] = new]
    BY DEF Listed
<1> HIDE DEF new
<1>4. CASE l = Append(segList, new)
    BY <1>1, <1>2, <1>4 DEF new
<1>5. CASE \E i \in DOMAIN segList : l = [segList EXCEPT ![i] = new]
    BY <1>1, <1>2, <1>5 DEF new
<1> QED BY <1>3, <1>4, <1>5

\* Every step preserves the types.
LEMMA RvmTypeStep == RvmTypeOK /\ [RvmNext]_rvmVars => RvmTypeOK'
<1> SUFFICES ASSUME RvmTypeOK, [RvmNext]_rvmVars PROVE RvmTypeOK'
    OBVIOUS
<1> USE DEF memVars, opVars
<1>0. {"idle", "commit", "append", "truncate"} \intersect Seg = {}
    BY RvmAssumption
<1> USE DEF diskVars
<1>1. CASE rvm_init
    BY <1>1 DEF rvm_init, RvmTypeOK
<1>2. ASSUME NEW s \in Seg, rvm_map(s) PROVE RvmTypeOK'
  <2>1. segList' \in Seq([seg : Seg, freed : BOOLEAN])
      BY <1>2, ListedType DEF rvm_map
  <2>2. OnDisk(s) \in Bytes /\ Loaded(s, OnDisk(s)) \in [Seg -> Bytes]
      BY OnDiskType, LoadedType
  <2>3. Loaded(s, Junks) \in [Seg -> Bytes]
      BY JunksType, LoadedType
  <2>4. mem' \in [Seg -> Bytes] /\ file' \in [Seg -> Bytes \union {Missing}]
      BY <1>2, <2>2, <2>3 DEF rvm_map, RvmTypeOK
  <2>5. wild' \in BOOLEAN
      BY <1>2 DEF rvm_map, RvmTypeOK
  <2> QED BY <1>2, <2>1, <2>4, <2>5 DEF rvm_map, RvmTypeOK
<1>3. ASSUME NEW s \in Seg, rvm_unmap(s) PROVE RvmTypeOK'
  <2>1. PICK i \in DOMAIN segList :
          segList' = IF i = Len(segList) THEN [segList EXCEPT ![i].freed = TRUE]
                     ELSE SubSeq(segList, 1, i - 1) \o SubSeq(segList, i + 1, Len(segList))
      BY <1>3 DEF rvm_unmap
  <2>2. [segList EXCEPT ![i].freed = TRUE] \in Seq([seg : Seg, freed : BOOLEAN])
    <3>1. segList \in Seq([seg : Seg, freed : BOOLEAN])
        BY DEF RvmTypeOK
    <3>2. segList[i] \in [seg : Seg, freed : BOOLEAN]
      <4> DEFINE A == [seg : Seg, freed : BOOLEAN]
      <4>1. segList \in Seq(A)
          BY <3>1
      <4> HIDE DEF A
      <4>2. segList[i] \in A
          BY <4>1
      <4> QED BY <4>2 DEF A
    <3>3. [segList[i] EXCEPT !.freed = TRUE] \in [seg : Seg, freed : BOOLEAN]
        BY <3>2, Zenon
    <3> DEFINE new == [segList[i] EXCEPT !.freed = TRUE]
    <3>4. [segList EXCEPT ![i].freed = TRUE] = [segList EXCEPT ![i] = new]
        OBVIOUS
    <3> HIDE DEF new
    <3> QED BY <3>1, <3>3, <3>4 DEF new
  <2>3. SubSeq(segList, 1, i - 1) \o SubSeq(segList, i + 1, Len(segList))
            \in Seq([seg : Seg, freed : BOOLEAN])
      BY WithoutEntry DEF RvmTypeOK
  <2>4. segList' \in Seq([seg : Seg, freed : BOOLEAN])
      BY <2>1, <2>2, <2>3
  <2> QED BY <1>3, <2>4, ZerosType DEF rvm_unmap, RvmTypeOK
<1>4. ASSUME NEW s \in Seg, rvm_destroy(s) \/ DestroyLog(s) PROVE RvmTypeOK'
  <2>1. s \notin {"idle", "commit", "append", "truncate"}
      BY <1>0
  <2>2. CASE rvm_destroy(s)
      BY <2>1, <2>2 DEF rvm_destroy, RvmTypeOK
  <2>3. CASE DestroyLog(s)
    <3>1. log' \in [Seg -> Seq(Records)]
        BY <2>3 DEF DestroyLog, RvmTypeOK
    <3>2. op \notin {"commit", "append"} /\ op' = "idle"
        BY <2>1, <2>3 DEF DestroyLog
    <3> QED BY <2>3, <3>1, <3>2 DEF DestroyLog, RvmTypeOK
  <2> QED BY <1>4, <2>2, <2>3
<1>5. ASSUME NEW h \in Handle, rvm_begin_trans(h) PROVE RvmTypeOK'
  <2>1. Cardinality(live') = Cardinality(live) + 1
      BY <1>5, FirstTransaction, FS_AddElement DEF rvm_begin_trans
  <2>2. \A a \in Seq(RegionType), q \in Seq(Seq(RegionType)) :
            Append(q, a) \in Seq(Seq(RegionType)) /\ Len(Append(q, a)) = Len(q) + 1
      OBVIOUS
  <2>3. gTransList' \in Seq(Seq(RegionType)) /\ Len(gTransList') = Len(gTransList) + 1
    <3>1. <<>> \in Seq(RegionType) /\ gTransList \in Seq(Seq(RegionType))
        BY DEF RvmTypeOK
    <3>2. gTransList' = Append(gTransList, <<>>)
        BY <1>5 DEF rvm_begin_trans
    <3> QED BY <2>2, <3>1, <3>2
  <2> QED BY <1>5, <2>1, <2>3, FirstTransaction DEF rvm_begin_trans, RvmTypeOK
<1>6. ASSUME NEW h \in Handle, rvm_commit_trans(h) PROVE RvmTypeOK'
  <2>1. Cardinality(live') = Cardinality(live) - 1
      BY <1>6, FirstTransaction, FS_RemoveElement DEF rvm_commit_trans
  <2> QED BY <1>6, <2>1, FirstTransaction DEF rvm_commit_trans, RvmTypeOK
<1>7. ASSUME NEW h \in Handle, rvm_abort_trans(h) PROVE RvmTypeOK'
  <2>1. CASE Head(gTransList) = <<>>
      BY <1>7, <2>1, DieType DEF rvm_abort_trans, RvmTypeOK
  <2>2. CASE Head(gTransList) # <<>>
    <3>1. Cardinality(live') = Cardinality(live) - 1
      <4>1. h \in live /\ live' = live \ {h}
          BY <1>7, <2>2 DEF rvm_abort_trans
      <4> QED BY <4>1, FirstTransaction, FS_RemoveElement
    <3>2. ASSUME NEW s \in Seg, NEW o \in Offset, Covering(s, o) # {}
          PROVE  Head(gTransList)[Max(Covering(s, o))].old[o] \in Value
      <4>1. gTransList # <<>> /\ Head(gTransList) \in Seq(RegionType)
          BY <1>7, FirstTransaction DEF rvm_abort_trans
      <4>2. Covering(s, o) \in SUBSET (1 .. Len(Head(gTransList))) /\ Len(Head(gTransList)) \in Nat
          BY <4>1 DEF Covering, Regions
      <4>3. Max(Covering(s, o)) \in Covering(s, o)
          BY <3>2, <4>2, MaxIndex
      <4>4. /\ Head(gTransList)[Max(Covering(s, o))] \in RegionType
            /\ o \in Head(gTransList)[Max(Covering(s, o))].range
        <5>1. \A i \in Covering(s, o) : i \in DOMAIN Head(gTransList) /\ o \in Head(gTransList)[i].range
            BY DEF Covering, Regions
        <5>2. \A i \in DOMAIN Head(gTransList) : Head(gTransList)[i] \in RegionType
            BY <4>1
        <5> QED BY <4>3, <5>1, <5>2
      <4> QED BY <4>4, RangeOffsets DEF RegionType
    <3>3. mem' \in [Seg -> Bytes]
      <4>1. mem' = [s \in Seg |-> [o \in Offset |->
                      IF Covering(s, o) = {} THEN mem[s][o]
                      ELSE Head(gTransList)[Max(Covering(s, o))].old[o]]]
          BY <1>7, <2>2 DEF rvm_abort_trans
      <4>2. \A s \in Seg, o \in Offset : mem[s][o] \in Value
          BY DEF RvmTypeOK, Bytes
      <4> QED BY <3>2, <4>1, <4>2 DEF Bytes
    <3>4. gTransList' \in Seq(Seq(RegionType)) /\ Len(gTransList') = Len(gTransList) - 1
      <4>1. gTransList # <<>> /\ gTransList' = Tail(gTransList)
          BY <1>7, <2>2, FirstTransaction DEF rvm_abort_trans
      <4> QED BY <4>1, FirstTransaction
    <3> QED BY <1>7, <2>2, <3>1, <3>3, <3>4, FirstTransaction DEF rvm_abort_trans, RvmTypeOK
  <2> QED BY <2>1, <2>2
<1>8. ASSUME NEW h \in Handle, NEW s \in Seg, NEW Q \in Ranges, rvm_about_to_modify(h, s, Q)
      PROVE  RvmTypeOK'
  <2> DEFINE r == [seg |-> s, range |-> Q, old |-> [o \in Q |-> mem[s][o]]]
  <2>1. r \in RegionType
      BY RangeOffsets DEF RegionType, RvmTypeOK
  <2>2. gTransList' = [gTransList EXCEPT ![1] = Append(@, r)]
      BY <1>8 DEF rvm_about_to_modify
  <2>3. gTransList # <<>> /\ gTransList[1] \in Seq(RegionType) /\ gTransList \in Seq(Seq(RegionType))
      BY <1>8, FirstTransaction DEF rvm_about_to_modify, RvmTypeOK
  <2> HIDE DEF r
  <2>4. Append(gTransList[1], r) \in Seq(RegionType)
      BY <2>1, <2>3
  <2>5. gTransList' \in Seq(Seq(RegionType)) /\ Len(gTransList') = Len(gTransList)
      BY <2>2, <2>3, <2>4
  <2> QED BY <1>8, <2>5 DEF rvm_about_to_modify, RvmTypeOK
<1>9. ASSUME NEW s \in Seg, NEW o \in Offset, NEW v \in Byte, Modify(s, o, v) PROVE RvmTypeOK'
  <2>1. mem' \in [Seg -> Bytes]
      BY <1>9 DEF Modify, RvmTypeOK, Bytes, Value
  <2> QED BY <1>9, <2>1 DEF Modify, RvmTypeOK
<1>10. CASE rvm_truncate_log
    BY <1>10 DEF rvm_truncate_log, RvmTypeOK
<1>11. CASE CommitRecord
  <2> DEFINE r == Head(gTransList)[pos]
  <2>1. r \in RegionType
      BY <1>11, Appending DEF CommitRecord, RvmTypeOK
  <2>2. log' = [log EXCEPT ![r.seg] = Append(@, [o \in r.range |-> mem[r.seg][o]])]
      BY <1>11 DEF CommitRecord
  <2> HIDE DEF r
  <2>3. r.seg \in Seg /\ [o \in r.range |-> mem[r.seg][o]] \in Records
      BY <2>1, RangeOffsets DEF RegionType, RvmTypeOK
  <2>4. log' \in [Seg -> Seq(Records)]
      BY <2>2, <2>3 DEF RvmTypeOK
  <2>5. logEnd' \in [Seg -> {"whole", "empty", "torn"}]
      BY <1>11, <2>3 DEF CommitRecord, Ended, RvmTypeOK
  <2>6. op = "append" /\ op' = "commit" /\ pos' = pos + 1
      BY <1>11 DEF CommitRecord
  <2> QED BY <1>11, <2>4, <2>5, <2>6 DEF CommitRecord, RvmTypeOK
<1>12. CASE Cleanup_transaction
  <2>1. gTransList' \in Seq(Seq(RegionType)) /\ Len(gTransList') = Len(gTransList) - 1
      BY <1>12, FirstTransaction DEF Cleanup_transaction
  <2> QED BY <1>12, <2>1, FirstTransaction DEF Cleanup_transaction, RvmTypeOK
<1>13. CASE TruncateEnd
    BY <1>13 DEF TruncateEnd, RvmTypeOK
<1>14. ASSUME NEW s \in Seg, TruncateRecord(s) PROVE RvmTypeOK'
  <2>1. \A f \in Bytes \union {Missing} : \A r : (\A o \in DOMAIN r : r[o] \in Value) =>
            Written(f, r) \in Bytes \union {Missing}
      BY DEF Written, Bytes
  <2>2. pos \in DOMAIN log[s] /\ log[s] \in Seq(Records)
      BY <1>14 DEF TruncateRecord, Truncating, RvmTypeOK
  <2>3. \A r \in Records : \A o \in DOMAIN ReadBack(r) : ReadBack(r)[o] \in Value
      BY RangeOffsets DEF ReadBack, Value
  <2>4. \A o \in DOMAIN ReadBack(log[s][pos]) : ReadBack(log[s][pos])[o] \in Value
      BY <2>2, <2>3
  <2>5. file' \in [Seg -> Bytes \union {Missing}]
    <3>1. CASE file' = [file EXCEPT ![s] = Written(@, ReadBack(log[s][pos]))]
        BY <2>1, <2>4, <3>1 DEF RvmTypeOK
    <3>2. ASSUME NEW j \in 1 .. pos - 1,
                 file' = [file EXCEPT ![s] = Written(@, [o \in DOMAIN log[s][j] |-> Junk])]
          PROVE  file' \in [Seg -> Bytes \union {Missing}]
      <4>1. Written(file[s], [o \in DOMAIN log[s][j] |-> Junk]) \in Bytes \union {Missing}
          BY <2>1 DEF RvmTypeOK, Value
      <4> QED BY <3>2, <4>1 DEF RvmTypeOK
    <3>3. CASE file' = file
        BY <3>3 DEF RvmTypeOK
    <3> QED BY <1>14, <3>1, <3>2, <3>3 DEF TruncateRecord
  <2> QED BY <1>14, <2>5 DEF TruncateRecord, Truncating, RvmTypeOK
<1>15. ASSUME NEW s \in Seg, TruncateUnlink(s) \/ TruncateFreed(s) PROVE RvmTypeOK'
  <2>1. CASE TruncateUnlink(s)
    <3>1. log' \in [Seg -> Seq(Records)] /\ logEnd' \in [Seg -> {"whole", "empty", "torn"}]
        BY <2>1 DEF TruncateUnlink, RvmTypeOK
    <3> QED BY <2>1, <3>1 DEF TruncateUnlink, Truncating, RvmTypeOK
  <2>2. CASE TruncateFreed(s)
      BY <2>2 DEF TruncateFreed, Truncating, RvmTypeOK
  <2> QED BY <1>15, <2>1, <2>2
<1>16. ASSUME NEW s \in Seg, TruncateStray(s) PROVE RvmTypeOK'
  <2>1. \A f \in Bytes \union {Missing} : Written(f, Junks) \in Bytes \union {Missing}
      BY DEF Written, Bytes, Junks, Value
  <2>2. file' \in [Seg -> Bytes \union {Missing}]
      BY <1>16, <2>1 DEF TruncateStray, RvmTypeOK
  <2> QED BY <1>16, <2>2 DEF TruncateStray, Truncating, RvmTypeOK
<1>17. CASE CommitOpen
  <2>1. Head(gTransList)[pos].seg \in Seg
      BY <1>17, Appending DEF CommitOpen
  <2>2. logEnd' \in [Seg -> {"whole", "empty", "torn"}]
      BY <1>17, <2>1 DEF CommitOpen, RvmTypeOK
  <2>3. op = "commit" /\ op' = "append" /\ pos <= Len(Head(gTransList)) /\ pos' = pos /\ UNCHANGED gTransList
      BY <1>17 DEF CommitOpen
  <2> QED BY <1>17, <2>2, <2>3 DEF CommitOpen, RvmTypeOK
<1>18. CASE Crash
  <2>1. logEnd' \in [Seg -> {"whole", "empty", "torn"}]
      BY <1>18 DEF Crash, RvmTypeOK
  <2> QED BY <1>18, <2>1, DieType DEF Crash
<1>19. CASE UNCHANGED rvmVars
    BY <1>19 DEF rvmVars, RvmTypeOK
<1> QED BY <1>1, <1>2, <1>3, <1>4, <1>5, <1>6, <1>7, <1>8, <1>9, <1>10, <1>11, <1>12, <1>13,
           <1>14, <1>15, <1>16, <1>17, <1>18, <1>19 DEF RvmNext, Call, Continue

\* The library keeps its types; in particular every transaction begun and not
\* ended has its entry in gTransList, although all have one TID.
THEOREM RvmTypeCorrect == RvmSpec => []RvmTypeOK
<1> QED BY RvmTypeInit, RvmTypeStep, PTL DEF RvmSpec

-----------------------------------------------------------------------------
(***************************************************************************)
(* The inductive invariant.  It holds for applications that keep blanks    *)
(* out of their data and do not declare overlapping regions, when the      *)
(* uninitialised flag of rvm_map happens to be false; the runs on these    *)
(* three show that each is needed.                                         *)
(***************************************************************************)
Disciplined == Blank \notin Byte /\ ~Overlap /\ ~GarbageFlag

\* What rvm_map would return is decided by the file and the log.
LEMMA StoreKept ==
    ASSUME RvmTypeOK, NEW t \in Seg, log'[t] = log[t],
           file'[t] = file[t] \/ file'[t] = OnDisk(t)
    PROVE  Store'[t] = Store[t]
<1>1. OnDisk(t) \in Bytes
    BY OnDiskType
<1>2. OnDisk(t)' = OnDisk(t)
    BY <1>1, MissingAssumption DEF OnDisk
<1> QED BY <1>2 DEF Store

\* One step of rvm_truncate_log: a record is written to the file.
LEMMA RecordWritten ==
    ASSUME RvmInv, Disciplined, NEW s \in Seg, TruncateRecord(s)
    PROVE  /\ pos \in DOMAIN log[s] /\ log[s] \in Seq(Records)
           /\ file[s] \in Bytes /\ file[s] # Missing
           /\ \/ file' = [file EXCEPT ![s] = Written(@, log[s][pos])]
              \/ s \in Damaged /\ file' = file
           /\ Written(file[s], log[s][pos]) \in Bytes
<1>1. pos \in DOMAIN log[s] /\ log[s] \in Seq(Records)
    BY DEF TruncateRecord, Truncating, RvmInv, RvmTypeOK
<1>2. \A j \in DOMAIN log[s] : ReadBack(log[s][j]) = log[s][j] /\ ~LosesStep(log[s][j])
    BY <1>1, ReadsBack DEF Disciplined
<1>3. InStep(log[s], pos)
    BY <1>2 DEF InStep
<1>4. idx \in DOMAIN segList /\ segList[idx].seg = s
    BY DEF TruncateRecord, Truncating, RvmInv, RvmTypeOK
<1>5. file[s] # Missing /\ file[s] \in Bytes
  <2>1. op # s /\ log[s] # <<>>
      BY <1>1, RvmAssumption DEF TruncateRecord, Truncating
  <2>2. file[s] # Missing
      BY <1>4, <2>1 DEF RvmInv, FilesExist
  <2> QED BY <2>2 DEF RvmInv, RvmTypeOK
<1>6. \/ file' = [file EXCEPT ![s] = Written(@, log[s][pos])]
      \/ s \in Damaged /\ file' = file
    BY <1>1, <1>2, <1>3 DEF TruncateRecord, Damaged
<1>7. log[s][pos] \in Records
    BY <1>1
<1>8. Written(file[s], log[s][pos]) \in Bytes
    BY <1>5, <1>7, RangeOffsets DEF Written, Bytes
<1> QED BY <1>1, <1>5, <1>6, <1>8

\* A log that is whole is removed when the file holds all of it.
LEMMA LogRemoved ==
    ASSUME RvmInv, Disciplined, NEW s \in Seg, TruncateUnlink(s), s \notin Damaged
    PROVE  Store'[s] = Store[s]
<1>1. log[s] \in Seq(Records) /\ pos > Len(log[s]) /\ pos \in Nat
    BY DEF TruncateUnlink, RvmInv, RvmTypeOK
<1>2. idx \in DOMAIN segList /\ segList[idx].seg = s /\ op = "truncate" /\ idx <= Len(segList)
    BY DEF TruncateUnlink, Truncating, RvmInv, RvmTypeOK
<1>a. CASE log[s] = <<>>
  <2>1. log'[s] = log[s] /\ file'[s] = file[s]
      BY <1>a DEF TruncateUnlink, RvmInv, RvmTypeOK
  <2> QED BY <2>1, StoreKept DEF RvmInv
<1>b. SUFFICES ASSUME log[s] # <<>> PROVE Store'[s] = Store[s]
    BY <1>a
<1>3. file[s] # Missing /\ file[s] \in Bytes
  <2>1. file[s] # Missing
      BY <1>2, <1>b, RvmAssumption DEF RvmInv, FilesExist
  <2> QED BY <2>1 DEF RvmInv, RvmTypeOK
<1>4. OnDisk(s) = file[s] /\ OnDisk(s)' = file[s] /\ log'[s] = <<>>
    BY <1>3 DEF OnDisk, TruncateUnlink, RvmInv, RvmTypeOK
<1>5. ASSUME NEW o \in Offset PROVE Recovered(file[s], log[s])[o] = file[s][o]
  <2>1. CASE Uncovered(log[s], o)
      BY <1>1, <2>1, RecoveredByte DEF Disciplined
  <2>2. ASSUME NEW i, Decides(log[s], o, i) PROVE Recovered(file[s], log[s])[o] = file[s][o]
    <3>1. /\ i \in DOMAIN log[s] /\ i < pos /\ o \in DOMAIN log[s][i]
          /\ \A j \in DOMAIN log[s] : j < pos /\ o \in DOMAIN log[s][j] => j <= i
        BY <1>1, <2>2 DEF Decides
    <3>2. file[s][o] = log[s][i][o]
        BY <1>2, <3>1 DEF RvmInv, TruncateApplied
    <3> QED BY <1>1, <2>2, <3>2, RecoveredByte DEF Disciplined
  <2> QED BY <1>1, <2>1, <2>2, RecoveredByte DEF Disciplined
<1>6. ASSUME NEW o \in Offset PROVE Recovered(file[s], <<>>)[o] = file[s][o]
  <2>1. <<>> \in Seq(Records) /\ DOMAIN <<>> = {}
      OBVIOUS
  <2>2. Uncovered(<<>>, o)
      BY <2>1 DEF Uncovered
  <2> QED BY <2>1, <2>2, RecoveredByte DEF Disciplined
<1>7. Recovered(file[s], <<>>) = Recovered(file[s], log[s])
    BY <1>5, <1>6 DEF Recovered
<1> QED BY <1>4, <1>7 DEF Store

\* A damaged log is read astray, or removed.
TruncatesDamaged == \E s \in Damaged : TruncateStray(s) \/ TruncateUnlink(s)

\* Only a process that has read a damaged log does that.
LEMMA WildTruncates ==
    ASSUME RvmInv, TruncatesDamaged
    PROVE  wild
<1>1. PICK s \in Damaged : TruncateStray(s) \/ TruncateUnlink(s)
    BY DEF TruncatesDamaged
<1>2. op = "truncate" /\ idx \in DOMAIN segList /\ segList[idx].seg = s
    BY <1>1 DEF TruncateStray, TruncateUnlink, Truncating, RvmInv, RvmTypeOK
<1>3. s \in Known
    BY <1>2 DEF Known
<1> QED BY <1>1, <1>2, <1>3 DEF RvmInv, KnownWhole

\* What rvm_map would return stays as it is, except by the records of a commit,
\* the steps of rvm_destroy and the truncation of a damaged log.
LEMMA StoreStep ==
    ASSUME RvmInv, Disciplined, [RvmNext]_rvmVars, ~CommitRecord, ~TruncatesDamaged,
           NEW t \in Seg, op # t, op' # t
    PROVE  Store'[t] = Store[t]
<1> USE DEF memVars, opVars, diskVars
<1>0. RvmTypeOK
    BY DEF RvmInv
<1>1. ASSUME UNCHANGED <<file, log>> PROVE Store'[t] = Store[t]
    BY <1>0, <1>1, StoreKept
<1>2. ASSUME NEW s \in Seg, rvm_map(s) PROVE Store'[t] = Store[t]
  <2>1. file' = [file EXCEPT ![s] = OnDisk(s)] /\ log' = log
      BY <1>2 DEF rvm_map, Disciplined
  <2>2. file'[t] = file[t] \/ file'[t] = OnDisk(t)
      BY <1>0, <2>1 DEF RvmTypeOK
  <2> QED BY <1>0, <2>1, <2>2, StoreKept
<1>3. ASSUME NEW s \in Seg, rvm_destroy(s) PROVE Store'[t] = Store[t]
  <2>1. file'[t] = file[t] /\ log'[t] = log[t]
      BY <1>3 DEF rvm_destroy, RvmTypeOK
  <2> QED BY <1>0, <2>1, StoreKept
<1>4. ASSUME NEW s \in Seg, DestroyLog(s) PROVE Store'[t] = Store[t]
  <2>1. file'[t] = file[t] /\ log'[t] = log[t]
      BY <1>4 DEF DestroyLog, RvmTypeOK
  <2> QED BY <1>0, <2>1, StoreKept
<1>5. ASSUME NEW s \in Seg, TruncateRecord(s) PROVE Store'[t] = Store[t]
  <2>1. CASE t # s
    <3>1. file'[t] = file[t] /\ log'[t] = log[t]
        BY <1>0, <1>5, <2>1, RecordWritten DEF TruncateRecord, RvmTypeOK
    <3> QED BY <1>0, <3>1, StoreKept
  <2>2. CASE file' = file
      BY <1>0, <1>5, <2>2, StoreKept DEF TruncateRecord
  <2>3. CASE t = s /\ file' # file
    <3>1. OnDisk(s) = file[s] /\ OnDisk(s)' = Written(file[s], log[s][pos]) /\ log'[s] = log[s]
      <4>1. /\ file[s] \in Bytes /\ file[s] # Missing
            /\ file' = [file EXCEPT ![s] = Written(@, log[s][pos])]
            /\ Written(file[s], log[s][pos]) \in Bytes
          BY <1>5, <2>3, RecordWritten
      <4>2. file'[s] = Written(file[s], log[s][pos]) /\ file'[s] # Missing
          BY <1>0, <4>1, MissingAssumption DEF RvmTypeOK
      <4>3. log'[s] = log[s]
          BY <1>5 DEF TruncateRecord
      <4> QED BY <4>1, <4>2, <4>3 DEF OnDisk
    <3>2. \A o \in Offset : Recovered(Written(file[s], log[s][pos]), log[s])[o]
                              = Recovered(file[s], log[s])[o]
        BY <1>5, RecordWritten, RecoveredWritten DEF Disciplined
    <3>3. Recovered(Written(file[s], log[s][pos]), log[s]) = Recovered(file[s], log[s])
        BY <3>2 DEF Recovered
    <3> QED BY <2>3, <3>1, <3>3 DEF Store
  <2> QED BY <2>1, <2>2, <2>3
<1>6. ASSUME NEW s \in Seg, TruncateUnlink(s) PROVE Store'[t] = Store[t]
  <2>1. CASE t # s
    <3>1. file'[t] = file[t] /\ log'[t] = log[t]
        BY <1>0, <1>6, <2>1 DEF TruncateUnlink, RvmTypeOK
    <3> QED BY <1>0, <3>1, StoreKept
  <2>2. s \notin Damaged
      BY <1>6 DEF TruncatesDamaged
  <2> QED BY <1>6, <2>1, <2>2, LogRemoved
<1>7. \/ UNCHANGED <<file, log>>
      \/ \E s \in Seg : rvm_map(s) \/ rvm_destroy(s) \/ DestroyLog(s) \/ TruncateRecord(s) \/ TruncateUnlink(s)
  <2>1. CASE RvmNext
    <3>1. rvm_init \/ rvm_truncate_log => UNCHANGED <<file, log>>
        BY DEF rvm_init, rvm_truncate_log
    <3>2. \A s \in Seg : rvm_unmap(s) => UNCHANGED <<file, log>>
        BY DEF rvm_unmap
    <3>3. \A h \in Handle : rvm_begin_trans(h) \/ rvm_commit_trans(h) \/ rvm_abort_trans(h) =>
              UNCHANGED <<file, log>>
        BY DEF rvm_begin_trans, rvm_commit_trans, rvm_abort_trans
    <3>4. \A h \in Handle, s \in Seg, Q \in Ranges : rvm_about_to_modify(h, s, Q) => UNCHANGED <<file, log>>
        BY DEF rvm_about_to_modify
    <3>5. \A s \in Seg, o \in Offset, v \in Byte : Modify(s, o, v) => UNCHANGED <<file, log>>
        BY DEF Modify
    <3>6. Cleanup_transaction \/ TruncateEnd \/ Crash \/ CommitOpen => UNCHANGED <<file, log>>
        BY DEF Cleanup_transaction, TruncateEnd, Crash, CommitOpen
    <3>7. \A s \in Seg : TruncateFreed(s) => UNCHANGED <<file, log>>
        BY DEF TruncateFreed
    <3>8. \A s \in Seg : ~TruncateStray(s)
        BY DEF TruncatesDamaged, TruncateStray
    <3> QED BY <2>1, <3>1, <3>2, <3>3, <3>4, <3>5, <3>6, <3>7, <3>8 DEF RvmNext, Call, Continue
  <2>2. CASE UNCHANGED rvmVars
      BY <2>2 DEF rvmVars
  <2> QED BY <2>1, <2>2
<1> QED BY <1>1, <1>2, <1>3, <1>4, <1>5, <1>6, <1>7


\* The parts of the invariant about the transaction, when a step leaves the
\* list of transactions alone.
LEMMA TransactionKept ==
    ASSUME RvmInv, gTransList' = gTransList, op \notin {"commit", "append"},
           op' \in {"commit", "append"} => pos' = 1,
           ~wild' => ~wild,
           ~wild' => \A t \in mapped' : t \in mapped => Store'[t] = Store[t],
           ~wild' => \A t \in mapped', o \in Offset :
              gTransList = <<>> \/ Covering(t, o) = {} => mem'[t][o] = Store'[t][o],
           gTransList # <<>> => \A i \in DOMAIN Head(gTransList) : Head(gTransList)[i].seg \in mapped'
    PROVE  FirstHasAll' /\ RegionsDisjoint' /\ UndeclaredOnDisk' /\ DeclaredOnDisk'
<1>1. FirstHasAll' /\ RegionsDisjoint'
    BY DEF RvmInv, FirstHasAll, RegionsDisjoint
<1>2. UndeclaredOnDisk'
    BY DEF UndeclaredOnDisk, Covering, Regions
<1>3. DeclaredOnDisk'
  <2> SUFFICES ASSUME gTransList # <<>>, ~wild', NEW i \in DOMAIN Head(gTransList),
                      NEW o \in Head(gTransList)[i].range
               PROVE  Store'[Head(gTransList)[i].seg][o]
                        = IF op' \in {"commit", "append"} /\ i < pos' THEN mem'[Head(gTransList)[i].seg][o]
                          ELSE Head(gTransList)[i].old[o]
      BY DEF DeclaredOnDisk
  <2>1. Head(gTransList)[i].seg \in mapped /\ Head(gTransList)[i].seg \in mapped'
      BY DEF RvmInv, FirstHasAll
  <2>2. Store[Head(gTransList)[i].seg][o] = Head(gTransList)[i].old[o]
      BY DEF RvmInv, DeclaredOnDisk
  <2>3. i >= 1 /\ i \in Nat
      BY FirstTransaction DEF RvmInv
  <2> QED BY <2>1, <2>2, <2>3
<1> QED BY <1>1, <1>2, <1>3

\* ... and when it removes the first transaction.
LEMMA TransactionRemoved ==
    ASSUME RvmInv, gTransList # <<>>, gTransList' = Tail(gTransList),
           ~wild' => \A t \in mapped', o \in Offset : mem'[t][o] = Store'[t][o]
    PROVE  FirstHasAll' /\ RegionsDisjoint' /\ UndeclaredOnDisk' /\ DeclaredOnDisk'
<1>1. /\ gTransList' \in Seq(Seq(RegionType))
      /\ \A k \in DOMAIN gTransList' : k + 1 \in DOMAIN gTransList /\ gTransList'[k] = gTransList[k + 1]
    BY FirstTransaction DEF RvmInv
<1>2. \A k \in DOMAIN gTransList' : gTransList'[k] = <<>>
  <2>1. \A k \in DOMAIN gTransList' : k + 1 > 1
      BY <1>1
  <2> QED BY <1>1, <2>1 DEF RvmInv, FirstHasAll
<1>3. gTransList' # <<>> => Head(gTransList') = <<>>
  <2>1. gTransList' # <<>> => 1 \in DOMAIN gTransList' /\ Head(gTransList') = gTransList'[1]
      BY <1>1
  <2> QED BY <1>2, <2>1
<1>4. DOMAIN <<>> = {} /\ Len(<<>>) = 0
    OBVIOUS
<1>5. FirstHasAll' /\ RegionsDisjoint'
    BY <1>2, <1>3, <1>4, RvmAssumption DEF FirstHasAll, RegionsDisjoint
<1>6. UndeclaredOnDisk'
    BY DEF UndeclaredOnDisk
<1>7. DeclaredOnDisk'
    BY <1>3, <1>4 DEF DeclaredOnDisk
<1> QED BY <1>5, <1>6, <1>7

\* A crash leaves nothing but the disk.
LEMMA DieKeeps ==
    ASSUME RvmInv, RvmTypeOK', Die
    PROVE  RvmInv'
<1>1. DOMAIN <<>> = {}
    OBVIOUS
<1>2. op' \notin Seg
    BY RvmAssumption DEF Die
<1>3. FirstHasAll' /\ RegionsDisjoint' /\ UndeclaredOnDisk' /\ DeclaredOnDisk'
    BY <1>1 DEF Die, FirstHasAll, RegionsDisjoint, UndeclaredOnDisk, DeclaredOnDisk
<1>4. FilesExist' /\ TruncateApplied' /\ KnownWhole'
    BY <1>1, <1>2 DEF Die, FilesExist, TruncateApplied, KnownWhole, Known
<1> QED BY <1>3, <1>4 DEF RvmInv

\* The nodes of Seg_list are of segments.
LEMMA NodesAreSegments ==
    ASSUME RvmTypeOK
    PROVE  \A i \in DOMAIN segList : segList[i].seg \in Seg
<1> DEFINE A == [seg : Seg, freed : BOOLEAN]
<1>1. segList \in Seq(A)
    BY DEF RvmTypeOK
<1>2. \A a \in A : a.seg \in Seg
    OBVIOUS
<1> HIDE DEF A
<1> QED BY <1>1, <1>2

\* Between two records of a commit, a process that is not wild learns of no
\* damaged log.
LEMMA KnownKept ==
    ASSUME RvmInv, op # "append",
           ~wild' => ~wild /\ (Known \intersect Damaged)' \subseteq Known \intersect Damaged
    PROVE  KnownWhole'
<1> SUFFICES ASSUME ~wild' PROVE (Known \intersect Damaged)' = {}
    BY DEF KnownWhole
<1> QED BY DEF RvmInv, KnownWhole

\* Calls that map, unmap and destroy segments.
LEMMA SegmentCallsKeep ==
    ASSUME RvmInv, RvmTypeOK', Disciplined, NEW s \in Seg, [RvmNext]_rvmVars,
           rvm_map(s) \/ rvm_unmap(s) \/ rvm_destroy(s) \/ DestroyLog(s)
    PROVE  RvmInv'
<1> USE DEF memVars, opVars, diskVars
<1>0. /\ s \notin {"idle", "commit", "append", "truncate"} /\ RvmTypeOK /\ mapped \subseteq Seg
      /\ op \in {"idle", s}
    BY RvmAssumption DEF RvmInv, RvmTypeOK, rvm_map, rvm_unmap, rvm_destroy, DestroyLog
<1>a. ~CommitRecord /\ ~TruncatesDamaged
    BY <1>0 DEF CommitRecord, TruncatesDamaged, TruncateStray, TruncateUnlink, Truncating
<1>1. CASE rvm_map(s)
  <2>1. op = "idle" /\ op' = "idle" /\ gTransList' = gTransList /\ mapped' = mapped \union {s}
      BY <1>1 DEF rvm_map
  <2>2. \A t \in Seg : Store'[t] = Store[t]
      BY <1>a, <2>1, StoreStep, RvmAssumption
  <2>a. ~wild' => ~wild /\ logEnd[s] = "whole"
      BY <1>1 DEF rvm_map
  <2>3. ~wild' => mem'[s] = Store[s] /\ \A t \in mapped : mem'[t] = mem[t]
    <3> SUFFICES ASSUME ~wild' PROVE mem'[s] = Store[s] /\ \A t \in mapped : mem'[t] = mem[t]
        OBVIOUS
    <3>1. mem' = [mem EXCEPT ![s] = Recovered(OnDisk(s), log[s])]
        BY <1>1, <2>a DEF rvm_map, Disciplined, Loaded
    <3>2. s \notin mapped
        BY <1>1 DEF rvm_map
    <3> QED BY <1>0, <3>1, <3>2 DEF Store, RvmTypeOK
  <2>4. FirstHasAll' /\ RegionsDisjoint' /\ UndeclaredOnDisk' /\ DeclaredOnDisk'
    <3>1. ~wild' => \A t \in mapped', o \in Offset :
              gTransList = <<>> \/ Covering(t, o) = {} => mem'[t][o] = Store'[t][o]
      <4> SUFFICES ASSUME ~wild', NEW t \in mapped', NEW o \in Offset,
                          gTransList = <<>> \/ Covering(t, o) = {}
                   PROVE  mem'[t][o] = Store'[t][o]
          OBVIOUS
      <4>1. CASE t = s
          BY <2>2, <2>3, <4>1
      <4>2. CASE t \in mapped
        <5>1. mem[t][o] = Store[t][o]
            BY <2>a, <4>2 DEF RvmInv, UndeclaredOnDisk
        <5> QED BY <1>0, <2>2, <2>3, <4>2, <5>1
      <4> QED BY <2>1, <4>1, <4>2
    <3>2. gTransList # <<>> => \A i \in DOMAIN Head(gTransList) : Head(gTransList)[i].seg \in mapped'
        BY <2>1 DEF RvmInv, FirstHasAll
    <3> QED BY <1>0, <2>1, <2>2, <2>a, <3>1, <3>2, TransactionKept
  <2>5. FilesExist' /\ KnownWhole'
    <3>1. /\ file' = [file EXCEPT ![s] = OnDisk(s)] /\ OnDisk(s) # Missing /\ segList' \in Listed(s)
          /\ UNCHANGED <<log, logEnd>>
        BY <1>0, <1>1, OnDiskType, MissingAssumption DEF rvm_map, Disciplined
    <3> DEFINE new == [seg |-> s, freed |-> FALSE]
    <3>a. \A i \in DOMAIN segList' : segList'[i] = new \/ (i \in DOMAIN segList /\ segList'[i] = segList[i])
        BY <1>0, <3>1, ListedType
    <3>b. new.seg = s
        OBVIOUS
    <3> HIDE DEF new
    <3>2. \A i \in DOMAIN segList' : segList'[i].seg = s \/ (i \in DOMAIN segList /\ segList'[i] = segList[i])
        BY <3>a, <3>b
    <3>3. \A i \in DOMAIN segList : segList[i].seg \in Seg
        BY <1>0, NodesAreSegments
    <3>0. file'[s] = OnDisk(s) /\ \A x \in Seg : x # s => file'[x] = file[x]
        BY <1>0, <3>1 DEF RvmTypeOK
    <3>4. \A i \in DOMAIN segList' : file'[segList'[i].seg] # Missing \/ log'[segList'[i].seg] = <<>>
      <4>1. \A i \in DOMAIN segList : file[segList[i].seg] # Missing \/ log[segList[i].seg] = <<>>
          BY <2>1, <3>3, RvmAssumption DEF RvmInv, FilesExist
      <4> QED BY <3>0, <3>1, <3>2, <3>3, <4>1
    <3>5. \A x \in mapped' : file'[x] # Missing
        BY <1>0, <2>1, <3>0, <3>1 DEF RvmInv, FilesExist
    <3>6. FilesExist'
        BY <2>1, <3>4, <3>5, RvmAssumption DEF FilesExist
    <3>7. Known' \subseteq Known \union {s}
        BY <2>1, <3>2 DEF Known
    <3>8. Damaged' = Damaged /\ (~wild' => s \notin Damaged)
        BY <2>a, <3>1 DEF Damaged
    <3>9. KnownWhole'
        BY <2>1, <2>a, <3>7, <3>8, KnownKept
    <3> QED BY <3>6, <3>9
  <2>6. TruncateApplied'
      BY <2>1 DEF TruncateApplied
  <2> QED BY <2>4, <2>5, <2>6 DEF RvmInv
<1>2. CASE rvm_unmap(s)
  <2>1. /\ op = "idle" /\ op' = "idle" /\ gTransList' = gTransList /\ mapped' = mapped \ {s}
        /\ UNCHANGED <<file, log, logEnd, wild>>
      BY <1>2 DEF rvm_unmap
  <2>2. \A t \in Seg : Store'[t] = Store[t]
      BY <1>a, <2>1, StoreStep, RvmAssumption
  <2>3. \A t \in mapped' : t \in Seg /\ mem'[t] = mem[t]
      BY <1>0, <1>2, <2>1 DEF rvm_unmap, RvmTypeOK
  <2>4. FirstHasAll' /\ RegionsDisjoint' /\ UndeclaredOnDisk' /\ DeclaredOnDisk'
    <3>1. ~wild' => \A t \in mapped', o \in Offset :
              gTransList = <<>> \/ Covering(t, o) = {} => mem'[t][o] = Store'[t][o]
        BY <2>1, <2>2, <2>3 DEF RvmInv, UndeclaredOnDisk
    <3>2. gTransList # <<>> => \A i \in DOMAIN Head(gTransList) : Head(gTransList)[i].seg \in mapped'
        BY <1>2, <2>1 DEF RvmInv, FirstHasAll, rvm_unmap, Regions
    <3> QED BY <2>1, <2>2, <2>3, <3>1, <3>2, TransactionKept
  <2>5. \A i \in DOMAIN segList' : \E k \in DOMAIN segList : segList'[i].seg = segList[k].seg
    <3> DEFINE A == [seg : Seg, freed : BOOLEAN]
    <3>1. segList \in Seq(A)
        BY <1>0 DEF RvmTypeOK
    <3>2. PICK i \in DOMAIN segList :
            segList' = IF i = Len(segList) THEN [segList EXCEPT ![i].freed = TRUE]
                       ELSE SubSeq(segList, 1, i - 1) \o SubSeq(segList, i + 1, Len(segList))
        BY <1>2 DEF rvm_unmap
    <3>3. CASE i = Len(segList)
      <4>1. DOMAIN segList' = DOMAIN segList /\ \A k \in DOMAIN segList : segList'[k].seg = segList[k].seg
        <5>1. segList' = [segList EXCEPT ![i] = [segList[i] EXCEPT !.freed = TRUE]]
            BY <3>2, <3>3
        <5>2. segList[i] \in A
          <6> HIDE DEF A
          <6> QED BY <3>1
        <5>3. [segList[i] EXCEPT !.freed = TRUE].seg = segList[i].seg
            BY <5>2
        <5> QED BY <5>1, <5>3
      <4> QED BY <4>1
    <3>4. CASE i # Len(segList)
      <4> HIDE DEF A
      <4>1. segList' = SubSeq(segList, 1, i - 1) \o SubSeq(segList, i + 1, Len(segList))
          BY <3>2, <3>4
      <4>2. i \in DOMAIN segList
          BY <3>2
      <4> HIDE <3>2
      <4>3. \A j \in DOMAIN segList' : \E k \in DOMAIN segList : segList'[j] = segList[k]
          BY <3>1, <4>1, <4>2, WithoutEntry
      <4> QED BY <4>3
    <3> QED BY <3>3, <3>4
  <2>6. FilesExist' /\ KnownWhole'
    <3>1. \A i \in DOMAIN segList : segList[i].seg \in Seg
        BY <1>0, NodesAreSegments
    <3>2. FilesExist'
        BY <2>1, <2>5, <3>1, RvmAssumption DEF RvmInv, FilesExist
    <3>3. Known' \subseteq Known /\ Damaged' = Damaged
        BY <2>1, <2>5 DEF Known, Damaged
    <3>4. KnownWhole'
        BY <2>1, <3>3, KnownKept
    <3> QED BY <3>2, <3>4
  <2>7. TruncateApplied'
      BY <2>1 DEF TruncateApplied
  <2> QED BY <2>4, <2>6, <2>7 DEF RvmInv
<1>3. CASE rvm_destroy(s) \/ DestroyLog(s)
  <2>1. /\ gTransList' = gTransList /\ mapped' = mapped /\ mem' = mem /\ segList' = segList
        /\ wild' = wild /\ op' \in {"idle", s} /\ op \in {"idle", s}
      BY <1>3 DEF rvm_destroy, DestroyLog
  <2>2. s \notin mapped
      BY <1>3 DEF rvm_destroy, DestroyLog, RvmInv, FilesExist
  <2>3. \A t \in mapped : Store'[t] = Store[t]
      BY <1>0, <1>a, <2>1, <2>2, StoreStep, RvmAssumption
  <2>4. FirstHasAll' /\ RegionsDisjoint' /\ UndeclaredOnDisk' /\ DeclaredOnDisk'
    <3>1. ~wild' => \A t \in mapped', o \in Offset :
              gTransList = <<>> \/ Covering(t, o) = {} => mem'[t][o] = Store'[t][o]
        BY <2>1, <2>3 DEF RvmInv, UndeclaredOnDisk
    <3>2. gTransList # <<>> => \A i \in DOMAIN Head(gTransList) : Head(gTransList)[i].seg \in mapped'
        BY <2>1 DEF RvmInv, FirstHasAll
    <3> QED BY <1>0, <2>1, <2>3, <3>1, <3>2, TransactionKept
  <2>5. FilesExist'
    <3>0. \A i \in DOMAIN segList : segList[i].seg \in Seg
        BY <1>0, NodesAreSegments
    <3>1. CASE rvm_destroy(s)
      <4>1. file' = [file EXCEPT ![s] = Missing] /\ op' = s /\ log' = log /\ op = "idle"
          BY <3>1 DEF rvm_destroy
      <4>2. file'[s] = Missing /\ \A x \in Seg : x # s => file'[x] = file[x]
          BY <1>0, <4>1 DEF RvmTypeOK
      <4>3. \A x \in mapped' : file'[x] # Missing
          BY <1>0, <2>1, <2>2, <4>2 DEF RvmInv, FilesExist
      <4>4. \A i \in DOMAIN segList : segList[i].seg # s =>
                file'[segList[i].seg] # Missing \/ log'[segList[i].seg] = <<>>
          BY <3>0, <4>1, <4>2, RvmAssumption DEF RvmInv, FilesExist
      <4> QED BY <2>1, <2>2, <4>1, <4>2, <4>3, <4>4 DEF FilesExist
    <3>2. CASE DestroyLog(s)
      <4>1. op' = "idle" /\ file' = file /\ op = s /\ log'[s] = <<>> /\ \A x \in Seg : x # s => log'[x] = log[x]
          BY <1>0, <3>2 DEF DestroyLog, RvmTypeOK
      <4>2. \A i \in DOMAIN segList : file'[segList[i].seg] # Missing \/ log'[segList[i].seg] = <<>>
          BY <3>0, <4>1 DEF RvmInv, FilesExist
      <4> QED BY <2>1, <4>1, <4>2, RvmAssumption DEF RvmInv, FilesExist
    <3> QED BY <1>3, <3>1, <3>2
  <2>6. TruncateApplied' /\ KnownWhole'
    <3>1. Damaged' \subseteq Damaged /\ Known' = Known
        BY <1>3, <2>1 DEF rvm_destroy, DestroyLog, Damaged, Known, RvmTypeOK
    <3>2. KnownWhole'
        BY <1>0, <2>1, <3>1, KnownKept
    <3> QED BY <1>0, <2>1, <3>2 DEF TruncateApplied
  <2> QED BY <2>4, <2>5, <2>6 DEF RvmInv
<1> QED BY <1>1, <1>2, <1>3

\* The step leaves the segments, their files and their logs alone.
LEMMA FilesKept ==
    ASSUME RvmInv, UNCHANGED <<segList, mapped, diskVars, wild>>,
           op \notin Seg \union {"append"}, op' \notin Seg \union {"truncate"}
    PROVE  FilesExist' /\ KnownWhole' /\ TruncateApplied'
<1>1. FilesExist'
  <2>1. \A i \in DOMAIN segList : op # segList[i].seg
      BY NodesAreSegments DEF RvmInv
  <2> QED BY <2>1 DEF RvmInv, FilesExist, diskVars
<1>2. Known' = Known /\ Damaged' = Damaged
    BY DEF Known, Damaged, diskVars
<1> QED BY <1>1, <1>2, KnownKept DEF TruncateApplied

\* Calls that begin, abort and extend transactions, and the application.
LEMMA TransactionCallsKeep ==
    ASSUME RvmInv, RvmTypeOK', Disciplined, [RvmNext]_rvmVars, NEW h \in Handle,
           \/ rvm_begin_trans(h) \/ rvm_abort_trans(h)
           \/ \E s \in Seg, Q \in Ranges : rvm_about_to_modify(h, s, Q)
    PROVE  RvmInv'
<1> USE DEF memVars, opVars
<1>0. op = "idle" /\ op' = "idle" /\ RvmTypeOK /\ mapped \subseteq Seg /\ UNCHANGED diskVars
    BY DEF rvm_begin_trans, rvm_abort_trans, rvm_about_to_modify, Die, RvmInv, RvmTypeOK
<1>1. \A t \in Seg : Store'[t] = Store[t]
    BY <1>0, StoreKept DEF diskVars
<1>2. op \notin Seg \union {"append"} /\ op' \notin Seg \union {"truncate"}
    BY <1>0, RvmAssumption
<1>3. CASE rvm_begin_trans(h)
  <2>1. UNCHANGED <<segList, mapped, mem, wild>> /\ gTransList' = Append(gTransList, <<>>)
      BY <1>3 DEF rvm_begin_trans
  <2>2. CASE gTransList = <<>>
    <3>1. gTransList' = <<<<>>>> /\ Head(gTransList') = <<>> /\ DOMAIN <<>> = {} /\ Len(<<>>) = 0
          /\ DOMAIN gTransList' = {1}
        BY <2>1, <2>2
    <3>2. FirstHasAll' /\ RegionsDisjoint' /\ DeclaredOnDisk'
        BY <3>1, RvmAssumption DEF FirstHasAll, RegionsDisjoint, DeclaredOnDisk
    <3>3. UndeclaredOnDisk'
        BY <1>0, <1>1, <2>1, <2>2 DEF RvmInv, UndeclaredOnDisk
    <3> QED BY <1>0, <1>2, <2>1, <3>2, <3>3, FilesKept DEF RvmInv
  <2>3. CASE gTransList # <<>>
    <3>1. /\ gTransList' # <<>> /\ Head(gTransList') = Head(gTransList)
          /\ \A k \in DOMAIN gTransList' : gTransList'[k] = <<>> \/ (k \in DOMAIN gTransList /\ gTransList'[k] = gTransList[k])
        BY <1>0, <2>1, <2>3 DEF RvmTypeOK
    <3>2. FirstHasAll'
        BY <2>1, <2>3, <3>1 DEF RvmInv, FirstHasAll
    <3>3. RegionsDisjoint'
        BY <2>3, <3>1 DEF RvmInv, RegionsDisjoint
    <3>4. \A t \in Seg, o \in Offset : Covering(t, o)' = Covering(t, o)
        BY <3>1 DEF Covering, Regions
    <3>5. UndeclaredOnDisk'
        BY <1>0, <1>1, <2>1, <2>3, <3>1, <3>4 DEF RvmInv, UndeclaredOnDisk
    <3>6. DeclaredOnDisk'
      <4>1. \A i \in DOMAIN Head(gTransList) : Head(gTransList)[i].seg \in Seg
          BY <1>0, <2>3 DEF RvmInv, FirstHasAll
      <4> QED BY <1>0, <1>1, <2>1, <2>3, <3>1, <4>1 DEF RvmInv, DeclaredOnDisk
    <3> QED BY <1>0, <1>2, <2>1, <3>2, <3>3, <3>5, <3>6, FilesKept DEF RvmInv
  <2> QED BY <2>2, <2>3
<1>4. CASE rvm_abort_trans(h)
  <2>1. CASE Head(gTransList) = <<>>
      BY <1>4, <2>1, DieKeeps DEF rvm_abort_trans
  <2>2. CASE Head(gTransList) # <<>>
    <3>1. /\ gTransList # <<>> /\ gTransList' = Tail(gTransList) /\ UNCHANGED <<segList, mapped, wild>>
          /\ mem' = [s \in Seg |-> [o \in Offset |->
                       IF Covering(s, o) = {} THEN mem[s][o]
                       ELSE Head(gTransList)[Max(Covering(s, o))].old[o]]]
        BY <1>0, <1>4, <2>2, FirstTransaction DEF rvm_abort_trans
    <3>2. ASSUME ~wild, NEW t \in mapped, NEW o \in Offset PROVE mem'[t][o] = Store'[t][o]
      <4>0. t \in Seg
          BY <1>0
      <4>1. CASE Covering(t, o) = {}
          BY <1>1, <3>1, <3>2, <4>0, <4>1 DEF RvmInv, UndeclaredOnDisk
      <4>2. CASE Covering(t, o) # {}
        <5>1. Head(gTransList) \in Seq(RegionType)
            BY <1>0, <3>1, FirstTransaction
        <5>2. Covering(t, o) \in SUBSET (1 .. Len(Head(gTransList))) /\ Len(Head(gTransList)) \in Nat
            BY <5>1 DEF Covering, Regions
        <5>3. Max(Covering(t, o)) \in Covering(t, o)
            BY <4>2, <5>2, MaxIndex
        <5> DEFINE i == Max(Covering(t, o))
        <5>4. i \in DOMAIN Head(gTransList) /\ o \in Head(gTransList)[i].range /\ Head(gTransList)[i].seg = t
            BY <5>3 DEF Covering, Regions
        <5>5. mem'[t][o] = Head(gTransList)[i].old[o]
            BY <3>1, <4>0, <4>2
        <5> HIDE DEF i
        <5>6. Store[t][o] = Head(gTransList)[i].old[o]
            BY <1>0, <3>1, <3>2, <5>4 DEF RvmInv, DeclaredOnDisk
        <5> QED BY <1>1, <4>0, <5>5, <5>6
      <4> QED BY <4>1, <4>2
    <3>3. FirstHasAll' /\ RegionsDisjoint' /\ UndeclaredOnDisk' /\ DeclaredOnDisk'
        BY <3>1, <3>2, TransactionRemoved
    <3> QED BY <1>0, <1>2, <3>1, <3>3, FilesKept DEF RvmInv
  <2> QED BY <2>1, <2>2
<1>5. ASSUME NEW s \in Seg, NEW Q \in Ranges, rvm_about_to_modify(h, s, Q) PROVE RvmInv'
  <2> DEFINE H == Head(gTransList)
             r == [seg |-> s, range |-> Q, old |-> [o \in Q |-> mem[s][o]]]
  <2>1. /\ gTransList # <<>> /\ H = gTransList[1] /\ H \in Seq(RegionType) /\ s \in mapped
        /\ gTransList' = [gTransList EXCEPT ![1] = Append(H, r)] /\ UNCHANGED <<segList, mapped, mem, wild>>
        /\ Len(H) < MaxRegions /\ \A i \in DOMAIN H : H[i].seg = s => H[i].range \intersect Q = {}
      BY <1>0, <1>5, FirstTransaction DEF rvm_about_to_modify, Disciplined, Regions
  <2>2. r.seg = s /\ r.range = Q /\ r.old = [o \in Q |-> mem[s][o]] /\ Q \subseteq Offset
      BY RangeOffsets
  <2> HIDE DEF r
  <2>3. /\ gTransList' # <<>> /\ Head(gTransList') = Append(H, r) /\ DOMAIN gTransList' = DOMAIN gTransList
        /\ \A k \in DOMAIN gTransList : k > 1 => gTransList'[k] = gTransList[k]
      BY <1>0, <2>1 DEF RvmTypeOK
  <2> HIDE DEF H
  <2> DEFINE n == Len(H) + 1
  <2>4. /\ DOMAIN Append(H, r) = DOMAIN H \union {n} /\ n \notin DOMAIN H /\ Append(H, r)[n] = r
        /\ Len(Append(H, r)) = Len(H) + 1 /\ \A i \in DOMAIN H : Append(H, r)[i] = H[i]
      BY <2>1
  <2>4a. Len(H) + 1 <= MaxRegions
      BY <2>1, RvmAssumption
  <2> DEFINE G == Append(H, r)
  <2>4b. /\ Head(gTransList') = G /\ DOMAIN G = DOMAIN H \union {n} /\ n \notin DOMAIN H /\ G[n] = r
         /\ Len(G) <= MaxRegions /\ \A i \in DOMAIN H : G[i] = H[i]
      BY <2>3, <2>4, <2>4a
  <2> HIDE DEF n, G
  <2>5. FirstHasAll'
    <3>1. \A i \in DOMAIN H : H[i].seg \in mapped
        BY <2>1 DEF RvmInv, FirstHasAll, H
    <3>2. \A i \in DOMAIN G : G[i].seg \in mapped'
        BY <2>1, <2>2, <2>4b, <3>1
    <3>3. \A k \in DOMAIN gTransList' : k > 1 => gTransList'[k] = <<>>
        BY <2>3 DEF RvmInv, FirstHasAll
    <3> QED BY <2>4b, <3>2, <3>3 DEF FirstHasAll
  <2>6. RegionsDisjoint'
    <3>1. \A i, j \in DOMAIN H : i # j /\ H[i].seg = H[j].seg => H[i].range \intersect H[j].range = {}
        BY <2>1 DEF RvmInv, RegionsDisjoint, H
    <3>2. \A i, j \in DOMAIN G : i # j /\ G[i].seg = G[j].seg => G[i].range \intersect G[j].range = {}
        BY <2>1, <2>2, <2>4b, <3>1, SMTT(30)
    <3> QED BY <2>4b, <3>2 DEF RegionsDisjoint
  <2>7. \A t \in Seg, o \in Offset : Covering(t, o)' = {} => Covering(t, o) = {}
    <3> SUFFICES ASSUME NEW t \in Seg, NEW o \in Offset, NEW i \in Covering(t, o)
                 PROVE  i \in Covering(t, o)'
        OBVIOUS
    <3>1. i \in DOMAIN H /\ H[i].seg = t /\ o \in H[i].range
        BY DEF Covering, Regions, H
    <3> QED BY <2>3, <2>4, <3>1 DEF Covering, Regions
  <2>8. UndeclaredOnDisk'
    <3> SUFFICES ASSUME ~wild, NEW t \in mapped', NEW o \in Offset, Covering(t, o)' = {}
                 PROVE  mem'[t][o] = Store'[t][o]
        BY <2>1, <2>3 DEF UndeclaredOnDisk
    <3>1. t \in mapped /\ t \in Seg /\ mem' = mem
        BY <1>0, <2>1
    <3>2. mem[t][o] = Store[t][o]
        BY <2>7, <3>1 DEF RvmInv, UndeclaredOnDisk
    <3> QED BY <1>1, <3>1, <3>2
  <2>9. DeclaredOnDisk'
    <3>a. SUFFICES ASSUME ~wild PROVE DeclaredOnDisk'
        BY <2>1 DEF DeclaredOnDisk
    <3>1. ASSUME NEW i \in DOMAIN H, NEW o \in H[i].range PROVE Store'[H[i].seg][o] = H[i].old[o]
      <4>1. H[i].seg \in Seg
        <5>1. H[i].seg \in mapped
            BY <2>1 DEF RvmInv, FirstHasAll, H
        <5> QED BY <1>0, <5>1
      <4>2. Store[H[i].seg][o] = H[i].old[o]
          BY <1>0, <2>1, <3>a DEF RvmInv, DeclaredOnDisk, H
      <4> QED BY <1>1, <4>1, <4>2
    <3>2. ASSUME NEW o \in Q PROVE Store'[s][o] = r.old[o]
      <4>1. Covering(s, o) = {}
          BY <2>1 DEF Covering, Regions, H
      <4>2. mem[s][o] = Store[s][o]
          BY <2>1, <2>2, <3>a, <4>1 DEF RvmInv, UndeclaredOnDisk
      <4> QED BY <1>1, <2>2, <4>2
    <3> QED BY <1>0, <2>2, <2>3, <2>4, <3>1, <3>2 DEF DeclaredOnDisk
  <2> QED BY <1>0, <1>2, <2>1, <2>5, <2>6, <2>8, <2>9, FilesKept DEF RvmInv
<1> QED BY <1>3, <1>4, <1>5

\* A commit: the record of region pos reaches the log of its segment.
LEMMA RecordLogged ==
    ASSUME RvmInv, Disciplined, CommitRecord
    PROVE  LET r == Head(gTransList)[pos] IN
           /\ gTransList # <<>> /\ Head(gTransList) \in Seq(RegionType)
           /\ pos \in DOMAIN Head(gTransList) /\ r.seg \in Seg /\ r.range \subseteq Offset
           /\ \A t \in Seg, o \in Offset :
                 Store'[t][o] = IF t = r.seg /\ o \in r.range THEN mem[t][o] ELSE Store[t][o]
<1> DEFINE r == Head(gTransList)[pos]
           rec == [o \in r.range |-> mem[r.seg][o]]
<1>0. RvmTypeOK
    BY DEF RvmInv
<1>1. gTransList # <<>> /\ Head(gTransList) \in Seq(RegionType) /\ pos \in DOMAIN Head(gTransList)
    BY <1>0, Appending DEF CommitRecord, RvmTypeOK
<1>2. r \in RegionType
    BY <1>1
<1>3. file' = file /\ log' = [log EXCEPT ![r.seg] = Append(@, rec)]
    BY DEF CommitRecord
<1> HIDE DEF r
<1>4. r.seg \in Seg /\ r.range \in Ranges /\ r.range \subseteq Offset /\ rec \in Records
    BY <1>0, <1>2, RangeOffsets DEF RegionType, RvmTypeOK
<1>5. ASSUME NEW t \in Seg, NEW o \in Offset
      PROVE  Store'[t][o] = IF t = r.seg /\ o \in r.range THEN mem[t][o] ELSE Store[t][o]
  <2>1. CASE t # r.seg
    <3>1. log'[t] = log[t] /\ file'[t] = file[t]
        BY <1>0, <1>3, <2>1 DEF RvmTypeOK
    <3> QED BY <1>0, <2>1, <3>1, StoreKept
  <2>2. CASE t = r.seg
    <3>1. log'[t] = Append(log[t], rec) /\ log[t] \in Seq(Records) /\ OnDisk(t)' = OnDisk(t)
        BY <1>0, <1>3, <2>2 DEF RvmTypeOK, OnDisk
    <3>2. Store'[t] = Recovered(OnDisk(t), Append(log[t], rec)) /\ Store[t] = Recovered(OnDisk(t), log[t])
        BY <3>1 DEF Store
    <3>3. DOMAIN rec = r.range /\ \A q \in r.range : rec[q] = mem[r.seg][q]
        OBVIOUS
    <3> HIDE DEF rec
    <3> QED BY <1>4, <2>2, <3>1, <3>2, <3>3, RecoveredAppend DEF Disciplined
  <2> QED BY <2>1, <2>2
<1> QED BY <1>1, <1>4, <1>5 DEF r

LEMMA CommitKeeps ==
    ASSUME RvmInv, RvmTypeOK', Disciplined, CommitOpen \/ CommitRecord \/ Cleanup_transaction
    PROVE  RvmInv'
<1> USE DEF memVars, opVars, diskVars
<1> DEFINE H == Head(gTransList)
<1>0. /\ RvmTypeOK /\ mapped \subseteq Seg /\ op \in {"commit", "append"} /\ gTransList # <<>>
      /\ H \in Seq(RegionType) /\ pos \in Nat /\ op \notin Seg /\ op' \notin Seg
    BY FirstTransaction, RvmAssumption DEF CommitOpen, CommitRecord, Cleanup_transaction, RvmInv, RvmTypeOK
<1>a. \A i \in DOMAIN segList : op # segList[i].seg /\ segList[i].seg \in Seg
    BY <1>0, NodesAreSegments
<1>1. \A i \in DOMAIN H : H[i].seg \in mapped /\ H[i].range \subseteq Offset
  <2>1. \A i \in DOMAIN H : H[i].range \subseteq Offset
      BY <1>0, RangeOffsets DEF RegionType
  <2> QED BY <1>0, <2>1 DEF RvmInv, FirstHasAll
<1>2. CASE CommitRecord
  <2>1. /\ UNCHANGED <<gTransList, mapped, mem, wild, segList, file>> /\ op = "append" /\ op' = "commit"
        /\ pos' = pos + 1 /\ logEnd' = Ended(H[pos].seg)
        /\ log' = [log EXCEPT ![H[pos].seg] = Append(@, [o \in H[pos].range |-> mem[H[pos].seg][o]])]
      BY <1>0, <1>2 DEF CommitRecord
  <2>2. /\ pos \in DOMAIN H
        /\ \A t \in Seg, o \in Offset :
              Store'[t][o] = IF t = H[pos].seg /\ o \in H[pos].range THEN mem[t][o] ELSE Store[t][o]
      BY <1>2, RecordLogged
  <2>3. FirstHasAll' /\ RegionsDisjoint'
      BY <2>1 DEF RvmInv, FirstHasAll, RegionsDisjoint
  <2>4. UndeclaredOnDisk'
    <3> SUFFICES ASSUME ~wild, NEW t \in mapped, NEW o \in Offset, Covering(t, o) = {}
                 PROVE  mem[t][o] = Store'[t][o]
        BY <1>0, <2>1 DEF UndeclaredOnDisk, Covering, Regions
    <3>1. mem[t][o] = Store[t][o]
        BY DEF RvmInv, UndeclaredOnDisk
    <3>2. ~(t = H[pos].seg /\ o \in H[pos].range)
        BY <2>2 DEF Covering, Regions
    <3> QED BY <1>0, <2>2, <3>1, <3>2
  <2>5. DeclaredOnDisk'
    <3> SUFFICES ASSUME ~wild, NEW i \in DOMAIN H, NEW o \in H[i].range
                 PROVE  Store'[H[i].seg][o] = IF i < pos + 1 THEN mem[H[i].seg][o] ELSE H[i].old[o]
        BY <1>0, <2>1 DEF DeclaredOnDisk
    <3>0. H[i].seg \in Seg /\ o \in Offset /\ i \in Nat
        BY <1>0, <1>1
    <3>1. Store[H[i].seg][o] = IF i < pos THEN mem[H[i].seg][o] ELSE H[i].old[o]
        BY <1>0 DEF RvmInv, DeclaredOnDisk
    <3>2. CASE i = pos
        BY <1>0, <2>2, <3>0, <3>2
    <3>3. CASE i # pos
      <4>1. ~(H[i].seg = H[pos].seg /\ o \in H[pos].range)
          BY <1>0, <2>2, <3>3 DEF RvmInv, RegionsDisjoint
      <4>2. Store'[H[i].seg][o] = Store[H[i].seg][o]
          BY <2>2, <3>0, <4>1
      <4> QED BY <1>0, <3>0, <3>1, <3>3, <4>2
    <3> QED BY <3>2, <3>3
  <2>6. FilesExist'
    <3>1. H[pos].seg \in mapped /\ H[pos].seg \in Seg
        BY <1>0, <1>1, <2>2
    <3>2. \A x \in Seg : x = H[pos].seg \/ log'[x] = log[x]
        BY <1>0, <2>1, <3>1 DEF RvmTypeOK
    <3> QED BY <1>0, <1>a, <2>1, <3>1, <3>2 DEF RvmInv, FilesExist
  <2>7. TruncateApplied'
      BY <2>1 DEF TruncateApplied
  <2>8. KnownWhole'
    <3>1. H[pos].seg \in Seg
        BY <1>0, <1>1, <2>2
    <3>2. /\ \A x \in Seg : x # H[pos].seg => logEnd'[x] = logEnd[x]
          /\ logEnd[H[pos].seg] = "empty" => logEnd'[H[pos].seg] = "whole"
          /\ logEnd[H[pos].seg] = "whole" => logEnd'[H[pos].seg] = "whole"
        BY <1>0, <2>1, <3>1 DEF Ended, RvmTypeOK
    <3>3. Known' = Known /\ Damaged' \subseteq Damaged
        BY <1>0, <2>1, <3>1, <3>2 DEF Known, Damaged
    <3> SUFFICES ASSUME ~wild, NEW x \in Known, x \in Damaged' PROVE FALSE
        BY <2>1, <3>3 DEF KnownWhole
    <3>4. x \in Damaged /\ x \in Seg /\ logEnd'[x] # "whole"
        BY <3>3 DEF Damaged
    <3>5. x = H[pos].seg /\ logEnd[x] = "empty"
        BY <3>4 DEF RvmInv, KnownWhole
    <3> QED BY <3>2, <3>4, <3>5
  <2> QED BY <2>3, <2>4, <2>5, <2>6, <2>7, <2>8 DEF RvmInv
<1>3. CASE Cleanup_transaction
  <2>1. /\ gTransList' = Tail(gTransList) /\ op = "commit" /\ op' = "idle" /\ pos > Len(H)
        /\ UNCHANGED <<segList, mapped, mem, wild, file, log, logEnd>>
      BY <1>3 DEF Cleanup_transaction
  <2>2. \A t \in Seg : Store'[t] = Store[t]
      BY <1>0, <2>1, StoreKept
  <2>3. ASSUME ~wild, NEW t \in mapped, NEW o \in Offset PROVE mem[t][o] = Store[t][o]
    <3>1. CASE Covering(t, o) = {}
        BY <2>3, <3>1 DEF RvmInv, UndeclaredOnDisk
    <3>2. ASSUME NEW i \in Covering(t, o) PROVE mem[t][o] = Store[t][o]
      <4>1. i \in DOMAIN H /\ H[i].seg = t /\ o \in H[i].range
          BY DEF Covering, Regions
      <4>2. i < pos
          BY <1>0, <2>1, <4>1
      <4> QED BY <1>0, <2>3, <4>1, <4>2 DEF RvmInv, DeclaredOnDisk
    <3> QED BY <3>1, <3>2
  <2>4. FirstHasAll' /\ RegionsDisjoint' /\ UndeclaredOnDisk' /\ DeclaredOnDisk'
      BY <1>0, <2>1, <2>2, <2>3, TransactionRemoved
  <2> QED BY <1>0, <2>1, <2>4, FilesKept DEF RvmInv
<1>4. CASE CommitOpen
  <2>1. /\ UNCHANGED <<gTransList, mapped, mem, wild, segList, pos, file, log>>
        /\ op = "commit" /\ op' = "append" /\ pos <= Len(H)
        /\ logEnd' = IF log[H[pos].seg] = <<>> /\ logEnd[H[pos].seg] = "whole"
                     THEN [logEnd EXCEPT ![H[pos].seg] = "empty"] ELSE logEnd
      BY <1>4 DEF CommitOpen
  <2>2. Store' = Store /\ \A t \in Seg, o \in Offset : Covering(t, o)' = Covering(t, o)
      BY <2>1 DEF Store, OnDisk, Covering, Regions
  <2>3. FirstHasAll' /\ RegionsDisjoint' /\ TruncateApplied'
      BY <2>1 DEF RvmInv, FirstHasAll, RegionsDisjoint, TruncateApplied
  <2>4. UndeclaredOnDisk'
      BY <1>0, <2>1, <2>2 DEF RvmInv, UndeclaredOnDisk
  <2>5. DeclaredOnDisk'
      BY <2>1, <2>2 DEF RvmInv, DeclaredOnDisk
  <2>6. FilesExist'
      BY <1>0, <1>a, <2>1 DEF RvmInv, FilesExist
  <2>7. KnownWhole'
    <3>1. H[pos].seg \in Seg
        BY <1>0, <2>1, Appending
    <3>2. \A x \in Seg : logEnd'[x] = logEnd[x] \/ (x = H[pos].seg /\ logEnd'[x] = "empty")
        BY <1>0, <2>1, <3>1 DEF RvmTypeOK
    <3> SUFFICES ASSUME ~wild, NEW x \in Known, x \in Damaged'
                 PROVE  x = H[pos].seg /\ logEnd'[x] = "empty"
        BY <2>1 DEF KnownWhole, Known
    <3>3. x \in Seg /\ logEnd'[x] # "whole"
        BY DEF Damaged
    <3>4. x \notin Damaged
        BY <2>1 DEF RvmInv, KnownWhole
    <3>5. logEnd[x] = "whole"
        BY <3>3, <3>4 DEF Damaged
    <3> QED BY <3>2, <3>3, <3>5
  <2> QED BY <2>3, <2>4, <2>5, <2>6, <2>7 DEF RvmInv
<1> QED BY <1>2, <1>3, <1>4

LEMMA TruncateKeeps ==
    ASSUME RvmInv, RvmTypeOK', Disciplined, [RvmNext]_rvmVars, NEW s,
           \/ rvm_truncate_log \/ TruncateEnd
           \/ /\ s \in Seg
              /\ TruncateFreed(s) \/ TruncateRecord(s) \/ TruncateStray(s) \/ TruncateUnlink(s)
    PROVE  RvmInv'
<1> USE DEF memVars, opVars, diskVars
<1>0. /\ RvmTypeOK /\ mapped \subseteq Seg /\ UNCHANGED <<gTransList, mapped, mem, segList, wild>>
      /\ op \in {"idle", "truncate"} /\ op' \in {"idle", "truncate"} /\ op \notin Seg /\ op' \notin Seg
    BY RvmAssumption DEF rvm_truncate_log, TruncateFreed, TruncateRecord, TruncateStray, TruncateUnlink,
                         TruncateEnd, Truncating, RvmInv, RvmTypeOK
<1>1. ~wild => \A t \in Seg : Store'[t] = Store[t]
    BY <1>0, StoreStep, WildTruncates DEF CommitRecord
<1>2. FirstHasAll' /\ RegionsDisjoint' /\ UndeclaredOnDisk' /\ DeclaredOnDisk'
  <2>1. ~wild' => \A t \in mapped', o \in Offset :
            gTransList = <<>> \/ Covering(t, o) = {} => mem'[t][o] = Store'[t][o]
      BY <1>0, <1>1 DEF RvmInv, UndeclaredOnDisk
  <2>2. gTransList # <<>> => \A i \in DOMAIN Head(gTransList) : Head(gTransList)[i].seg \in mapped'
      BY <1>0 DEF RvmInv, FirstHasAll
  <2> QED BY <1>0, <1>1, <2>1, <2>2, TransactionKept
<1>3. FilesExist'
  <2>1. \A t \in Seg : file[t] # Missing => file'[t] # Missing
    <3>1. CASE s \in Seg /\ TruncateRecord(s)
        BY <1>0, <3>1, RecordWritten, MissingAssumption DEF RvmTypeOK
    <3>2. CASE s \in Seg /\ TruncateStray(s)
      <4>1. \A f \in Bytes : f # Missing => Written(f, Junks) \in Bytes
          BY DEF Written, Junks, Bytes, Value
      <4>2. \A f \in Bytes \union {Missing} : f # Missing => Written(f, Junks) # Missing
          BY <4>1, MissingAssumption
      <4> QED BY <1>0, <3>2, <4>2 DEF TruncateStray, RvmTypeOK
    <3>3. CASE file' = file
        BY <3>3
    <3> QED BY <3>1, <3>2, <3>3 DEF rvm_truncate_log, TruncateFreed, TruncateUnlink, TruncateEnd
  <2>2. \A t \in Seg : log'[t] = log[t] \/ log'[t] = <<>>
      BY <1>0 DEF rvm_truncate_log, TruncateFreed, TruncateRecord, TruncateStray, TruncateUnlink,
                  TruncateEnd, RvmTypeOK
  <2>3. \A i \in DOMAIN segList : op # segList[i].seg /\ segList[i].seg \in Seg
      BY <1>0, NodesAreSegments
  <2> QED BY <1>0, <2>1, <2>2, <2>3 DEF RvmInv, FilesExist
<1>4. TruncateApplied'
  <2>1. CASE rvm_truncate_log \/ (s \in Seg /\ (TruncateFreed(s) \/ TruncateUnlink(s)))
    <3>1. pos' = 1
        BY <2>1 DEF rvm_truncate_log, TruncateFreed, TruncateUnlink
    <3>2. \A t \in Seg : \A i \in DOMAIN log'[t] : ~(i < 1)
        BY DEF RvmTypeOK
    <3>3. ASSUME idx' <= Len(segList'), op' = "truncate"
          PROVE  segList'[idx'].seg \in Seg
      <4>1. idx' \in DOMAIN segList'
          BY <3>3 DEF RvmTypeOK
      <4> QED BY <1>0, <4>1, NodesAreSegments
    <3> QED BY <3>1, <3>2, <3>3 DEF TruncateApplied
  <2>2. CASE s \in Seg /\ TruncateRecord(s)
    <3>1. /\ op = "truncate" /\ idx <= Len(segList) /\ segList[idx].seg = s
          /\ UNCHANGED <<op, idx, log, logEnd>> /\ pos' = pos + 1 /\ pos \in Nat
        BY <2>2 DEF TruncateRecord, Truncating, RvmInv, RvmTypeOK
    <3>a. SUFFICES ASSUME s \notin Damaged PROVE TruncateApplied'
        BY <1>0, <3>1 DEF TruncateApplied, Damaged
    <3>2. log[s] \in Seq(Records) /\ file'[s] = Written(file[s], log[s][pos]) /\ file[s] # Missing
        BY <1>0, <2>2, <3>a, RecordWritten DEF RvmTypeOK
    <3>3. ASSUME NEW o \in Offset, NEW i \in DOMAIN log[s], i < pos + 1, o \in DOMAIN log[s][i],
                 \A j \in DOMAIN log[s] : j < pos + 1 /\ o \in DOMAIN log[s][j] => j <= i
          PROVE  file'[s][o] = log[s][i][o]
      <4>0. i \in Nat /\ pos \in DOMAIN log[s]
          BY <2>2, <3>2, RecordWritten
      <4>1. file'[s][o] = IF o \in DOMAIN log[s][pos] THEN log[s][pos][o] ELSE file[s][o]
          BY <3>2 DEF Written
      <4>2. CASE i = pos
          BY <3>3, <4>1, <4>2
      <4>3. CASE i < pos
        <5>1. o \notin DOMAIN log[s][pos]
            BY <3>1, <3>3, <4>0, <4>3
        <5>2. \A j \in DOMAIN log[s] : j < pos /\ o \in DOMAIN log[s][j] => j <= i
            BY <3>1, <3>2, <3>3
        <5>3. file[s][o] = log[s][i][o]
            BY <3>1, <3>a, <3>3, <4>3, <5>2 DEF RvmInv, TruncateApplied
        <5> QED BY <4>1, <5>1, <5>3
      <4> QED BY <3>1, <3>3, <4>0, <4>2, <4>3
    <3> QED BY <1>0, <3>1, <3>3 DEF TruncateApplied
  <2>3. CASE TruncateEnd
      BY <2>3 DEF TruncateEnd, TruncateApplied
  <2>4. CASE s \in Seg /\ TruncateStray(s)
    <3>1. segList'[idx'].seg = s /\ s \in Damaged /\ Damaged' = Damaged
        BY <2>4 DEF TruncateStray, Truncating, Damaged
    <3> QED BY <3>1 DEF TruncateApplied
  <2> QED BY <2>1, <2>2, <2>3, <2>4
<1>5. KnownWhole'
  <2>1. Known' = Known
      BY <1>0 DEF Known
  <2>2. Damaged' \subseteq Damaged
      BY <1>0 DEF rvm_truncate_log, TruncateFreed, TruncateRecord, TruncateStray, TruncateUnlink,
                  TruncateEnd, RvmTypeOK, Damaged
  <2> QED BY <1>0, <2>1, <2>2, KnownKept
<1> QED BY <1>2, <1>3, <1>4, <1>5 DEF RvmInv

\* The invariant holds initially: nothing is mapped, listed or begun.
LEMMA RvmInvInit == RvmInit => RvmInv
<1> SUFFICES ASSUME RvmInit PROVE RvmInv
    OBVIOUS
<1>1. DOMAIN <<>> = {} /\ op \notin Seg
    BY RvmAssumption DEF RvmInit
<1>2. FirstHasAll /\ RegionsDisjoint /\ UndeclaredOnDisk /\ DeclaredOnDisk
    BY <1>1 DEF RvmInit, FirstHasAll, RegionsDisjoint, UndeclaredOnDisk, DeclaredOnDisk
<1>3. FilesExist /\ TruncateApplied /\ KnownWhole
    BY <1>1 DEF RvmInit, FilesExist, TruncateApplied, KnownWhole, Known
<1> QED BY <1>2, <1>3, RvmTypeInit DEF RvmInv

\* Every step preserves it.
LEMMA RvmInvStep ==
    ASSUME Disciplined
    PROVE  RvmInv /\ [RvmNext]_rvmVars => RvmInv'
<1> SUFFICES ASSUME RvmInv, [RvmNext]_rvmVars PROVE RvmInv'
    OBVIOUS
<1> USE DEF memVars, opVars, diskVars
<1>0. RvmTypeOK /\ RvmTypeOK' /\ mapped \subseteq Seg
    BY RvmTypeStep DEF RvmInv, RvmTypeOK
<1>1. CASE rvm_init \/ UNCHANGED rvmVars
  <2>1. UNCHANGED <<segList, mapped, mem, wild, gTransList, opVars, diskVars>>
      BY <1>1 DEF rvm_init, rvmVars
  <2>2. Store' = Store /\ \A t \in Seg, o \in Offset : Covering(t, o)' = Covering(t, o)
      BY <2>1 DEF Store, OnDisk, Covering, Regions
  <2>3. FirstHasAll' /\ RegionsDisjoint' /\ FilesExist' /\ TruncateApplied' /\ KnownWhole'
    <3>1. Known' = Known /\ Damaged' = Damaged
        BY <2>1 DEF Known, Damaged
    <3>2. KnownWhole'
        BY <2>1, <3>1 DEF RvmInv, KnownWhole
    <3>3. FilesExist' /\ TruncateApplied'
        BY <2>1, <3>1 DEF RvmInv, FilesExist, TruncateApplied
    <3> QED BY <2>1, <3>2, <3>3 DEF RvmInv, FirstHasAll, RegionsDisjoint
  <2>4. UndeclaredOnDisk'
      BY <1>0, <2>1, <2>2 DEF RvmInv, UndeclaredOnDisk
  <2>5. DeclaredOnDisk'
      BY <2>1, <2>2 DEF RvmInv, DeclaredOnDisk
  <2> QED BY <1>0, <2>3, <2>4, <2>5 DEF RvmInv
<1>2. ASSUME NEW s \in Seg, rvm_map(s) \/ rvm_unmap(s) \/ rvm_destroy(s) \/ DestroyLog(s) PROVE RvmInv'
    BY <1>0, <1>2, SegmentCallsKeep
<1>3. ASSUME NEW h \in Handle,
             \/ rvm_begin_trans(h) \/ rvm_abort_trans(h)
             \/ \E s \in Seg, Q \in Ranges : rvm_about_to_modify(h, s, Q)
      PROVE  RvmInv'
    BY <1>0, <1>3, TransactionCallsKeep
<1>4. ASSUME NEW h \in Handle, rvm_commit_trans(h) PROVE RvmInv'
  <2>1. /\ UNCHANGED <<segList, mapped, mem, wild, gTransList, diskVars>>
        /\ op = "idle" /\ op' = "commit" /\ pos' = 1
      BY <1>4 DEF rvm_commit_trans
  <2>2. \A t \in Seg : Store'[t] = Store[t]
      BY <1>0, <2>1, StoreKept
  <2>3. ~wild' => \A t \in mapped', o \in Offset :
            gTransList = <<>> \/ Covering(t, o) = {} => mem'[t][o] = Store'[t][o]
      BY <1>0, <2>1, <2>2 DEF RvmInv, UndeclaredOnDisk
  <2>4. gTransList # <<>> => \A i \in DOMAIN Head(gTransList) : Head(gTransList)[i].seg \in mapped'
      BY <2>1 DEF RvmInv, FirstHasAll
  <2>5. FirstHasAll' /\ RegionsDisjoint' /\ UndeclaredOnDisk' /\ DeclaredOnDisk'
      BY <1>0, <2>1, <2>2, <2>3, <2>4, TransactionKept
  <2> QED BY <1>0, <2>1, <2>5, FilesKept, RvmAssumption DEF RvmInv
<1>5. ASSUME NEW s \in Seg, NEW o \in Offset, NEW v \in Byte, Modify(s, o, v) PROVE RvmInv'
  <2>1. /\ UNCHANGED <<segList, mapped, wild, gTransList, diskVars>> /\ op = "idle" /\ op' = "idle"
        /\ gTransList # <<>> /\ Covering(s, o) # {} /\ mem' = [mem EXCEPT ![s][o] = v]
      BY <1>5 DEF Modify, Covering
  <2>2. \A t \in Seg : Store'[t] = Store[t]
      BY <1>0, <2>1, StoreKept
  <2>3. ASSUME ~wild, NEW t \in mapped, NEW q \in Offset, Covering(t, q) = {}
        PROVE  mem'[t][q] = Store'[t][q]
    <3>1. t # s \/ q # o
        BY <2>1, <2>3
    <3>2. mem'[t][q] = mem[t][q]
        BY <1>0, <2>1, <3>1 DEF RvmTypeOK, Bytes
    <3>3. mem[t][q] = Store[t][q]
        BY <2>3 DEF RvmInv, UndeclaredOnDisk
    <3> QED BY <1>0, <2>2, <3>2, <3>3
  <2>4. \A i \in DOMAIN Head(gTransList) : Head(gTransList)[i].seg \in mapped'
      BY <2>1 DEF RvmInv, FirstHasAll
  <2>5. FirstHasAll' /\ RegionsDisjoint' /\ UndeclaredOnDisk' /\ DeclaredOnDisk'
      BY <1>0, <2>1, <2>2, <2>3, <2>4, TransactionKept
  <2> QED BY <1>0, <2>1, <2>5, FilesKept, RvmAssumption DEF RvmInv
<1>6. CASE CommitOpen \/ CommitRecord \/ Cleanup_transaction
    BY <1>0, <1>6, CommitKeeps
<1>7. CASE rvm_truncate_log \/ TruncateEnd
    BY <1>0, <1>7, TruncateKeeps
<1>8. ASSUME NEW s \in Seg,
             TruncateFreed(s) \/ TruncateRecord(s) \/ TruncateStray(s) \/ TruncateUnlink(s)
      PROVE  RvmInv'
    BY <1>0, <1>8, TruncateKeeps
<1>9. CASE Crash
    BY <1>0, <1>9, DieKeeps DEF Crash
<1> QED BY <1>1, <1>2, <1>3, <1>4, <1>5, <1>6, <1>7, <1>8, <1>9 DEF RvmNext, Call, Continue

\* For every number of segments, bytes, transactions and log records: whenever
\* no transaction is open, the memory of a mapped segment is exactly what a
\* crash and a new rvm_map would bring back, so commits and aborts, truncation
\* in whole or in part, and earlier crashes have neither lost nor invented a
\* byte -- as long as the process has not read a log that a crash in the middle
\* of a record has left empty or torn.
THEOREM MemoryIsCommitted == Disciplined => (RvmSpec => []MappedIsCommitted)
<1> SUFFICES ASSUME Disciplined PROVE RvmSpec => []MappedIsCommitted
    OBVIOUS
<1>1. RvmInv /\ [RvmNext]_rvmVars => RvmInv'
    BY RvmInvStep
<1>2. RvmInv => MappedIsCommitted
  <2> SUFFICES ASSUME RvmInv, op = "idle", gTransList = <<>>, ~wild, NEW s \in mapped
               PROVE  s \notin Damaged /\ mem[s] = Store[s]
      BY DEF MappedIsCommitted
  <2>1. RvmTypeOK /\ s \in Seg /\ mem[s] \in Bytes
      BY DEF RvmInv, RvmTypeOK
  <2>2. Store[s] \in Bytes
      BY <2>1, OnDiskType
  <2>3. \A o \in Offset : mem[s][o] = Store[s][o]
      BY DEF RvmInv, UndeclaredOnDisk
  <2>4. s \notin Damaged
      BY DEF RvmInv, KnownWhole, Known
  <2> QED BY <2>1, <2>2, <2>3, <2>4 DEF Bytes
<1> QED BY <1>1, <1>2, RvmInvInit, PTL DEF RvmSpec

\* Only a commit damages a log.
LEMMA DamagedStep ==
    ASSUME RvmInv, [RvmNext]_rvmVars, op \notin {"commit", "append"}
    PROVE  \/ Damaged' = Damaged
           \/ \E s \in Seg : /\ Damaged' = Damaged \ {s}
                             /\ DestroyLog(s) \/ (s \in Damaged /\ TruncateUnlink(s))
<1> USE DEF memVars, opVars, diskVars
<1>1. logEnd' = logEnd => Damaged' = Damaged
    BY DEF Damaged
<1>2. ASSUME NEW s \in Seg, logEnd' = [logEnd EXCEPT ![s] = "whole"]
      PROVE  Damaged' = Damaged \ {s}
    BY <1>2 DEF Damaged, RvmInv, RvmTypeOK
<1>3. \/ logEnd' = logEnd
      \/ \E s \in Seg : logEnd' = [logEnd EXCEPT ![s] = "whole"] /\ (DestroyLog(s) \/ TruncateUnlink(s))
  <2>1. CASE Call
      BY <2>1 DEF Call, rvm_init, rvm_map, rvm_unmap, rvm_destroy, rvm_begin_trans, rvm_commit_trans,
                  rvm_abort_trans, rvm_about_to_modify, Modify, rvm_truncate_log
  <2>2. CASE Continue
      BY <2>2 DEF Continue, CommitOpen, CommitRecord, Cleanup_transaction, TruncateEnd, TruncateFreed,
                  TruncateRecord, TruncateStray, TruncateUnlink, DestroyLog
  <2>3. CASE Crash \/ UNCHANGED rvmVars
      BY <2>3 DEF Crash, rvmVars
  <2> QED BY <2>1, <2>2, <2>3 DEF RvmNext
<1>4. ASSUME NEW s \in Seg, logEnd' = [logEnd EXCEPT ![s] = "whole"], TruncateUnlink(s), s \notin Damaged
      PROVE  Damaged' = Damaged
    BY <1>2, <1>4
<1> QED BY <1>1, <1>2, <1>3, <1>4

\* No step but a commit's records and rvm_destroy changes what rvm_map would
\* return, and none but a commit's damages a log; in particular no step of
\* rvm_truncate_log and no crash between two, in a process that has read whole
\* logs only.
THEOREM TruncationKeepsStore == Disciplined => (RvmSpec => OnlyCommitsChangeStore)
<1> SUFFICES ASSUME Disciplined PROVE RvmSpec => OnlyCommitsChangeStore
    OBVIOUS
<1>1. RvmInv /\ [RvmNext]_rvmVars => RvmInv'
    BY RvmInvStep
<1>2. RvmInv /\ [RvmNext]_rvmVars
        => [\A s \in Seg :
              \/ op \in {"commit", "append"} \/ op = s \/ op' = s \/ wild
              \/ Store'[s] = Store[s] /\ s \notin Damaged' \ Damaged]_rvmVars
  <2> SUFFICES ASSUME RvmInv, [RvmNext]_rvmVars, NEW s \in Seg, op \notin {"commit", "append"},
                      op # s, op' # s, ~wild
               PROVE  Store'[s] = Store[s] /\ s \notin Damaged' \ Damaged
      OBVIOUS
  <2>1. Store'[s] = Store[s]
      BY StoreStep, WildTruncates DEF CommitRecord
  <2>2. Damaged' \subseteq Damaged
      BY DamagedStep
  <2> QED BY <2>1, <2>2
<1> QED BY <1>1, <1>2, RvmInvInit, PTL DEF RvmSpec, OnlyCommitsChangeStore

-----------------------------------------------------------------------------
(***************************************************************************)
(* Refinement of the abstract store, for transactions of one region.       *)
(***************************************************************************)

\* The modifications of a transaction are bytes of segments.
LEMMA PendingType ==
    ASSUME NEW m \in [Seg -> Bytes], NEW D \in SUBSET (Seg \X Offset)
    PROVE  [x \in D |-> m[x[1]][x[2]]] \in UNION {[E -> Value] : E \in SUBSET (Seg \X Offset)}
<1>1. \A x \in D : x[1] \in Seg /\ x[2] \in Offset
    OBVIOUS
<1>2. \A s \in Seg, o \in Offset : m[s][o] \in Value
    BY DEF Bytes
<1>3. [x \in D |-> m[x[1]][x[2]]] \in [D -> Value]
    BY <1>1, <1>2
<1> QED BY <1>3

\* No modification of a segment is pending that is not mapped.
LEMMA PendingMapped ==
    ASSUME RvmInv, NEW s \in Seg, s \notin mapped
    PROVE  \A x \in DOMAIN Pending : x[1] # s
BY DEF Pending, Covering, Regions, RvmInv, FirstHasAll

\* The initial states of the store.
LEMMA StoreInitially ==
    ASSUME Disciplined, RvmInit
    PROVE  Abstract!StoreInit
<1>1. ASSUME NEW s \in Seg PROVE Store[s] = [o \in Offset |-> Zero]
  <2>1. OnDisk(s) = Zeros /\ log[s] = <<>>
      BY <1>1 DEF RvmInit, OnDisk
  <2>2. <<>> \in Seq(Records) /\ DOMAIN <<>> = {}
      OBVIOUS
  <2>3. \A o \in Offset : Recovered(Zeros, <<>>)[o] = Zeros[o]
    <3> SUFFICES ASSUME NEW o \in Offset PROVE Recovered(Zeros, <<>>)[o] = Zeros[o]
        OBVIOUS
    <3>1. Uncovered(<<>>, o)
        BY <2>2 DEF Uncovered
    <3> QED BY <2>2, <3>1, RecoveredByte DEF Disciplined
  <2>4. Recovered(Zeros, <<>>) = Zeros
      BY <2>3 DEF Recovered, Zeros
  <2> QED BY <2>1, <2>4 DEF Store, Zeros
<1>2. Store = [s \in Seg |-> [o \in Offset |-> Zero]]
    BY <1>1 DEF Store
<1>3. Pending = [x \in {} |-> Zero]
  <2>1. {x \in Seg \X Offset : gTransList # <<>> /\ Covering(x[1], x[2]) # {}} = {}
      BY DEF RvmInit
  <2> QED BY <2>1 DEF Pending
<1>4. Damaged = {} /\ op \notin {"commit", "append"}
    BY DEF RvmInit, Damaged
<1> QED BY <1>2, <1>3, <1>4 DEF Abstract!StoreInit, Abstract!NothingPending

\* The segment that a commit writes to next is one that the transaction modifies.
LEMMA AppendTouches ==
    ASSUME RvmInv, op \in {"commit", "append"}, pos <= Len(Head(gTransList))
    PROVE  Head(gTransList)[pos].seg \in Seg /\ Head(gTransList)[pos].seg \in Abstract!Touched
<1> DEFINE r == Head(gTransList)[pos]
<1>1. gTransList # <<>> /\ pos \in DOMAIN Head(gTransList) /\ r \in RegionType /\ r.seg \in Seg
    BY Appending DEF RvmInv
<1>2. PICK o : o \in r.range /\ o \in Offset
  <2> HIDE DEF r
  <2>1. r.range \in Ranges
      BY <1>1 DEF RegionType
  <2>2. r.range # {} /\ r.range \subseteq Offset
      BY <2>1, RangeOffsets DEF Ranges
  <2> QED BY <2>2
<1>3. pos \in Covering(r.seg, o)
    BY <1>1, <1>2 DEF Covering, Regions
<1> HIDE DEF r
<1>4. <<r.seg, o>> \in DOMAIN Pending
    BY <1>1, <1>2, <1>3 DEF Pending
<1>5. r.seg \in Abstract!Touched
    BY <1>4 DEF Abstract!Touched
<1> QED BY <1>1, <1>5 DEF r

\* Creating the log of a segment exposes it.
LEMMA OpenExposes ==
    ASSUME RvmInv, CommitOpen
    PROVE  [Abstract!StoreNext]_(Abstract!storeVars)
<1> DEFINE s == Head(gTransList)[pos].seg
<1>1. op = "commit" /\ op' = "append" /\ UNCHANGED <<gTransList, mem, file, log>>
    BY DEF CommitOpen, memVars
<1>2. s \in Seg /\ s \in Abstract!Touched
    BY AppendTouches DEF CommitOpen
<1>3. Store' = Store /\ Pending' = Pending
    BY <1>1 DEF Store, OnDisk, Pending, Covering, Regions
<1>4. logEnd' = logEnd \/ logEnd' = [logEnd EXCEPT ![s] = "empty"]
    BY DEF CommitOpen
<1> HIDE DEF s
<1>5. Damaged' = Damaged \/ Damaged' = Damaged \union {s}
    BY <1>2, <1>4 DEF Damaged, RvmInv, RvmTypeOK
<1>6. CASE Damaged' = Damaged
    BY <1>1, <1>3, <1>6 DEF Abstract!storeVars
<1>7. CASE Damaged' = Damaged \union {s}
  <2>1. Abstract!Expose(s)
      BY <1>1, <1>2, <1>3, <1>7 DEF Abstract!Expose
  <2> QED BY <1>2, <2>1 DEF Abstract!StoreNext
<1> QED BY <1>5, <1>6, <1>7

\* A commit of one region publishes it.
LEMMA CommitPublishes ==
    ASSUME RvmInv, Disciplined, MaxRegions <= 1, CommitRecord
    PROVE  Abstract!Publish
<1> DEFINE H == Head(gTransList)
<1>1. /\ gTransList # <<>> /\ H \in Seq(RegionType) /\ pos \in DOMAIN H /\ H[pos].seg \in Seg
      /\ \A t \in Seg, o \in Offset :
            Store'[t][o] = IF t = H[pos].seg /\ o \in H[pos].range THEN mem[t][o] ELSE Store[t][o]
    BY RecordLogged
<1>2. Len(H) <= 1
  <2>1. Len(H) <= MaxRegions /\ Len(H) \in Nat /\ MaxRegions \in Nat
      BY <1>1, RvmAssumption DEF RvmInv, FirstHasAll
  <2> QED BY <2>1
<1>3. \A i \in DOMAIN H : i = pos
    BY <1>1, <1>2
<1>4. \A t \in Seg, o \in Offset : Covering(t, o) # {} <=> t = H[pos].seg /\ o \in H[pos].range
    BY <1>1, <1>3 DEF Covering, Regions
<1> HIDE DEF H
<1>5. ASSUME NEW t \in Seg, NEW o \in Offset
      PROVE  /\ <<t, o>> \in DOMAIN Pending <=> t = H[pos].seg /\ o \in H[pos].range
             /\ <<t, o>> \in DOMAIN Pending => Pending[<<t, o>>] = mem[t][o]
    BY <1>1, <1>4 DEF Pending
<1>6. ASSUME NEW t \in Seg, NEW o \in Offset
      PROVE  Store'[t][o] = IF <<t, o>> \in DOMAIN Pending THEN Pending[<<t, o>>] ELSE Store[t][o]
    BY <1>1, <1>5
<1>7. Store' = [t \in Seg |-> [o \in Offset |->
                  IF <<t, o>> \in DOMAIN Pending THEN Pending[<<t, o>>] ELSE Store[t][o]]]
  <2>1. \A t \in Seg : Store'[t] = [o \in Offset |-> Store'[t][o]]
      BY DEF Store, Recovered
  <2>2. Store' = [t \in Seg |-> Store'[t]]
      BY DEF Store
  <2> QED BY <1>6, <2>1, <2>2
<1>8. Pending' = Pending
    BY DEF Pending, CommitRecord, memVars, Covering, Regions
<1>9. op = "append" /\ op' = "commit" /\ logEnd' = Ended(H[pos].seg) /\ pos <= Len(H)
    BY DEF CommitRecord, RvmInv, RvmTypeOK, H
<1>10. H[pos].seg \in Abstract!Touched
    BY <1>9, AppendTouches DEF H
<1>11. Damaged' \subseteq Damaged /\ Damaged \ {H[pos].seg} \subseteq Damaged'
    BY <1>1, <1>9 DEF Damaged, Ended, RvmInv, RvmTypeOK
<1>12. Damaged \ Abstract!Touched \subseteq Damaged'
    BY <1>10, <1>11
<1> QED BY <1>7, <1>8, <1>9, <1>11, <1>12 DEF Abstract!Publish, Abstract!Overlay

\* The two steps of rvm_destroy reset bytes of the segment.
LEMMA DestroyErases ==
    ASSUME RvmInv, Disciplined, [RvmNext]_rvmVars, NEW s \in Seg, rvm_destroy(s) \/ DestroyLog(s)
    PROVE  Abstract!Erase(s)
<1> USE DEF memVars
<1>0. s \notin {"idle", "commit", "append", "truncate"} /\ RvmTypeOK
    BY RvmAssumption DEF RvmInv
<1>1. s \notin mapped /\ UNCHANGED <<gTransList, mem>> /\ op' \in {"idle", s} /\ op \in {"idle", s}
    BY DEF rvm_destroy, DestroyLog, RvmInv, FilesExist
<1>2. \A x \in DOMAIN Pending : x[1] # s
    BY <1>1, PendingMapped
<1>3. Pending' = Pending
    BY <1>1 DEF Pending, Covering, Regions
<1>4. \A t \in Seg : t # s => Store'[t] = Store[t]
  <2>1. ~CommitRecord /\ ~TruncatesDamaged
      BY <1>0, <1>1 DEF CommitRecord, TruncatesDamaged, TruncateStray, TruncateUnlink, Truncating
  <2> QED BY <1>0, <1>1, <2>1, StoreStep, RvmAssumption
<1>5. \E D \in SUBSET Offset : \A o \in Offset : Store'[s][o] = IF o \in D THEN Zero ELSE Store[s][o]
  <2>0. log[s] \in Seq(Records)
      BY <1>0 DEF RvmTypeOK
  <2>1. CASE rvm_destroy(s)
    <3> DEFINE D == {o \in Offset : Uncovered(log[s], o)}
    <3>1. OnDisk(s)' = Zeros /\ log'[s] = log[s]
        BY <1>0, <2>1 DEF rvm_destroy, OnDisk, RvmTypeOK
    <3>2. ASSUME NEW o \in Offset PROVE Store'[s][o] = IF o \in D THEN Zero ELSE Store[s][o]
      <4>1. CASE Uncovered(log[s], o)
          BY <2>0, <3>1, <4>1, RecoveredByte DEF Disciplined, Store, Zeros
      <4>2. ASSUME NEW i, Decides(log[s], o, i) PROVE Store'[s][o] = Store[s][o]
          BY <2>0, <3>1, <4>2, RecoveredByte DEF Disciplined, Store
      <4> QED BY <2>0, <4>1, <4>2, RecoveredByte DEF Disciplined
    <3>3. D \in SUBSET Offset
        OBVIOUS
    <3> HIDE DEF D
    <3> QED BY <3>2, <3>3
  <2>2. CASE DestroyLog(s)
    <3>1. OnDisk(s)' = Zeros /\ log'[s] = <<>>
        BY <1>0, <2>2 DEF DestroyLog, OnDisk, RvmInv, FilesExist, RvmTypeOK
    <3>2. <<>> \in Seq(Records) /\ DOMAIN <<>> = {}
        OBVIOUS
    <3>3. ASSUME NEW o \in Offset PROVE Store'[s][o] = Zero
      <4>1. Uncovered(<<>>, o)
          BY <3>2 DEF Uncovered
      <4>2. Recovered(Zeros, <<>>)[o] = Zeros[o]
          BY <3>2, <4>1, RecoveredByte DEF Disciplined
      <4> QED BY <3>1, <4>2 DEF Store, Zeros
    <3> QED BY <3>3
  <2> QED BY <2>1, <2>2
<1>6. PICK D \in SUBSET Offset : \A o \in Offset : Store'[s][o] = IF o \in D THEN Zero ELSE Store[s][o]
    BY <1>5
<1>7. Store' = [Store EXCEPT ![s] = [o \in Offset |-> IF o \in D THEN Zero ELSE Store[s][o]]]
  <2>1. Store'[s] = [o \in Offset |-> Store'[s][o]]
      BY DEF Store, Recovered
  <2>2. Store' = [t \in Seg |-> Store'[t]] /\ Store = [t \in Seg |-> Store[t]]
      BY DEF Store
  <2> QED BY <1>4, <1>6, <2>1, <2>2
<1>8. Damaged' \in {Damaged, Damaged \ {s}}
    BY <1>0 DEF rvm_destroy, DestroyLog, Damaged, RvmTypeOK
<1>9. op \notin {"commit", "append"} /\ op' \notin {"commit", "append"}
    BY <1>0, <1>1
<1>10. s \notin Abstract!Touched
    BY <1>2 DEF Abstract!Touched
<1>11. \E E \in SUBSET Offset :
          Store' = [Store EXCEPT ![s] = [o \in Offset |-> IF o \in E THEN Zero ELSE Store[s][o]]]
    BY <1>7
<1>12. (op' \in {"commit", "append"}) = (op \in {"commit", "append"})
    BY <1>9
<1> QED BY <1>3, <1>8, <1>10, <1>11, <1>12, Zenon DEF Abstract!Erase

\* Truncating a damaged log ruins a segment.
LEMMA DamagedRuins ==
    ASSUME RvmInv, Disciplined, TruncatesDamaged
    PROVE  \E t \in Seg : Abstract!Ruin(t)
<1>1. PICK s \in Damaged : TruncateStray(s) \/ TruncateUnlink(s)
    BY DEF TruncatesDamaged
<1>2. s \in Seg /\ RvmTypeOK /\ op = "truncate" /\ op' = "truncate" /\ UNCHANGED <<gTransList, mem>>
    BY <1>1 DEF Damaged, RvmInv, TruncateStray, TruncateUnlink, Truncating, memVars, opVars
<1>3. Pending' = Pending
    BY <1>2 DEF Pending, Covering, Regions
<1>4. PICK t \in Seg : /\ \A x \in Seg : x # t => log'[x] = log[x] /\ file'[x] = file[x]
                       /\ Damaged' \in {Damaged, Damaged \ {t}}
  <2>1. CASE TruncateUnlink(s)
    <3>1. \A x \in Seg : x # s => log'[x] = log[x] /\ file'[x] = file[x]
        BY <1>2, <2>1 DEF TruncateUnlink, RvmTypeOK
    <3>2. Damaged' = Damaged \ {s}
        BY <1>2, <2>1 DEF TruncateUnlink, RvmTypeOK, Damaged
    <3> QED BY <1>2, <3>1, <3>2
  <2>2. CASE TruncateStray(s)
    <3>1. Damaged' = Damaged /\ log' = log
        BY <2>2 DEF TruncateStray, Damaged
    <3>2. CASE file' = file
        BY <1>2, <3>1, <3>2
    <3>3. ASSUME NEW t \in Seg, file' = [file EXCEPT ![t] = Written(@, Junks)]
          PROVE  \A x \in Seg : x # t => file'[x] = file[x]
        BY <1>2, <3>3 DEF RvmTypeOK
    <3> QED BY <2>2, <3>1, <3>2, <3>3 DEF TruncateStray
  <2> QED BY <1>1, <2>1, <2>2
<1>5. \A x \in Seg : x # t => Store'[x] = Store[x]
    BY <1>2, <1>4, StoreKept
<1>6. Store'[t] \in [Offset -> Value]
  <2>1. RvmTypeOK'
    <3>1. RvmNext
        BY <1>1, <1>2 DEF RvmNext, Continue
    <3> QED BY <1>2, <3>1, RvmTypeStep
  <2>2. OnDisk(t)' \in Bytes /\ log'[t] \in Seq(Records)
      BY <2>1, ZerosType DEF OnDisk, RvmTypeOK
  <2>3. Recovered(OnDisk(t)', log'[t]) \in Bytes
      BY <2>2, RecoveredType
  <2>4. Store'[t] \in Bytes
      BY <2>3 DEF Store
  <2> QED BY <2>4 DEF Bytes
<1>7. Store' = [Store EXCEPT ![t] = Store'[t]]
  <2>1. Store' = [x \in Seg |-> Store'[x]] /\ Store = [x \in Seg |-> Store[x]]
      BY DEF Store
  <2> QED BY <1>5, <2>1
<1>8. Damaged # {} /\ op \notin {"commit", "append"} /\ op' \notin {"commit", "append"}
    BY <1>1, <1>2
<1> QED BY <1>3, <1>4, <1>6, <1>7, <1>8 DEF Abstract!Ruin

\* A crash in the middle of a record exposes its segment for good.
LEMMA CrashExposes ==
    ASSUME RvmInv, Crash, logEnd' # logEnd
    PROVE  \E s \in Seg : Abstract!Expose(s)
<1> DEFINE s == Head(gTransList)[pos].seg
<1>1. op = "append" /\ logEnd' = [logEnd EXCEPT ![s] = "torn"] /\ UNCHANGED <<file, log>>
    BY DEF Crash
<1>2. s \in Seg /\ s \in Abstract!Touched
    BY <1>1, AppendTouches DEF RvmInv, RvmTypeOK
<1> HIDE DEF s
<1>3. Store' = Store
    BY <1>1 DEF Store, OnDisk
<1>4. Damaged' = Damaged \union {s}
    BY <1>1, <1>2 DEF Damaged, RvmInv, RvmTypeOK
<1>5. op' \notin {"commit", "append"} /\ gTransList' = <<>>
    BY DEF Crash, Die
<1>6. Pending' = [x \in {} |-> Zero]
  <2>1. {x \in Seg \X Offset : gTransList' # <<>> /\ Covering(x[1], x[2])' # {}} = {}
      BY <1>5
  <2> QED BY <2>1 DEF Pending
<1> QED BY <1>1, <1>2, <1>3, <1>4, <1>5, <1>6 DEF Abstract!Expose, Abstract!NothingPending

\* The steps that neither write to a log nor destroy anything.
LEMMA OthersWork ==
    ASSUME RvmInv, Disciplined, [RvmNext]_rvmVars, ~CommitOpen, ~CommitRecord, ~TruncatesDamaged,
           \A s \in Seg : ~rvm_destroy(s) /\ ~DestroyLog(s),
           Crash => logEnd' = logEnd
    PROVE  Store' = Store /\ Damaged' = Damaged
<1> USE DEF memVars, opVars, diskVars
<1>1. ASSUME NEW t \in Seg PROVE Store'[t] = Store[t]
  <2>1. CASE op # t /\ op' # t
      BY <2>1, StoreStep
  <2>2. CASE op = t \/ op' = t
    <3>1. UNCHANGED <<file, log>>
      <4>1. t \notin {"idle", "commit", "append", "truncate"}
          BY RvmAssumption
      <4>2. CASE Call
          BY <2>2, <4>1, <4>2 DEF Call, rvm_init, rvm_map, rvm_unmap, rvm_begin_trans, rvm_commit_trans,
             rvm_abort_trans, rvm_about_to_modify, Modify, rvm_truncate_log
      <4>3. CASE Continue
          BY <2>2, <4>1, <4>3 DEF Continue, Cleanup_transaction, TruncateEnd, TruncateFreed,
             TruncateRecord, TruncateStray, TruncateUnlink, Truncating
      <4>4. CASE Crash \/ UNCHANGED rvmVars
          BY <4>4 DEF Crash, rvmVars
      <4> QED BY <4>2, <4>3, <4>4 DEF RvmNext
    <3> QED BY <3>1, StoreKept DEF RvmInv
  <2> QED BY <2>1, <2>2
<1>2. Store' = Store
  <2>1. Store' = [t \in Seg |-> Store'[t]] /\ Store = [t \in Seg |-> Store[t]]
      BY DEF Store
  <2> QED BY <1>1, <2>1
<1>3. Damaged' = Damaged
  <2>1. CASE op \notin {"commit", "append"}
      BY <2>1, DamagedStep DEF TruncatesDamaged
  <2>2. CASE op \in {"commit", "append"}
    <3>1. op \notin Seg \union {"idle", "truncate"}
        BY <2>2, RvmAssumption
    <3>2. CASE Call
        BY <3>1, <3>2 DEF Call, rvm_init, rvm_map, rvm_unmap, rvm_begin_trans, rvm_commit_trans,
             rvm_abort_trans, rvm_about_to_modify, Modify, rvm_truncate_log
    <3>3. CASE Continue
        BY <3>1, <3>3 DEF Continue, Cleanup_transaction, TruncateEnd, TruncateFreed,
             TruncateRecord, TruncateStray, TruncateUnlink, Truncating, Damaged
    <3>4. CASE Crash \/ UNCHANGED rvmVars
        BY <3>4 DEF Crash, rvmVars, Damaged
    <3> QED BY <3>2, <3>3, <3>4 DEF RvmNext
  <2> QED BY <2>1, <2>2
<1> QED BY <1>2, <1>3

\* For transactions of one region, every moment at which the process may die
\* leaves on disk the result of whole transactions: commit, truncation and
\* replay together behave as the atomic store, whose only weakness is a crash
\* between fopen and fclose of a redo log: it may leave the segment of that
\* region damaged, and the truncation of what is left may ruin others.
THEOREM RvmImplementsStore ==
    Disciplined /\ MaxRegions <= 1 => (RvmSpec => ImplementsStore)
<1> SUFFICES ASSUME Disciplined, MaxRegions <= 1 PROVE RvmSpec => ImplementsStore
    OBVIOUS
<1>1. RvmInv /\ [RvmNext]_rvmVars => RvmInv'
    BY RvmInvStep
<1>2. RvmInit => Abstract!StoreInit
    BY StoreInitially
<1>3. RvmInv /\ [RvmNext]_rvmVars => [Abstract!StoreNext]_(Abstract!storeVars)
  <2> SUFFICES ASSUME RvmInv, [RvmNext]_rvmVars PROVE [Abstract!StoreNext]_(Abstract!storeVars)
      OBVIOUS
  <2>1. CASE CommitRecord
      BY <2>1, CommitPublishes DEF Abstract!StoreNext
  <2>2. ASSUME NEW s \in Seg, rvm_destroy(s) \/ DestroyLog(s) PROVE Abstract!StoreNext
      BY <2>2, DestroyErases DEF Abstract!StoreNext
  <2>3. CASE CommitOpen
      BY <2>3, OpenExposes
  <2>4. CASE TruncatesDamaged
      BY <2>4, DamagedRuins DEF Abstract!StoreNext
  <2>5. CASE Crash /\ logEnd' # logEnd
      BY <2>5, CrashExposes DEF Abstract!StoreNext
  <2>6. CASE /\ ~CommitOpen /\ ~CommitRecord /\ ~TruncatesDamaged
             /\ \A s \in Seg : ~rvm_destroy(s) /\ ~DestroyLog(s)
             /\ Crash => logEnd' = logEnd
    <3>1. Store' = Store /\ Damaged' = Damaged
        BY <2>6, OthersWork
    <3>2. CASE op' \notin {"commit", "append"}
      <4>1. RvmTypeOK'
          BY RvmTypeStep DEF RvmInv
      <4>2. Pending' \in UNION {[D -> Value] : D \in SUBSET (Seg \X Offset)}
        <5> DEFINE D == {x \in Seg \X Offset : gTransList' # <<>> /\ Covering(x[1], x[2])' # {}}
        <5>1. Pending' = [x \in D |-> mem'[x[1]][x[2]]]
            BY DEF Pending
        <5>2. mem' \in [Seg -> Bytes] /\ D \in SUBSET (Seg \X Offset)
            BY <4>1 DEF RvmTypeOK
        <5> HIDE DEF D
        <5> QED BY <5>1, <5>2, PendingType
      <4> QED BY <3>1, <3>2, <4>2 DEF Abstract!StoreNext, Abstract!Work
    <3>3. CASE op' \in {"commit", "append"}
      <4>1. (\E h \in Handle : rvm_commit_trans(h)) \/ UNCHANGED rvmVars
          BY <2>6, <3>3, RvmAssumption DEF RvmNext, Call, Continue, rvm_init, rvm_map, rvm_unmap,
             rvm_begin_trans, rvm_abort_trans, rvm_about_to_modify, Modify, rvm_truncate_log, Die,
             Cleanup_transaction, TruncateEnd, TruncateFreed, TruncateRecord, TruncateStray,
             TruncateUnlink, Truncating, Crash, opVars
      <4>2. UNCHANGED <<gTransList, mem>>
          BY <4>1 DEF rvm_commit_trans, rvmVars, memVars
      <4>3. Pending' = Pending
          BY <4>2 DEF Pending, Covering, Regions
      <4>4. CASE \E h \in Handle : rvm_commit_trans(h)
        <5>1. op \notin {"commit", "append"}
            BY <4>4 DEF rvm_commit_trans
        <5> QED BY <3>1, <3>3, <4>3, <5>1 DEF Abstract!StoreNext, Abstract!Commit
      <4>5. CASE UNCHANGED rvmVars
        <5>1. op' = op
            BY <4>5 DEF rvmVars, opVars
        <5> QED BY <3>1, <4>3, <5>1 DEF Abstract!storeVars
      <4> QED BY <4>1, <4>4, <4>5
    <3> QED BY <3>2, <3>3
  <2> QED BY <2>1, <2>2, <2>3, <2>4, <2>5, <2>6
<1> QED BY <1>1, <1>2, <1>3, RvmInvInit, PTL DEF RvmSpec, ImplementsStore, Abstract!StoreSpec

=============================================================================
