-------------------------------- MODULE Rvm --------------------------------
(***************************************************************************)
(* Recoverable virtual memory: aos/l-recoverable-vm/prj4/rvm.cpp.          *)
(*                                                                         *)
(* One process maps segments, modifies them in transactions, and commits   *)
(* or aborts these.  A commit appends a record per modified region to the  *)
(* redo log of the region's segment; rvm_map reads the segment's file and  *)
(* replays its log; rvm_truncate_log applies the logs to the files and     *)
(* removes them.  The process may crash between any two steps and be       *)
(* started again: the files and logs survive, nothing else does.           *)
(*                                                                         *)
(* The process writes and unlinks files one at a time; commit, truncate    *)
(* and destroy take one step for each.  A record is appended in two steps: *)
(* fopen creates the log, and fclose writes what stdio has buffered; a     *)
(* crash in between leaves a log that is empty or torn.  The application   *)
(* keeps the rules of the interface: it maps a segment once, does not      *)
(* unmap it with a modification pending and destroys it unmapped, and it   *)
(* writes the bytes it has declared with rvm_about_to_modify.              *)
(***************************************************************************)
EXTENDS Integers, Sequences, FiniteSets, FiniteSetsExt

CONSTANTS Seg,         \* names of segments
          Size,        \* bytes of a segment
          Byte,        \* what a byte can hold
          Zero,        \* the byte of a fresh file
          Blank,       \* a white-space byte
          Junk,        \* a byte that comes from anywhere else
          Missing,     \* no such file
          Handle,      \* the transactions an application has begun
          MaxRegions,  \* bound: regions per transaction
          MaxLog,      \* bound: records in the redo logs
          MaxWild,     \* bound: records in the logs, with those of a wild process
          MaxNodes,    \* bound: nodes of Seg_list, freed ones included
          Overlap,     \* whether regions of a transaction may overlap
          GarbageFlag  \* whether an uninitialised bSegFound may read as true

ASSUME RvmAssumption ==
    /\ Size \in Nat
    /\ Zero \in Byte /\ Zero # Blank
    /\ Junk \notin Byte /\ Junk # Blank
    /\ MaxRegions \in Nat /\ MaxLog \in Nat /\ MaxWild \in Nat /\ MaxNodes \in Nat
    /\ Overlap \in BOOLEAN /\ GarbageFlag \in BOOLEAN
    /\ IsFiniteSet(Handle)
    /\ Seg \intersect {"idle", "commit", "append", "truncate"} = {}

Offset == 0 .. Size - 1
Value == Byte \union {Junk}
Bytes == [Offset -> Value]

\* Ranges of consecutive offsets.
Ranges == {a .. b : a, b \in Offset} \ {{}}

\* A redo record is the function from the range it covers to its bytes.
Records == UNION {[R -> Value] : R \in Ranges}

ASSUME MissingAssumption == Missing \notin Bytes

VARIABLES
    rvmId,      \* RVM_Id of the current metadata, 0 before rvm_init
    segList,    \* gRVMMetadata->Seg_list
    mapped,     \* the segments the application has mapped
    mem,        \* the memory of the mapped segments
    gTransList, \* for each transaction its regions (undo and redo records)
    live,       \* the handles of the transactions the application has begun
    wild,       \* whether the process has read a log that is not whole
    op,         \* the call in progress
    idx, pos,   \* its position in Seg_list, and among records
    file,       \* the segment files on disk
    log,        \* the redo logs: their complete records
    logEnd      \* whether a log is "whole" (or there is none), is "empty",
                \* or is "torn": a part of a record is among the others

memVars  == <<rvmId, segList, mapped, mem, gTransList, live, wild>>
opVars   == <<op, idx, pos>>
diskVars == <<file, log, logEnd>>
rvmVars  == <<memVars, opVars, diskVars>>

Zeros == [o \in Offset |-> Zero]
Junks == [o \in Offset |-> Junk]

-----------------------------------------------------------------------------
(***************************************************************************)
(* Reading a redo log back.  The format "%d %d\n" with which the offset    *)
(* and the size are read skips all white space that follows, leading blank *)
(* bytes of the data included.  The data is then read from too far on:     *)
(* the missing bytes come from behind the record.                          *)
(***************************************************************************)

\* How many blank bytes a record begins with.
Shift(r) == Cardinality({o \in DOMAIN r : \A q \in DOMAIN r : q <= o => r[q] = Blank})

ReadBack(r) == [o \in DOMAIN r |->
                  IF o + Shift(r) \in DOMAIN r THEN r[o + Shift(r)] ELSE Junk]

\* The data is followed by a newline; a record that takes more than that from
\* behind, or is blank altogether, swallows the next record's header.
LosesStep(r) == Shift(r) > 1 \/ (Shift(r) = 1 /\ Cardinality(DOMAIN r) = 1)

\* The headers of records 1 .. i are where they are expected.
InStep(l, i) == \A j \in DOMAIN l : j < i => ~LosesStep(l[j])

\* The contents f after the memcpy of each record that is read, in order.
Recovered(f, l) == [o \in Offset |->
    LET I == {i \in DOMAIN l : InStep(l, i) /\ o \in DOMAIN l[i]}
    IN  IF I = {} THEN f[o] ELSE ReadBack(l[Max(I)])[o]]

\* The segments whose log a crash has left empty or torn.
Damaged == {s \in Seg : logEnd[s] # "whole"}

\* What rvm_map finds on disk, where a missing file is created.
OnDisk(s) == IF file[s] = Missing THEN Zeros ELSE file[s]
Store == [s \in Seg |-> Recovered(OnDisk(s), log[s])]

-----------------------------------------------------------------------------
RvmInit ==
    /\ rvmId = 0 /\ segList = <<>> /\ mapped = {}
    /\ mem = [s \in Seg |-> Zeros]
    /\ gTransList = <<>> /\ live = {} /\ wild = FALSE
    /\ op = "idle" /\ idx = 0 /\ pos = 0
    /\ file = [s \in Seg |-> Missing]
    /\ log = [s \in Seg |-> <<>>] /\ logEnd = [s \in Seg |-> "whole"]

\* The process ends; only the disk is left.
Die ==
    /\ rvmId' = 0 /\ segList' = <<>> /\ mapped' = {}
    /\ mem' = [s \in Seg |-> Zeros]
    /\ gTransList' = <<>> /\ live' = {} /\ wild' = FALSE
    /\ op' = "idle" /\ idx' = 0 /\ pos' = 0

\* A second call gives the metadata an id no caller has: from then on calls
\* that name the first one are refused, and rvm_truncate_log, which does not
\* look at the id, finds an empty Seg_list.
rvm_init ==
    /\ op = "idle" /\ rvmId < 2
    /\ rvmId' = rvmId + 1
    /\ UNCHANGED <<segList, mapped, mem, gTransList, live, wild, opVars, diskVars>>

\* Seg_list with a node for s at its end.  Behind a freed last node the new
\* one may be the same memory, or other memory.
Listed(s) ==
    LET new == [seg |-> s, freed |-> FALSE] IN
    {l \in {Append(segList, new)} : Len(segList) < MaxNodes} \union
    {[segList EXCEPT ![i] = new] : i \in {i \in DOMAIN segList : i = Len(segList) /\ segList[i].freed}}

(***************************************************************************)
(* The memory with segment s read from contents b and its log.  At the end *)
(* of a log that is empty or torn fscanf reports EOF, which does not end   *)
(* the loop, and leaves Offset and nBytes uninitialised or as they were:   *)
(* the memcpy hits any memory, that of other segments included, and no     *)
(* byte of it is known any more.  (Where the process does not survive it,  *)
(* see Crash.)                                                             *)
(***************************************************************************)
Loaded(s, b) ==
    IF logEnd[s] = "whole" THEN [mem EXCEPT ![s] = Recovered(b, log[s])]
    ELSE [t \in Seg |-> IF t \in mapped \union {s} THEN Junks ELSE mem[t]]

\* Mutant: a file that exists is created afresh.
rvm_map_Afresh(s) ==
    /\ op = "idle" /\ rvmId = 1 /\ s \notin mapped
    /\ file' = [file EXCEPT ![s] = Zeros]
    /\ mem' = Loaded(s, Zeros)
    /\ wild' = (wild \/ logEnd[s] # "whole")
    /\ mapped' = mapped \union {s}
    /\ segList' \in Listed(s)
    /\ UNCHANGED <<rvmId, gTransList, live, opVars, log, logEnd>>

\* The file is created if need be, read, and its redo log replayed.
rvm_map(s) ==
    /\ op = "idle" /\ rvmId = 1 /\ s \notin mapped
    /\ \/ file' = [file EXCEPT ![s] = OnDisk(s)] /\ mem' = Loaded(s, OnDisk(s))
       \/ /\ GarbageFlag /\ file[s] = Missing
          /\ UNCHANGED file /\ mem' = Loaded(s, Junks)
    /\ wild' = (wild \/ logEnd[s] # "whole")
    /\ mapped' = mapped \union {s}
    /\ segList' \in Listed(s)
    /\ UNCHANGED <<rvmId, gTransList, live, opVars, log, logEnd>>

Regions(s) == {i \in DOMAIN Head(gTransList) : Head(gTransList)[i].seg = s}

\* The last node of Seg_list is freed and stays linked.
rvm_unmap(s) ==
    /\ op = "idle" /\ rvmId = 1 /\ s \in mapped
    /\ gTransList # <<>> => Regions(s) = {}
    /\ \E i \in DOMAIN segList :
          /\ segList[i] = [seg |-> s, freed |-> FALSE]
          /\ segList' = IF i = Len(segList) THEN [segList EXCEPT ![i].freed = TRUE]
                        ELSE SubSeq(segList, 1, i - 1) \o SubSeq(segList, i + 1, Len(segList))
    /\ mapped' = mapped \ {s}
    /\ mem' = [mem EXCEPT ![s] = Zeros]
    /\ UNCHANGED <<rvmId, gTransList, live, wild, opVars, diskVars>>

\* rm of the file.  If a freed node of the segment is still linked and has
\* kept its name, the node is freed a second time first: see Crash.
rvm_destroy(s) ==
    /\ op = "idle" /\ rvmId = 1 /\ s \notin mapped
    /\ file' = [file EXCEPT ![s] = Missing]
    /\ op' = s
    /\ UNCHANGED <<memVars, idx, pos, log, logEnd>>

\* rm of the redo log.
DestroyLog(s) ==
    /\ op = s
    /\ log' = [log EXCEPT ![s] = <<>>] /\ logEnd' = [logEnd EXCEPT ![s] = "whole"]
    /\ op' = "idle"
    /\ UNCHANGED <<memVars, idx, pos, file>>

-----------------------------------------------------------------------------
(***************************************************************************)
(* Transactions.  srand(1) before every rand() gives all of them one TID:  *)
(* every call finds the first transaction of the list, whatever handle it  *)
(* is made with.                                                           *)
(***************************************************************************)

rvm_begin_trans(h) ==
    /\ op = "idle" /\ rvmId = 1 /\ h \notin live
    /\ gTransList' = Append(gTransList, <<>>)
    /\ live' = live \union {h}
    /\ UNCHANGED <<rvmId, segList, mapped, mem, wild, opVars, diskVars>>

\* How many records the redo logs hold.
LogRecords == MapThenSumSet(LAMBDA s : Len(log[s]), Seg)

\* An undo record keeps the bytes; the redo record points to the memory.
rvm_about_to_modify(h, s, R) ==
    /\ op = "idle" /\ h \in live /\ s \in mapped
    /\ Len(Head(gTransList)) < MaxRegions
    /\ wild => LogRecords + Len(Head(gTransList)) < MaxWild
    /\ Overlap \/ \A i \in Regions(s) : Head(gTransList)[i].range \intersect R = {}
    /\ gTransList' = [gTransList EXCEPT ![1] = Append(@,
                         [seg |-> s, range |-> R,
                          old |-> [o \in R |-> mem[s][o]]])]
    /\ UNCHANGED <<rvmId, segList, mapped, mem, live, wild, opVars, diskVars>>

\* The application writes a byte it has declared.
Modify(s, o, v) ==
    /\ op = "idle" /\ gTransList # <<>>
    /\ \E i \in Regions(s) : o \in Head(gTransList)[i].range
    /\ mem' = [mem EXCEPT ![s][o] = v]
    /\ UNCHANGED <<rvmId, segList, mapped, gTransList, live, wild, opVars, diskVars>>

Covering(s, o) == {i \in Regions(s) : o \in Head(gTransList)[i].range}

\* The bytes that a commit of the first transaction makes permanent.
Pending == [x \in {x \in Seg \X Offset : gTransList # <<>> /\ Covering(x[1], x[2]) # {}}
              |-> mem[x[1]][x[2]]]

rvm_commit_trans(h) ==
    /\ op = "idle" /\ h \in live
    /\ LogRecords + Len(Head(gTransList)) <= MaxLog
    /\ op' = "commit" /\ pos' = 1
    /\ live' = live \ {h}
    /\ UNCHANGED <<rvmId, segList, mapped, mem, gTransList, wild, idx, diskVars>>

\* fopen creates the log of the region's segment if there is none.
CommitOpen ==
    /\ op = "commit" /\ pos <= Len(Head(gTransList))
    /\ LET s == Head(gTransList)[pos].seg
       IN  logEnd' = IF log[s] = <<>> /\ logEnd[s] = "whole"
                     THEN [logEnd EXCEPT ![s] = "empty"] ELSE logEnd
    /\ op' = "append"
    /\ UNCHANGED <<memVars, idx, pos, file, log>>

\* With a record at its end a log that was empty is whole.
Ended(s) == [logEnd EXCEPT ![s] = IF @ = "empty" THEN "whole" ELSE @]

\* Mutant: the record holds the bytes of the undo record.
CommitRecord_UndoBytes ==
    /\ op = "append"
    /\ LET r == Head(gTransList)[pos]
       IN  log' = [log EXCEPT ![r.seg] = Append(@, r.old)] /\ logEnd' = Ended(r.seg)
    /\ op' = "commit" /\ pos' = pos + 1
    /\ UNCHANGED <<memVars, idx, file>>

\* fclose writes the region's record to the end of the log.
CommitRecord ==
    /\ op = "append"
    /\ LET r == Head(gTransList)[pos]
       IN  /\ log' = [log EXCEPT ![r.seg] = Append(@, [o \in r.range |-> mem[r.seg][o]])]
           /\ logEnd' = Ended(r.seg)
    /\ op' = "commit" /\ pos' = pos + 1
    /\ UNCHANGED <<memVars, idx, file>>

\* Mutant: the transaction stays in the list.
Cleanup_transaction_NotRemoved ==
    /\ op = "commit" /\ pos > Len(Head(gTransList))
    /\ gTransList' = [gTransList EXCEPT ![1] = <<>>]
    /\ op' = "idle" /\ pos' = 0
    /\ UNCHANGED <<rvmId, segList, mapped, mem, live, wild, idx, diskVars>>

Cleanup_transaction ==
    /\ op = "commit" /\ pos > Len(Head(gTransList))
    /\ gTransList' = Tail(gTransList)
    /\ op' = "idle" /\ pos' = 0
    /\ UNCHANGED <<rvmId, segList, mapped, mem, live, wild, idx, diskVars>>

\* The undo records are copied back in the order in which they were made.  A
\* transaction without one is a null pointer the process does not survive.
rvm_abort_trans(h) ==
    /\ op = "idle" /\ h \in live
    /\ \/ /\ Head(gTransList) # <<>>
          /\ mem' = [s \in Seg |-> [o \in Offset |->
                       IF Covering(s, o) = {} THEN mem[s][o]
                       ELSE Head(gTransList)[Max(Covering(s, o))].old[o]]]
          /\ gTransList' = Tail(gTransList)
          /\ live' = live \ {h}
          /\ UNCHANGED <<rvmId, segList, mapped, wild, opVars>>
       \/ /\ Head(gTransList) = <<>>
          /\ Die
    /\ UNCHANGED diskVars

-----------------------------------------------------------------------------
(***************************************************************************)
(* rvm_truncate_log, for each node of Seg_list, freed ones included.       *)
(***************************************************************************)
rvm_truncate_log ==
    /\ op = "idle" /\ rvmId = 1
    /\ op' = "truncate" /\ idx' = 1 /\ pos' = 1
    /\ UNCHANGED <<memVars, diskVars>>

Truncating(s) == op = "truncate" /\ idx <= Len(segList) /\ s = segList[idx].seg

\* The file f with the record r written to it; a file that could not be opened
\* is not written.
Written(f, r) == IF f = Missing THEN f
                 ELSE [o \in Offset |-> IF o \in DOMAIN r THEN r[o] ELSE f[o]]

\* One record is written to the file.  When an earlier record has swallowed a
\* header, either the record is found again further on, or what is read
\* instead goes where the earlier record went.  Behind a torn record it may not
\* be found.
TruncateRecord(s) ==
    /\ Truncating(s) /\ pos <= Len(log[s])
    /\ \/ file' = [file EXCEPT ![s] = Written(@, ReadBack(log[s][pos]))]
       \/ /\ ~InStep(log[s], pos)
          /\ \E j \in 1 .. pos - 1 :
                file' = [file EXCEPT ![s] = Written(@, [o \in DOMAIN log[s][j] |-> Junk])]
       \/ logEnd[s] = "torn" /\ UNCHANGED file
    /\ pos' = pos + 1
    /\ UNCHANGED <<memVars, op, idx, log, logEnd>>

\* A freed node need not have kept its name, and no log of the name that is
\* read instead is found.
TruncateFreed(s) ==
    /\ Truncating(s) /\ segList[idx].freed /\ pos = 1
    /\ idx' = idx + 1
    /\ UNCHANGED <<memVars, op, pos, diskVars>>

\* At the end of a log that is empty, and at a torn record, segment_name, Offset
\* and nBytes are what an earlier record, or an earlier call, has left on the
\* stack: what the buffer holds is written to any segment's file, or to none.
TruncateStray(s) ==
    /\ Truncating(s) /\ s \in Damaged
    /\ \E t \in Seg : file' = [file EXCEPT ![t] = Written(@, Junks)]
    /\ UNCHANGED <<memVars, opVars, log, logEnd>>

\* Mutant: the log is removed before its last record was written.
TruncateUnlink_Early(s) ==
    /\ Truncating(s) /\ pos >= Len(log[s])
    /\ log' = [log EXCEPT ![s] = <<>>] /\ logEnd' = [logEnd EXCEPT ![s] = "whole"]
    /\ idx' = idx + 1 /\ pos' = 1
    /\ UNCHANGED <<memVars, op, file>>

\* The log is removed, if there is one.
TruncateUnlink(s) ==
    /\ Truncating(s) /\ pos > Len(log[s])
    /\ log' = [log EXCEPT ![s] = <<>>] /\ logEnd' = [logEnd EXCEPT ![s] = "whole"]
    /\ idx' = idx + 1 /\ pos' = 1
    /\ UNCHANGED <<memVars, op, file>>

TruncateEnd ==
    /\ op = "truncate" /\ idx > Len(segList)
    /\ op' = "idle" /\ idx' = 0 /\ pos' = 0
    /\ UNCHANGED <<memVars, diskVars>>

-----------------------------------------------------------------------------
\* The process is killed, aborts or ends.  If it was appending a record, a
\* part of it may be in the log: stdio writes whenever its buffer is full.
Crash ==
    /\ rvmId > 0
    /\ Die
    /\ \/ UNCHANGED logEnd
       \/ op = "append" /\ logEnd' = [logEnd EXCEPT ![Head(gTransList)[pos].seg] = "torn"]
    /\ UNCHANGED <<file, log>>

Call ==
    \/ rvm_init
    \/ \E s \in Seg : rvm_map(s) \/ rvm_unmap(s) \/ rvm_destroy(s)
    \/ \E h \in Handle : rvm_begin_trans(h) \/ rvm_commit_trans(h) \/ rvm_abort_trans(h)
    \/ \E h \in Handle, s \in Seg, R \in Ranges : rvm_about_to_modify(h, s, R)
    \/ \E s \in Seg, o \in Offset, v \in Byte : Modify(s, o, v)
    \/ rvm_truncate_log

Continue ==
    \/ CommitOpen \/ CommitRecord \/ Cleanup_transaction \/ TruncateEnd
    \/ \E s \in Seg : \/ TruncateFreed(s) \/ TruncateRecord(s) \/ TruncateStray(s)
                      \/ TruncateUnlink(s) \/ DestroyLog(s)

RvmNext == Call \/ Continue \/ Crash

RvmSpec == RvmInit /\ [][RvmNext]_rvmVars

-----------------------------------------------------------------------------
(***************************************************************************)
(* Properties                                                              *)
(***************************************************************************)

RegionType ==
    {r \in [seg : Seg, range : Ranges, old : Records] : DOMAIN r.old = r.range}

\* The type invariant.  Each transaction the application has begun, and the
\* one being committed, has its own entry in the list.
RvmTypeOK ==
    /\ rvmId \in 0 .. 2
    /\ segList \in Seq([seg : Seg, freed : BOOLEAN])
    /\ mapped \subseteq Seg /\ mem \in [Seg -> Bytes]
    /\ gTransList \in Seq(Seq(RegionType)) /\ live \subseteq Handle
    /\ Len(gTransList) = Cardinality(live) + (IF op \in {"commit", "append"} THEN 1 ELSE 0)
    /\ wild \in BOOLEAN
    /\ op \in {"idle", "commit", "append", "truncate"} \union Seg /\ idx \in Nat /\ pos \in Nat
    /\ op \in {"commit", "append", "truncate"} => pos >= 1
    /\ op = "append" => pos <= Len(Head(gTransList))
    /\ op = "truncate" => idx >= 1
    /\ file \in [Seg -> Bytes \union {Missing}]
    /\ log \in [Seg -> Seq(Records)] /\ logEnd \in [Seg -> {"whole", "empty", "torn"}]

\* Without a transaction, the memory of a mapped segment is what a crash and a
\* new rvm_map would bring back: commits reach the log, aborts restore the
\* memory, and the replay returns the latest committed copy, whatever part of
\* the log an interrupted rvm_truncate_log has applied.  Only a process that
\* has read a damaged log can tell nothing of its memory.
MappedIsCommitted ==
    op = "idle" /\ gTransList = <<>> /\ ~wild =>
        \A s \in mapped : s \notin Damaged /\ mem[s] = Store[s]

(***************************************************************************)
(* The inductive invariant behind MappedIsCommitted and ImplementsStore,   *)
(* for data without leading blanks and regions that do not overlap.        *)
(***************************************************************************)

\* Only the first transaction of the list has regions, in mapped segments.
FirstHasAll ==
    /\ \A k \in DOMAIN gTransList : k > 1 => gTransList[k] = <<>>
    /\ gTransList # <<>> => /\ Len(Head(gTransList)) <= MaxRegions
                            /\ \A i \in DOMAIN Head(gTransList) : Head(gTransList)[i].seg \in mapped

RegionsDisjoint ==
    gTransList # <<>> => \A i, j \in DOMAIN Head(gTransList) :
        LET p == Head(gTransList)[i]  q == Head(gTransList)[j]
        IN  i # j /\ p.seg = q.seg => p.range \intersect q.range = {}

\* A byte no region covers is as on disk.
UndeclaredOnDisk ==
    ~wild => \A s \in mapped, o \in Offset :
        gTransList = <<>> \/ Covering(s, o) = {} => mem[s][o] = Store[s][o]

\* The undo records are as on disk, until commit has written the region.
DeclaredOnDisk ==
    gTransList # <<>> /\ ~wild => \A i \in DOMAIN Head(gTransList) :
        LET r == Head(gTransList)[i]
        IN  \A o \in r.range : Store[r.seg][o] = IF op \in {"commit", "append"} /\ i < pos
                                                 THEN mem[r.seg][o] ELSE r.old[o]

\* A mapped segment has a file, and so has a listed one that has a log; the one
\* being destroyed has none.
FilesExist ==
    /\ \A s \in mapped : file[s] # Missing
    /\ \A i \in DOMAIN segList :
          LET s == segList[i].seg IN file[s] # Missing \/ log[s] = <<>> \/ op = s
    /\ op \in Seg => file[op] = Missing /\ op \notin mapped

\* The segments the process has mapped, or has in its list.
Known == mapped \union {segList[i].seg : i \in DOMAIN segList}

\* A process that has read whole logs only knows of no other segment, but for
\* the one whose log it has created and not yet written.
KnownWhole ==
    ~wild => \A s \in Known \intersect Damaged :
        op = "append" /\ Head(gTransList)[pos].seg = s /\ logEnd[s] = "empty"

\* The file being brought up to date holds the records before pos.
TruncateApplied ==
    op = "truncate" /\ idx <= Len(segList) /\ segList[idx].seg \notin Damaged =>
        LET s == segList[idx].seg IN
        \A o \in Offset, i \in DOMAIN log[s] :
            /\ i < pos /\ o \in DOMAIN log[s][i]
            /\ \A j \in DOMAIN log[s] : j < pos /\ o \in DOMAIN log[s][j] => j <= i
            => file[s][o] = log[s][i][o]

RvmInv ==
    /\ RvmTypeOK
    /\ FirstHasAll
    /\ RegionsDisjoint
    /\ UndeclaredOnDisk
    /\ DeclaredOnDisk
    /\ FilesExist
    /\ KnownWhole
    /\ TruncateApplied

\* What rvm_map returns is changed by the records of a commit and by
\* rvm_destroy only, and only the log that is being appended to is damaged: in
\* particular no step of rvm_truncate_log, and no crash in the middle of one,
\* changes it, unless the process has read a damaged log.
OnlyCommitsChangeStore ==
    [][\A s \in Seg :
          \/ op \in {"commit", "append"} \/ op = s \/ op' = s \/ wild
          \/ Store'[s] = Store[s] /\ s \notin Damaged' \ Damaged]_rvmVars

\* The abstract store, with what the disk holds as its state.
Abstract == INSTANCE RvmStore WITH
    StoreSeg <- Seg, StoreOffset <- Offset, StoreValue <- Value, StoreZero <- Zero,
    store <- Store, pending <- Pending, damaged <- Damaged,
    committing <- op \in {"commit", "append"}

\* README of prj4: rvm_map returns "the absolute latest committed copy of the
\* data".  At every moment, what a crash would leave on disk is the result of
\* whole transactions, except for a segment whose log was being appended to
\* when a process crashed: none of the steps of commit, truncate and map shows
\* a part of a transaction.
ImplementsStore == Abstract!StoreSpec

=============================================================================
