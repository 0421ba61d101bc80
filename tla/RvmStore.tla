------------------------------ MODULE RvmStore ------------------------------
(***************************************************************************)
(* What recoverable virtual memory promises about the segments on disk: a  *)
(* crash at any moment finds either none or all of the modifications of    *)
(* the transaction that was being committed, and nothing but a commit and  *)
(* the destruction of a segment changes what a later rvm_map returns --    *)
(* with one exception.  A crash while a segment is being written may leave *)
(* it damaged.  What rvm_map returns for a damaged segment is undefined,   *)
(* and as long as there is one, removing its log may ruin any segment.     *)
(***************************************************************************)
CONSTANTS StoreSeg, StoreOffset, StoreValue, StoreZero

VARIABLES store,      \* the committed contents of every segment
          pending,    \* the modifications of the current transaction
          committing, \* whether it is being committed
          damaged     \* the segments whose contents a crash now would lose, or
                      \* an earlier crash has lost

storeVars == <<store, pending, committing, damaged>>

NothingPending == [x \in {} |-> StoreZero]

StoreInit ==
    /\ store = [s \in StoreSeg |-> [o \in StoreOffset |-> StoreZero]]
    /\ pending = NothingPending
    /\ committing = FALSE
    /\ damaged = {}

\* The contents of the segments with the modifications p, a function on pairs
\* of a segment and an offset.
Overlay(p) == [s \in StoreSeg |-> [o \in StoreOffset |->
                 IF <<s, o>> \in DOMAIN p THEN p[<<s, o>>] ELSE store[s][o]]]

\* The segments that the current transaction modifies.
Touched == {x[1] : x \in DOMAIN pending}

\* The application modifies memory, begins, aborts or forgets a transaction,
\* or a commit ends, in a crash perhaps.
Work ==
    /\ UNCHANGED <<store, damaged>>
    /\ ~committing'
    /\ pending' \in UNION {[D -> StoreValue] : D \in SUBSET (StoreSeg \X StoreOffset)}

\* The commit of the transaction begins.
Commit ==
    /\ ~committing /\ committing'
    /\ UNCHANGED <<store, pending, damaged>>

\* A modified segment is about to be written, or a crash interrupts that.
Expose(s) ==
    /\ committing /\ s \in Touched
    /\ damaged' = damaged \union {s}
    /\ \/ UNCHANGED <<pending, committing>>
       \/ pending' = NothingPending /\ ~committing'
    /\ UNCHANGED store

\* All of the transaction's modifications become permanent in one step.
Publish ==
    /\ committing
    /\ store' = Overlay(pending)
    /\ damaged \ Touched \subseteq damaged' /\ damaged' \subseteq damaged
    /\ UNCHANGED <<pending, committing>>

\* Segment s, which no transaction modifies, is being destroyed: bytes of it
\* are reset, and in the end it is a segment like any other.
Erase(s) ==
    /\ s \notin Touched
    /\ \E D \in SUBSET StoreOffset :
          store' = [store EXCEPT ![s] = [o \in StoreOffset |->
                                           IF o \in D THEN StoreZero ELSE store[s][o]]]
    /\ damaged' \in {damaged, damaged \ {s}}
    /\ UNCHANGED <<pending, committing>>

\* What is left of damaged segments is removed.
Ruin(s) ==
    /\ damaged # {} /\ ~committing
    /\ \E c \in [StoreOffset -> StoreValue] : store' = [store EXCEPT ![s] = c]
    /\ damaged' \in {damaged, damaged \ {s}}
    /\ UNCHANGED <<pending, committing>>

StoreNext == Work \/ Commit \/ Publish \/ \E s \in StoreSeg : Expose(s) \/ Erase(s) \/ Ruin(s)

StoreSpec == StoreInit /\ [][StoreNext]_storeVars

=============================================================================
