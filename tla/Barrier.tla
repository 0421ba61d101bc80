------------------------------- MODULE Barrier -------------------------------
(***************************************************************************)
(* What a barrier promises: nobody leaves an episode before everybody has  *)
(* entered it.                                                             *)
(***************************************************************************)
EXTENDS Integers

VARIABLES entered,  \* how many episodes each participant has entered
          left      \* and how many it has left

Participants == DOMAIN entered

Init ==
    /\ DOMAIN left = Participants
    /\ \A p \in Participants : entered[p] = 0 /\ left[p] = 0

Enter(p) ==
    /\ UNCHANGED left
    /\ entered[p] = left[p]
    /\ entered' = [entered EXCEPT ![p] = @ + 1]

MayLeave(p) == /\ left[p] < entered[p]
               /\ \A q \in Participants : entered[q] >= entered[p]

\* Several participants may leave at once: the threads of one process do.
Leave ==
    /\ UNCHANGED entered
    /\ DOMAIN left' = Participants
    /\ \A p \in Participants : \/ left'[p] = left[p]
                               \/ left'[p] = left[p] + 1 /\ MayLeave(p)

Next == Leave \/ \E p \in Participants : Enter(p)

Spec == Init /\ [][Next]_<<entered, left>>

=============================================================================
