---------------------------- MODULE MCScheduler ----------------------------
(***************************************************************************)
(* The batch system on small instances.                                    *)
(***************************************************************************)
EXTENDS Scheduler, TLC

CONSTANTS j1, j2, j3

\* One job of two tasks.
OneJob == (j1 :> 2)
\* A job of two tasks and one of one task.
LongAndShortJob == (j1 :> 2) @@ (j2 :> 1)
\* Two jobs of one task, and one that is never asked for its tasks.
TwoShortJobsAndBad == (j1 :> 1) @@ (j2 :> 1) @@ (j3 :> 0)
\* Three jobs of one task.
ThreeShortJobs == (j1 :> 1) @@ (j2 :> 1) @@ (j3 :> 1)

\* The DispatchTask threads of these jobs.
OneJobTasks == {<<j1, 0>>, <<j1, 1>>}
LongAndShortJobTasks == {<<j1, 0>>, <<j1, 1>>, <<j2, 0>>}
TwoShortJobsTasks == {<<j1, 0>>, <<j2, 0>>}
ThreeShortJobsTasks == {<<j1, 0>>, <<j2, 0>>, <<j3, 0>>}

\* The task of the second job throws.
ThrowingTask == {<<j2, 0>>}

\* Ports are interchangeable.
PortSymmetry == Permutations(Port)

=============================================================================
