----------------------------- MODULE MCBarriers -----------------------------
(***************************************************************************)
(* The programs on a few processes and threads; MPI_Send buffers or waits. *)
(***************************************************************************)
EXTENDS Barriers

Launch(program, procs, threads) ==
    [program : {program}, procs : procs, threads : threads, buffered : BOOLEAN]

MCLaunches ==
    UNION {Launch("diss", 1..5, {1}), Launch("tourn", 1..5, {1}),
           Launch("sense", {1}, {1, 3}), Launch("hybrid", {2}, {2, 3})}

=============================================================================
