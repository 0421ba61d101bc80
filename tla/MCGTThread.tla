----------------------------- MODULE MCGTThread -----------------------------
(* Programs for the threads of module GTThread. *)
EXTENDS GTThread

CONSTANT m

MCBody == 0 .. 3

Call(op, x) == [op |-> op, arg |-> x]
create(b) == Call("create", b)
join(b) == Call("join", b)
Critical == <<Call("lock", m), Call("unlock", m)>>

\* main creates two threads that share a mutex, and joins them
Orderly == <<
    <<create(1), create(2), join(1), join(2)>>,
    Critical,
    <<Call("lock", m), Call("yield", None), Call("unlock", m), Call("exit", None)>>,
    <<>> >>

\* one thread too many; a join of a thread that does not exist
Crowded == << <<create(1), create(2), create(3), join(3), join(1)>>, <<>>, <<>>, <<>> >>

\* one thread cancels another, which may hold the mutex, or be gone already
Cancelling == <<
    <<create(1), create(2), join(1), join(2)>>,
    <<Call("cancel", 2)>> \o Critical,
    Critical,
    <<>> >>

\* main leaves by gtthread_exit; a thread is joined twice
Leaving == << <<create(1), create(2), Call("exit", None)>>, <<join(2), join(2)>>, <<>>, <<>> >>

\* main and a thread it has created both create threads
TwoCreators == <<
    <<create(1), create(3), join(1), join(3)>>,
    <<create(2)>>,
    <<>>,
    Critical >>

MCPrograms ==
    {[b \in MCBody |-> p[b + 1]] : p \in {Orderly, Crowded, Cancelling, Leaving, TwoCreators}}

=============================================================================
