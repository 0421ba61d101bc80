--------------------------- MODULE GTThreadProofs ---------------------------
(***************************************************************************)
(* The safety of the user-level threads, for every set of programs, any    *)
(* number of mutexes and any MAXTHREADS.                                   *)
(***************************************************************************)
EXTENDS GTThread, TLAPS

-----------------------------------------------------------------------------
(* The inductive invariant, for all programs *)

\* The call of a position is the one its step belongs to.
CallOf(p) == program[p.body][p.call]
InPlace(p) ==
    /\ p.at \in {"setup", "make", "tail", "total", "active"} =>
          p.call \in DOMAIN program[p.body] /\ CallOf(p).op = "create"
    /\ p.at = "wait" => p.call \in DOMAIN program[p.body] /\ CallOf(p).op = "join"
    /\ p.at \in {"tail", "total"} /\ p.loaded # None => p.loaded \in Nat

Places == InPlace(pos) /\ \A k \in Slot : ctx[k] \in Positions => InPlace(ctx[k])

\* The slot of a running thread has no context but the one it started from.
Entered == running = "thread" /\ ctx[curr_thread] \in Positions => ctx[curr_thread].call = 0

\* A mutex somebody is inside of is locked.
LockHeld == \A m \in Mutex, k \in Slot : InCS(k, m) => lock[m]

Inv == TypeOK /\ Places /\ Entered /\ LockHeld /\ MutualExclusion

-----------------------------------------------------------------------------
(* Facts about positions and bodies *)

\* What the assumptions say of the program that runs.
LEMMA ProgramFacts ==
    ASSUME TypeOK, NEW b \in Body
    PROVE  /\ program[b] \in Seq(Calls)
           /\ \A i \in DOMAIN program[b] : program[b][i].op = "create" =>
                  program[b][i].arg \in Body \ {0}
           /\ \A i \in DOMAIN program[b] : program[b][i].op = "unlock" =>
                  Holding(program[b], i, program[b][i].arg)
<1>1. program \in [Body -> Seq(Calls)]
    BY GTThreadAssumption DEF TypeOK
<1>2. \A i \in DOMAIN program[b] : program[b][i] \in Calls
    BY <1>1
<1>3. \A i \in DOMAIN program[b] : program[b][i].op = "create" => program[b][i].arg \in Body
    BY <1>2 DEF Calls
<1> QED BY <1>1, <1>3, GTThreadAssumption DEF TypeOK

\* Nothing is held before the first call.
LEMMA HoldingNothing == \A body, m : ~Holding(body, 0, m) /\ ~Holding(body, 1, m)
    BY DEF Holding

\* A call other than a lock of m does not bring a body into m's critical section,
\* and the unlock of m takes it out.
LEMMA HoldingNext ==
    ASSUME NEW body, NEW i \in Nat \ {0}, NEW m, Holding(body, i + 1, m)
    PROVE  /\ Holding(body, i, m) \/ body[i] = [op |-> "lock", arg |-> m]
           /\ body[i] # [op |-> "unlock", arg |-> m]
<1>1. PICK j \in 1 .. i :
          /\ body[j] = [op |-> "lock", arg |-> m]
          /\ \A l \in j + 1 .. i : body[l] # [op |-> "unlock", arg |-> m]
    BY DEF Holding
<1>2. CASE j = i
    BY <1>1, <1>2
<1>3. CASE j # i
    BY <1>1, <1>3 DEF Holding
<1> QED BY <1>2, <1>3

\* A step that locks and unlocks nothing and lets nobody into a critical
\* section keeps the mutexes exclusive.
LEMMA Quiet ==
    ASSUME LockHeld, MutualExclusion, UNCHANGED lock,
           \A k \in Slot, m \in Mutex : InCS(k, m)' => InCS(k, m)
    PROVE  LockHeld' /\ MutualExclusion'
    BY DEF LockHeld, MutualExclusion

\* The positions that the steps of a thread lead to are positions.
LEMMA PositionTypes ==
    ASSUME NEW p \in Positions
    PROVE  /\ p.body \in Body /\ p.call \in Nat /\ p.slot \in Slot
           /\ p \notin {None, Lost}
    BY GTThreadAssumption DEF Positions

LEMMA PositionType ==
    ASSUME NEW b \in Body, NEW i \in Nat
    PROVE  /\ Position(b, i) \in Positions
           /\ Position(b, i).body = b /\ Position(b, i).call = i /\ Position(b, i).at = "call"
    BY GTThreadAssumption DEF Positions, Position, Slot, Steps

\* The running thread goes to another step of its call, or of its call for slot k.
GotoSlot(x, k) == pos' = [pos EXCEPT !.at = x, !.slot = k]

LEMMA GotoType ==
    ASSUME pos \in Positions, NEW x \in Steps, Goto(x)
    PROVE  /\ pos' \in Positions
           /\ pos'.body = pos.body /\ pos'.call = pos.call /\ pos'.at = x
           /\ pos'.loaded = None /\ pos'.slot = pos.slot
    BY DEF Goto, Positions

LEMMA GotoSlotType ==
    ASSUME pos \in Positions, NEW x \in Steps, NEW k \in Slot, GotoSlot(x, k)
    PROVE  /\ pos' \in Positions
           /\ pos'.body = pos.body /\ pos'.call = pos.call /\ pos'.at = x
           /\ pos'.loaded = pos.loaded /\ pos'.slot = k
    BY DEF GotoSlot, Positions

LEMMA LoadedType ==
    ASSUME NEW p \in Positions, NEW n \in Int, NEW q, q = [p EXCEPT !.loaded = n]
    PROVE  /\ q \in Positions
           /\ q.body = p.body /\ q.call = p.call /\ q.at = p.at /\ q.loaded = n
           /\ q.slot = p.slot
    BY DEF Positions

\* The position after the call that the running thread has come to.
LEMMA Advance ==
    ASSUME TypeOK, NEW q, q = Position(pos.body, pos.call + 1)
    PROVE  /\ q \in Positions /\ q.call = pos.call + 1 /\ q.call # 0 /\ q.body = pos.body
           /\ q.at = "call"
           /\ \A m : Holding(Here, q.call, m) =>
                 /\ Holding(Here, pos.call, m) \/ Here[pos.call] = [op |-> "lock", arg |-> m]
                 /\ Here[pos.call] # [op |-> "unlock", arg |-> m]
<1>1. pos \in Positions /\ pos.call \in Nat \ {0} /\ pos.body \in Body
    BY PositionTypes DEF TypeOK
<1>2. q \in Positions /\ q.call = pos.call + 1 /\ q.body = pos.body /\ q.at = "call"
    BY <1>1, PositionType
<1> QED BY <1>1, <1>2, HoldingNext

\* The running thread moves within its call, or on to the next one, and locks
\* and unlocks nothing; the contexts stay, are lost or are new.
LEMMA Moves ==
    ASSUME TypeOK, Places, Entered, LockHeld, MutualExclusion,
           running = "thread", running' = "thread", UNCHANGED <<program, curr_thread, lock>>,
           InPlace(pos)',
           \/ pos'.body = pos.body /\ pos'.call = pos.call
           \/ GoOn /\ \A m : Here[pos.call] # [op |-> "lock", arg |-> m],
           \A k \in Slot :
               \/ ctx'[k] \in {ctx[k], None, Lost}
               \/ ctx'[k].call = 0 /\ ctx'[k].at = "call"
    PROVE  Places' /\ Entered' /\ LockHeld' /\ MutualExclusion'
<1>1. curr_thread \in Slot /\ Lost \notin Positions /\ None \notin Positions
    BY GTThreadAssumption DEF TypeOK
<1>2. Places'
    BY <1>1 DEF Places, InPlace, CallOf
<1>3. Entered'
    BY <1>1 DEF Entered
<1>4. \A m : Holding(program[pos.body], pos'.call, m) => Holding(program[pos.body], pos.call, m)
    BY Advance DEF GoOn, Here
<1>5. pos'.body = pos.body
    BY Advance DEF GoOn
<1>6. \A k \in Slot, m \in Mutex : InCS(k, m)' => InCS(k, m)
  <2> SUFFICES ASSUME NEW k \in Slot, NEW m \in Mutex, InCS(k, m)' PROVE InCS(k, m)
      OBVIOUS
  <2>1. CASE k = curr_thread
      BY <1>4, <1>5, <2>1 DEF InCS, Here
  <2>2. CASE k # curr_thread
      BY <2>2, HoldingNothing DEF InCS
  <2> QED BY <2>1, <2>2
<1> QED BY <1>2, <1>3, <1>6, Quiet

\* The running thread gives way to the scheduler: its slot keeps what it has, or
\* gets its position or the next one, and it locks and unlocks nothing.
LEMMA Leaves ==
    ASSUME TypeOK, Places, Entered, LockHeld, MutualExclusion,
           running = "thread", ToScheduler, UNCHANGED <<program, curr_thread, lock>>,
           \/ UNCHANGED ctx
           \/ ctx' = [ctx EXCEPT ![curr_thread] = pos]
           \/ /\ ctx' = [ctx EXCEPT ![curr_thread] = Position(pos.body, pos.call + 1)]
              /\ \A m : Here[pos.call] # [op |-> "lock", arg |-> m]
    PROVE  /\ pos' \in Positions /\ pos'.call # 0
           /\ ctx' \in [Slot -> Positions \union {None, Lost}]
           /\ Places' /\ Entered' /\ LockHeld' /\ MutualExclusion'
<1>1. curr_thread \in Slot /\ pos \in Positions /\ running' = "sched" /\ 0 \in Body
    BY GTThreadAssumption DEF TypeOK, ToScheduler
<1>2. pos' \in Positions /\ pos'.call # 0 /\ pos'.at = "call"
    BY <1>1, PositionType DEF ToScheduler
<1> DEFINE q == Position(pos.body, pos.call + 1)
<1>3. /\ q \in Positions /\ q.at = "call" /\ q.body = pos.body
      /\ \A m : Holding(Here, q.call, m) =>
             Holding(Here, pos.call, m) \/ Here[pos.call] = [op |-> "lock", arg |-> m]
    BY Advance
<1> HIDE DEF q
<1>4. ctx \in [Slot -> Positions \union {None, Lost}]
    BY DEF TypeOK
<1>5. /\ \A k \in Slot \ {curr_thread} : ctx'[k] = ctx[k]
      /\ \/ ctx'[curr_thread] \in {ctx[curr_thread], pos}
         \/ ctx'[curr_thread] = q /\ \A m : Here[pos.call] # [op |-> "lock", arg |-> m]
      /\ ctx' \in [Slot -> Positions \union {None, Lost}]
    BY <1>1, <1>3, <1>4 DEF q
<1>6. Places'
    BY <1>1, <1>2, <1>3, <1>5 DEF Places, InPlace, CallOf
<1>7. Entered'
    BY <1>1 DEF Entered
<1>8. \A k \in Slot, m \in Mutex : InCS(k, m)' => InCS(k, m)
  <2> SUFFICES ASSUME NEW k \in Slot, NEW m \in Mutex, InCS(k, m)' PROVE InCS(k, m)
      OBVIOUS
  <2>1. CASE k # curr_thread
      BY <1>1, <1>5, <2>1 DEF InCS
  <2>2. CASE k = curr_thread
    <3>1. /\ ctx'[curr_thread] \notin {None, Lost}
          /\ Holding(program[ctx'[curr_thread].body], ctx'[curr_thread].call, m)
        BY <1>1, <2>2 DEF InCS
    <3>2. CASE ctx'[curr_thread] = ctx[curr_thread]
      <4>1. ctx[curr_thread].call = 0
          BY <1>1, <1>4, <3>1, <3>2 DEF Entered
      <4> QED BY <3>1, <3>2, <4>1, HoldingNothing
    <3>3. CASE ctx'[curr_thread] = pos
        BY <1>1, <2>2, <3>1, <3>3 DEF InCS, Here
    <3>4. CASE ctx'[curr_thread] = q /\ \A m_1 : Here[pos.call] # [op |-> "lock", arg |-> m_1]
        BY <1>1, <1>3, <2>2, <3>1, <3>4 DEF InCS, Here
    <3> QED BY <1>5, <3>2, <3>3, <3>4
  <2> QED BY <2>1, <2>2
<1> QED BY <1>2, <1>5, <1>6, <1>7, <1>8, Quiet

-----------------------------------------------------------------------------
(* Every step keeps the invariant *)

\* A thread that has come to a call of its body.
LEMMA AtCallFacts ==
    ASSUME TypeOK,
           NEW op \in {"create", "join", "cancel", "lock", "unlock", "yield", "exit"}, AtCall(op)
    PROVE  /\ running = "thread" /\ curr_thread \in Slot
           /\ pos \in Positions /\ pos.at = "call" /\ pos.body \in Body
           /\ pos.call \in DOMAIN Here /\ Here[pos.call].op = op /\ Here[pos.call] \in Calls
           /\ op = "create" => Arg \in Body \ {0}
           /\ op \in {"lock", "unlock"} => Arg \in Mutex /\ Here[pos.call] = [op |-> op, arg |-> Arg]
           /\ op = "unlock" => Holding(Here, pos.call, Arg)
           /\ op # "lock" => \A m : Here[pos.call] # [op |-> "lock", arg |-> m]
<1>1. /\ running = "thread" /\ curr_thread \in Slot /\ pos \in Positions /\ pos.at = "call"
      /\ pos.call <= Len(Here) /\ Here[pos.call].op = op
    BY DEF TypeOK, AtCall, At
<1>2. pos.body \in Body /\ pos.call \in Nat \ {0} /\ Here \in Seq(Calls)
    BY <1>1, PositionTypes, ProgramFacts DEF TypeOK, Here
<1>3. pos.call \in DOMAIN Here /\ Here[pos.call] \in Calls
    BY <1>1, <1>2
<1>4. op = "create" => Arg \in Body \ {0}
    BY <1>1, <1>2, <1>3, ProgramFacts DEF Arg, Here
<1>5. op = "unlock" => Holding(Here, pos.call, Arg)
    BY <1>1, <1>2, <1>3, ProgramFacts DEF Arg, Here
<1>6. op \in {"lock", "unlock"} => Arg \in Mutex /\ Here[pos.call] = [op |-> op, arg |-> Arg]
    BY <1>1, <1>3 DEF Calls, Arg
<1>7. op # "lock" => \A m : Here[pos.call] # [op |-> "lock", arg |-> m]
    BY <1>1
<1> QED BY <1>1, <1>2, <1>3, <1>4, <1>5, <1>6, <1>7

LEMMA CreateCheckInv ==
    ASSUME Inv, CreateCheck
    PROVE  Inv'
<1> USE DEF Inv
<1>1. /\ running = "thread" /\ pos \in Positions /\ pos.call # 0
      /\ pos.call \in DOMAIN Here /\ Here[pos.call].op = "create"
      /\ \A m : Here[pos.call] # [op |-> "lock", arg |-> m]
  <2>1. AtCall("create")
      BY DEF CreateCheck
  <2> QED BY <2>1, AtCallFacts DEF TypeOK
<1>2. UNCHANGED <<program, table, curr_thread, counters, lock, running, scheduling, history>>
    BY DEF CreateCheck
<1>3. CASE GoOn
  <2>1. pos' \in Positions /\ pos'.call # 0 /\ pos'.at = "call"
      BY <1>3, Advance DEF GoOn
  <2>2. TypeOK'
      BY <1>2, <2>1 DEF TypeOK, table, counters, scheduling, history
  <2> QED BY <1>1, <1>2, <1>3, <2>1, <2>2, Moves DEF InPlace, table
<1>4. CASE Goto("setup")
  <2>1. /\ pos' \in Positions /\ pos'.call = pos.call /\ pos'.body = pos.body
        /\ pos'.at = "setup"
      BY <1>1, <1>4, GotoType DEF Steps
  <2>2. TypeOK'
      BY <1>1, <1>2, <2>1 DEF TypeOK, table, counters, scheduling, history
  <2>3. InPlace(pos)'
      BY <1>1, <1>2, <2>1 DEF InPlace, CallOf, Here
  <2> QED BY <1>1, <1>2, <2>1, <2>2, <2>3, Moves DEF table
<1> QED BY <1>3, <1>4 DEF CreateCheck

LEMMA CreateSetupInv ==
    ASSUME Inv, CreateSetup
    PROVE  Inv'
<1> USE DEF Inv
<1>1. /\ running = "thread" /\ pos \in Positions /\ pos.body \in Body /\ pos.call # 0
      /\ pos.call \in DOMAIN Here /\ Here[pos.call].op = "create"
    BY PositionTypes DEF CreateSetup, At, TypeOK, Places, InPlace, CallOf, Here
<1>2. Arg \in Body
    BY <1>1, ProgramFacts DEF Arg, Here
<1>3. /\ UNCHANGED <<program, exited, ret, curr_thread, counters, lock, running, scheduling,
                     history>>
      /\ tail_index \in Slot
      /\ id' = [id EXCEPT ![tail_index] = Arg]
      /\ ctx' = [ctx EXCEPT ![tail_index] = None]
      /\ GotoSlot("make", tail_index)
    BY DEF CreateSetup, GotoSlot
<1>4. /\ pos' \in Positions /\ pos'.call = pos.call /\ pos'.body = pos.body
      /\ pos'.at = "make"
    BY <1>1, <1>3, GotoSlotType DEF Steps
<1>5. TypeOK'
    BY <1>1, <1>2, <1>3, <1>4 DEF TypeOK, counters, scheduling, history
<1>6. \A k \in Slot : ctx'[k] \in {ctx[k], None}
    BY <1>3 DEF TypeOK
<1>7. InPlace(pos)'
    BY <1>1, <1>3, <1>4 DEF InPlace, CallOf, Here
<1> QED BY <1>1, <1>3, <1>4, <1>5, <1>6, <1>7, Moves

LEMMA CreateMakeInv ==
    ASSUME Inv, CreateMake
    PROVE  Inv'
<1> USE DEF Inv
<1>1. /\ running = "thread" /\ pos \in Positions /\ pos.slot \in Slot /\ pos.slot = tail_index
      /\ pos.call \in DOMAIN Here /\ Here[pos.call].op = "create"
      /\ pos.body \in Body
    BY PositionTypes DEF CreateMake, At, TypeOK, Places, InPlace, CallOf, Here
<1>2. Arg \in Body
    BY <1>1, ProgramFacts DEF Arg, Here
<1>3. /\ UNCHANGED <<program, id, exited, ret, curr_thread, counters, lock, running,
                     scheduling, history>>
      /\ ctx' = [ctx EXCEPT ![tail_index] = Position(Arg, 0)]
    BY DEF CreateMake
<1>4. /\ pos' \in Positions /\ pos'.call = pos.call /\ pos'.body = pos.body
      /\ pos'.at = "tail" /\ pos'.loaded = None
    BY <1>1, GotoType DEF CreateMake, Steps
<1>5. Position(Arg, 0) \in Positions /\ Position(Arg, 0).call = 0 /\ Position(Arg, 0).at = "call"
    BY <1>2, PositionType
<1>6. TypeOK'
    BY <1>1, <1>3, <1>4, <1>5 DEF TypeOK, counters, scheduling, history
<1>7. \A k \in Slot : ctx'[k] = ctx[k] \/ (ctx'[k].call = 0 /\ ctx'[k].at = "call")
    BY <1>1, <1>3, <1>5 DEF TypeOK
<1>8. InPlace(pos)'
    BY <1>1, <1>3, <1>4 DEF InPlace, CallOf, Here
<1> QED BY <1>1, <1>3, <1>4, <1>6, <1>7, <1>8, Moves

LEMMA LoadInv ==
    ASSUME Inv, Load
    PROVE  Inv'
<1> USE DEF Inv
<1>1. /\ running = "thread" /\ pos \in Positions /\ Counter \in Int
      /\ pos.at \in {"tail", "total"} => Counter \in Nat
      /\ pos' = [pos EXCEPT !.loaded = Counter]
      /\ UNCHANGED <<program, table, curr_thread, counters, lock, running, scheduling, history>>
    BY DEF Load, TypeOK, Counter
<1>2. /\ pos' \in Positions /\ pos'.call = pos.call /\ pos'.body = pos.body
      /\ pos'.at = pos.at /\ pos'.loaded = Counter
    BY <1>1, LoadedType
<1>3. TypeOK'
    BY <1>1, <1>2 DEF TypeOK, table, counters, scheduling, history
<1>4. InPlace(pos)'
    BY <1>1, <1>2 DEF Places, InPlace, CallOf
<1>5. \A k \in Slot : ctx'[k] = ctx[k]
    BY <1>1 DEF table
<1> QED BY <1>1, <1>2, <1>3, <1>4, <1>5, Moves

LEMMA IncrementInv ==
    ASSUME Inv, Increment
    PROVE  Inv'
<1> USE DEF Inv
<1>1. /\ running = "thread" /\ pos \in Positions /\ pos.at \in {"tail", "total", "active"}
      /\ pos.call \in DOMAIN Here /\ Here[pos.call].op = "create"
      /\ UNCHANGED <<program, table, curr_thread, lock, running, scheduling, history>>
    BY DEF Increment, At, TypeOK, Places, InPlace, CallOf, Here
<1>2. /\ nTotalThreads' \in Nat \ {0} /\ nActiveThreads' \in Int /\ tail_index' \in Nat
  <2>1. pos.loaded \in Int /\ (pos.at \in {"tail", "total"} => pos.loaded \in Nat)
      BY <1>1 DEF Increment, Places, InPlace, Positions
  <2>2. nTotalThreads \in Nat \ {0} /\ nActiveThreads \in Int /\ tail_index \in Nat
      BY DEF TypeOK
  <2> QED BY <2>1, <2>2 DEF Increment, At
<1>3. CASE Goto("total") \/ Goto("active")
  <2>1. /\ pos' \in Positions /\ pos'.call = pos.call /\ pos'.body = pos.body
        /\ pos'.at \in {"total", "active"} /\ pos'.loaded = None
      BY <1>1, <1>3, GotoType DEF Steps
  <2>2. TypeOK'
      BY <1>1, <1>2, <2>1 DEF TypeOK, table, scheduling, history
  <2>3. InPlace(pos)'
      BY <1>1, <2>1 DEF InPlace, CallOf, Here
  <2>4. \A k \in Slot : ctx'[k] = ctx[k]
      BY <1>1 DEF table
  <2> QED BY <1>1, <2>1, <2>2, <2>3, <2>4, Moves
<1>4. CASE GoOn
  <2>1. pos' \in Positions /\ pos'.call # 0 /\ pos'.at = "call"
      BY <1>4, Advance DEF GoOn
  <2>2. TypeOK'
      BY <1>1, <1>2, <2>1 DEF TypeOK, table, scheduling, history
  <2>3. InPlace(pos)'
      BY <2>1 DEF InPlace
  <2>4. /\ \A k \in Slot : ctx'[k] = ctx[k]
        /\ \A m : Here[pos.call] # [op |-> "lock", arg |-> m]
      BY <1>1 DEF table
  <2> QED BY <1>1, <1>4, <2>2, <2>3, <2>4, Moves
<1> QED BY <1>3, <1>4 DEF Increment

LEMMA JoinFindInv ==
    ASSUME Inv, JoinFind
    PROVE  Inv'
<1> USE DEF Inv
<1>1. /\ running = "thread" /\ pos \in Positions
      /\ pos.call \in DOMAIN Here /\ Here[pos.call].op = "join"
      /\ \A m : Here[pos.call] # [op |-> "lock", arg |-> m]
      /\ UNCHANGED <<program, table, curr_thread, counters, lock, running, scheduling, history>>
    BY AtCallFacts DEF JoinFind
<1>2. \A k \in Slot : ctx'[k] = ctx[k]
    BY <1>1 DEF table
<1>3. CASE GoOn
  <2>1. pos' \in Positions /\ pos'.call # 0 /\ pos'.at = "call"
      BY <1>3, Advance DEF GoOn
  <2>2. TypeOK'
      BY <1>1, <2>1 DEF TypeOK, table, counters, scheduling, history
  <2> QED BY <1>1, <1>2, <1>3, <2>1, <2>2, Moves DEF InPlace
<1>4. ASSUME NEW k \in Slot, GotoSlot("wait", k)
      PROVE  Inv'
  <2>1. /\ pos' \in Positions /\ pos'.call = pos.call /\ pos'.body = pos.body
        /\ pos'.at = "wait"
      BY <1>1, <1>4, GotoSlotType DEF Steps
  <2>2. TypeOK'
      BY <1>1, <2>1 DEF TypeOK, table, counters, scheduling, history
  <2>3. InPlace(pos)'
      BY <1>1, <2>1 DEF InPlace, CallOf, Here
  <2> QED BY <1>1, <1>2, <2>1, <2>2, <2>3, Moves
<1> QED BY <1>3, <1>4 DEF JoinFind, GotoSlot

LEMMA JoinReturnInv ==
    ASSUME Inv, JoinReturn
    PROVE  Inv'
<1> USE DEF Inv
<1>1. /\ running = "thread" /\ pos \in Positions /\ pos.slot \in Slot /\ GoOn
      /\ Here[pos.call].op = "join"
      /\ UNCHANGED <<program, table, curr_thread, counters, lock, running, scheduling, cancelled,
                     struck>>
    BY PositionTypes DEF JoinReturn, At, TypeOK, Places, InPlace, CallOf, Here
<1>2. pos' \in Positions /\ pos'.call # 0 /\ pos'.at = "call"
    BY <1>1, Advance DEF GoOn
<1>3. joined' \subseteq (Body \union {None}) \X (Body \union {None})
    BY <1>1 DEF JoinReturn, TypeOK
<1>4. TypeOK'
    BY <1>1, <1>2, <1>3 DEF TypeOK, table, counters, scheduling
<1>5. /\ \A k \in Slot : ctx'[k] = ctx[k]
      /\ \A m : Here[pos.call] # [op |-> "lock", arg |-> m]
    BY <1>1 DEF table
<1> QED BY <1>1, <1>2, <1>4, <1>5, Moves DEF InPlace

LEMMA ExitRetInv ==
    ASSUME Inv, ExitRet
    PROVE  Inv'
<1> USE DEF Inv
<1>1. /\ running = "thread" /\ pos \in Positions /\ pos.body \in Body /\ curr_thread \in Slot
      /\ ret' = [ret EXCEPT ![curr_thread] = pos.body]
      /\ UNCHANGED <<program, id, exited, ctx, curr_thread, counters, lock, running,
                     scheduling, history>>
    BY PositionTypes DEF ExitRet, AtCall, AtEnd, At, TypeOK
<1>2. /\ pos' \in Positions /\ pos'.call = pos.call /\ pos'.body = pos.body
      /\ pos'.at = "exited"
    BY <1>1, GotoType DEF ExitRet, Steps
<1>3. TypeOK'
    BY <1>1, <1>2 DEF TypeOK, counters, scheduling, history
<1> QED BY <1>1, <1>2, <1>3, Moves DEF InPlace

LEMMA ExitMarkInv ==
    ASSUME Inv, ExitMark
    PROVE  Inv'
<1> USE DEF Inv
<1>1. /\ running = "thread" /\ pos \in Positions /\ curr_thread \in Slot
      /\ exited' = [exited EXCEPT ![curr_thread] = TRUE]
      /\ UNCHANGED <<program, id, ret, ctx, curr_thread, counters, lock, running, scheduling,
                     history>>
    BY DEF ExitMark, At, TypeOK
<1>2. /\ pos' \in Positions /\ pos'.call = pos.call /\ pos'.body = pos.body
      /\ pos'.at = "exitDrop"
    BY <1>1, GotoType DEF ExitMark, Steps
<1>3. TypeOK'
    BY <1>1, <1>2 DEF TypeOK, counters, scheduling, history
<1> QED BY <1>1, <1>2, <1>3, Moves DEF InPlace

LEMMA CancelFindInv ==
    ASSUME Inv, CancelFind
    PROVE  Inv'
<1> USE DEF Inv
<1>1. /\ running = "thread" /\ pos \in Positions
      /\ \A m : Here[pos.call] # [op |-> "lock", arg |-> m]
      /\ UNCHANGED <<program, table, curr_thread, counters, lock, running, scheduling, history>>
    BY AtCallFacts DEF CancelFind
<1>2. \A k \in Slot : ctx'[k] = ctx[k]
    BY <1>1 DEF table
<1>3. CASE GoOn
  <2>1. pos' \in Positions /\ pos'.call # 0 /\ pos'.at = "call"
      BY <1>3, Advance DEF GoOn
  <2>2. TypeOK'
      BY <1>1, <2>1 DEF TypeOK, table, counters, scheduling, history
  <2> QED BY <1>1, <1>2, <1>3, <2>1, <2>2, Moves DEF InPlace
<1>4. ASSUME NEW k \in Slot, GotoSlot("mark", k)
      PROVE  Inv'
  <2>1. /\ pos' \in Positions /\ pos'.call = pos.call /\ pos'.body = pos.body
        /\ pos'.at = "mark"
      BY <1>1, <1>4, GotoSlotType DEF Steps
  <2>2. TypeOK'
      BY <1>1, <2>1 DEF TypeOK, table, counters, scheduling, history
  <2> QED BY <1>1, <1>2, <2>1, <2>2, Moves DEF InPlace
<1> QED BY <1>3, <1>4 DEF CancelFind, GotoSlot

LEMMA CancelMarkInv ==
    ASSUME Inv, CancelMark
    PROVE  Inv'
<1> USE DEF Inv
<1>1. /\ running = "thread" /\ pos \in Positions /\ pos.slot \in Slot
      /\ exited' = [exited EXCEPT ![pos.slot] = TRUE]
      /\ cancelled' = cancelled \union {id[pos.slot]}
      /\ UNCHANGED <<program, id, ret, ctx, curr_thread, counters, lock, running, scheduling,
                     joined, struck>>
    BY PositionTypes DEF CancelMark, At, TypeOK
<1>2. /\ pos' \in Positions /\ pos'.call = pos.call /\ pos'.body = pos.body
      /\ pos'.at = "cancelDrop"
    BY <1>1, GotoType DEF CancelMark, Steps
<1>3. TypeOK'
    BY <1>1, <1>2 DEF TypeOK, counters, scheduling
<1> QED BY <1>1, <1>2, <1>3, Moves DEF InPlace

LEMMA JoinWaitInv ==
    ASSUME Inv, JoinWait
    PROVE  Inv'
<1> USE DEF Inv
<1>1. running = "thread" /\ ToScheduler /\ UNCHANGED <<program, curr_thread, lock>>
    BY DEF JoinWait, At, SwitchAway
<1>3. /\ pos' \in Positions /\ pos'.call # 0
      /\ ctx' \in [Slot -> Positions \union {None, Lost}]
      /\ Places' /\ Entered' /\ LockHeld' /\ MutualExclusion'
    BY <1>1, Leaves DEF JoinWait, SwitchAway
<1>5. TypeOK'
    BY <1>1, <1>3 DEF JoinWait, SwitchAway, ToScheduler, TypeOK, counters, history
<1> QED BY <1>3, <1>5

LEMMA ExitLeaveInv ==
    ASSUME Inv, ExitLeave
    PROVE  Inv'
<1> USE DEF Inv
<1>1. running = "thread" /\ ToScheduler /\ UNCHANGED <<program, curr_thread, lock>>
    BY DEF ExitLeave, At, SwitchAway
<1>3. /\ pos' \in Positions /\ pos'.call # 0
      /\ ctx' \in [Slot -> Positions \union {None, Lost}]
      /\ Places' /\ Entered' /\ LockHeld' /\ MutualExclusion'
    BY <1>1, Leaves DEF ExitLeave, SwitchAway
<1>4. nActiveThreads' \in Int
    BY <1>1 DEF ExitLeave, TypeOK, Positions
<1>5. TypeOK'
    BY <1>1, <1>3, <1>4 DEF ExitLeave, SwitchAway, ToScheduler, TypeOK, history
<1> QED BY <1>3, <1>5

LEMMA CancelLeaveInv ==
    ASSUME Inv, CancelLeave
    PROVE  Inv'
<1> USE DEF Inv
<1>1. running = "thread" /\ ToScheduler /\ UNCHANGED <<program, curr_thread, lock>>
    BY DEF CancelLeave, At
<1>3. /\ pos' \in Positions /\ pos'.call # 0
      /\ ctx' \in [Slot -> Positions \union {None, Lost}]
      /\ Places' /\ Entered' /\ LockHeld' /\ MutualExclusion'
    BY <1>1, Leaves DEF CancelLeave, table
<1>4. nActiveThreads' \in Int
    BY <1>1 DEF CancelLeave, TypeOK, Positions
<1>5. TypeOK'
    BY <1>1, <1>3, <1>4 DEF CancelLeave, ToScheduler, TypeOK, table, history
<1> QED BY <1>3, <1>5

LEMMA YieldInv ==
    ASSUME Inv, Yield
    PROVE  Inv'
<1> USE DEF Inv
<1>1. running = "thread" /\ ToScheduler /\ UNCHANGED <<program, curr_thread, lock>>
    BY DEF Yield, AtCall, At, SwitchAway
<1>2. \A m : Here[pos.call] # [op |-> "lock", arg |-> m]
  <2>1. AtCall("yield")
      BY DEF Yield
  <2> QED BY <2>1, AtCallFacts
<1>3. /\ pos' \in Positions /\ pos'.call # 0
      /\ ctx' \in [Slot -> Positions \union {None, Lost}]
      /\ Places' /\ Entered' /\ LockHeld' /\ MutualExclusion'
    BY <1>1, <1>2, Leaves DEF Yield, SwitchAway
<1>5. TypeOK'
    BY <1>1, <1>3 DEF Yield, SwitchAway, ToScheduler, TypeOK, counters, history
<1> QED BY <1>3, <1>5

LEMMA PreemptInv ==
    ASSUME Inv, Preempt
    PROVE  Inv'
<1> USE DEF Inv
<1>1. running = "thread" /\ ToScheduler /\ UNCHANGED <<program, curr_thread, lock>>
    BY DEF Preempt, SwitchAway
<1>3. /\ pos' \in Positions /\ pos'.call # 0
      /\ ctx' \in [Slot -> Positions \union {None, Lost}]
      /\ Places' /\ Entered' /\ LockHeld' /\ MutualExclusion'
    BY <1>1, Leaves DEF Preempt, SwitchAway
<1>5. TypeOK'
    BY <1>1, <1>3 DEF Preempt, SwitchAway, ToScheduler, TypeOK, counters, history
<1> QED BY <1>3, <1>5

\* Who finds the mutex unlocked is alone in its critical section; who does not
\* stays before it.
LEMMA MutexLockInv ==
    ASSUME Inv, MutexLock
    PROVE  Inv'
<1> USE DEF Inv
<1>1. /\ running = "thread" /\ curr_thread \in Slot /\ pos \in Positions
      /\ Arg \in Mutex /\ Here[pos.call] = [op |-> "lock", arg |-> Arg]
  <2>1. AtCall("lock")
      BY DEF MutexLock
  <2> QED BY <2>1, AtCallFacts
<1>2. /\ lock' = [lock EXCEPT ![Arg] = TRUE]
      /\ UNCHANGED <<program, id, exited, ret, curr_thread, counters, ctx_sched, history>>
    BY DEF MutexLock
<1>3. lock' \in [Mutex -> BOOLEAN] /\ \A m \in Mutex : lock[m] \/ m = Arg => lock'[m]
    BY <1>1, <1>2 DEF TypeOK
<1>4. CASE lock[Arg]
  <2>1. UNCHANGED lock
      BY <1>1, <1>2, <1>4 DEF TypeOK
  <2>2. SwitchAway(pos)
      BY <1>4 DEF MutexLock
  <2>3. /\ pos' \in Positions /\ pos'.call # 0
        /\ ctx' \in [Slot -> Positions \union {None, Lost}]
        /\ Places' /\ Entered' /\ LockHeld' /\ MutualExclusion'
      BY <1>1, <1>2, <2>1, <2>2, Leaves DEF SwitchAway
  <2>4. TypeOK'
      BY <1>2, <2>1, <2>2, <2>3 DEF TypeOK, SwitchAway, ToScheduler, counters, history
  <2> QED BY <2>3, <2>4
<1>5. CASE ~lock[Arg]
  <2>1. GoOn /\ UNCHANGED <<ctx, running, sched>>
      BY <1>5 DEF MutexLock
  <2>2. /\ pos' \in Positions /\ pos'.call # 0 /\ pos'.at = "call" /\ pos'.body = pos.body
        /\ \A m : Holding(Here, pos'.call, m) =>
               Holding(Here, pos.call, m) \/ Here[pos.call] = [op |-> "lock", arg |-> m]
      BY <2>1, Advance DEF GoOn
  <2>3. TypeOK'
      BY <1>2, <1>3, <2>1, <2>2 DEF TypeOK, counters, history
  <2>4. Places'
      BY <1>2, <2>1, <2>2 DEF Places, InPlace, CallOf
  <2>5. Entered'
      BY <1>2, <2>1 DEF Entered
  <2>6. \A k \in Slot, m \in Mutex : InCS(k, m)' => InCS(k, m) \/ (k = curr_thread /\ m = Arg)
    <3> SUFFICES ASSUME NEW k \in Slot, NEW m \in Mutex, InCS(k, m)', ~InCS(k, m)
                 PROVE  k = curr_thread /\ m = Arg
        OBVIOUS
    <3>1. k = curr_thread
        BY <1>1, <1>2, <2>1 DEF InCS
    <3>2. Here[pos.call] = [op |-> "lock", arg |-> m]
        BY <1>1, <1>2, <2>1, <2>2, <3>1 DEF InCS, Here
    <3>3. m = Arg
        BY <3>2 DEF Arg
    <3> QED BY <3>1, <3>3
  <2>7. LockHeld'
      BY <1>3, <2>6 DEF LockHeld
  <2>8. \A k \in Slot : ~InCS(k, Arg)
      BY <1>1, <1>5 DEF LockHeld
  <2>9. MutualExclusion'
      BY <2>6, <2>8 DEF MutualExclusion
  <2> QED BY <2>3, <2>4, <2>5, <2>7, <2>9
<1> QED BY <1>4, <1>5

\* Who unlocks a mutex was inside, alone, and leaves nobody inside.
LEMMA MutexUnlockInv ==
    ASSUME Inv, MutexUnlock
    PROVE  Inv'
<1> USE DEF Inv
<1>1. /\ running = "thread" /\ curr_thread \in Slot /\ pos \in Positions
      /\ Arg \in Mutex /\ Here[pos.call] = [op |-> "unlock", arg |-> Arg]
      /\ Holding(Here, pos.call, Arg)
  <2>1. AtCall("unlock")
      BY DEF MutexUnlock
  <2> QED BY <2>1, AtCallFacts
<1>2. /\ lock' = [lock EXCEPT ![Arg] = FALSE] /\ GoOn
      /\ UNCHANGED <<program, table, curr_thread, counters, running, scheduling, history>>
    BY DEF MutexUnlock
<1>3. lock' \in [Mutex -> BOOLEAN] /\ \A m \in Mutex \ {Arg} : lock'[m] = lock[m]
    BY <1>1, <1>2 DEF TypeOK
<1>4. /\ pos' \in Positions /\ pos'.call # 0 /\ pos'.at = "call" /\ pos'.body = pos.body
      /\ \A m : Holding(Here, pos'.call, m) =>
             /\ Holding(Here, pos.call, m) \/ Here[pos.call] = [op |-> "lock", arg |-> m]
             /\ Here[pos.call] # [op |-> "unlock", arg |-> m]
    BY <1>2, Advance DEF GoOn
<1>5. \A m : Here[pos.call] # [op |-> "lock", arg |-> m]
    BY <1>1
<1>6. TypeOK'
    BY <1>2, <1>3, <1>4 DEF TypeOK, table, counters, scheduling, history
<1>7. Places'
    BY <1>2, <1>4 DEF Places, InPlace, CallOf, table
<1>8. Entered'
    BY <1>2 DEF Entered, table
<1>9. \A k \in Slot, m \in Mutex : InCS(k, m)' => InCS(k, m) /\ m # Arg
  <2> SUFFICES ASSUME NEW k \in Slot, NEW m \in Mutex, InCS(k, m)'
               PROVE  InCS(k, m) /\ m # Arg
      OBVIOUS
  <2>1. CASE k = curr_thread
    <3>1. Holding(Here, pos'.call, m)
        BY <1>1, <1>2, <1>4, <2>1 DEF InCS, Here
    <3>2. Holding(Here, pos.call, m) /\ Here[pos.call] # [op |-> "unlock", arg |-> m]
        BY <1>4, <1>5, <3>1
    <3> QED BY <1>1, <2>1, <3>2 DEF InCS
  <2>2. CASE k # curr_thread
    <3>1. InCS(k, m)
        BY <1>1, <1>2, <2>2 DEF InCS, table
    <3>2. InCS(curr_thread, Arg)
        BY <1>1 DEF InCS
    <3> QED BY <1>1, <2>2, <3>1, <3>2 DEF MutualExclusion
  <2> QED BY <2>1, <2>2
<1> QED BY <1>3, <1>6, <1>7, <1>8, <1>9 DEF LockHeld, MutualExclusion

\* A process that has come to an end, or to what C does not define, stays as it is.
LEMMA StopsInv ==
    ASSUME Inv, running' \in {"returned", "ended", "wild"},
           UNCHANGED <<program, table, curr_thread, counters, lock, pos, scheduling, joined,
                       cancelled>>,
           struck' \in BOOLEAN
    PROVE  Inv'
<1> USE DEF Inv, table, counters, scheduling, history
<1>1. TypeOK'
    BY DEF TypeOK
<1>2. Places' /\ Entered'
    BY DEF Places, InPlace, CallOf, Entered
<1>3. \A k \in Slot, m \in Mutex : InCS(k, m)' => InCS(k, m)
    BY HoldingNothing DEF InCS, Entered, TypeOK
<1> QED BY <1>1, <1>2, <1>3, Quiet

\* The scheduler's own steps leave threads and contexts alone.
LEMMA ScheduleInv ==
    ASSUME Inv, SchedNext \/ SchedWrap \/ SchedSkip \/ (SchedCheck /\ nActiveThreads # 0)
    PROVE  Inv'
<1>1. /\ running = "sched" /\ running' = "sched" /\ curr_thread' \in Nat
      /\ sched' \in {"start", "wrap", "pick", "check"}
      /\ UNCHANGED <<program, table, counters, lock, pos, ctx_sched, history>>
    BY DEF Inv, TypeOK, SchedNext, SchedWrap, SchedSkip, SchedCheck
<1> USE DEF Inv, table, counters, history
<1>2. TypeOK'
    BY <1>1 DEF TypeOK
<1>3. Places' /\ Entered'
    BY <1>1 DEF Places, InPlace, CallOf, Entered
<1>4. \A k \in Slot, m \in Mutex : InCS(k, m)' => InCS(k, m)
    BY <1>1 DEF InCS
<1> QED BY <1>1, <1>2, <1>3, <1>4, Quiet

\* A thread that is resumed is where its context says, or at its beginning.
LEMMA SchedPickInv ==
    ASSUME Inv, SchedPick
    PROVE  Inv'
<1> USE DEF Inv
<1> DEFINE c == ctx[curr_thread]
<1>1. /\ running = "sched" /\ running' = "thread" /\ curr_thread \in Slot /\ c \in Positions
      /\ UNCHANGED <<program, id, exited, ret, curr_thread, counters, lock, history>>
      /\ ctx_sched' = "check" /\ sched' = "check"
    BY DEF SchedPick, Resumable, TypeOK
<1>2. c \notin {None, Lost} /\ c.body \in Body /\ c.call \in Nat
    BY <1>1, PositionTypes
<1>3. CASE c.call = 0
  <2>1. pos' = Position(c.body, 1) /\ UNCHANGED ctx
      BY <1>3 DEF SchedPick
  <2>2. pos' \in Positions /\ pos'.at = "call" /\ pos'.call = 1
      BY <1>2, <2>1, PositionType
  <2>3. TypeOK'
      BY <1>1, <2>1, <2>2 DEF TypeOK, counters, history
  <2>4. Places' /\ Entered'
      BY <1>1, <1>3, <2>1, <2>2 DEF Places, InPlace, CallOf, Entered
  <2>5. \A k \in Slot, m \in Mutex : InCS(k, m)' => InCS(k, m)
      BY <1>1, <2>1, <2>2, HoldingNothing DEF InCS, Here
  <2> QED BY <1>1, <2>3, <2>4, <2>5, Quiet
<1>4. CASE c.call # 0
  <2>1. pos' = c /\ ctx' = [ctx EXCEPT ![curr_thread] = Lost]
      BY <1>4 DEF SchedPick
  <2>2. /\ ctx' \in [Slot -> Positions \union {None, Lost}] /\ ctx'[curr_thread] = Lost
        /\ \A k \in Slot \ {curr_thread} : ctx'[k] = ctx[k]
      BY <1>1, <2>1 DEF TypeOK
  <2>3. Lost \notin Positions
      BY GTThreadAssumption
  <2>4. TypeOK'
      BY <1>1, <1>4, <2>1, <2>2 DEF TypeOK, counters, history
  <2>5. Places'
      BY <1>1, <2>1, <2>2, <2>3 DEF Places, InPlace, CallOf
  <2>6. Entered'
      BY <1>1, <2>2, <2>3 DEF Entered
  <2>7. \A k \in Slot, m \in Mutex : InCS(k, m)' => InCS(k, m)
      BY <1>1, <1>2, <2>1, <2>2 DEF InCS, Here
  <2> QED BY <1>1, <2>4, <2>5, <2>6, <2>7, Quiet
<1> QED BY <1>3, <1>4

LEMMA PreemptSchedulerInv ==
    ASSUME Inv, PreemptScheduler
    PROVE  Inv'
<1> USE DEF Inv
<1>1. /\ running = "sched" /\ running' = "sched" /\ curr_thread \in Slot
      /\ ctx' = [ctx EXCEPT ![curr_thread] = Lost] /\ sched' = ctx_sched
      /\ UNCHANGED <<program, id, exited, ret, curr_thread, counters, lock, pos, ctx_sched,
                     joined, cancelled>>
      /\ struck' \in BOOLEAN
    BY DEF PreemptScheduler
<1>2. /\ ctx' \in [Slot -> Positions \union {None, Lost}] /\ ctx'[curr_thread] = Lost
      /\ \A k \in Slot \ {curr_thread} : ctx'[k] = ctx[k]
    BY <1>1 DEF TypeOK
<1>3. Lost \notin Positions
    BY GTThreadAssumption
<1>4. TypeOK'
    BY <1>1, <1>2 DEF TypeOK, counters, history
<1>5. Places' /\ Entered'
    BY <1>1, <1>2, <1>3 DEF Places, InPlace, CallOf, Entered
<1>6. \A k \in Slot, m \in Mutex : InCS(k, m)' => InCS(k, m)
    BY <1>1, <1>2 DEF InCS
<1> QED BY <1>1, <1>4, <1>5, <1>6, Quiet

\* A step that the thread takes keeps the invariant.
LEMMA ThreadStepInv ==
    ASSUME Inv, ThreadStep
    PROVE  Inv'
<1>1. CASE CreateOutside \/ CreateElsewhere \/ JoinAgain \/ MainReturns
    BY <1>1, StopsInv DEF CreateOutside, CreateElsewhere, JoinAgain, MainReturns, Wild, Inv, TypeOK,
       history
<1>2. CASE \/ CreateCheck \/ CreateSetup \/ CreateMake \/ Load \/ Increment
           \/ JoinFind \/ JoinWait \/ JoinReturn
    BY <1>2, CreateCheckInv, CreateSetupInv, CreateMakeInv, LoadInv, IncrementInv, JoinFindInv, JoinWaitInv,
       JoinReturnInv
<1>3. CASE ExitRet \/ ExitMark \/ ExitLeave \/ CancelFind \/ CancelMark \/ CancelLeave
    BY <1>3, ExitRetInv, ExitMarkInv, ExitLeaveInv, CancelFindInv, CancelMarkInv, CancelLeaveInv
<1>4. CASE Yield \/ MutexLock \/ MutexUnlock
    BY <1>4, YieldInv, MutexLockInv, MutexUnlockInv
<1> QED BY <1>1, <1>2, <1>3, <1>4 DEF ThreadStep

LEMMA NextInv ==
    ASSUME Inv, Next
    PROVE  Inv'
<1>1. CASE SchedWild \/ PreemptOutside \/ (SchedCheck /\ nActiveThreads = 0)
    BY <1>1, StopsInv DEF SchedWild, PreemptOutside, SchedCheck, Wild, scheduling, Inv, TypeOK,
       history
<1>2. CASE SchedNext \/ SchedWrap \/ SchedSkip \/ (SchedCheck /\ nActiveThreads # 0)
    BY <1>2, ScheduleInv
<1>3. CASE SchedPick \/ Preempt \/ PreemptScheduler
    BY <1>3, SchedPickInv, PreemptInv, PreemptSchedulerInv
<1> QED BY <1>1, <1>2, <1>3, ThreadStepInv DEF Next, SchedStep

LEMMA InitInv ==
    ASSUME Init
    PROVE  Inv
<1>1. pos \in Positions /\ pos.at = "call" /\ pos.call = 1 /\ running = "thread"
    BY GTThreadAssumption, PositionType DEF Init
<1>2. \A k \in Slot : ctx[k] \in {None, Lost} /\ ctx[k] \notin Positions
    BY GTThreadAssumption DEF Init
<1>3. TypeOK
  <2>1. struck \in BOOLEAN /\ \A k \in Slot : exited[k] = FALSE
      BY DEF Init
  <2> QED BY <1>1, <2>1, GTThreadAssumption DEF Init, TypeOK, Slot
<1>4. Places /\ Entered
    BY <1>1, <1>2, GTThreadAssumption DEF Init, Places, InPlace, Entered, Slot
<1>5. \A k \in Slot, m \in Mutex : ~InCS(k, m)
    BY <1>1, <1>2, HoldingNothing DEF InCS
<1> QED BY <1>3, <1>4, <1>5 DEF Inv, LockHeld, MutualExclusion

\* The invariant holds in every reachable state.
THEOREM Reachable == Spec => []Inv
<1>1. ASSUME Inv, UNCHANGED vars PROVE Inv'
    BY <1>1 DEF Inv, TypeOK, Places, InPlace, CallOf, Entered, LockHeld, MutualExclusion, InCS,
       Here, vars, table, counters, scheduling, history
<1> QED BY InitInv, NextInv, <1>1, PTL DEF Spec

\* The variables of the library keep their types, whatever the programs: the
\* signal, gtthread_cancel and gtthread_create may meet at any place.
THEOREM TypeCorrect == Spec => []TypeOK
    BY Reachable, PTL DEF Inv

\* Two threads are never both between gtthread_mutex_lock and
\* gtthread_mutex_unlock of one mutex, for all programs, any number of threads
\* and mutexes, and wherever the signal strikes.
THEOREM MutexesExclude == Spec => []MutualExclusion
    BY Reachable, PTL DEF Inv

-----------------------------------------------------------------------------
(* The inductive invariant, for programs with one creator *)

\* The scheduler runs threads that are counted.
Counted ==
    running = "thread" \/ (running = "sched" /\ sched = "pick") => curr_thread < nTotalThreads

\* A slot runs the body it was created for, and main is in slot 0 only.
Own ==
    /\ \A k \in Slot : id[k] = 0 <=> k = 0
    /\ running = "thread" => pos.body = id[curr_thread]
    /\ \A k \in Slot : ctx[k] \in Positions => ctx[k].body = id[k]
    /\ ctx[0] \in Positions => ctx[0].call # 0

\* How far main is with the creation of a thread.
Creating(p) == p.body = 0 =>
    /\ p.at # "total" => tail_index = nTotalThreads
    /\ p.at = "total" => tail_index = nTotalThreads + 1 /\ p.loaded \in {None, nTotalThreads}
    /\ p.at \in {"setup", "make", "tail"} => nTotalThreads < MaxThreads
    /\ p.at = "make" => p.slot = tail_index /\ id[tail_index] = CallOf(p).arg
    /\ p.at = "tail" => /\ id[tail_index] # None /\ ctx[tail_index] # None
                        /\ p.loaded \in {None, tail_index}
Creation ==
    /\ running = "thread" => Creating(pos)
    /\ ctx[0] \in Positions => Creating(ctx[0])

\* The slots below tail_index are complete.
Ready ==
    /\ 1 <= nTotalThreads /\ nTotalThreads <= tail_index /\ tail_index <= MaxThreads
    /\ \A k \in Slot : k < tail_index => id[k] # None /\ ctx[k] # None

\* A thread that has exited has left its result, or was cancelled.
Result(k) == ret[k] = id[k] \/ id[k] \in cancelled
Ending(p, k) ==
    /\ p.at = "exited" => ret[k] = id[k]
    /\ p.at = "mark" => p.slot < tail_index
Results ==
    /\ running = "thread" => Ending(pos, curr_thread)
    /\ \A k \in Slot : ctx[k] \in Positions => Ending(ctx[k], k)
    /\ \A k \in Slot : exited[k] => k < tail_index /\ Result(k)
    /\ \A j \in joined : j[2] = j[1] \/ j[1] \in cancelled

OneCreator == Counted /\ Own /\ Creation /\ Ready /\ Results
CreatorInv == Creators \subseteq {0} => OneCreator

\* Main is the one that is in a call of gtthread_create, in slot 0.
LEMMA MainCreates ==
    ASSUME Inv, OneCreator, Creators \subseteq {0}, running = "thread",
           pos.call \in DOMAIN Here, Here[pos.call].op = "create"
    PROVE  /\ pos \in Positions /\ pos.body = 0 /\ curr_thread = 0 /\ 0 \in Slot /\ id[0] = 0
           /\ ctx[0] \notin Positions
           /\ tail_index \in Nat \ {0} /\ nTotalThreads \in Nat \ {0}
           /\ Arg \in Body \ {0, None}
<1>1. /\ pos \in Positions /\ pos.body \in Body /\ curr_thread \in Slot /\ 0 \in Slot
    BY PositionTypes, GTThreadAssumption DEF Inv, TypeOK, Slot
<1>2. pos.body = 0
    BY <1>1 DEF Creators, Here
<1>3. curr_thread = 0 /\ id[0] = 0
    BY <1>1, <1>2 DEF OneCreator, Own
<1>4. ctx[0] \notin Positions
    BY <1>1, <1>3 DEF OneCreator, Own, Inv, Entered
<1>5. tail_index \in Nat \ {0} /\ nTotalThreads \in Nat \ {0}
    BY DEF OneCreator, Ready, Inv, TypeOK
<1>6. Arg \in Body \ {0, None}
    BY <1>1, ProgramFacts, GTThreadAssumption DEF Inv, Arg, Here
<1> QED BY <1>1, <1>2, <1>3, <1>4, <1>5, <1>6

\* A step of a thread outside gtthread_create that does not switch.
LEMMA MovesOne ==
    ASSUME Inv, OneCreator, running = "thread", running' = "thread",
           UNCHANGED <<program, id, ctx, curr_thread, nTotalThreads, tail_index>>,
           pos'.body = pos.body, pos.at # "total", pos'.at \notin {"make", "tail", "total"},
           pos'.at = "setup" => nTotalThreads < MaxThreads
    PROVE  Counted' /\ Own' /\ Creation' /\ Ready'
<1> USE DEF OneCreator
<1>1. Counted' /\ Own' /\ Ready'
    BY DEF Counted, Own, Ready
<1>2. Creating(pos)'
    BY DEF Creation, Creating
<1>3. ctx[0] \in Positions => Creating(ctx[0])'
    BY DEF Creation, Creating, CallOf
<1> QED BY <1>1, <1>2, <1>3 DEF Creation

\* One that leaves the results alone, too.
LEMMA MovesKeep ==
    ASSUME Inv, OneCreator, running = "thread", running' = "thread",
           UNCHANGED <<program, table, curr_thread, nTotalThreads, tail_index, history>>,
           pos'.body = pos.body, pos.at # "total",
           pos'.at \notin {"make", "tail", "total", "exited"},
           pos'.at = "setup" => nTotalThreads < MaxThreads,
           pos'.at = "mark" => pos'.slot < tail_index
    PROVE  OneCreator'
<1>1. Counted' /\ Own' /\ Creation' /\ Ready'
    BY MovesOne DEF table
<1>2. Results'
    BY DEF OneCreator, Results, Result, Ending, table, history
<1> QED BY <1>1, <1>2 DEF OneCreator

\* A thread gives way to the scheduler.
LEMMA LeavesOne ==
    ASSUME Inv, OneCreator, running = "thread", ToScheduler,
           UNCHANGED <<program, id, exited, ret, curr_thread, nTotalThreads, tail_index,
                       joined, cancelled>>,
           NEW q, ctx' = [ctx EXCEPT ![curr_thread] = q],
           q \in Positions, q.body = pos.body, q.call # 0,
           \/ q.at = "call" /\ pos.at = "call"
           \/ q = pos
    PROVE  OneCreator'
<1> USE DEF OneCreator
<1>1. /\ running' = "sched" /\ sched' \in {"start", "check"} /\ curr_thread \in Slot /\ 0 \in Slot
      /\ ctx \in [Slot -> Positions \union {None, Lost}]
    BY GTThreadAssumption DEF ToScheduler, Inv, TypeOK, Slot
<1>2. /\ ctx'[curr_thread] = q /\ \A k \in Slot \ {curr_thread} : ctx'[k] = ctx[k]
    BY <1>1
<1>3. q # None
    BY PositionTypes
<1>4. Counted'
    BY <1>1 DEF Counted
<1>5. Own'
    BY <1>1, <1>2 DEF Own
<1>6. Ready'
    BY <1>1, <1>2, <1>3 DEF Ready
<1>7. Creation'
  <2>1. SUFFICES ASSUME ctx'[0] \in Positions PROVE Creating(ctx[0])'
      BY <1>1 DEF Creation
  <2>2. CASE curr_thread = 0
    <3>1. Creating(q)
        BY DEF Creation, Creating
    <3> QED BY <1>1, <1>2, <1>3, <2>2, <3>1 DEF Creating, CallOf
  <2>3. CASE curr_thread # 0
    <3>1. ctx'[0] = ctx[0] /\ Creating(ctx[0])
        BY <1>1, <1>2, <2>1, <2>3 DEF Creation
    <3>2. tail_index \in Slot /\ ctx[tail_index] # None => ctx'[tail_index] # None
        BY <1>2, <1>3
    <3>3. tail_index \in Slot \/ ~(nTotalThreads < MaxThreads) \/ tail_index # nTotalThreads
        BY GTThreadAssumption DEF Inv, TypeOK, Slot
    <3> QED BY <3>1, <3>2, <3>3 DEF Creating, CallOf
  <2> QED BY <2>2, <2>3
<1>8. Results'
  <2>1. Ending(q, curr_thread)
      BY DEF Results, Ending
  <2> QED BY <1>1, <1>2, <2>1 DEF Results, Result, Ending, history
<1> QED BY <1>4, <1>5, <1>6, <1>7, <1>8

LEMMA CreateCheckOne ==
    ASSUME Inv, OneCreator, CreateCheck
    PROVE  OneCreator'
<1>1. /\ running = "thread" /\ pos \in Positions /\ pos.at = "call"
  <2>1. AtCall("create")
      BY DEF CreateCheck
  <2> QED BY <2>1, AtCallFacts DEF Inv
<1>2. UNCHANGED <<program, table, curr_thread, counters, lock, running, scheduling, history>>
    BY DEF CreateCheck
<1>3. CASE nTotalThreads >= MaxThreads
  <2>1. pos'.at = "call" /\ pos'.body = pos.body
      BY <1>3, Advance DEF CreateCheck, GoOn, Inv
  <2> QED BY <1>1, <1>2, <2>1, MovesKeep DEF counters
<1>4. CASE ~(nTotalThreads >= MaxThreads)
  <2>1. pos'.at = "setup" /\ pos'.body = pos.body
      BY <1>1, <1>4, GotoType DEF CreateCheck, Steps
  <2>2. nTotalThreads < MaxThreads
      BY <1>4, GTThreadAssumption DEF Inv, TypeOK
  <2> QED BY <1>1, <1>2, <2>1, <2>2, MovesKeep DEF counters
<1> QED BY <1>3, <1>4

LEMMA CreateSetupOne ==
    ASSUME Inv, OneCreator, Creators \subseteq {0}, CreateSetup
    PROVE  OneCreator'
<1>1. /\ running = "thread" /\ pos \in Positions /\ pos.at = "setup"
      /\ pos.call \in DOMAIN Here /\ Here[pos.call].op = "create"
    BY PositionTypes DEF CreateSetup, At, Inv, TypeOK, Places, InPlace, CallOf, Here
<1>2. /\ UNCHANGED <<program, exited, ret, curr_thread, counters, lock, running, scheduling,
                     history>>
      /\ tail_index \in Slot
      /\ id' = [id EXCEPT ![tail_index] = Arg]
      /\ ctx' = [ctx EXCEPT ![tail_index] = None]
      /\ GotoSlot("make", tail_index)
    BY DEF CreateSetup, GotoSlot
<1>3. /\ pos'.call = pos.call /\ pos'.body = pos.body /\ pos'.at = "make"
      /\ pos'.slot = tail_index
    BY <1>1, <1>2, GotoSlotType DEF Steps
<1>4. /\ pos.body = 0 /\ curr_thread = 0 /\ 0 \in Slot /\ id[0] = 0 /\ ctx[0] \notin Positions
      /\ tail_index \in Nat \ {0} /\ nTotalThreads \in Nat \ {0} /\ Arg \in Body \ {0, None}
    BY <1>1, MainCreates
<1>5. /\ id'[tail_index] = Arg /\ ctx'[tail_index] = None /\ None \notin Positions
      /\ \A k \in Slot \ {tail_index} : id'[k] = id[k] /\ ctx'[k] = ctx[k]
    BY <1>2, GTThreadAssumption DEF Inv, TypeOK
<1>6. tail_index = nTotalThreads /\ nTotalThreads < MaxThreads
    BY <1>1, <1>4 DEF OneCreator, Creation, Creating
<1> USE DEF OneCreator
<1>7. Counted'
    BY <1>1, <1>2, <1>4 DEF Counted, counters
<1>8. Own'
    BY <1>1, <1>2, <1>3, <1>4, <1>5 DEF Own
<1>9. Creation'
  <2>1. Creating(pos)'
      BY <1>2, <1>3, <1>4, <1>5, <1>6 DEF Creating, CallOf, Arg, Here, counters
  <2>2. ctx'[0] \notin Positions
      BY <1>4, <1>5
  <2> QED BY <2>1, <2>2 DEF Creation
<1>10. Ready'
    BY <1>2, <1>4, <1>5 DEF Ready, counters
<1>11. Results'
    BY <1>1, <1>2, <1>3, <1>4, <1>5 DEF Results, Result, Ending, counters, history
<1> QED BY <1>7, <1>8, <1>9, <1>10, <1>11

LEMMA CreateMakeOne ==
    ASSUME Inv, OneCreator, Creators \subseteq {0}, CreateMake
    PROVE  OneCreator'
<1>1. /\ running = "thread" /\ running' = "thread" /\ pos \in Positions
      /\ pos.at = "make" /\ pos.slot = tail_index
      /\ pos.call \in DOMAIN Here /\ Here[pos.call].op = "create"
      /\ UNCHANGED <<program, id, exited, ret, curr_thread, counters, lock, running,
                     scheduling, history>>
      /\ ctx' = [ctx EXCEPT ![tail_index] = Position(Arg, 0)]
    BY DEF CreateMake, At, Inv, TypeOK, Places, InPlace, CallOf, Here
<1>2. /\ pos.body = 0 /\ curr_thread = 0 /\ 0 \in Slot /\ id[0] = 0 /\ ctx[0] \notin Positions
      /\ tail_index \in Nat \ {0} /\ nTotalThreads \in Nat \ {0} /\ Arg \in Body \ {0, None}
    BY <1>1, MainCreates
<1>3. pos'.body = pos.body /\ pos'.at = "tail" /\ pos'.loaded = None
    BY <1>1, GotoType DEF CreateMake, Steps
<1>4. /\ Position(Arg, 0) \in Positions /\ Position(Arg, 0).at = "call"
      /\ Position(Arg, 0).body = Arg
    BY <1>2, PositionType
<1>5. /\ tail_index = nTotalThreads /\ nTotalThreads < MaxThreads /\ tail_index \in Slot
      /\ id[tail_index] = Arg
    BY <1>1, <1>2, PositionTypes DEF OneCreator, Creation, Creating, CallOf, Arg, Here
<1>6. /\ ctx'[tail_index] = Position(Arg, 0)
      /\ \A k \in Slot \ {tail_index} : ctx'[k] = ctx[k]
    BY <1>1, <1>5 DEF Inv, TypeOK
<1>7. Position(Arg, 0) # None
    BY <1>4, PositionTypes
<1> USE DEF OneCreator
<1>8. Counted'
    BY <1>1, <1>2 DEF Counted, counters
<1>9. Own'
    BY <1>1, <1>2, <1>3, <1>4, <1>5, <1>6 DEF Own
<1>10. Creation'
  <2>1. Creating(pos)'
      BY <1>1, <1>2, <1>3, <1>5, <1>6, <1>7 DEF Creating, counters
  <2>2. ctx'[0] \notin Positions
      BY <1>2, <1>6
  <2> QED BY <2>1, <2>2 DEF Creation
<1>11. Ready'
    BY <1>1, <1>2, <1>6, <1>7 DEF Ready, counters
<1>12. Results'
    BY <1>1, <1>2, <1>3, <1>4, <1>6 DEF Results, Result, Ending, counters, history
<1> QED BY <1>8, <1>9, <1>10, <1>11, <1>12

LEMMA LoadOne ==
    ASSUME Inv, OneCreator, Creators \subseteq {0}, Load
    PROVE  OneCreator'
<1>1. /\ running = "thread" /\ pos \in Positions /\ Counter \in Int
      /\ pos' = [pos EXCEPT !.loaded = Counter]
      /\ pos.at \in {"tail", "total", "active", "exitDrop", "cancelDrop"}
      /\ UNCHANGED <<program, table, curr_thread, counters, lock, running, scheduling, history>>
    BY DEF Load, Inv, TypeOK, Counter
<1>2. /\ pos'.call = pos.call /\ pos'.body = pos.body /\ pos'.at = pos.at
      /\ pos'.loaded = Counter
    BY <1>1, LoadedType
<1> USE DEF OneCreator, table, counters, history
<1>3. Counted' /\ Own' /\ Ready'
    BY <1>1, <1>2 DEF Counted, Own, Ready
<1>4. Creation'
    BY <1>1, <1>2 DEF Creation, Creating, CallOf, Counter
<1>5. Results'
    BY <1>1, <1>2 DEF Results, Result, Ending
<1> QED BY <1>3, <1>4, <1>5

LEMMA IncrementOne ==
    ASSUME Inv, OneCreator, Creators \subseteq {0}, Increment
    PROVE  OneCreator'
<1>1. /\ running = "thread" /\ pos \in Positions /\ pos.at \in {"tail", "total", "active"}
      /\ pos.call \in DOMAIN Here /\ Here[pos.call].op = "create" /\ pos.loaded # None
      /\ UNCHANGED <<program, table, curr_thread, lock, running, scheduling, history>>
    BY DEF Increment, At, Inv, TypeOK, Places, InPlace, CallOf, Here
<1>2. /\ pos.body = 0 /\ curr_thread = 0 /\ 0 \in Slot /\ id[0] = 0 /\ ctx[0] \notin Positions
      /\ tail_index \in Nat \ {0} /\ nTotalThreads \in Nat \ {0}
    BY <1>1, MainCreates
<1>3. Creating(pos)
    BY <1>1 DEF OneCreator, Creation
<1>4. CASE pos.at = "tail"
  <2>1. /\ tail_index' = tail_index + 1 /\ UNCHANGED nTotalThreads /\ Goto("total")
        /\ tail_index = nTotalThreads /\ nTotalThreads < MaxThreads
        /\ id[tail_index] # None /\ ctx[tail_index] # None
      BY <1>1, <1>2, <1>3, <1>4 DEF Increment, At, Creating
  <2>2. pos'.body = 0 /\ pos'.at = "total" /\ pos'.loaded = None
      BY <1>1, <1>2, <2>1, GotoType DEF Steps
  <2> USE DEF OneCreator, table, history
  <2>3. Counted' /\ Own'
      BY <1>1, <1>2, <2>1, <2>2 DEF Counted, Own
  <2>4. Creation'
      BY <1>1, <1>2, <2>1, <2>2 DEF Creation, Creating
  <2>5. Ready'
    <3>1. \A k \in Slot : k < tail_index + 1 => k < tail_index \/ k = tail_index
        BY <1>2, GTThreadAssumption DEF Slot
    <3> QED BY <1>1, <1>2, <2>1, <3>1, GTThreadAssumption DEF Ready
  <2>6. Results'
    <3>1. \A n \in Int : n < tail_index => n < tail_index'
        BY <1>2, <2>1
    <3>2. \A k \in Slot : k \in Int /\ (ctx[k] \in Positions => ctx[k].slot \in Int)
        BY PositionTypes, GTThreadAssumption DEF Slot
    <3> QED BY <1>1, <2>2, <3>1, <3>2 DEF Results, Result, Ending
  <2> QED BY <2>3, <2>4, <2>5, <2>6
<1>5. CASE pos.at = "total"
  <2>1. /\ nTotalThreads' = nTotalThreads + 1 /\ UNCHANGED tail_index /\ Goto("active")
        /\ tail_index = nTotalThreads + 1
      BY <1>1, <1>2, <1>3, <1>5 DEF Increment, At, Creating
  <2>2. pos'.body = 0 /\ pos'.at = "active"
      BY <1>1, <1>2, <2>1, GotoType DEF Steps
  <2> USE DEF OneCreator, table, history
  <2>3. Counted' /\ Own'
      BY <1>1, <1>2, <2>1, <2>2 DEF Counted, Own
  <2>4. Creation'
      BY <1>1, <1>2, <2>1, <2>2 DEF Creation, Creating
  <2>5. Ready'
      BY <1>1, <1>2, <2>1, GTThreadAssumption DEF Ready
  <2>6. Results'
      BY <1>1, <2>1, <2>2 DEF Results, Result, Ending
  <2> QED BY <2>3, <2>4, <2>5, <2>6
<1>6. CASE pos.at = "active"
  <2>1. GoOn /\ UNCHANGED <<tail_index, nTotalThreads>>
      BY <1>6 DEF Increment, At
  <2>2. pos'.at = "call" /\ pos'.body = pos.body
      BY <2>1, Advance DEF GoOn, Inv
  <2> QED BY <1>1, <1>6, <2>1, <2>2, MovesKeep
<1> QED BY <1>1, <1>4, <1>5, <1>6

LEMMA JoinFindOne ==
    ASSUME Inv, OneCreator, Creators \subseteq {0}, JoinFind
    PROVE  OneCreator'
<1>1. /\ running = "thread" /\ pos \in Positions /\ pos.at = "call"
      /\ UNCHANGED <<program, table, curr_thread, counters, lock, running, scheduling, history>>
    BY AtCallFacts DEF JoinFind, Inv
<1>2. CASE GoOn
  <2>1. pos'.at = "call" /\ pos'.body = pos.body
      BY <1>2, Advance DEF GoOn, Inv
  <2> QED BY <1>1, <2>1, MovesKeep DEF counters
<1>3. ASSUME NEW k \in Slot, GotoSlot("wait", k)
      PROVE  OneCreator'
  <2>1. pos'.at = "wait" /\ pos'.body = pos.body
      BY <1>1, <1>3, GotoSlotType DEF Steps
  <2> QED BY <1>1, <2>1, MovesKeep DEF counters
<1> QED BY <1>2, <1>3 DEF JoinFind, GotoSlot

\* The thread that has exited was counted, and its result is what is handed out.
LEMMA JoinReturnOne ==
    ASSUME Inv, OneCreator, Creators \subseteq {0}, JoinReturn
    PROVE  OneCreator'
<1>1. /\ running = "thread" /\ running' = "thread" /\ pos.at = "wait" /\ pos.slot \in Slot /\ GoOn
      /\ exited[pos.slot] /\ joined' = joined \union {<<id[pos.slot], ret[pos.slot]>>}
      /\ UNCHANGED <<program, table, curr_thread, counters, lock, scheduling, cancelled>>
    BY PositionTypes DEF JoinReturn, At, Inv, TypeOK
<1>2. pos'.at = "call" /\ pos'.body = pos.body
    BY <1>1, Advance DEF GoOn, Inv
<1>3. Counted' /\ Own' /\ Creation' /\ Ready'
    BY <1>1, <1>2, MovesOne DEF table, counters
<1>4. \A j \in joined' : j[2] = j[1] \/ j[1] \in cancelled
    BY <1>1 DEF OneCreator, Results, Result
<1>5. Results'
    BY <1>1, <1>2, <1>4 DEF OneCreator, Results, Result, Ending, table, counters
<1> QED BY <1>3, <1>5 DEF OneCreator

LEMMA ExitRetOne ==
    ASSUME Inv, OneCreator, Creators \subseteq {0}, ExitRet
    PROVE  OneCreator'
<1>1. /\ running = "thread" /\ running' = "thread" /\ pos.at = "call"
      /\ pos \in Positions /\ curr_thread \in Slot
      /\ ret' = [ret EXCEPT ![curr_thread] = pos.body]
      /\ UNCHANGED <<program, id, exited, ctx, curr_thread, counters, lock, running,
                     scheduling, history>>
    BY DEF ExitRet, AtCall, AtEnd, At, Inv, TypeOK
<1>2. pos'.body = pos.body /\ pos'.at = "exited"
    BY <1>1, GotoType DEF ExitRet, Steps
<1>3. Counted' /\ Own' /\ Creation' /\ Ready'
    BY <1>1, <1>2, MovesOne DEF counters
<1>4. ret'[curr_thread] = id[curr_thread] /\ \A k \in Slot \ {curr_thread} : ret'[k] = ret[k]
    BY <1>1 DEF Inv, TypeOK, OneCreator, Own
<1>5. Results'
    BY <1>1, <1>2, <1>4 DEF OneCreator, Results, Result, Ending, counters, history
<1> QED BY <1>3, <1>5 DEF OneCreator

LEMMA ExitMarkOne ==
    ASSUME Inv, OneCreator, Creators \subseteq {0}, ExitMark
    PROVE  OneCreator'
<1>1. /\ running = "thread" /\ running' = "thread" /\ pos.at = "exited"
      /\ pos \in Positions /\ curr_thread \in Slot
      /\ exited' = [exited EXCEPT ![curr_thread] = TRUE]
      /\ UNCHANGED <<program, id, ret, ctx, curr_thread, counters, lock, running, scheduling,
                     history>>
    BY DEF ExitMark, At, Inv, TypeOK
<1>2. pos'.body = pos.body /\ pos'.at = "exitDrop"
    BY <1>1, GotoType DEF ExitMark, Steps
<1>3. Counted' /\ Own' /\ Creation' /\ Ready'
    BY <1>1, <1>2, MovesOne DEF counters
<1>4. \A k \in Slot \ {curr_thread} : exited'[k] = exited[k]
    BY <1>1 DEF Inv, TypeOK
<1>5. curr_thread < tail_index
    BY <1>1 DEF OneCreator, Counted, Ready, Inv, TypeOK
<1>6. Results'
    BY <1>1, <1>2, <1>4, <1>5 DEF OneCreator, Results, Result, Ending, counters, history
<1> QED BY <1>3, <1>6 DEF OneCreator

LEMMA CancelFindOne ==
    ASSUME Inv, OneCreator, Creators \subseteq {0}, CancelFind
    PROVE  OneCreator'
<1>1. /\ running = "thread" /\ pos \in Positions /\ pos.at = "call"
      /\ UNCHANGED <<program, table, curr_thread, counters, lock, running, scheduling, history>>
    BY AtCallFacts DEF CancelFind, Inv
<1>2. CASE GoOn
  <2>1. pos'.at = "call" /\ pos'.body = pos.body
      BY <1>2, Advance DEF GoOn, Inv
  <2> QED BY <1>1, <2>1, MovesKeep DEF counters
<1>3. ASSUME NEW k \in Slot, k \in Found(Arg), GotoSlot("mark", k)
      PROVE  OneCreator'
  <2>1. pos'.at = "mark" /\ pos'.body = pos.body /\ pos'.slot = k
      BY <1>1, <1>3, GotoSlotType DEF Steps
  <2>2. k < tail_index
      BY <1>3 DEF Found, OneCreator, Ready, Inv, TypeOK
  <2> QED BY <1>1, <2>1, <2>2, MovesKeep DEF counters
<1> QED BY <1>2, <1>3 DEF CancelFind, GotoSlot, IsFirst

LEMMA CancelMarkOne ==
    ASSUME Inv, OneCreator, Creators \subseteq {0}, CancelMark
    PROVE  OneCreator'
<1>1. /\ running = "thread" /\ running' = "thread" /\ pos.at = "mark"
      /\ pos \in Positions /\ pos.slot \in Slot
      /\ exited' = [exited EXCEPT ![pos.slot] = TRUE]
      /\ cancelled' = cancelled \union {id[pos.slot]}
      /\ UNCHANGED <<program, id, ret, ctx, curr_thread, counters, lock, running, scheduling,
                     joined>>
    BY PositionTypes DEF CancelMark, At, Inv, TypeOK
<1>2. pos'.body = pos.body /\ pos'.at = "cancelDrop"
    BY <1>1, GotoType DEF CancelMark, Steps
<1>3. Counted' /\ Own' /\ Creation' /\ Ready'
    BY <1>1, <1>2, MovesOne DEF counters
<1>4. \A k \in Slot \ {pos.slot} : exited'[k] = exited[k]
    BY <1>1 DEF Inv, TypeOK
<1>5. pos.slot < tail_index
    BY <1>1 DEF OneCreator, Results, Ending
<1>6. Results'
    BY <1>1, <1>2, <1>4, <1>5 DEF OneCreator, Results, Result, Ending, counters
<1> QED BY <1>3, <1>6 DEF OneCreator

\* A thread that gives way, for whatever reason.
LEMMA SwitchOne ==
    ASSUME Inv, OneCreator,
           JoinWait \/ ExitLeave \/ Yield \/ Preempt \/ (MutexLock /\ lock[Arg])
    PROVE  OneCreator'
<1>1. /\ running = "thread" /\ ToScheduler /\ pos \in Positions /\ pos.call # 0
      /\ UNCHANGED <<program, id, exited, ret, curr_thread, nTotalThreads, tail_index,
                     joined, cancelled>>
    BY DEF JoinWait, ExitLeave, Yield, Preempt, MutexLock, SwitchAway, At, AtCall, counters, Inv,
       TypeOK, history
<1>2. CASE SwitchAway(pos)
    BY <1>1, <1>2, LeavesOne DEF SwitchAway
<1>3. CASE Yield
  <2> DEFINE q == Position(pos.body, pos.call + 1)
  <2>1. q \in Positions /\ q.body = pos.body /\ q.call # 0 /\ q.at = "call"
      BY Advance DEF Inv
  <2>2. pos.at = "call" /\ ctx' = [ctx EXCEPT ![curr_thread] = q]
      BY <1>3 DEF Yield, SwitchAway, AtCall, At
  <2> HIDE DEF q
  <2> QED BY <1>1, <2>1, <2>2, LeavesOne
<1> QED BY <1>2, <1>3 DEF JoinWait, ExitLeave, Preempt, MutexLock

\* The caller of gtthread_cancel leaves its slot as it is.
LEMMA CancelLeaveOne ==
    ASSUME Inv, OneCreator, Creators \subseteq {0}, CancelLeave
    PROVE  OneCreator'
<1>1. /\ running' = "sched" /\ sched' \in {"start", "check"}
      /\ UNCHANGED <<program, table, curr_thread, nTotalThreads, tail_index, history>>
    BY DEF CancelLeave, ToScheduler, Inv, TypeOK
<1> USE DEF OneCreator, table, history
<1>2. Counted' /\ Own' /\ Ready'
    BY <1>1 DEF Counted, Own, Ready
<1>3. Creation'
    BY <1>1 DEF Creation, Creating, CallOf
<1>4. Results'
    BY <1>1 DEF Results, Result, Ending
<1> QED BY <1>2, <1>3, <1>4

LEMMA MutexOne ==
    ASSUME Inv, OneCreator, (MutexLock /\ ~lock[Arg]) \/ MutexUnlock
    PROVE  OneCreator'
<1>1. /\ running = "thread" /\ running' = "thread" /\ pos.at = "call" /\ GoOn
      /\ UNCHANGED <<program, table, curr_thread, nTotalThreads, tail_index, history>>
    BY DEF MutexLock, MutexUnlock, AtCall, At, table, counters
<1>2. pos'.at = "call" /\ pos'.body = pos.body
    BY <1>1, Advance DEF GoOn, Inv
<1> QED BY <1>1, <1>2, MovesKeep

LEMMA StopsOne ==
    ASSUME OneCreator, running' \in {"returned", "ended", "wild"},
           UNCHANGED <<program, table, curr_thread, counters, lock, pos, scheduling, joined,
                       cancelled>>
    PROVE  OneCreator'
    BY DEF OneCreator, Counted, Own, Creation, Creating, CallOf, Ready, Results, Result,
       Ending, table,
       counters, scheduling, history

\* After the wrap the scheduler looks at a slot that is counted.
LEMMA ScheduleOne ==
    ASSUME Inv, OneCreator, SchedNext \/ SchedWrap \/ SchedSkip \/ (SchedCheck /\ nActiveThreads # 0)
    PROVE  OneCreator'
<1>1. /\ running = "sched" /\ running' = "sched"
      /\ UNCHANGED <<program, table, counters, history>>
    BY DEF SchedNext, SchedWrap, SchedSkip, SchedCheck
<1> USE DEF OneCreator, table, counters, history
<1>2. sched' = "pick" => curr_thread' < nTotalThreads
    BY DEF SchedNext, SchedWrap, SchedSkip, SchedCheck, Inv, TypeOK
<1>3. Counted' /\ Own' /\ Ready'
    BY <1>1, <1>2 DEF Counted, Own, Ready
<1>4. Creation'
    BY <1>1 DEF Creation, Creating, CallOf
<1>5. Results'
    BY <1>1 DEF Results, Result, Ending
<1> QED BY <1>3, <1>4, <1>5

\* A context that is lost is still one that was made.
LEMMA CreatingLost ==
    ASSUME Inv, NEW p, NEW s, Creating(p), ctx' = [ctx EXCEPT ![s] = Lost],
           UNCHANGED <<program, id, nTotalThreads, tail_index>>
    PROVE  Creating(p)'
<1>1. ctx[tail_index] # None /\ tail_index \in Slot => ctx'[tail_index] # None
    BY GTThreadAssumption DEF Inv, TypeOK
<1>2. tail_index = nTotalThreads /\ nTotalThreads < MaxThreads => tail_index \in Slot
    BY GTThreadAssumption DEF Inv, TypeOK, Slot
<1> QED BY <1>1, <1>2 DEF Creating, CallOf

LEMMA SchedPickOne ==
    ASSUME Inv, OneCreator, Creators \subseteq {0}, SchedPick
    PROVE  OneCreator'
<1> DEFINE c == ctx[curr_thread]
<1>1. /\ running = "sched" /\ running' = "thread" /\ sched = "pick" /\ curr_thread \in Slot
      /\ c \in Positions /\ curr_thread < nTotalThreads /\ 0 \in Slot
      /\ UNCHANGED <<program, id, exited, ret, curr_thread, counters, lock, history>>
    BY GTThreadAssumption DEF SchedPick, Resumable, Inv, TypeOK, OneCreator, Counted, Slot
<1>2. c.body \in Body /\ c.body = id[curr_thread]
    BY <1>1, PositionTypes DEF OneCreator, Own
<1> USE DEF OneCreator
<1>3. CASE c.call = 0
  <2>1. pos' = Position(c.body, 1) /\ UNCHANGED ctx /\ curr_thread # 0
      BY <1>1, <1>3 DEF SchedPick, Own
  <2>2. pos'.at = "call" /\ pos'.body = c.body /\ c.body # 0
      BY <1>1, <1>2, <2>1, PositionType DEF Own
  <2>3. Counted' /\ Own' /\ Ready'
      BY <1>1, <1>2, <2>1, <2>2 DEF Counted, Own, Ready, counters
  <2>4. Creation'
      BY <1>1, <2>1, <2>2 DEF Creation, Creating, CallOf, counters
  <2>5. Results'
      BY <1>1, <2>1, <2>2 DEF Results, Result, Ending, counters, history
  <2> QED BY <2>3, <2>4, <2>5
<1>4. CASE c.call # 0
  <2>1. pos' = c /\ ctx' = [ctx EXCEPT ![curr_thread] = Lost]
      BY <1>4 DEF SchedPick
  <2>2. /\ ctx'[curr_thread] = Lost /\ \A k \in Slot \ {curr_thread} : ctx'[k] = ctx[k]
      BY <1>1, <2>1 DEF Inv, TypeOK
  <2>3. Lost \notin Positions /\ Lost # None
      BY GTThreadAssumption
  <2>4. Counted' /\ Own'
      BY <1>1, <1>2, <2>1, <2>2, <2>3 DEF Counted, Own, counters
  <2>5. Ready'
      BY <1>1, <2>2, <2>3 DEF Ready, counters
  <2>6. Creation'
    <3>1. Creating(c)
        BY <1>1, <1>2 DEF Creation, Creating, Own
    <3>2. Creating(pos)'
        BY <1>1, <2>1, <3>1, CreatingLost DEF Creating, CallOf, counters
    <3>3. ASSUME ctx'[0] \in Positions PROVE Creating(ctx[0])'
      <4>1. ctx'[0] = ctx[0] /\ Creating(ctx[0])
          BY <1>1, <2>2, <2>3, <3>3 DEF Creation
      <4> QED BY <1>1, <2>1, <4>1, CreatingLost DEF Creating, CallOf, counters
    <3> QED BY <3>2, <3>3 DEF Creation
  <2>7. Results'
      BY <1>1, <2>1, <2>2, <2>3 DEF Results, Result, Ending, counters, history
  <2> QED BY <2>4, <2>5, <2>6, <2>7
<1> QED BY <1>3, <1>4

LEMMA PreemptSchedulerOne ==
    ASSUME Inv, OneCreator, Creators \subseteq {0}, PreemptScheduler
    PROVE  OneCreator'
<1>1. /\ running' = "sched" /\ curr_thread \in Slot /\ sched' \in {"start", "check"} /\ 0 \in Slot
      /\ ctx' = [ctx EXCEPT ![curr_thread] = Lost]
      /\ UNCHANGED <<program, id, exited, ret, curr_thread, counters, joined, cancelled>>
    BY GTThreadAssumption DEF PreemptScheduler, Inv, TypeOK, Slot
<1>2. /\ ctx'[curr_thread] = Lost /\ \A k \in Slot \ {curr_thread} : ctx'[k] = ctx[k]
    BY <1>1 DEF Inv, TypeOK
<1>3. Lost \notin Positions /\ Lost # None
    BY GTThreadAssumption
<1> USE DEF OneCreator
<1>4. Counted' /\ Own'
    BY <1>1, <1>2, <1>3 DEF Counted, Own
<1>5. Ready'
    BY <1>1, <1>2, <1>3 DEF Ready, counters
<1>6. Creation'
  <2>1. SUFFICES ASSUME ctx'[0] \in Positions PROVE Creating(ctx[0])'
      BY <1>1 DEF Creation
  <2>2. ctx'[0] = ctx[0] /\ Creating(ctx[0])
      BY <1>1, <1>2, <1>3, <2>1 DEF Creation
  <2> QED BY <1>1, <2>2, CreatingLost DEF Creating, CallOf, counters
<1>7. Results'
    BY <1>1, <1>2, <1>3 DEF Results, Result, Ending, counters, history
<1> QED BY <1>4, <1>5, <1>6, <1>7

LEMMA NextOne ==
    ASSUME Inv, OneCreator, Creators \subseteq {0}, Next
    PROVE  OneCreator'
<1>1. CASE \/ CreateOutside \/ CreateElsewhere \/ JoinAgain \/ MainReturns
           \/ SchedWild \/ PreemptOutside \/ (SchedCheck /\ nActiveThreads = 0)
    BY <1>1, StopsOne DEF CreateOutside, CreateElsewhere, JoinAgain, MainReturns, SchedWild,
       PreemptOutside, SchedCheck, Wild, scheduling, history
<1>2. CASE \/ CreateCheck \/ CreateSetup \/ CreateMake \/ Load \/ Increment
           \/ JoinFind \/ JoinReturn
    BY <1>2, CreateCheckOne, CreateSetupOne, CreateMakeOne, LoadOne, IncrementOne, JoinFindOne, JoinReturnOne
<1>3. CASE ExitRet \/ ExitMark \/ CancelFind \/ CancelMark \/ CancelLeave
    BY <1>3, ExitRetOne, ExitMarkOne, CancelFindOne, CancelMarkOne, CancelLeaveOne
<1>4. CASE MutexLock \/ MutexUnlock \/ JoinWait \/ ExitLeave \/ Yield \/ Preempt
    BY <1>4, MutexOne, SwitchOne
<1>5. CASE SchedNext \/ SchedWrap \/ SchedSkip \/ (SchedCheck /\ nActiveThreads # 0)
    BY <1>5, ScheduleOne
<1>6. CASE SchedPick \/ PreemptScheduler
    BY <1>6, SchedPickOne, PreemptSchedulerOne
<1> QED BY <1>1, <1>2, <1>3, <1>4, <1>5, <1>6 DEF Next, ThreadStep, SchedStep

LEMMA InitOne ==
    ASSUME Init
    PROVE  OneCreator
<1>1. /\ pos.body = 0 /\ pos.at = "call" /\ 0 \in Slot
      /\ \A k \in Slot : ctx[k] \in {None, Lost} /\ ctx[k] \notin Positions
  <2>1. pos = Position(0, 1) /\ ctx = [k \in Slot |-> IF k = 0 THEN Lost ELSE None]
      BY DEF Init
  <2>2. pos.body = 0 /\ pos.at = "call"
      BY <2>1 DEF Position
  <2> QED BY <2>1, <2>2, GTThreadAssumption DEF Slot
<1> USE GTThreadAssumption DEF Init
<1>2. Counted /\ Own
    BY <1>1 DEF Counted, Own
<1>3. Creation
    BY <1>1 DEF Creation, Creating
<1>4. Ready
    BY DEF Ready, Slot
<1>5. Results
    BY <1>1 DEF Results, Ending
<1> QED BY <1>2, <1>3, <1>4, <1>5 DEF OneCreator

\* With one creator, slots, counters and results fit together in every reachable
\* state.
THEOREM CreatorReachable == Spec => []CreatorInv
<1>1. ASSUME Init PROVE CreatorInv
    BY <1>1, InitOne DEF CreatorInv
<1>2. ASSUME Inv, CreatorInv, Next PROVE CreatorInv'
  <2>1. Creators' = Creators
      BY <1>2 DEF Next, ThreadStep, SchedStep, Creators, CreateCheck, CreateSetup, CreateOutside, CreateMake,
         CreateElsewhere, Load, Increment, JoinFind, JoinWait, JoinReturn, JoinAgain, ExitRet,
         ExitMark, ExitLeave, MainReturns, CancelFind, CancelMark, CancelLeave, Yield, MutexLock,
         MutexUnlock, SchedNext, SchedWrap, SchedSkip, SchedPick, SchedWild, SchedCheck, Preempt,
         PreemptScheduler, PreemptOutside, Wild
  <2> QED BY <1>2, <2>1, NextOne DEF CreatorInv
<1>3. ASSUME CreatorInv, UNCHANGED vars PROVE CreatorInv'
    BY <1>3 DEF CreatorInv, Creators, OneCreator, Counted, Own, Creation, Creating, CallOf,
       Ready, Results, Result,
       Ending, vars, table, counters, scheduling, history
<1> QED BY <1>1, <1>2, <1>3, Reachable, PTL DEF Spec

\* When main alone creates threads, nTotalThreads counts slots that
\* gtthread_create has finished and the table is not overrun, for every program
\* and every MAXTHREADS.
THEOREM CountedSlotsAreReady == Spec => []SlotsReady
<1>1. ASSUME Inv, CreatorInv PROVE SlotsReady
  <2>1. SUFFICES ASSUME Creators \subseteq {0} PROVE SlotsReady
      BY DEF SlotsReady
  <2>2. Ready /\ nTotalThreads \in Nat /\ tail_index \in Nat
      BY <1>1, <2>1 DEF CreatorInv, OneCreator, Inv, TypeOK
  <2>3. \A k \in 0 .. nTotalThreads - 1 : k \in Slot /\ k < tail_index
      BY <2>2, GTThreadAssumption DEF Ready, Slot
  <2> QED BY <2>2, <2>3 DEF Ready, SlotsReady
<1> QED BY <1>1, Reachable, CreatorReachable, PTL

\* When main alone creates threads, gtthread_join hands out what the thread
\* returned unless it was cancelled, however often the signal strikes between
\* the steps of gtthread_exit.
THEOREM JoinsGiveResults == Spec => []JoinGivesResult
<1>1. ASSUME CreatorInv PROVE JoinGivesResult
    BY <1>1 DEF CreatorInv, OneCreator, Results, JoinGivesResult
<1> QED BY <1>1, CreatorReachable, PTL

=============================================================================
