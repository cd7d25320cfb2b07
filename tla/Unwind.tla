------------------------------- MODULE Unwind -------------------------------
(***************************************************************************)
(* The blocks of a compiled program that must be closed: calls, try blocks *)
(* with their handler records, lock blocks with their striped spinlocks,   *)
(* and tasks run inline; and what a throw does to them.                    *)
(*                                                                         *)
(* Two back ends.  The LLVM one keeps a chain of handlers per thread in    *)
(* heap records (hphl_exc_* of runtime/core/core.c); the x64 one keeps one *)
(* chain per process, in records on the stack (codegen/expr_hir.cpp).      *)
(* Neither closes anything but the chain when it unwinds.                  *)
(***************************************************************************)
EXTENDS Integers, SequencesExt, FiniteSets

CONSTANTS
    Thread, Obj,
    Stripes,        \* hphl_lock_slot: the objects of each stripe, by address
    Backends,       \* of the builds looked at: "llvm", "x64"
    Process,        \* owner of the only chain of the x64 back end
    Main,           \* the thread of Main; the others run tasks
    None,
    MaxDepth,       \* bound: open blocks of a thread
    MaxPending,     \* bound: tasks begun and not finished
    \* what the program does
    Nests,          \* a lock block inside a lock block (a warning)
    JumpsInTry,     \* return, break or continue out of a try block
    Reassigns,      \* assigns the variable that is the target of its lock
    TasksThrow,     \* functions that tasks call use try and throw, with x64 too
    RunsTasks       \* waits for tasks, which run inline

Rec == Thread \X (1 .. MaxDepth)    \* addresses of records

ASSUME UnwindAssumption ==
    /\ MaxDepth \in Nat /\ MaxPending \in Nat
    /\ UNION Stripes = Obj
    /\ \A r, s \in Stripes : r = s \/ r \cap s = {}
    /\ Process \notin Thread /\ None \notin Rec \cup Obj /\ Main \in Thread
    /\ Backends \subseteq {"llvm", "x64"}
    /\ {Nests, JumpsInTry, Reassigns, TasksThrow, RunsTasks} \subseteq BOOLEAN

VARIABLES
    backend,    \* the back end that compiled the program
    stack,      \* per thread: its open blocks, innermost last
    chain,      \* hphl_exc_current of each thread, and hphl_exc_hdl
    prev,       \* per record: the handler outside it
    frame,      \* per record: the thread and depth its saved rsp belongs to
    heap,       \* allocated records (LLVM)
    want,       \* per thread: the object it spins for
    held,       \* hphl_locks: the stripes that are set
    pending,    \* hphl_pending: tasks begun and not finished
    lost,       \* threads that jumped to a block they do not have open
    exited      \* a throw without a handler ends the process

vars == <<backend, stack, chain, prev, frame, heap, want, held, pending, lost,
          exited>>
handlers == <<chain, prev, frame, heap>>

ThreadLocal == backend = "llvm"

Cell(t) == IF ThreadLocal THEN t ELSE Process

Init ==
    /\ backend \in Backends
    /\ stack = [t \in Thread |-> <<>>]
    /\ chain = [c \in Thread \cup {Process} |-> None]
    /\ prev = [r \in Rec |-> None]
    /\ frame = [r \in Rec |-> r]
    /\ heap = {} /\ held = {} /\ lost = {}
    /\ want = [t \in Thread |-> None]
    /\ pending = 0
    /\ exited = FALSE

Block(k, x) == [kind |-> k, of |-> x]

Kind(t, k) == {i \in 1 .. Len(stack[t]) : stack[t][i].kind = k}

Runs(t) == t \notin lost /\ want[t] = None /\ ~exited

Open(t, b) ==
    /\ Len(stack[t]) < MaxDepth
    /\ stack' = [stack EXCEPT ![t] = Append(@, b)]

TopIs(t, k) == stack[t] # <<>> /\ Last(stack[t]).kind = k

Close(t) == stack' = [stack EXCEPT ![t] = Front(@)]

-----------------------------------------------------------------------------
(* Calls and tasks *)

Call(t) ==
    /\ Runs(t)
    /\ Open(t, Block("call", None))
    /\ UNCHANGED <<handlers, want, held, pending, lost, exited>>

\* Control leaves block d for good.  The blocks inside it are tries, over whose
\* ends the code jumps: a lock block on the way is refused, and a call, a task
\* or a lambda is a function of its own.
Jumps(t, d) ==
    /\ \A i \in d + 1 .. Len(stack[t]) : stack[t][i].kind = "try" /\ JumpsInTry
    /\ stack' = [stack EXCEPT ![t] = SubSeq(@, 1, d - 1)]

\* A return leaves its call; a break or a continue leaves the outermost try
\* block of its loop, if it is in one (loops are not blocks here: any place may
\* be in one).
Jump(t) ==
    /\ Runs(t)
    /\ \E d \in Kind(t, "call") \cup (IF JumpsInTry THEN Kind(t, "try") ELSE {}) :
          Jumps(t, d)
    /\ UNCHANGED <<handlers, want, held, pending, lost, exited>>

RunTask(t) ==
    /\ Runs(t) /\ RunsTasks
    /\ pending < MaxPending                                   \* bound
    /\ Open(t, Block("task", None))
    /\ pending' = pending + 1
    /\ UNCHANGED <<handlers, want, held, lost, exited>>

FinishTask(t) ==
    /\ Runs(t)
    /\ \E d \in Kind(t, "task") : Jumps(t, d)
    /\ pending' = pending - 1
    /\ UNCHANGED <<handlers, want, held, lost, exited>>

-----------------------------------------------------------------------------
(* try, catch and throw *)

\* Semantic analysis refuses try and throw in the text of a task only.
MayThrow(t) == ThreadLocal \/ t = Main \/ TasksThrow

\* The address of a record: in the frame (x64), or of a block that is free
\* (which one makes no difference).
NewRec(t) ==
    IF ThreadLocal
    THEN <<t, CHOOSE n \in 1 .. MaxDepth : <<t, n>> \notin heap>>
    ELSE <<t, Len(stack[t]) + 1>>

EnterTry(t) ==
    /\ Runs(t) /\ MayThrow(t)
    /\ ~({t} \X (1 .. MaxDepth) \subseteq heap)             \* bound
    /\ LET r == NewRec(t)
       IN  /\ Open(t, Block("try", r))
           /\ prev' = [prev EXCEPT ![r] = chain[Cell(t)]]
           /\ frame' = [frame EXCEPT ![r] = <<t, Len(stack[t]) + 1>>]
           /\ chain' = [chain EXCEPT ![Cell(t)] = r]
           /\ heap' = IF ThreadLocal THEN heap \cup {r} ELSE heap
    /\ UNCHANGED <<want, held, pending, lost, exited>>

\* What a record says once it is freed is not looked at again.
Wiped(f, e, blank) == IF ThreadLocal THEN [f EXCEPT ![e] = blank] ELSE f

FreedNever(e) == heap                                         \* a mutation
Freed(e) == heap \ {e}

\* hphl_exc_end takes the record off only if it is the current one; the x64
\* code takes off whatever is current.
LeaveTry(t) ==
    /\ Runs(t) /\ TopIs(t, "try")
    /\ LET r == Last(stack[t]).of
           e == chain[Cell(t)]
       IN  IF e = None /\ ~ThreadLocal
           THEN lost' = lost \cup {t} /\ UNCHANGED <<stack, handlers>>
           ELSE /\ Close(t)
                /\ chain' = IF e = r \/ ~ThreadLocal
                            THEN [chain EXCEPT ![Cell(t)] = prev[e]] ELSE chain
                /\ heap' = Freed(r)
                /\ prev' = Wiped(prev, r, None) /\ frame' = Wiped(frame, r, r)
                /\ UNCHANGED lost
    /\ UNCHANGED <<want, held, pending, exited>>

\* The handler is a block that this thread still has open.
IsHome(t, e) ==
    LET d == frame[e][2]
    IN  /\ frame[e][1] = t
        /\ d \in 1 .. Len(stack[t])
        /\ stack[t][d] = Block("try", e)

OuterKept(t, e) == chain                                      \* a mutation
Outer(t, e) == [chain EXCEPT ![Cell(t)] = prev[e]]

\* Control goes to the innermost handler; the blocks in between are dropped.
Throw(t) ==
    /\ Runs(t) /\ MayThrow(t)
    /\ chain[Cell(t)] # None
    /\ LET e == chain[Cell(t)]
       IN  IF IsHome(t, e)
           THEN /\ stack' =
                     [stack EXCEPT ![t] = SubSeq(@, 1, frame[e][2] - 1)]
                /\ chain' = Outer(t, e)
                /\ heap' = Freed(e)
                /\ prev' = Wiped(prev, e, None) /\ frame' = Wiped(frame, e, e)
                /\ UNCHANGED lost
           ELSE lost' = lost \cup {t} /\ UNCHANGED <<stack, handlers>>
    /\ UNCHANGED <<want, held, pending, exited>>

ThrowUncaught(t) ==
    /\ Runs(t) /\ MayThrow(t)
    /\ chain[Cell(t)] = None
    /\ exited' = TRUE
    /\ UNCHANGED <<stack, handlers, want, held, pending, lost>>

-----------------------------------------------------------------------------
(* lock *)

LockSlotRaw(o) == o                                           \* a mutation
LockSlot(o) == CHOOSE s \in Stripes : o \in s

WantLock(t) ==
    /\ Runs(t)
    /\ Len(stack[t]) < MaxDepth
    /\ ~Nests => Kind(t, "lock") = {}
    /\ \E o \in Obj : want' = [want EXCEPT ![t] = o]
    /\ UNCHANGED <<stack, handlers, held, pending, lost, exited>>

FreeAlways(s) == TRUE                                         \* a mutation
Free(s) == s \notin held

\* __sync_lock_test_and_set of hphl_lock_begin.
EnterLock(t) ==
    /\ want[t] # None /\ ~exited
    /\ Free(LockSlot(want[t]))
    /\ held' = held \cup {LockSlot(want[t])}
    /\ Open(t, Block("lock", want[t]))
    /\ want' = [want EXCEPT ![t] = None]
    /\ UNCHANGED <<handlers, pending, lost, exited>>

\* The target is evaluated again at the end of the block.
Targets(t) == IF Reassigns THEN Obj ELSE {Last(stack[t]).of}

LeaveLock(t) ==
    /\ Runs(t) /\ TopIs(t, "lock")
    /\ \E o \in Targets(t) : held' = held \ {LockSlot(o)}
    /\ Close(t)
    /\ UNCHANGED <<handlers, want, pending, lost, exited>>

-----------------------------------------------------------------------------
Step(t) ==
    \/ Call(t) \/ Jump(t) \/ RunTask(t) \/ FinishTask(t)
    \/ EnterTry(t) \/ LeaveTry(t) \/ Throw(t) \/ ThrowUncaught(t)
    \/ WantLock(t) \/ EnterLock(t) \/ LeaveLock(t)

Next == UNCHANGED backend /\ \E t \in Thread : Step(t)

Spec == Init /\ [][Next]_vars

-----------------------------------------------------------------------------
(* Properties *)

BlockType ==
    [kind : {"call", "task"}, of : {None}] \cup [kind : {"try"}, of : Rec]
        \cup [kind : {"lock"}, of : Obj]

TypeOK ==
    /\ backend \in Backends
    /\ stack \in [Thread -> Seq(BlockType)]
    /\ \A t \in Thread : Len(stack[t]) <= MaxDepth
    /\ chain \in [Thread \cup {Process} -> Rec \cup {None}]
    /\ prev \in [Rec -> Rec \cup {None}]
    /\ frame \in [Rec -> Rec]
    /\ heap \subseteq Rec
    /\ want \in [Thread -> Obj \cup {None}]
    /\ held \subseteq Stripes
    /\ pending \in Int
    /\ lost \subseteq Thread /\ exited \in BOOLEAN

\* h is the record of the innermost try block of the first n blocks of s.
Innermost(s, n, h) ==
    LET tries == {i \in 1 .. n : s[i].kind = "try"}
    IN  IF h = None THEN tries = {}
        ELSE \E j \in tries : s[j].of = h /\ \A k \in tries : k <= j

\* The chain of a running thread is its open try blocks, innermost first
\* (hphl_exc_push, hphl_exc_end, hphl_throw and the x64 try).
ChainIsStack ==
    \A t \in {u \in Thread \ lost : MayThrow(u)} :
        /\ Innermost(stack[t], Len(stack[t]), chain[Cell(t)])
        /\ \A i \in Kind(t, "try") :
              Innermost(stack[t], i - 1, prev[stack[t][i].of])

\* A throw goes to a try block that the throwing thread has open
\* (hphl_exc_restore, the jmpq of the x64 throw).
LandsAtHome == lost = {}

\* A record is freed once, when its try block ends (hphl_exc_free).
HeapIsTries ==
    heap = {r \in Rec : ThreadLocal /\ \E t \in Thread :
                           \E i \in Kind(t, "try") : stack[t][i].of = r}

\* The open try blocks are what is on the chain and what is on the heap: no dead
\* handler is current, none leaks, none is freed twice.
HandlersExact == TypeOK /\ ChainIsStack /\ HeapIsTries

\* No two threads are in lock blocks of the same object, whatever was thrown
\* and caught before (hphl_lock_begin, hphl_lock_end).
Serialized ==
    \A t, u \in Thread : \A i \in Kind(t, "lock"), j \in Kind(u, "lock") :
        stack[t][i].of = stack[u][j].of => t = u

\* A thread that left a lock block released its lock: "lock = try/finally"
\* (semantic.cpp:2015).
LocksAreBlocks ==
    held = UNION {{LockSlot(stack[t][i].of) : i \in Kind(t, "lock")} : t \in Thread}

\* No thread spins for a lock it holds itself for another object: collisions of
\* the stripes only over-serialize (concurrency.c:5-6).
NoSelfWait ==
    \A t \in Thread : \A i \in Kind(t, "lock") :
        want[t] \notin {None, stack[t][i].of} =>
            LockSlot(want[t]) # LockSlot(stack[t][i].of)

\* The tasks counted as pending are those under way (hphl_task_run).
PendingIsRunning ==
    pending = FoldSet(LAMBDA t, n : Cardinality(Kind(t, "task")) + n, 0, Thread)
=============================================================================
