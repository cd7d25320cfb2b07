------------------------------ MODULE TaskRing ------------------------------
(***************************************************************************)
(* The ring buffer hphl_queue of concurrency.c that implements TaskFifo:   *)
(* hphl_queue, hphl_q_cap, hphl_q_head, hphl_q_tail and hphl_q_count, all  *)
(* under hphl_q_cs, so that each operation is one step.                    *)
(***************************************************************************)
EXTENDS Integers, SequencesExt

CONSTANTS Task,      \* task records; one may be queued again once it left
          NoTask,    \* the NULL slot
          InitCap,   \* the capacity hphl_ensure_pool allocates
          MaxLive    \* bound: tasks in the queue at any time

RingAssumption ==
    /\ NoTask \notin Task
    /\ InitCap \in Nat \ {0}
    /\ MaxLive \in Nat

VARIABLES slots, cap, head, tail, count,
          taken     \* the record the last reader of the ring runs

vars == <<slots, cap, head, tail, count, taken>>

TypeOK ==
    /\ cap \in Nat \ {0}
    /\ slots \in [0 .. cap - 1 -> Task \cup {NoTask}]
    /\ head \in 0 .. cap - 1
    /\ tail \in 0 .. cap - 1
    /\ count \in 0 .. cap
    /\ taken \in Task \cup {NoTask}

\* The slot j places after the head.
At(j) == (head + j) % cap

\* The pending tasks, oldest first: what the readers of the ring walk.
Window == [i \in 1 .. count |-> slots[At(i - 1)]]

Pending == ToSet(Window)

Init ==
    /\ cap = InitCap
    /\ slots = [i \in 0 .. InitCap - 1 |-> NoTask]
    /\ head = 0 /\ tail = 0 /\ count = 0
    /\ taken = NoTask

\* hphl_spawn_task_ex: a full ring is reallocated to twice its capacity, the
\* new half zeroed, the old half left where it is; then the task is written.
Grown == [i \in 0 .. 2 * cap - 1 |-> IF i < cap THEN slots[i] ELSE NoTask]

Push(t) ==
    /\ count < MaxLive
    /\ t \notin Pending
    /\ LET full == count >= cap
           newCap == IF full THEN 2 * cap ELSE cap
           room == IF full THEN Grown ELSE slots
       IN  /\ cap' = newCap
           /\ slots' = [room EXCEPT ![tail] = t]
           /\ tail' = (tail + 1) % newCap
    /\ count' = count + 1
    /\ UNCHANGED <<head, taken>>

\* hphl_worker_proc and hphl_region_join: take the oldest task; the slot it
\* leaves keeps the old pointer.
Pop ==
    /\ count > 0
    /\ taken' = slots[head]
    /\ head' = (head + 1) % cap
    /\ count' = count - 1
    /\ UNCHANGED <<slots, cap, tail>>

\* hphl_wait_task: find t, move every later task one place forward, step the
\* tail back and clear the slot it leaves.
ShiftedLate(i) == {At(j) : j \in i + 1 .. count - 2}       \* a mutation
Shifted(i) == {At(j) : j \in i .. count - 2}

BackNoWrap == tail - 1                                    \* a mutation
Back == (tail - 1 + cap) % cap

Take(t) ==
    /\ \E i \in 0 .. count - 1 :
          /\ slots[At(i)] = t
          /\ \A j \in 0 .. i - 1 : slots[At(j)] # t
          /\ slots' = [k \in 0 .. cap - 1 |->
                         CASE k = Back -> NoTask
                           [] k # Back /\ k \in Shifted(i) -> slots[(k + 1) % cap]
                           [] OTHER -> slots[k]]
    /\ tail' = Back
    /\ taken' = t
    /\ count' = count - 1
    /\ UNCHANGED <<cap, head>>

\* hphl_join_tasks: no task is pending, the indices go back to zero and the
\* buffer stays as it is.
Reset ==
    /\ count = 0
    /\ head' = 0 /\ tail' = 0 /\ count' = 0
    /\ UNCHANGED <<slots, cap, taken>>

Next == Pop \/ Reset \/ \E t \in Task : Push(t) \/ Take(t)

Spec == Init /\ [][Next]_vars

-----------------------------------------------------------------------------
Fifo == INSTANCE TaskFifo WITH queue <- Window

\* The ring implements the FIFO: every operation of concurrency.c on the ring
\* is the operation of the queue, read from head over count slots, and the
\* executor gets the task it asked for.
RingIsFifo == Fifo!Spec

\* A spawn on a full ring keeps every task that was pending
\* ("dobra a fila on-demand em vez de exit(1)", concurrency.c:334).
SpawnKeepsPending ==
    [][\A t \in Task : Push(t) =>
          Pending \subseteq Pending']_vars
=============================================================================
