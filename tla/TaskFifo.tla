------------------------------ MODULE TaskFifo ------------------------------
(***************************************************************************)
(* What the task queue of runtime/concurrency/concurrency.c promises: one  *)
(* FIFO of pending tasks.  spawn appends, a worker or a joining executor   *)
(* takes the oldest, t.Wait() takes t out of the middle and keeps the      *)
(* order of the others, and the barrier at the end of Main resets it when  *)
(* it is empty.                                                            *)
(***************************************************************************)
EXTENDS Naturals, SequencesExt

CONSTANT Task       \* the task records that can be queued

VARIABLES
    queue,      \* the pending tasks, oldest first
    taken       \* the task an executor took last

Queued == ToSet(queue)

Init == queue = <<>> /\ taken \notin Task

Enqueue(t) == t \notin Queued /\ queue' = Append(queue, t) /\ UNCHANGED taken

Dequeue == queue # <<>> /\ taken' = Head(queue) /\ queue' = Tail(queue)

Withdraw(t) == \E i \in 1 .. Len(queue) :
                 queue[i] = t /\ queue' = RemoveAt(queue, i) /\ taken' = t

Next == Dequeue \/ \E t \in Task : Enqueue(t) \/ Withdraw(t)

Spec == Init /\ [][Next]_<<queue, taken>>
=============================================================================
