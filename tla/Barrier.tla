------------------------------ MODULE Barrier ------------------------------
(***************************************************************************)
(* hphl_barrier_wait of runtime/concurrency/concurrency.c: a counter and a *)
(* generation under a critical section, and a condition variable on which  *)
(* the threads of a group sleep until the generation moves on.             *)
(*                                                                         *)
(* Each stretch of code between two acquisitions of the critical section   *)
(* is one step.                                                            *)
(***************************************************************************)
EXTENDS Integers, FiniteSets

CONSTANTS
    Thread,
    Need,       \* the argument of hphl_barrier_new
    Rounds      \* bound: how often each thread calls Wait

ASSUME BarrierAssumption ==
    IsFiniteSet(Thread) /\ Need \in Nat \ {0} /\ Rounds \in Nat

VARIABLES
    count, generation,  \* HphlBarrier
    pc,                 \* "out", "asleep" on cv, or "awake" and on its way back
    gen,                \* the local gen of each call
    passed              \* how many calls each thread has returned from

vars == <<count, generation, pc, gen, passed>>

Init ==
    /\ count = 0 /\ generation = 0
    /\ pc = [t \in Thread |-> "out"]
    /\ gen = [t \in Thread |-> 0]
    /\ passed = [t \in Thread |-> 0]

\* A thread that comes and does not complete the group goes to sleep.
Arrive(t) ==
    /\ pc[t] = "out" /\ passed[t] < Rounds
    /\ count + 1 # Need
    /\ count' = count + 1
    /\ gen' = [gen EXCEPT ![t] = generation]
    /\ pc' = [pc EXCEPT ![t] = "asleep"]
    /\ UNCHANGED <<generation, passed>>

\* The last one of the group starts the next generation and wakes all.
WakeOne(t) ==                                                 \* a mutation
    IF \E u \in Thread : pc[u] = "asleep"
    THEN [pc EXCEPT ![CHOOSE u \in Thread : pc[u] = "asleep"] = "awake"]
    ELSE pc
WakeAll(t) ==
    [u \in Thread |-> IF pc[u] = "asleep" THEN "awake" ELSE pc[u]]

CompleteNoReset(t) ==                                         \* a mutation
    /\ pc[t] = "out" /\ passed[t] < Rounds
    /\ count + 1 = Need
    /\ generation' = generation + 1
    /\ count' = count + 1
    /\ gen' = [gen EXCEPT ![t] = generation]
    /\ pc' = WakeAll(t)
    /\ passed' = [passed EXCEPT ![t] = @ + 1]
Complete(t) ==
    /\ pc[t] = "out" /\ passed[t] < Rounds
    /\ count + 1 = Need
    /\ generation' = generation + 1
    /\ count' = 0
    /\ gen' = [gen EXCEPT ![t] = generation]
    /\ pc' = WakeAll(t)
    /\ passed' = [passed EXCEPT ![t] = @ + 1]

\* SleepConditionVariableCS may return without a wake-up.
Spurious(t) ==
    /\ pc[t] = "asleep"
    /\ pc' = [pc EXCEPT ![t] = "awake"]
    /\ UNCHANGED <<count, generation, gen, passed>>

\* The test of the while loop, made again with the critical section held.
OpenNoLoop(t) == TRUE                                         \* a mutation
OpenByCount(t) == count = 0                                   \* a mutation
Open(t) == generation # gen[t]

Return(t) ==
    /\ pc[t] = "awake" /\ Open(t)
    /\ pc' = [pc EXCEPT ![t] = "out"]
    /\ passed' = [passed EXCEPT ![t] = @ + 1]
    /\ UNCHANGED <<count, generation, gen>>

SleepAgain(t) ==
    /\ pc[t] = "awake" /\ ~Open(t)
    /\ pc' = [pc EXCEPT ![t] = "asleep"]
    /\ UNCHANGED <<count, generation, gen, passed>>

Call(t) == Arrive(t) \/ Complete(t) \/ Return(t) \/ SleepAgain(t)

Next == \E t \in Thread : Call(t) \/ Spurious(t)

\* A thread that can take the critical section gets it; the system owes
\* nobody a spurious wake-up.
Fairness == \A t \in Thread : WF_vars(Call(t))

Spec == Init /\ [][Next]_vars
FairSpec == Spec /\ Fairness

-----------------------------------------------------------------------------
(* Properties *)

TypeOK ==
    /\ count \in 0 .. Need - 1
    /\ generation \in Nat
    /\ pc \in [Thread -> {"out", "asleep", "awake"}]
    /\ gen \in [Thread -> Nat]
    /\ passed \in [Thread -> Nat]

\* The threads inside that belong to the generation under way, and the
\* others inside.
Here == {t \in Thread : pc[t] # "out" /\ gen[t] = generation}
Released == {t \in Thread : pc[t] # "out" /\ gen[t] # generation}

\* Threads leave in groups of Need, never before their group is complete, even
\* when one that left early is back before the others have woken up: the reason
\* for the generation (hphl_barrier_wait).
Groups == INSTANCE BarrierRounds WITH here <- Here, released <- Released

ImplementsRounds == Groups!Spec

\* Nobody sleeps through the completion of its group, and the counter is the
\* number of threads that wait for the group under way.
NoLostWakeup ==
    /\ \A t \in Thread : pc[t] = "asleep" => gen[t] = generation
    /\ count = Cardinality(Here)

\* With exactly as many threads as the barrier needs, no thread gets more than
\* one call ahead of another.
Lockstep ==
    Cardinality(Thread) = Need =>
        \A t, u \in Thread : passed[t] <= passed[u] + 1

\* ... and all get through all their calls.
AllPass == <>(\A t \in Thread : passed[t] = Rounds)
=============================================================================
