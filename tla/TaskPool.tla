------------------------------ MODULE TaskPool ------------------------------
(***************************************************************************)
(* The task scheduler of runtime/concurrency/concurrency.c: a pool of      *)
(* worker threads and the thread of Main run tasks from one FIFO queue;    *)
(* t.Wait() and the barrier of a nested `parallel' block run queued tasks  *)
(* inline while they wait, so an executor holds a STACK of activations.    *)
(*                                                                         *)
(* Every region of code under the critical section hphl_q_cs is one step.  *)
(* The body of a task is any program: whenever its activation is on top of *)
(* its executor's stack it may call any operation its class allows         *)
(* (MainOps, TaskOps).  The variables handles and lex are not in the code: *)
(* the Wait-able handles a body can name, and the parallel block a task    *)
(* was written in.                                                         *)
(***************************************************************************)
EXTENDS Integers, SequencesExt, FiniteSets

CONSTANTS
    NumTasks,   \* bound: tasks spawned in a behaviour, numbered in that order
    Worker,     \* the threads of hphl_workers
    Main,       \* the thread that runs Main
    Region,     \* the slots of hphl_region_pool
    None,       \* a NULL pointer
    MaxDepth,   \* HPHL_MAX_REGION_DEPTH
    MaxBlocks,  \* bound: nested parallel blocks opened in a behaviour
    MainOps,    \* what the code of Main calls
    TaskOps,    \* what the code of a task calls
    Capture     \* tasks capture the handles known where they are spawned

\* spawn: `spawn task {}' anywhere; part: one part of a parallel block, that is
\* a spawn by the body that opened the block; block: region_begin/region_join;
\* drain: a parallel block in code that is not a task (hphl_join_tasks).
Ops == {"spawn", "part", "block", "wait", "drain", "cancel"}

Task == 1 .. NumTasks
Executor == Worker \cup {Main}

ASSUME PoolAssumption ==
    /\ NumTasks \in Nat /\ MaxDepth \in Nat /\ MaxBlocks \in Nat
    /\ IsFiniteSet(Worker) /\ IsFiniteSet(Region) /\ Region # {}
    /\ Main \notin Worker
    /\ None \notin Region \cup Nat
    /\ Region \cap Nat = {}
    /\ MainOps \subseteq Ops /\ TaskOps \subseteq Ops
    /\ Capture \in BOOLEAN

VARIABLES
    queue,      \* hphl_queue, oldest first (see TaskRing)
    pending,    \* hphl_pending
    status,     \* where the record of a task is
    region,     \* HphlTask.region
    cancel,     \* HphlTask.cancel
    count,      \* HphlRegion.count
    freeList,   \* hphl_region_free up to hphl_region_free_top
    opened,     \* blocks opened so far (for MaxBlocks)
    blocks,     \* HphlRegionTLS.stack of each executor
    self,       \* the slot read by Task.IsCancelled; 0 is NULL
    stack,      \* activations of each executor
    cv,         \* the condition variable each executor sleeps on
    exited,     \* "no", "end" (Main returned) or "fatal" (exit(1))
    handles,    \* per task (0: Main), the handles its body can name
    lex         \* per task, the parallel block its source is nested in

vars == <<queue, pending, status, region, cancel, count, freeList, opened,
          blocks, self, stack, cv, exited, handles, lex>>

-----------------------------------------------------------------------------
(* Activations *)

\* An activation runs the body of task (0: Main) and is in a runtime call op:
\* "body" none; "wait" hphl_wait_task for arg; "join" hphl_region_join;
\* "put" its end, giving slot arg back; "drain" hphl_join_tasks; "exit" the
\* same call at the end of Main.  base is the depth of the executor's block
\* stack when the activation started.
Activation == [task : 0 .. NumTasks,
               op   : {"body", "wait", "join", "put", "drain", "exit"},
               arg  : Task \cup Region \cup {None},
               base : Nat]

Activate(t, e) ==
    [task |-> t, op |-> "body", arg |-> None, base |-> Len(blocks[e])]

Top(e) == Last(stack[e])

\* The top activation of e, itself not asleep, is in op.
At(e, op) ==
    /\ exited = "no"
    /\ cv[e] = "awake"
    /\ stack[e] # <<>>
    /\ Top(e).op = op

May(e, op) == op \in IF Top(e).task = 0 THEN MainOps ELSE TaskOps

\* e's stack with its top activation in op.
InCall(e, op, arg) ==
    ReplaceAt(stack[e], Len(stack[e]), [Top(e) EXCEPT !.op = op, !.arg = arg])

OwnsBlock(e) == Len(blocks[e]) > Top(e).base

CurrentRegion(e) == IF blocks[e] = <<>> THEN None ELSE Last(blocks[e])

Live == {t \in Task : status[t] \in {"queued", "running"}}

\* The ring's head, and what is left when it moves on.
OldestIsNewest == Last(queue)                             \* a mutation
Oldest == Head(queue)

\* WakeAllConditionVariable on the condition variables in conds; region_join
\* sleeps on the variable of its own region, "region".
Woken(conds) ==
    [e \in Executor |-> IF cv[e] \in conds THEN "awake" ELSE cv[e]]

Init ==
    /\ queue = <<>> /\ pending = 0
    /\ status = [t \in Task |-> "unborn"]
    /\ region = [t \in Task |-> None]
    /\ cancel = [t \in Task |-> FALSE]
    /\ count = [r \in Region |-> 0]
    /\ freeList = <<>> /\ opened = 0
    /\ blocks = [e \in Executor |-> <<>>]
    /\ self = [e \in Executor |-> 0]
    /\ stack = [e \in Executor |->
                  IF e = Main
                  THEN << [task |-> 0, op |-> "body", arg |-> None, base |-> 0] >>
                  ELSE <<>>]
    /\ cv = [e \in Executor |-> "awake"]
    /\ exited = "no"
    /\ handles = [t \in 0 .. NumTasks |-> {}]
    /\ lex = [t \in 0 .. NumTasks |-> None]

-----------------------------------------------------------------------------
(* hphl_spawn_task_ex *)
Spawn(e) ==
    /\ At(e, "body")
    /\ May(e, "spawn") \/ (May(e, "part") /\ (Top(e).task = 0 \/ OwnsBlock(e)))
    /\ \E t \in Task :
          /\ status[t] = "unborn"
          /\ \A u \in Task : status[u] = "unborn" => t <= u
          /\ status' = [status EXCEPT ![t] = "queued"]
          /\ region' = [region EXCEPT ![t] = CurrentRegion(e)]
          /\ queue' = Append(queue, t)
          /\ LET me == Top(e).task IN
               /\ handles' = [handles EXCEPT
                                ![t] = IF Capture THEN handles[me] ELSE {},
                                ![me] = @ \cup {t}]
               /\ lex' = [lex EXCEPT ![t] =
                            IF OwnsBlock(e) THEN Last(blocks[e]) ELSE lex[me]]
    /\ count' = [r \in Region |->
                   IF r = CurrentRegion(e) THEN count[r] + 1 ELSE count[r]]
    /\ pending' = pending + 1
    /\ cv' = Woken({"work"})
    /\ UNCHANGED <<cancel, freeList, opened, blocks, self, stack, exited>>

(* hphl_task_run, up to the call of the body *)
Start(e, t, below) ==
    /\ status' = [status EXCEPT ![t] = "running"]
    /\ stack' = [stack EXCEPT ![e] = Append(below, Activate(t, e))]
    /\ self' = [self EXCEPT ![e] = t]
    /\ UNCHANGED <<pending, region, cancel, count, freeList, opened, blocks,
                   exited, handles, lex>>

(* hphl_worker_proc *)
WorkerTake(w) ==
    /\ exited = "no" /\ cv[w] = "awake" /\ stack[w] = <<>>
    /\ queue # <<>>
    /\ queue' = Tail(queue)
    /\ Start(w, Oldest, <<>>)
    /\ UNCHANGED cv

WorkerSleep(w) ==
    /\ exited = "no" /\ cv[w] = "awake" /\ stack[w] = <<>>
    /\ queue = <<>>
    /\ cv' = [cv EXCEPT ![w] = "work"]
    /\ UNCHANGED <<queue, pending, status, region, cancel, count, freeList,
                   opened, blocks, self, stack, exited, handles, lex>>

(* hphl_task_run, from the return of the body: the region charged is the     *)
(* one of the task; q_drained is signalled when this task was the last.      *)
ChargedOfThread(e) == CurrentRegion(e)                    \* a mutation
Charged(e) == region[Top(e).task]

FinishWakesLate ==                                        \* a mutation
    IF pending = 0 THEN {"finished", "drained"} ELSE {"finished"}
FinishWakes ==
    IF pending = 1 THEN {"finished", "drained"} ELSE {"finished"}

AfterRunFreed == "freed"                                  \* a mutation
AfterRun == "done"

Finish(e) ==
    /\ At(e, "body")
    /\ Top(e).task # 0
    /\ ~OwnsBlock(e)
    /\ status' = [status EXCEPT ![Top(e).task] = AfterRun]
    /\ count' = [r \in Region |->
                   IF r = Charged(e) THEN count[r] - 1 ELSE count[r]]
    /\ cv' = [x \in Executor |->
                IF /\ cv[x] = "region"
                   /\ Last(blocks[x]) = Charged(e)
                   /\ count[Charged(e)] = 1
                THEN "awake" ELSE Woken(FinishWakes)[x]]
    /\ pending' = pending - 1
    /\ self' = [self EXCEPT ![e] = 0]
    /\ stack' = [stack EXCEPT ![e] = Front(@)]
    /\ UNCHANGED <<queue, region, cancel, freeList, opened, blocks, exited,
                   handles, lex>>

-----------------------------------------------------------------------------
(* hphl_wait_task: a queued task is run here; a task another executor is     *)
(* running is waited for; a finished one is no step at all.                  *)
WaitSteal(e, t) ==
    /\ At(e, "body") /\ May(e, "wait")
    /\ t \in handles[Top(e).task]
    /\ status[t] = "queued"
    /\ \/ \E i \in 1 .. Len(queue) :
             queue[i] = t /\ queue' = RemoveAt(queue, i)
       \/ t \notin ToSet(queue) /\ UNCHANGED queue
    /\ Start(e, t, stack[e])
    /\ UNCHANGED cv

WaitSleep(e, t) ==
    /\ At(e, "body") /\ May(e, "wait")
    /\ t \in handles[Top(e).task]
    /\ status[t] = "running"
    /\ stack' = [stack EXCEPT ![e] = InCall(e, "wait", t)]
    /\ cv' = [cv EXCEPT ![e] = "finished"]
    /\ UNCHANGED <<queue, pending, status, region, cancel, count, freeList,
                   opened, blocks, self, exited, handles, lex>>

WaitAgain(e) ==
    /\ At(e, "wait")
    /\ IF status[Top(e).arg] = "done"
       THEN /\ stack' = [stack EXCEPT ![e] = InCall(e, "body", None)]
            /\ UNCHANGED cv
       ELSE /\ cv' = [cv EXCEPT ![e] = "finished"]
            /\ UNCHANGED stack
    /\ UNCHANGED <<queue, pending, status, region, cancel, count, freeList,
                   opened, blocks, self, exited, handles, lex>>

-----------------------------------------------------------------------------
(* hphl_region_begin.  hphl_region_pool_init refills the free list whenever  *)
(* it is empty; its first use is one such moment.                            *)
PoolOrder == CHOOSE s \in [1 .. Cardinality(Region) -> Region] :
                \A i, j \in DOMAIN s : s[i] = s[j] => i = j

FullPoolOffByOne == Append(PoolOrder, None)               \* a mutation
FullPool == PoolOrder

PoolEachTime == FullPool                                  \* a mutation
Pool == IF freeList = <<>> THEN FullPool ELSE freeList

RegionBegin(e) ==
    /\ At(e, "body") /\ May(e, "block")
    /\ opened < MaxBlocks
    /\ opened' = opened + 1
    /\ IF Len(blocks[e]) >= MaxDepth
       THEN /\ exited' = "fatal"
            /\ UNCHANGED <<freeList, count, blocks>>
       ELSE /\ freeList' = Front(Pool)
            /\ count' = [count EXCEPT ![Last(Pool)] = 0]
            /\ blocks' = [blocks EXCEPT ![e] = Append(@, Last(Pool))]
            /\ UNCHANGED exited
    /\ UNCHANGED <<queue, pending, status, region, cancel, self, stack, cv,
                   handles, lex>>

(* hphl_region_join: the test of the count and what follows it, under one    *)
(* entry of the critical section; the loop comes back here after a task run  *)
(* inline and after a wake-up.                                               *)
Joining(e) ==
    \/ At(e, "join")
    \/ At(e, "body") /\ OwnsBlock(e)

JoinReadyEarly(e) == queue = <<>>                         \* a mutation
JoinReady(e) == count[Last(blocks[e])] = 0

JoinDone(e) ==
    /\ Joining(e)
    /\ JoinReady(e)
    /\ blocks' = [blocks EXCEPT ![e] = Front(@)]
    /\ stack' = [stack EXCEPT ![e] = InCall(e, "put", Last(blocks[e]))]
    /\ UNCHANGED <<queue, pending, status, region, cancel, count, freeList,
                   opened, self, cv, exited, handles, lex>>

JoinSteal(e) ==
    /\ Joining(e)
    /\ ~JoinReady(e)
    /\ queue # <<>>
    /\ queue' = Tail(queue)
    /\ Start(e, Oldest, InCall(e, "join", None))
    /\ UNCHANGED cv

JoinSleep(e) ==
    /\ Joining(e)
    /\ ~JoinReady(e)
    /\ queue = <<>>
    /\ stack' = [stack EXCEPT ![e] = InCall(e, "join", None)]
    /\ cv' = [cv EXCEPT ![e] = "region"]
    /\ UNCHANGED <<queue, pending, status, region, cancel, count, freeList,
                   opened, blocks, self, exited, handles, lex>>

\* The second critical section of hphl_region_join: the slot is free again.
RegionPut(e) ==
    /\ At(e, "put")
    /\ freeList' = Append(freeList, Top(e).arg)
    /\ stack' = [stack EXCEPT ![e] = InCall(e, "body", None)]
    /\ UNCHANGED <<queue, pending, status, region, cancel, count, opened,
                   blocks, self, cv, exited, handles, lex>>

-----------------------------------------------------------------------------
(* hphl_join_tasks: the barrier of a parallel block outside a task, and of   *)
(* the end of Main.  It steals nothing; when nothing is pending it frees     *)
(* every record.                                                             *)
Draining(e) ==
    \/ At(e, "drain") \/ At(e, "exit")
    \/ At(e, "body") /\ (May(e, "drain") \/ Top(e).task = 0)

\* Main returns from its body only through this call.
DrainOp(e) ==
    IF Top(e).op # "body" THEN {Top(e).op}
    ELSE {op \in {"drain", "exit"} :
            IF op = "drain" THEN May(e, "drain") ELSE Top(e).task = 0}

DrainReadyEarly == queue = <<>>                           \* a mutation
DrainReady == pending = 0

DrainSleep(e) ==
    /\ Draining(e)
    /\ ~DrainReady
    /\ \E op \in DrainOp(e) :
          stack' = [stack EXCEPT ![e] = InCall(e, op, None)]
    /\ cv' = [cv EXCEPT ![e] = "drained"]
    /\ UNCHANGED <<queue, pending, status, region, cancel, count, freeList,
                   opened, blocks, self, exited, handles, lex>>

DrainFree(e) ==
    /\ Draining(e)
    /\ DrainReady
    /\ \E op \in DrainOp(e) :
          exited' = IF op = "exit" THEN "end" ELSE exited
    /\ status' = [t \in Task |->
                    IF status[t] = "unborn" THEN "unborn" ELSE "freed"]
    /\ queue' = <<>>
    /\ stack' = [stack EXCEPT ![e] = InCall(e, "body", None)]
    /\ UNCHANGED <<pending, region, cancel, count, freeList, opened, blocks,
                   self, cv, handles, lex>>

(* hphl_cancel_task: a flag, set without the lock *)
Cancel(e, t) ==
    /\ At(e, "body") /\ May(e, "cancel")
    /\ t \in handles[Top(e).task]
    /\ ~cancel[t]
    /\ cancel' = [cancel EXCEPT ![t] = TRUE]
    /\ UNCHANGED <<queue, pending, status, region, count, freeList, opened,
                   blocks, self, stack, cv, exited, handles, lex>>

\* hphl_task_iscancelled: what the body on top of e's stack reads.
IsCancelled(e) == self[e] # 0 /\ cancel[self[e]]

-----------------------------------------------------------------------------
Step(e) ==
    \/ Spawn(e) \/ Finish(e)
    \/ \E t \in Task : WaitSteal(e, t) \/ WaitSleep(e, t) \/ Cancel(e, t)
    \/ WaitAgain(e)
    \/ RegionBegin(e) \/ JoinDone(e) \/ JoinSteal(e) \/ JoinSleep(e)
    \/ RegionPut(e)
    \/ DrainSleep(e) \/ DrainFree(e)

WorkerStep(w) == WorkerTake(w) \/ WorkerSleep(w)

\* The process is gone.
Gone == exited # "no" /\ UNCHANGED vars

Next ==
    \/ \E e \in Executor : Step(e)
    \/ \E w \in Worker : WorkerStep(w)
    \/ Gone

\* Every thread that can run runs: the threads are OS threads.
Fairness ==
    /\ \A e \in Executor : WF_vars(Step(e))
    /\ \A w \in Worker : WF_vars(WorkerStep(w))

Spec == Init /\ [][Next]_vars
FairSpec == Spec /\ Fairness

-----------------------------------------------------------------------------
(* Properties *)

TypeOK ==
    /\ queue \in Seq(Task)
    /\ pending \in Int
    /\ status \in [Task -> {"unborn", "queued", "running", "done", "freed"}]
    /\ region \in [Task -> Region \cup {None}]
    /\ cancel \in [Task -> BOOLEAN]
    /\ count \in [Region -> Int]
    /\ freeList \in Seq(Region)
    /\ opened \in 0 .. MaxBlocks
    /\ blocks \in [Executor -> Seq(Region)]
    /\ self \in [Executor -> 0 .. NumTasks]
    /\ stack \in [Executor -> Seq(Activation)]
    /\ cv \in [Executor -> {"awake", "work", "finished", "drained", "region"}]
    /\ exited \in {"no", "end", "fatal"}
    /\ handles \in [0 .. NumTasks -> SUBSET Task]
    /\ lex \in [0 .. NumTasks -> Region \cup {None}]

\* The activations of task t: executor and height.
Places == UNION {{e} \X (1 .. Len(stack[e])) : e \in Executor}
Activations(t) == {p \in Places : stack[p[1]][p[2]].task = t}

\* A spawned task is in exactly one place until it is done: once in the queue,
\* or in one activation of one executor.  t.Wait(), a region barrier and a
\* worker may all be after the same task (hphl_wait_task, hphl_region_join,
\* hphl_worker_proc); none of them runs it a second time or drops it.
OnePlace ==
    \A t \in Task :
        /\ (status[t] = "queued") <=>
               Cardinality({i \in 1 .. Len(queue) : queue[i] = t}) = 1
        /\ (status[t] = "running") <=> Cardinality(Activations(t)) = 1
        /\ status[t] # "queued" => t \notin ToSet(queue)
        /\ status[t] # "running" => Activations(t) = {}

\* The two counters the barriers read are exact whenever hphl_q_cs is free:
\* hphl_pending counts the tasks queued or running, the count of a region
\* those of them it was charged with.
CountersExact ==
    /\ pending = Cardinality(Live)
    /\ \A r \in Region : count[r] = Cardinality({t \in Live : region[t] = r})

\* No wake-up is lost: an executor asleep on a condition variable has
\* something left to wait for, because every step that ends the wait wakes it.
NoLostWakeup ==
    exited = "no" => \A e \in Executor :
        /\ cv[e] = "work" => queue = <<>>
        /\ cv[e] = "finished" => status[Top(e).arg] = "running"
        /\ cv[e] = "region" => count[Last(blocks[e])] > 0
        /\ cv[e] = "drained" => pending > 0

\* When the barrier of a parallel block lets its executor go, every task
\* written inside that block has finished (hphl_region_join).
JoinIsBarrier ==
    [][\A e \in Executor :
          Len(blocks'[e]) < Len(blocks[e]) =>
             \A t \in Live : lex[t] # Last(blocks[e])]_vars

\* hphl_join_tasks frees the records while executors may be anywhere in the
\* scheduler, also at a parallel block in the middle of Main: no freed record
\* is queued, being run, or waited for, and no task that is queued or running
\* has a handle to one, unless handles are captured.  (For the handles of Main
\* itself see HandlesLive.)
NoDanglingRecord ==
    \A t \in Task : status[t] = "freed" =>
        /\ t \notin ToSet(queue)
        /\ \A e \in Executor : \A i \in 1 .. Len(stack[e]) :
              /\ stack[e][i].task # t
              /\ stack[e][i].op = "wait" => stack[e][i].arg # t
        /\ ~Capture => \A u \in Live : t \notin handles[u]

\* A body that may still call Wait can name no record that was freed: a
\* second t.Wait() returns the payload (concurrency.c:70-71).
HandlesLive ==
    exited = "no" => \A e \in Executor :
        stack[e] # <<>> /\ May(e, "wait") =>
            \A t \in handles[Top(e).task] : status[t] # "freed"

\* Two parallel blocks never share a slot of the region pool, and a slot in
\* use is not on the free list (concurrency.c:105-107).
RegionExclusive ==
    /\ \A d, e \in Executor :
          \A i \in 1 .. Len(blocks[d]), j \in 1 .. Len(blocks[e]) :
             blocks[d][i] = blocks[e][j] => d = e /\ i = j
    /\ \A i, j \in 1 .. Len(freeList) : freeList[i] = freeList[j] => i = j
    /\ \A e \in Executor :
          \A i \in 1 .. Len(freeList), j \in 1 .. Len(blocks[e]) :
             freeList[i] # blocks[e][j]

\* The counters that the barriers read and the slots they are kept in are exact
\* together: a region's count is of one block, and of all its tasks.
RegionsExact == TypeOK /\ CountersExact /\ RegionExclusive

\* The program ends: no executor waits for ever in Wait, in a region barrier
\* or in the barrier at the end of Main.
Termination == <>(exited # "no")

-----------------------------------------------------------------------------
(* What the comments and tests say of the program, for the violation runs *)

\* Task.IsCancelled inside the body of a task reads that task's flag: the slot
\* holds the task in execution (concurrency.c:177-180).
SelfIsCurrent ==
    \A e \in Executor :
        stack[e] # <<>> /\ Top(e).op = "body" => self[e] = Top(e).task

\* Every spawn made inside a parallel block, nested ones included, is charged
\* to the region of that block (concurrency.c:103-104).
NestedSpawnCounted ==
    \A t \in Live : region[t] = lex[t]

\* A barrier that runs other tasks while it waits always makes progress
\* (concurrency.c:463-464): no executor sleeps for a task of its own stack,
\* which only it could finish.
NoWaitOnOwnStack ==
    \A e \in Executor :
        cv[e] = "finished" =>
            \A i \in 1 .. Len(stack[e]) : stack[e][i].task # Top(e).arg

\* The barrier of a parallel block is free of deadlock
\* (tests/positive/nested.hphl:2-6): the one that drains the pool does not wait
\* for the task that called it.
DrainSparesItsCaller ==
    \A e \in Executor :
        cv[e] = "drained" => \A i \in 1 .. Len(stack[e]) : stack[e][i].task = 0

\* No executor that waits in a region barrier sleeps while the queue holds a
\* task (concurrency.c:101-103).
NoJoinerAsleepWithWork ==
    queue # <<>> => \A e \in Executor : cv[e] # "region"
=============================================================================
