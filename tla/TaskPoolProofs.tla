--------------------------- MODULE TaskPoolProofs ---------------------------
(***************************************************************************)
(* Theorems about TaskPool, for any number of tasks, workers, region slots *)
(* and nested blocks.                                                      *)
(***************************************************************************)
EXTENDS TaskPool, SeqLemmas, FiniteSetTheorems

-----------------------------------------------------------------------------
(* The inductive invariant *)

\* The activations of one executor whose block stack is n deep: an activation
\* never starts below a block that is still open above it, and one that is
\* joining owns a block below every activation on top of it.
FramesOK(s, n) ==
    /\ \A i \in 1 .. Len(s) :
          /\ s[i].base <= n
          /\ s[i].op = "join" => s[i].base < n
          /\ s[i].op = "put" => s[i].arg \in Region
    /\ \A i, j \in 1 .. Len(s) : i < j =>
          /\ s[i].base <= s[j].base
          /\ s[i].op = "join" => s[i].base < s[j].base

Frames == \A e \in Executor : FramesOK(stack[e], Len(blocks[e]))

\* The queue holds each queued task once, and nothing else.
Queue ==
    /\ Distinct(queue)
    /\ \A t \in Task :
          status[t] = "queued" <=> \E i \in 1 .. Len(queue) : queue[i] = t

\* The stacks hold each running task once, Main at the bottom of its thread's
\* stack, and nothing else.
Stacks ==
    /\ stack[Main] # <<>>
    /\ \A e \in Executor : \A i \in 1 .. Len(stack[e]) :
          /\ stack[e][i].task = 0 <=> e = Main /\ i = 1
          /\ stack[e][i].task # 0 => status[stack[e][i].task] = "running"
    /\ \A d, e \in Executor :
          \A i \in 1 .. Len(stack[d]), j \in 1 .. Len(stack[e]) :
             stack[d][i].task = stack[e][j].task => d = e /\ i = j
    /\ \A t \in Task : status[t] = "running" =>
          \E e \in Executor : \E i \in 1 .. Len(stack[e]) : stack[e][i].task = t

PendingExact == pending = Cardinality(Live)

\* A freed record is not the argument of a Wait in progress.
Waiters ==
    \A e \in Executor : \A i \in 1 .. Len(stack[e]) :
       stack[e][i].op = "wait" =>
          /\ stack[e][i].arg \in Task
          /\ status[stack[e][i].arg] \in {"running", "done"}

IInv == TypeOK /\ Frames /\ Queue /\ Stacks /\ PendingExact /\ Waiters

-----------------------------------------------------------------------------
(* One stack *)

\* The stack s with its top activation in op: InCall for any stack.
Call(s, op, arg) ==
    ReplaceAt(s, Len(s), [Last(s) EXCEPT !.op = op, !.arg = arg])

CallOp == {"body", "wait", "join", "put", "drain", "exit"}

LEMMA CallAll ==
    ASSUME NEW s \in Seq(Activation), s # <<>>,
           NEW op \in CallOp, NEW arg \in Task \cup Region \cup {None}
    PROVE  /\ Len(s) \in Nat \ {0}
           /\ Call(s, op, arg) \in Seq(Activation)
           /\ Len(Call(s, op, arg)) = Len(s)
           /\ \A i \in 1 .. Len(s) :
                 /\ Call(s, op, arg)[i].task = s[i].task
                 /\ Call(s, op, arg)[i].base = s[i].base
                 /\ i # Len(s) => Call(s, op, arg)[i] = s[i]
           /\ Call(s, op, arg)[Len(s)].op = op
           /\ Call(s, op, arg)[Len(s)].arg = arg
<1> DEFINE a == [Last(s) EXCEPT !.op = op, !.arg = arg]
<1>1. Len(s) \in Nat \ {0} /\ Last(s) \in Activation /\ Last(s) = s[Len(s)]
  BY FrontFacts DEF Last
<1>2. /\ a \in Activation
      /\ a.task = s[Len(s)].task /\ a.base = s[Len(s)].base
      /\ a.op = op /\ a.arg = arg
  BY <1>1 DEF Activation, CallOp
<1> HIDE DEF a
<1>3. Len(s) \in 1 .. Len(s)
  BY <1>1
<1> DEFINE n == Len(s)
<1>a. a \in Activation /\ n \in 1 .. Len(s)
  BY <1>2, <1>3
<1>b. Call(s, op, arg) = ReplaceAt(s, n, a)
  BY DEF Call, a
<1> HIDE DEF n
<1>4. /\ ReplaceAt(s, n, a) \in Seq(Activation)
      /\ Len(ReplaceAt(s, n, a)) = Len(s)
      /\ ReplaceAt(s, n, a)[n] = a
      /\ \A i \in 1 .. Len(s) : i # n => ReplaceAt(s, n, a)[i] = s[i]
  BY <1>a, ReplaceFacts
<1> DEFINE c == Call(s, op, arg)
<1>6. /\ c \in Seq(Activation) /\ Len(c) = Len(s)
      /\ c[Len(s)] = a
      /\ \A i \in 1 .. Len(s) : i # Len(s) => c[i] = s[i]
  BY <1>4, <1>b DEF n
<1> HIDE DEF c
<1>7. ASSUME NEW i \in 1 .. Len(s)
      PROVE  /\ c[i].task = s[i].task /\ c[i].base = s[i].base
             /\ i # Len(s) => c[i] = s[i]
  <2>1. CASE i = Len(s)
    <3>1. c[i] = a
      BY <1>6, <2>1
    <3> QED  BY <1>2, <2>1, <3>1
  <2>2. CASE i # Len(s)
    BY <1>6, <2>2
  <2> QED  BY <2>1, <2>2
<1>8. c[Len(s)].op = op /\ c[Len(s)].arg = arg
  BY <1>2, <1>3, <1>6
<1> QED  BY <1>1, <1>6, <1>7, <1>8 DEF c

LEMMA CallFacts ==
    ASSUME NEW s, s \in Seq(Activation), s # <<>>,
           NEW op, op \in CallOp, NEW arg, arg \in Task \cup Region \cup {None}
    PROVE  /\ Len(s) \in Nat \ {0}
           /\ Len(Call(s, op, arg)) = Len(s)
           /\ \A i \in 1 .. Len(s) :
                 /\ Call(s, op, arg)[i].task = s[i].task
                 /\ Call(s, op, arg)[i].base = s[i].base
                 /\ i # Len(s) => Call(s, op, arg)[i] = s[i]
           /\ Call(s, op, arg)[Len(s)].op = op
           /\ Call(s, op, arg)[Len(s)].arg = arg
  BY CallAll

LEMMA CallType ==
    ASSUME NEW s, s \in Seq(Activation), s # <<>>,
           NEW op, op \in CallOp, NEW arg, arg \in Task \cup Region \cup {None}
    PROVE  Call(s, op, arg) \in Seq(Activation)
  BY CallAll

LEMMA FramesPush ==
    ASSUME NEW s \in Seq(Activation), NEW n \in Nat, FramesOK(s, n),
           NEW a \in Activation, a.base = n, a.op = "body"
    PROVE  FramesOK(Append(s, a), n)
<1>1. Len(s) \in Nat
  BY LenProperties
<1>2. \A i \in 1 .. Len(s) : s[i] \in Activation
  BY ElementOfSeq
<1> DEFINE p == Append(s, a)
<1>3. /\ Len(p) = Len(s) + 1 /\ p[Len(s) + 1] = a
      /\ \A i \in 1 .. Len(s) : p[i] = s[i]
  BY AppendFacts
<1>4. \A i \in 1 .. Len(s) : s[i].base \in Nat
  BY <1>2 DEF Activation
<1> HIDE DEF p
<1>5. FramesOK(p, n)
  BY <1>1, <1>3, <1>4, SMTT(20) DEF FramesOK
<1> QED  BY <1>5 DEF p

LEMMA FramesPop ==
    ASSUME NEW s \in Seq(Activation), s # <<>>, NEW n \in Nat, FramesOK(s, n)
    PROVE  FramesOK(Front(s), n)
<1> DEFINE f == Front(s)
<1>1. /\ Len(s) \in Nat \ {0} /\ Len(f) = Len(s) - 1
      /\ \A i \in 1 .. Len(s) - 1 : f[i] = s[i]
  BY FrontFacts
<1> HIDE DEF f
<1>2. \A i \in 1 .. Len(f) : i \in 1 .. Len(s) /\ f[i] = s[i]
  BY <1>1
<1>3. FramesOK(f, n)
  BY <1>2 DEF FramesOK
<1> QED  BY <1>3 DEF f

LEMMA FramesCall ==
    ASSUME NEW s \in Seq(Activation), s # <<>>, NEW n \in Nat, FramesOK(s, n),
           NEW op \in CallOp, NEW arg \in Task \cup Region \cup {None},
           op = "join" => Last(s).base < n,
           op = "put" => arg \in Region
    PROVE  FramesOK(Call(s, op, arg), n)
<1>1. Last(s) = s[Len(s)]
  BY DEF Last
<1> DEFINE c == Call(s, op, arg)
<1>2. /\ Len(s) \in Nat \ {0} /\ Len(c) = Len(s)
      /\ \A i \in 1 .. Len(s) :
            c[i].base = s[i].base /\ (i # Len(s) => c[i] = s[i])
      /\ c[Len(s)].op = op /\ c[Len(s)].arg = arg
  BY CallFacts
<1> HIDE DEF c
<1>3. FramesOK(c, n)
  BY <1>1, <1>2 DEF FramesOK
<1> QED  BY <1>3 DEF c

\* A block opens.
LEMMA FramesOpen ==
    ASSUME NEW s \in Seq(Activation), NEW n \in Nat, FramesOK(s, n)
    PROVE  FramesOK(s, n + 1)
<1>a. \A i \in 1 .. Len(s) : s[i] \in Activation
  BY ElementOfSeq
<1>1. Len(s) \in Nat /\ \A i \in 1 .. Len(s) : s[i].base \in Nat
  BY <1>a, LenProperties DEF Activation
<1> QED  BY <1>1 DEF FramesOK

\* A block closes: its owner stops joining.
LEMMA FramesClose ==
    ASSUME NEW s \in Seq(Activation), s # <<>>, NEW n \in Nat, FramesOK(s, n),
           NEW r \in Region, Last(s).base < n
    PROVE  FramesOK(Call(s, "put", r), n - 1)
<1>0. Last(s) = s[Len(s)] /\ Len(s) \in Nat \ {0}
  BY FrontFacts DEF Last
<1>a. \A i \in 1 .. Len(s) : s[i] \in Activation
  BY ElementOfSeq
<1>b. \A i \in 1 .. Len(s) : s[i].base \in Nat
  BY <1>a DEF Activation
<1>1. /\ Last(s) = s[Len(s)] /\ Len(s) \in Nat \ {0}
      /\ \A i \in 1 .. Len(s) : s[i].base \in Nat
  BY <1>0, <1>b
<1>2. \A i \in 1 .. Len(s) : s[i].base <= n - 1
  BY <1>1 DEF FramesOK
<1>3. "put" \in CallOp /\ r \in Task \cup Region \cup {None}
  BY DEF CallOp
<1> HIDE DEF FramesOK
<1> DEFINE c == Call(s, "put", r)
<1>4. /\ Len(c) = Len(s)
      /\ \A i \in 1 .. Len(s) :
            c[i].base = s[i].base /\ (i # Len(s) => c[i] = s[i])
      /\ c[Len(s)].op = "put" /\ c[Len(s)].arg = r
  BY <1>3, CallFacts
<1> HIDE DEF c
<1>5. \A i \in 1 .. Len(s) :
         /\ c[i].base <= n - 1
         /\ c[i].op = "join" => i # Len(s) /\ c[i].base < s[Len(s)].base
         /\ c[i].op = "put" => c[i].arg \in Region
  BY <1>1, <1>2, <1>4 DEF FramesOK
<1>6. \A i, j \in 1 .. Len(s) : i < j =>
         /\ c[i].base <= c[j].base
         /\ c[i].op = "join" => c[i].base < c[j].base
  BY <1>1, <1>4 DEF FramesOK
<1>7. \A i \in 1 .. Len(s) : c[i].op = "join" => c[i].base < n - 1
  BY <1>1, <1>2, <1>4, <1>5
<1>8. FramesOK(c, n - 1)
  BY <1>4, <1>5, <1>6, <1>7 DEF FramesOK
<1> QED  BY <1>8 DEF c

-----------------------------------------------------------------------------
(* Types, and the shape of the stacks *)

LEMMA PoolFacts ==
    ASSUME PoolAssumption, freeList \in Seq(Region)
    PROVE  Pool \in Seq(Region) /\ Pool # <<>>
<1> DEFINE n == Cardinality(Region)
<1>1. n \in Nat /\ n # 0
  BY FS_CardinalityType, FS_EmptySet DEF PoolAssumption
<1>2. \E s \in [1 .. n -> Region] :
         \A i, j \in DOMAIN s : s[i] = s[j] => i = j
  <2>1. PICK f : f \in Bijection(1 .. n, Region)
    BY FS_CardinalityType DEF PoolAssumption, ExistsBijection
  <2> QED  BY <2>1 DEF Bijection, Injection, IsInjective
<1>3. PoolOrder \in [1 .. n -> Region]
  BY <1>2 DEF PoolOrder
<1> HIDE DEF n
<1>4. PoolOrder \in Seq(Region) /\ PoolOrder # <<>>
  <2>1. PoolOrder \in Seq(Region) /\ Len(PoolOrder) = n
    BY <1>1, <1>3, IsASeq, LenProperties
  <2> QED  BY <1>1, <2>1, EmptySeq
<1> QED  BY <1>4 DEF Pool, FullPool

LEMMA AtFacts ==
    ASSUME TypeOK, NEW e \in Executor, stack[e] # <<>>
    PROVE  /\ stack[e] \in Seq(Activation)
           /\ Len(stack[e]) \in Nat \ {0}
           /\ Top(e) = stack[e][Len(stack[e])]
           /\ Top(e) \in Activation
           /\ Front(stack[e]) \in Seq(Activation)
           /\ \A op, arg : InCall(e, op, arg) = Call(stack[e], op, arg)
<1>1. stack[e] \in Seq(Activation)
  BY DEF TypeOK
<1>2. Top(e) = Last(stack[e])
  BY DEF Top
<1>3. \A op, arg : InCall(e, op, arg) = Call(stack[e], op, arg)
  BY DEF InCall, Call, Top
<1> QED  BY <1>1, <1>2, <1>3, FrontFacts DEF Last

LEMMA BlockFacts ==
    ASSUME TypeOK, NEW e \in Executor
    PROVE  /\ blocks[e] \in Seq(Region) /\ Len(blocks[e]) \in Nat
           /\ CurrentRegion(e) \in Region \cup {None}
           /\ blocks[e] # <<>> =>
                 /\ Last(blocks[e]) \in Region
                 /\ Front(blocks[e]) \in Seq(Region)
                 /\ Len(Front(blocks[e])) = Len(blocks[e]) - 1
<1>1. blocks[e] \in Seq(Region)
  BY DEF TypeOK
<1> QED  BY <1>1, FrontFacts, LenProperties DEF CurrentRegion

LEMMA OwnsFacts ==
    ASSUME TypeOK, Frames, NEW e \in Executor, stack[e] # <<>>,
           OwnsBlock(e) \/ Top(e).op = "join"
    PROVE  OwnsBlock(e) /\ blocks[e] # <<>>
<1>1. Len(stack[e]) \in Nat \ {0} /\ Top(e) = stack[e][Len(stack[e])]
      /\ Top(e).base \in Nat /\ Len(blocks[e]) \in Nat
  BY AtFacts, BlockFacts DEF Activation
<1>2. Top(e).base < Len(blocks[e])
  BY <1>1 DEF Frames, FramesOK, OwnsBlock
<1> QED  BY <1>1, <1>2, EmptySeq DEF OwnsBlock

\* An executor starts a queued task on top of below: its own stack, or the
\* same with its top activation in a region barrier.
Below(e, below) ==
    /\ below \in Seq(Activation)
    /\ FramesOK(below, Len(blocks[e]))
    /\ Len(below) = Len(stack[e])
    /\ \A i \in 1 .. Len(below) :
          /\ below[i].task = stack[e][i].task
          /\ below[i].op = "wait" => below[i] = stack[e][i]

LEMMA StartType ==
    ASSUME TypeOK, Frames, NEW e \in Executor, NEW t \in Task, NEW below,
           Below(e, below), queue' \in Seq(Task), UNCHANGED cv,
           Start(e, t, below)
    PROVE  TypeOK' /\ Frames'
<1>1. Activate(t, e) \in Activation /\ Activate(t, e).op = "body"
      /\ Activate(t, e).base = Len(blocks[e])
  BY BlockFacts DEF Activate, Activation, Task
<1>2. Append(below, Activate(t, e)) \in Seq(Activation)
  BY <1>1, AppendFacts DEF Below
<1>3. stack' \in [Executor -> Seq(Activation)]
  BY <1>2 DEF TypeOK, Start
<1>4. t \in 0 .. NumTasks
  BY DEF Task
<1>5. TypeOK'
  BY <1>3, <1>4 DEF TypeOK, Start
<1>6. ASSUME NEW d \in Executor
      PROVE  FramesOK(stack'[d], Len(blocks'[d]))
  <2>1. CASE d = e
    <3>1. FramesOK(Append(below, Activate(t, e)), Len(blocks[e]))
      BY <1>1, BlockFacts, FramesPush DEF Below
    <3>2. stack'[d] = Append(below, Activate(t, e)) /\ blocks' = blocks
      BY <2>1 DEF Start, TypeOK
    <3> QED  BY <2>1, <3>1, <3>2
  <2>2. CASE d # e
    <3>1. stack'[d] = stack[d] /\ blocks' = blocks
      BY <2>2 DEF Start, TypeOK
    <3> QED  BY <3>1 DEF Frames
  <2> QED  BY <2>1, <2>2
<1> QED  BY <1>5, <1>6 DEF Frames

\* The top activation of e enters or leaves a call.
LEMMA CallFrames ==
    ASSUME TypeOK, Frames, NEW e \in Executor, stack[e] # <<>>,
           NEW op \in CallOp, NEW arg \in Task \cup Region \cup {None},
           op = "join" => OwnsBlock(e), op # "put",
           stack' = [stack EXCEPT ![e] = InCall(e, op, arg)],
           blocks' = blocks
    PROVE  stack' \in [Executor -> Seq(Activation)] /\ Frames'
<1>1. InCall(e, op, arg) = Call(stack[e], op, arg)
  BY AtFacts
<1>2. Call(stack[e], op, arg) \in Seq(Activation)
  BY AtFacts, CallType
<1>3. /\ stack[e] \in Seq(Activation) /\ Len(blocks[e]) \in Nat
      /\ FramesOK(stack[e], Len(blocks[e]))
      /\ op = "join" => Last(stack[e]).base < Len(blocks[e])
  <2>1. op = "join" => Last(stack[e]).base < Len(blocks[e])
    BY AtFacts, BlockFacts DEF OwnsBlock, Top, Activation
  <2> QED  BY <2>1, AtFacts, BlockFacts DEF Frames
<1>4. FramesOK(Call(stack[e], op, arg), Len(blocks[e]))
  BY <1>3, FramesCall
<1>5. \A d \in Executor :
         stack'[d] = IF d = e THEN Call(stack[e], op, arg) ELSE stack[d]
  BY <1>1 DEF TypeOK
<1>6. stack' \in [Executor -> Seq(Activation)]
  BY <1>1, <1>2 DEF TypeOK
<1>7. \A d \in Executor : FramesOK(stack'[d], Len(blocks'[d]))
  BY <1>4, <1>5 DEF Frames
<1> QED  BY <1>6, <1>7 DEF Frames

\* The operands of Start in each of its three callers.
LEMMA BelowWorker ==
    ASSUME TypeOK, NEW w \in Executor, stack[w] = <<>>
    PROVE  Below(w, <<>>)
  BY EmptySeq DEF Below, FramesOK

LEMMA BelowWait ==
    ASSUME TypeOK, Frames, NEW e \in Executor
    PROVE  Below(e, stack[e])
  BY DEF Below, TypeOK, Frames

LEMMA BelowJoin ==
    ASSUME TypeOK, Frames, NEW e \in Executor, stack[e] # <<>>, OwnsBlock(e)
    PROVE  Below(e, InCall(e, "join", None))
<1> DEFINE c == Call(stack[e], "join", None)
<1>1. "join" \in CallOp /\ None \in Task \cup Region \cup {None}
  BY DEF CallOp
<1>2. /\ stack[e] \in Seq(Activation) /\ Len(blocks[e]) \in Nat
      /\ FramesOK(stack[e], Len(blocks[e]))
      /\ Last(stack[e]).base < Len(blocks[e])
  <2>1. Last(stack[e]).base < Len(blocks[e])
    BY AtFacts, BlockFacts DEF OwnsBlock, Top, Activation
  <2> QED  BY <2>1, AtFacts, BlockFacts DEF Frames
<1>3. FramesOK(c, Len(blocks[e]))
  BY <1>1, <1>2, FramesCall
<1>a. c \in Seq(Activation)
  BY <1>1, <1>2, AtFacts, CallType
<1>4. /\ Len(c) = Len(stack[e])
      /\ \A i \in 1 .. Len(stack[e]) :
            /\ c[i].task = stack[e][i].task
            /\ i # Len(stack[e]) => c[i] = stack[e][i]
      /\ c[Len(stack[e])].op = "join"
  BY <1>1, <1>2, CallFacts
<1>5. InCall(e, "join", None) = c
  BY AtFacts
<1> HIDE DEF c
<1>6. \A i \in 1 .. Len(c) : c[i].op = "wait" => c[i] = stack[e][i]
  BY <1>4
<1>7. Below(e, c)
  BY <1>a, <1>3, <1>4, <1>6 DEF Below
<1> QED  BY <1>5, <1>7

LEMMA QueueFacts ==
    ASSUME TypeOK
    PROVE  /\ queue # <<>> =>
                 /\ Oldest \in Task /\ Oldest = queue[1]
                 /\ Tail(queue) \in Seq(Task)
           /\ \A t \in Task : Append(queue, t) \in Seq(Task)
           /\ \A k \in 1 .. Len(queue) : RemoveAt(queue, k) \in Seq(Task)
<1>1. queue \in Seq(Task)
  BY DEF TypeOK
<1>2. queue # <<>> => /\ Oldest \in Task /\ Oldest = queue[1]
                      /\ Tail(queue) \in Seq(Task)
  BY <1>1, TailFacts DEF Oldest
<1>3. \A t \in Task : Append(queue, t) \in Seq(Task)
  BY <1>1, AppendFacts
<1>4. \A k \in 1 .. Len(queue) : RemoveAt(queue, k) \in Seq(Task)
  BY <1>1, RemoveAtFacts
<1> QED  BY <1>2, <1>3, <1>4

LEMMA TypeStep ==
    ASSUME PoolAssumption, TypeOK, Frames, [Next]_vars
    PROVE  TypeOK' /\ Frames'
<1> USE DEF At
<1>1. ASSUME NEW e \in Executor, Spawn(e)
      PROVE  TypeOK' /\ Frames'
  <2>1. PICK t \in Task :
           /\ status' = [status EXCEPT ![t] = "queued"]
           /\ region' = [region EXCEPT ![t] = CurrentRegion(e)]
           /\ queue' = Append(queue, t)
           /\ handles' = [handles EXCEPT
                            ![t] = IF Capture THEN handles[Top(e).task] ELSE {},
                            ![Top(e).task] = @ \cup {t}]
           /\ lex' = [lex EXCEPT ![t] = IF OwnsBlock(e)
                                        THEN Last(blocks[e])
                                        ELSE lex[Top(e).task]]
    BY <1>1 DEF Spawn
  <2>2. Top(e).task \in 0 .. NumTasks /\ Task \subseteq 0 .. NumTasks
    BY <1>1, AtFacts DEF Spawn, Activation, Task
  <2>3. queue' \in Seq(Task)
    BY <2>1, QueueFacts
  <2>4. region' \in [Task -> Region \cup {None}]
    BY <2>1, BlockFacts DEF TypeOK
  <2>5. handles' \in [0 .. NumTasks -> SUBSET Task]
    BY <2>1, <2>2 DEF TypeOK
  <2>6. lex' \in [0 .. NumTasks -> Region \cup {None}]
    BY <1>1, <2>1, <2>2, OwnsFacts, BlockFacts DEF TypeOK, Spawn
  <2>7. /\ count' \in [Region -> Int] /\ pending' \in Int
        /\ cv' \in [Executor -> {"awake", "work", "finished", "drained", "region"}]
    BY <1>1 DEF Spawn, TypeOK, Woken
  <2>8. status' \in [Task -> {"unborn", "queued", "running", "done", "freed"}]
    BY <2>1 DEF TypeOK
  <2>9. UNCHANGED <<cancel, freeList, opened, blocks, self, stack, exited>>
    BY <1>1 DEF Spawn
  <2> QED  BY <2>3, <2>4, <2>5, <2>6, <2>7, <2>8, <2>9 DEF TypeOK, Frames
<1>2. ASSUME NEW e \in Executor, Finish(e)
      PROVE  TypeOK' /\ Frames'
  <2>1. /\ stack[e] # <<>> /\ stack' = [stack EXCEPT ![e] = Front(stack[e])]
        /\ blocks' = blocks
    BY <1>2 DEF Finish
  <2>2. Top(e).task \in Task
    BY <1>2, <2>1, AtFacts DEF Finish, Activation, Task
  <2>3. stack' \in [Executor -> Seq(Activation)]
    BY <2>1, AtFacts DEF TypeOK
  <2>4. /\ count' \in [Region -> Int] /\ pending' \in Int
        /\ cv' \in [Executor -> {"awake", "work", "finished", "drained", "region"}]
    BY <1>2 DEF Finish, TypeOK, Woken
  <2>5. /\ status' \in [Task -> {"unborn", "queued", "running", "done", "freed"}]
        /\ self' \in [Executor -> 0 .. NumTasks]
    BY <1>2, <2>2 DEF Finish, TypeOK, AfterRun, PoolAssumption
  <2>6. \A d \in Executor : FramesOK(stack'[d], Len(blocks'[d]))
    <3>1. FramesOK(Front(stack[e]), Len(blocks[e]))
      BY <2>1, AtFacts, BlockFacts, FramesPop DEF Frames
    <3> QED  BY <2>1, <3>1 DEF TypeOK, Frames
  <2>7. UNCHANGED <<queue, region, cancel, freeList, opened, exited, handles, lex>>
    BY <1>2 DEF Finish
  <2> QED  BY <2>1, <2>3, <2>4, <2>5, <2>6, <2>7 DEF TypeOK, Frames
<1>3. ASSUME NEW e \in Executor, NEW t \in Task, WaitSteal(e, t)
      PROVE  TypeOK' /\ Frames'
  <2>1. queue' \in Seq(Task)
    BY <1>3, QueueFacts DEF WaitSteal, TypeOK
  <2> QED  BY <1>3, <2>1, BelowWait, StartType DEF WaitSteal
<1>4. ASSUME NEW e \in Executor, NEW t \in Task, WaitSleep(e, t)
      PROVE  TypeOK' /\ Frames'
  <2>1. /\ stack[e] # <<>> /\ blocks' = blocks
        /\ stack' = [stack EXCEPT ![e] = InCall(e, "wait", t)]
    BY <1>4 DEF WaitSleep
  <2>2. stack' \in [Executor -> Seq(Activation)] /\ Frames'
    BY <2>1, CallFrames DEF CallOp
  <2> QED  BY <1>4, <2>2 DEF TypeOK, WaitSleep
<1>5. ASSUME NEW e \in Executor, NEW t \in Task, Cancel(e, t)
      PROVE  TypeOK' /\ Frames'
  BY <1>5 DEF Cancel, TypeOK, Frames
<1>6. ASSUME NEW e \in Executor, WaitAgain(e)
      PROVE  TypeOK' /\ Frames'
  <2>1. CASE status[Top(e).arg] = "done"
    <3>1. /\ stack[e] # <<>> /\ blocks' = blocks
          /\ stack' = [stack EXCEPT ![e] = InCall(e, "body", None)]
      BY <1>6, <2>1 DEF WaitAgain
    <3>2. stack' \in [Executor -> Seq(Activation)] /\ Frames'
      BY <3>1, CallFrames DEF CallOp
    <3> QED  BY <1>6, <2>1, <3>2 DEF TypeOK, WaitAgain
  <2>2. CASE status[Top(e).arg] # "done"
    BY <1>6, <2>2 DEF TypeOK, WaitAgain, Frames
  <2> QED  BY <2>1, <2>2
<1>7. ASSUME NEW e \in Executor, RegionBegin(e)
      PROVE  TypeOK' /\ Frames'
  <2>1. opened' \in 0 .. MaxBlocks
    BY <1>7 DEF RegionBegin, TypeOK, PoolAssumption
  <2>2. CASE Len(blocks[e]) >= MaxDepth
    BY <1>7, <2>1, <2>2 DEF RegionBegin, TypeOK, Frames
  <2>3. CASE ~(Len(blocks[e]) >= MaxDepth)
    <3>1. /\ Last(Pool) \in Region /\ Front(Pool) \in Seq(Region)
          /\ Append(blocks[e], Last(Pool)) \in Seq(Region)
          /\ Len(Append(blocks[e], Last(Pool))) = Len(blocks[e]) + 1
      BY PoolFacts, FrontFacts, BlockFacts, AppendFacts DEF TypeOK
    <3>2. /\ freeList' = Front(Pool) /\ stack' = stack
          /\ count' = [count EXCEPT ![Last(Pool)] = 0]
          /\ blocks' = [blocks EXCEPT ![e] = Append(blocks[e], Last(Pool))]
          /\ UNCHANGED <<exited, queue, pending, status, region, cancel, self,
                         cv, handles, lex>>
      BY <1>7, <2>3 DEF RegionBegin
    <3>3. TypeOK'
      BY <2>1, <3>1, <3>2 DEF TypeOK
    <3>4. FramesOK(stack[e], Len(blocks[e]) + 1)
      BY BlockFacts, FramesOpen DEF Frames, TypeOK
    <3>5. \A d \in Executor : FramesOK(stack'[d], Len(blocks'[d]))
      BY <3>1, <3>2, <3>4 DEF Frames, TypeOK
    <3> QED  BY <3>3, <3>5 DEF Frames
  <2> QED  BY <2>2, <2>3
<1>8. ASSUME NEW e \in Executor, JoinDone(e)
      PROVE  TypeOK' /\ Frames'
  <2>1. stack[e] # <<>> /\ OwnsBlock(e) /\ blocks[e] # <<>>
    BY <1>8, OwnsFacts DEF JoinDone, Joining
  <2> DEFINE r == Last(blocks[e])
             c == Call(stack[e], "put", r)
  <2>2. /\ r \in Region /\ Front(blocks[e]) \in Seq(Region)
        /\ Len(Front(blocks[e])) = Len(blocks[e]) - 1
        /\ Len(blocks[e]) \in Nat
    BY <2>1, BlockFacts
  <2>3. c \in Seq(Activation)
    BY <2>1, <2>2, AtFacts, CallType DEF CallOp
  <2>4. FramesOK(c, Len(blocks[e]) - 1)
    <3>1. Last(stack[e]).base < Len(blocks[e])
      BY <2>1, AtFacts, BlockFacts DEF OwnsBlock, Top, Activation
    <3> QED  BY <2>1, <2>2, <3>1, AtFacts, FramesClose DEF Frames
  <2>5. /\ blocks' = [blocks EXCEPT ![e] = Front(blocks[e])]
        /\ stack' = [stack EXCEPT ![e] = c]
    BY <1>8, <2>1, AtFacts DEF JoinDone
  <2> HIDE DEF c
  <2>6. TypeOK'
    BY <1>8, <2>2, <2>3, <2>5 DEF JoinDone, TypeOK
  <2>7. \A d \in Executor : FramesOK(stack'[d], Len(blocks'[d]))
    BY <2>2, <2>4, <2>5 DEF Frames, TypeOK
  <2> QED  BY <2>6, <2>7 DEF Frames
<1>9. ASSUME NEW e \in Executor, JoinSteal(e)
      PROVE  TypeOK' /\ Frames'
  <2>1. stack[e] # <<>> /\ OwnsBlock(e)
    BY <1>9, OwnsFacts DEF JoinSteal, Joining
  <2>2. Below(e, InCall(e, "join", None))
    BY <2>1, BelowJoin
  <2>3. Oldest \in Task /\ queue' \in Seq(Task)
    BY <1>9, QueueFacts DEF JoinSteal
  <2> QED  BY <1>9, <2>2, <2>3, StartType DEF JoinSteal
<1>10. ASSUME NEW e \in Executor, JoinSleep(e)
       PROVE  TypeOK' /\ Frames'
  <2>1. /\ stack[e] # <<>> /\ blocks' = blocks /\ OwnsBlock(e)
        /\ stack' = [stack EXCEPT ![e] = InCall(e, "join", None)]
    BY <1>10, OwnsFacts DEF JoinSleep, Joining
  <2>2. stack' \in [Executor -> Seq(Activation)] /\ Frames'
    BY <2>1, CallFrames DEF CallOp
  <2> QED  BY <1>10, <2>2 DEF TypeOK, JoinSleep
<1>11. ASSUME NEW e \in Executor, RegionPut(e)
       PROVE  TypeOK' /\ Frames'
  <2>1. /\ stack[e] # <<>> /\ blocks' = blocks
        /\ stack' = [stack EXCEPT ![e] = InCall(e, "body", None)]
    BY <1>11 DEF RegionPut
  <2>2. stack' \in [Executor -> Seq(Activation)] /\ Frames'
    BY <2>1, CallFrames DEF CallOp
  <2>3. Top(e).arg \in Region
    BY <1>11, AtFacts, SMTT(20) DEF RegionPut, Frames, FramesOK
  <2>4. freeList' \in Seq(Region)
    BY <1>11, <2>3, AppendFacts DEF RegionPut, TypeOK
  <2> QED  BY <1>11, <2>2, <2>4 DEF TypeOK, RegionPut
<1>12. ASSUME NEW e \in Executor, DrainSleep(e)
       PROVE  TypeOK' /\ Frames'
  <2>1. stack[e] # <<>> /\ blocks' = blocks
    BY <1>12 DEF DrainSleep, Draining
  <2>2. PICK op \in {"drain", "exit"} :
           stack' = [stack EXCEPT ![e] = InCall(e, op, None)]
    BY <1>12 DEF DrainSleep, DrainOp, Draining
  <2>3. stack' \in [Executor -> Seq(Activation)] /\ Frames'
    BY <2>1, <2>2, CallFrames DEF CallOp
  <2> QED  BY <1>12, <2>3 DEF TypeOK, DrainSleep
<1>13. ASSUME NEW e \in Executor, DrainFree(e)
       PROVE  TypeOK' /\ Frames'
  <2>1. /\ stack[e] # <<>> /\ blocks' = blocks
        /\ stack' = [stack EXCEPT ![e] = InCall(e, "body", None)]
    BY <1>13 DEF DrainFree, Draining
  <2>2. stack' \in [Executor -> Seq(Activation)] /\ Frames'
    BY <2>1, CallFrames DEF CallOp
  <2>3. queue' \in Seq(Task)
    BY <1>13, EmptySeq DEF DrainFree
  <2> QED  BY <1>13, <2>2, <2>3 DEF TypeOK, DrainFree
<1>14. ASSUME NEW w \in Worker, WorkerTake(w)
       PROVE  TypeOK' /\ Frames'
  <2>1. w \in Executor /\ Below(w, <<>>)
    BY <1>14, BelowWorker DEF WorkerTake, Executor
  <2>2. Oldest \in Task /\ queue' \in Seq(Task)
    BY <1>14, QueueFacts DEF WorkerTake
  <2> QED  BY <1>14, <2>1, <2>2, StartType DEF WorkerTake
<1>15. ASSUME NEW w \in Worker, WorkerSleep(w)
       PROVE  TypeOK' /\ Frames'
  BY <1>15 DEF WorkerSleep, TypeOK, Frames
<1>16. ASSUME UNCHANGED vars
       PROVE  TypeOK' /\ Frames'
  BY <1>16 DEF vars, TypeOK, Frames
<1> QED
  BY <1>1, <1>2, <1>3, <1>4, <1>5, <1>6, <1>7, <1>8, <1>9, <1>10, <1>11,
     <1>12, <1>13, <1>14, <1>15, <1>16 DEF Next, Step, WorkerStep, Gone

LEMMA TypeInit == PoolAssumption /\ Init => TypeOK /\ Frames
<1> SUFFICES ASSUME PoolAssumption, Init PROVE TypeOK /\ Frames
  OBVIOUS
<1> DEFINE a == [task |-> 0, op |-> "body", arg |-> None, base |-> 0]
<1>1. a \in Activation /\ a.base = 0 /\ a.op = "body"
  BY DEF Activation, PoolAssumption
<1> HIDE DEF a
<1>2. << a >> \in Seq(Activation) /\ Len(<< a >>) = 1 /\ << a >>[1] = a
  BY <1>1
<1>3. stack = [e \in Executor |-> IF e = Main THEN << a >> ELSE <<>>]
  BY DEF Init, a
<1>4. stack \in [Executor -> Seq(Activation)]
  BY <1>2, <1>3, EmptySeq
<1>5. TypeOK
  BY <1>4, EmptySeq DEF Init, TypeOK, PoolAssumption
<1>6. FramesOK(<<>>, 0) /\ FramesOK(<< a >>, 0)
  BY <1>1, <1>2 DEF FramesOK
<1>7. Frames
  BY <1>3, <1>6, EmptySeq DEF Init, Frames
<1> QED  BY <1>5, <1>7

\* Every variable keeps its type: in particular the barriers never read a
\* region slot that is no slot, nor pop a block stack that is empty.
THEOREM TypeCorrect == Spec => []TypeOK
<1>1. Init => TypeOK /\ Frames
  BY TypeInit, PoolAssumption
<1>2. TypeOK /\ Frames /\ [Next]_vars => (TypeOK /\ Frames)'
  BY TypeStep, PoolAssumption
<1> QED  BY <1>1, <1>2, PTL DEF Spec

-----------------------------------------------------------------------------
(* Where each task is *)

Safe == Queue /\ Stacks /\ PendingExact /\ Waiters

LEMMA FrameTypes ==
    ASSUME TypeOK
    PROVE  \A d \in Executor : \A i \in 1 .. Len(stack[d]) :
              stack[d][i] \in Activation
<1>1. \A d \in Executor : stack[d] \in Seq(Activation)
  BY DEF TypeOK
<1> QED  BY <1>1, ElementOfSeq

LEMMA TopFacts ==
    ASSUME TypeOK, Stacks, NEW e \in Executor, stack[e] # <<>>,
           Top(e).task # 0
    PROVE  Top(e).task \in Task /\ status[Top(e).task] = "running"
<1>1. /\ Len(stack[e]) \in 1 .. Len(stack[e])
      /\ Top(e) = stack[e][Len(stack[e])]
      /\ Top(e).task \in 0 .. NumTasks
  BY AtFacts DEF Activation
<1> QED  BY <1>1 DEF Stacks, Task, PoolAssumption

LEMMA LiveFinite == NumTasks \in Nat => IsFiniteSet(Live)
<1> SUFFICES ASSUME NumTasks \in Nat PROVE IsFiniteSet(Live)
  OBVIOUS
<1>1. IsFiniteSet(Task)
  BY FS_Interval DEF Task
<1> QED  BY <1>1, FS_Subset DEF Live

\* The top activation of e enters or leaves a call.
Called(e, op, arg) ==
    \A d \in Executor :
       /\ stack'[d] = <<>> <=> stack[d] = <<>>
       /\ Len(stack'[d]) = Len(stack[d])
       /\ \A i \in 1 .. Len(stack[d]) :
             /\ stack'[d][i].task = stack[d][i].task
             /\ \/ stack'[d][i] = stack[d][i]
                \/ stack'[d][i].op = op /\ stack'[d][i].arg = arg
             /\ d = e /\ i = Len(stack[e]) => stack'[d][i].op = op

LEMMA CallStacks ==
    ASSUME TypeOK, NEW e, e \in Executor, stack[e] # <<>>,
           NEW op, op \in CallOp, NEW arg, arg \in Task \cup Region \cup {None},
           stack' = [stack EXCEPT ![e] = InCall(e, op, arg)]
    PROVE  Called(e, op, arg)
<1> DEFINE c == Call(stack[e], op, arg)
<1>1. /\ c # <<>> /\ Len(c) = Len(stack[e]) /\ Len(stack[e]) \in Nat \ {0}
      /\ \A i \in 1 .. Len(stack[e]) :
            /\ c[i].task = stack[e][i].task
            /\ i # Len(stack[e]) => c[i] = stack[e][i]
      /\ c[Len(stack[e])].op = op /\ c[Len(stack[e])].arg = arg
  BY AtFacts, CallFacts, EmptySeq
<1>2. stack' = [stack EXCEPT ![e] = c]
  BY AtFacts
<1> HIDE DEF c
<1>3. \A d \in Executor : stack'[d] = IF d = e THEN c ELSE stack[d]
  BY <1>2 DEF TypeOK
<1> QED  BY <1>1, <1>3 DEF Called

LEMMA CallSafe ==
    ASSUME TypeOK, Stacks, Waiters, NEW e \in Executor, stack[e] # <<>>,
           NEW op \in CallOp, NEW arg \in Task \cup Region \cup {None},
           op = "wait" => arg \in Task /\ status[arg] \in {"running", "done"},
           stack' = [stack EXCEPT ![e] = InCall(e, op, arg)],
           status' = status
    PROVE  Stacks' /\ Waiters'
<1>1. Called(e, op, arg)
  BY CallStacks
<1>2. stack'[Main] # <<>>
  BY <1>1 DEF Called, Stacks, Executor
<1>3. Stacks'
  BY <1>1, <1>2 DEF Called, Stacks
<1>4. Waiters'
  BY <1>1 DEF Called, Waiters
<1> QED  BY <1>3, <1>4

\* A queued task starts; queue' holds what is left.
Takes(t) ==
    /\ Distinct(queue')
    /\ \A u \in Task :
          (\E i \in 1 .. Len(queue') : queue'[i] = u) <=>
          (u # t /\ \E i \in 1 .. Len(queue) : queue[i] = u)

LEMMA StartSafe ==
    ASSUME TypeOK, Safe, NEW e \in Executor, NEW t \in Task, NEW below,
           status[t] = "queued", Takes(t), Below(e, below), Start(e, t, below)
    PROVE  Safe'
<1> DEFINE a == Activate(t, e)
           s == Append(below, a)
           n == Len(stack[e])
<1>1. a.task = t /\ a.op = "body" /\ t # 0 /\ a \in Activation
  BY BlockFacts DEF Activate, Task, Activation
<1>2. /\ n \in Nat /\ Len(s) = n + 1 /\ s[n + 1] = a
      /\ \A i \in 1 .. n : s[i] = below[i]
  BY <1>1, AppendFacts, LenProperties DEF Below
<1>3. /\ stack' = [stack EXCEPT ![e] = s] /\ pending' = pending
      /\ status' = [status EXCEPT ![t] = "running"]
  BY DEF Start
<1>4. \A i \in 1 .. n : /\ s[i].task = stack[e][i].task
                        /\ s[i].op = "wait" => s[i] = stack[e][i]
  BY <1>2 DEF Below
<1> HIDE DEF a, s
<1>5. Queue'
  BY <1>3 DEF Queue, Takes, TypeOK, Safe
<1>6. PendingExact'
  BY <1>3 DEF PendingExact, Live, TypeOK, Safe
<1>7. \A d \in Executor : stack'[d] = IF d = e THEN s ELSE stack[d]
  BY <1>3 DEF TypeOK
<1>8. \A u \in Task : status'[u] = IF u = t THEN "running" ELSE status[u]
  BY <1>3 DEF TypeOK
<1>9. \A d \in Executor : \A i \in 1 .. Len(stack[d]) :
         /\ stack'[d][i].task = stack[d][i].task
         /\ stack[d][i].task # t
         /\ stack[d][i].task \in 0 .. NumTasks
  <2>3. \A d \in Executor : \A i \in 1 .. Len(stack[d]) :
           stack[d][i].task \in 0 .. NumTasks
    BY FrameTypes DEF Activation
  <2>4. \A d \in Executor : \A i \in 1 .. Len(stack[d]) : stack[d][i].task # t
    BY <1>1 DEF Stacks, Safe
  <2> QED  BY <1>4, <1>7, <2>3, <2>4
<1>10. Stacks'
  <2>1. stack'[Main] # <<>>
    <3>1. s # <<>> /\ Main \in Executor
      BY <1>2, EmptySeq DEF Executor
    <3> QED  BY <1>7, <3>1 DEF Stacks, Safe
  <2>2. ASSUME NEW d \in Executor, NEW i \in 1 .. Len(stack'[d])
        PROVE  \/ i \in 1 .. Len(stack[d])
               \/ d = e /\ i = n + 1 /\ stack'[d][i] = a
    BY <1>2, <1>7
  <2>3. ASSUME NEW d \in Executor, NEW i \in 1 .. Len(stack'[d])
        PROVE  /\ stack'[d][i].task = 0 <=> d = Main /\ i = 1
               /\ stack'[d][i].task # 0 =>
                     status'[stack'[d][i].task] = "running"
    <3>1. CASE i \in 1 .. Len(stack[d])
      <4>1. /\ stack'[d][i].task = stack[d][i].task
            /\ stack'[d][i].task \in 0 .. NumTasks
        BY <1>9, <3>1
      <4>2. /\ stack[d][i].task = 0 <=> d = Main /\ i = 1
            /\ stack[d][i].task # 0 => status[stack[d][i].task] = "running"
        BY <3>1 DEF Stacks, Safe
      <4> QED  BY <1>8, <4>1, <4>2 DEF Task
    <3>2. CASE d = e /\ i = n + 1 /\ stack'[d][i] = a
      <4>1. ~(d = Main /\ i = 1)
        BY <1>2, <3>2, EmptySeq, LenProperties DEF Stacks, Safe, TypeOK
      <4> QED  BY <1>1, <1>8, <3>2, <4>1
    <3> QED  BY <2>2, <3>1, <3>2
  <2>4. ASSUME NEW c \in Executor, NEW d \in Executor,
               NEW i \in 1 .. Len(stack'[c]), NEW j \in 1 .. Len(stack'[d]),
               stack'[c][i].task = stack'[d][j].task
        PROVE  c = d /\ i = j
    <3>1. CASE i \in 1 .. Len(stack[c]) /\ j \in 1 .. Len(stack[d])
      BY <1>9, <2>4, <3>1 DEF Stacks, Safe
    <3>2. CASE c = e /\ i = n + 1 /\ stack'[c][i] = a
      <4>1. stack'[d][j].task = t
        BY <1>1, <2>4, <3>2
      <4>2. j \notin 1 .. Len(stack[d])
        BY <1>9, <4>1
      <4> QED  BY <2>2, <3>2, <4>2
    <3>3. CASE d = e /\ j = n + 1 /\ stack'[d][j] = a
      <4>1. stack'[c][i].task = t
        BY <1>1, <2>4, <3>3
      <4>2. i \notin 1 .. Len(stack[c])
        BY <1>9, <4>1
      <4> QED  BY <2>2, <3>3, <4>2
    <3> QED  BY <2>2, <3>1, <3>2, <3>3
  <2>5. ASSUME NEW u \in Task, status'[u] = "running"
        PROVE  \E d \in Executor : \E i \in 1 .. Len(stack'[d]) :
                  stack'[d][i].task = u
    <3>1. CASE u = t
      BY <1>1, <1>2, <1>7, <3>1
    <3>2. CASE u # t
      <4>1. PICK d \in Executor :
               \E i \in 1 .. Len(stack[d]) : stack[d][i].task = u
        BY <1>8, <2>5, <3>2 DEF Stacks, Safe
      <4>2. \A i \in 1 .. Len(stack[d]) : i \in 1 .. Len(stack'[d])
        BY <1>2, <1>7
      <4> QED  BY <1>9, <4>1, <4>2
    <3> QED  BY <3>1, <3>2
  <2> QED  BY <2>1, <2>3, <2>4, <2>5 DEF Stacks
<1>11. ASSUME NEW d \in Executor, NEW i \in 1 .. Len(stack'[d]),
              stack'[d][i].op = "wait"
       PROVE  /\ stack'[d][i].arg \in Task
              /\ status'[stack'[d][i].arg] \in {"running", "done"}
  <2>1. i \in 1 .. Len(stack[d]) /\ stack'[d][i] = stack[d][i]
    BY <1>1, <1>2, <1>4, <1>7, <1>11, SMTT(20)
  <2>2. /\ stack[d][i].arg \in Task
        /\ status[stack[d][i].arg] \in {"running", "done"}
    BY <1>11, <2>1 DEF Waiters, Safe
  <2> QED  BY <1>8, <2>1, <2>2
<1>12. Waiters'
  BY <1>11 DEF Waiters
<1> QED  BY <1>5, <1>6, <1>10, <1>12 DEF Safe

LEMMA TakesOldest ==
    ASSUME TypeOK, Safe, queue # <<>>, queue' = Tail(queue)
    PROVE  Oldest \in Task /\ status[Oldest] = "queued" /\ Takes(Oldest)
<1>1. /\ queue \in Seq(Task) /\ Distinct(queue) /\ Len(queue) \in Nat \ {0}
      /\ Oldest = Head(queue)
  BY LenProperties, EmptySeq DEF TypeOK, Safe, Queue, Oldest
<1>2. /\ Oldest \in Task /\ Oldest = queue[1]
      /\ Len(queue') = Len(queue) - 1
      /\ \A i \in 1 .. Len(queue) - 1 : queue'[i] = queue[i + 1]
  BY <1>1, TailFacts
<1>3. Distinct(queue') /\ \A i \in 1 .. Len(queue') : queue'[i] # Oldest
  BY <1>1, DistinctTail
<1>4. 1 \in 1 .. Len(queue)
  BY <1>1
<1>5. status[Oldest] = "queued"
  BY <1>2, <1>4 DEF Safe, Queue
<1>6. ASSUME NEW u \in Task
      PROVE  (\E i \in 1 .. Len(queue') : queue'[i] = u) <=>
             (u # Oldest /\ \E i \in 1 .. Len(queue) : queue[i] = u)
  <2>1. ASSUME NEW i \in 1 .. Len(queue'), queue'[i] = u
        PROVE  u # Oldest /\ \E k \in 1 .. Len(queue) : queue[k] = u
    <3>1. i + 1 \in 1 .. Len(queue) /\ queue[i + 1] = u
      BY <1>1, <1>2, <2>1
    <3> QED  BY <1>3, <2>1, <3>1
  <2>2. ASSUME u # Oldest, NEW i \in 1 .. Len(queue), queue[i] = u
        PROVE  \E k \in 1 .. Len(queue') : queue'[k] = u
    <3>1. i - 1 \in 1 .. Len(queue') /\ queue'[i - 1] = queue[i - 1 + 1]
      BY <1>1, <1>2, <2>2
    <3>2. i - 1 + 1 = i
      BY <1>1
    <3> QED  BY <2>2, <3>1, <3>2
  <2> QED  BY <2>1, <2>2
<1> QED  BY <1>2, <1>3, <1>5, <1>6 DEF Takes

LEMMA TakesAny ==
    ASSUME TypeOK, Safe, NEW k \in 1 .. Len(queue),
           queue' = RemoveAt(queue, k)
    PROVE  Takes(queue[k])
<1>1. queue \in Seq(Task) /\ Distinct(queue) /\ Len(queue) \in Nat
  BY LenProperties DEF TypeOK, Safe, Queue
<1>2. /\ Len(queue') = Len(queue) - 1
      /\ \A i \in 1 .. Len(queue) - 1 :
            queue'[i] = IF i < k THEN queue[i] ELSE queue[i + 1]
  BY <1>1, RemoveAtFacts
<1>3. /\ Distinct(queue')
      /\ \A i \in 1 .. Len(queue') : queue'[i] # queue[k]
  BY <1>1, DistinctRemoveAt
<1>4. ASSUME NEW u \in Task
      PROVE  (\E i \in 1 .. Len(queue') : queue'[i] = u) <=>
             (u # queue[k] /\ \E i \in 1 .. Len(queue) : queue[i] = u)
  <2>1. ASSUME NEW i \in 1 .. Len(queue'), queue'[i] = u
        PROVE  u # queue[k] /\ \E j \in 1 .. Len(queue) : queue[j] = u
    <3>1. u = queue[i] \/ u = queue[i + 1]
      BY <1>1, <1>2, <2>1
    <3>2. i \in 1 .. Len(queue) /\ i + 1 \in 1 .. Len(queue)
      BY <1>1, <1>2
    <3> QED  BY <1>3, <2>1, <3>1, <3>2
  <2>2. ASSUME u # queue[k], NEW i \in 1 .. Len(queue), queue[i] = u
        PROVE  \E j \in 1 .. Len(queue') : queue'[j] = u
    <3>1. CASE i < k
      <4>1. i \in 1 .. Len(queue') /\ queue'[i] = queue[i]
        BY <1>1, <1>2, <3>1
      <4> QED  BY <2>2, <4>1
    <3>2. CASE ~(i < k)
      <4>1. i # k
        BY <2>2
      <4>2. i - 1 \in 1 .. Len(queue') /\ queue'[i - 1] = queue[i - 1 + 1]
        BY <1>1, <1>2, <3>2, <4>1
      <4>3. i - 1 + 1 = i
        BY <1>1
      <4> QED  BY <2>2, <4>2, <4>3
    <3> QED  BY <3>1, <3>2
  <2> QED  BY <2>1, <2>2
<1> QED  BY <1>3, <1>4 DEF Takes

\* A step that leaves queue, pending and status alone.
LEMMA SameQueue ==
    ASSUME Safe, UNCHANGED <<queue, pending, status>>
    PROVE  Queue' /\ PendingExact'
  BY DEF Safe, Queue, PendingExact, Live

LEMMA SameSafe ==
    ASSUME Safe, UNCHANGED <<queue, pending, status, stack>>
    PROVE  Safe'
<1>1. Queue' /\ PendingExact'
  BY SameQueue
<1>2. Stacks'
  BY DEF Safe, Stacks
<1>3. Waiters'
  BY DEF Safe, Waiters
<1> QED  BY <1>1, <1>2, <1>3 DEF Safe

LEMMA SpawnSafe ==
    ASSUME PoolAssumption, TypeOK, Safe, NEW e \in Executor, Spawn(e)
    PROVE  Safe'
<1>1. PICK t \in Task :
         /\ status[t] = "unborn"
         /\ status' = [status EXCEPT ![t] = "queued"]
         /\ queue' = Append(queue, t)
  BY DEF Spawn
<1>2. stack' = stack /\ pending' = pending + 1
  BY DEF Spawn
<1>3. \A u \in Task : status'[u] = IF u = t THEN "queued" ELSE status[u]
  BY <1>1 DEF TypeOK
<1>4. /\ queue \in Seq(Task) /\ Distinct(queue) /\ Len(queue) \in Nat
      /\ \A i \in 1 .. Len(queue) : queue[i] \in Task /\ queue[i] # t
  <2>1. queue \in Seq(Task) /\ Distinct(queue)
    BY DEF TypeOK, Safe, Queue
  <2>2. \A i \in 1 .. Len(queue) : queue[i] \in Task
    BY <2>1, ElementOfSeq
  <2>3. \A i \in 1 .. Len(queue) : queue[i] # t
    BY <1>1, <2>2 DEF Safe, Queue
  <2> QED  BY <2>1, <2>2, <2>3, LenProperties
<1>5. /\ Len(queue') = Len(queue) + 1 /\ queue'[Len(queue) + 1] = t
      /\ \A i \in 1 .. Len(queue) : queue'[i] = queue[i]
  BY <1>1, <1>4, AppendFacts
<1>6. Queue'
  <2>1. Distinct(queue')
    BY <1>1, <1>4, DistinctAppend
  <2>2. ASSUME NEW u \in Task
        PROVE  status'[u] = "queued" <=>
               \E i \in 1 .. Len(queue') : queue'[i] = u
    <3>1. CASE u = t
      BY <1>3, <1>4, <1>5, <3>1
    <3>2. CASE u # t
      <4>1. status[u] = "queued" <=> \E i \in 1 .. Len(queue) : queue[i] = u
        BY DEF Safe, Queue
      <4>2. (\E i \in 1 .. Len(queue) : queue[i] = u) <=>
            (\E i \in 1 .. Len(queue') : queue'[i] = u)
        BY <1>4, <1>5, <3>2
      <4> QED  BY <1>3, <3>2, <4>1, <4>2
    <3> QED  BY <3>1, <3>2
  <2> QED  BY <2>1, <2>2 DEF Queue
<1>7. Stacks'
  <2>1. \A d \in Executor : \A i \in 1 .. Len(stack[d]) :
           stack[d][i].task \in 0 .. NumTasks
    BY FrameTypes DEF Activation
  <2>2. \A d \in Executor : \A i \in 1 .. Len(stack[d]) :
           stack[d][i].task # 0 => status'[stack[d][i].task] = "running"
    BY <1>1, <1>3, <2>1 DEF Stacks, Safe, Task
  <2>3. \A u \in Task : status'[u] = "running" => status[u] = "running"
    BY <1>3
  <2> QED  BY <1>2, <2>2, <2>3 DEF Stacks, Safe
<1>8. PendingExact'
  <2>1. Live' = Live \cup {t} /\ t \notin Live
    BY <1>1, <1>3 DEF Live
  <2>2. IsFiniteSet(Live)
    BY LiveFinite DEF PoolAssumption
  <2>3. Cardinality(Live \cup {t}) = Cardinality(Live) + 1
    BY <2>1, <2>2, FS_AddElement
  <2> QED  BY <1>2, <2>1, <2>3 DEF PendingExact, Safe
<1>9. Waiters'
  BY <1>1, <1>2, <1>3 DEF Waiters, Safe
<1> QED  BY <1>6, <1>7, <1>8, <1>9 DEF Safe

LEMMA FinishSafe ==
    ASSUME PoolAssumption, TypeOK, Safe, NEW e \in Executor, Finish(e)
    PROVE  Safe'
<1> DEFINE t == Top(e).task
           n == Len(stack[e])
           s == Front(stack[e])
<1>1. /\ stack[e] # <<>> /\ t # 0
      /\ status' = [status EXCEPT ![t] = "done"]
      /\ stack' = [stack EXCEPT ![e] = s]
      /\ pending' = pending - 1 /\ queue' = queue
  BY DEF Finish, At, AfterRun
<1>2. t \in Task /\ status[t] = "running"
  BY <1>1, TopFacts DEF Safe
<1>3. /\ n \in Nat \ {0} /\ n \in 1 .. n /\ t = stack[e][n].task
      /\ Len(s) = n - 1
      /\ \A i \in 1 .. n - 1 : s[i] = stack[e][i]
  <2>1. stack[e] \in Seq(Activation) /\ n \in Nat \ {0} /\ t = stack[e][n].task
    BY <1>1, AtFacts
  <2>2. Len(s) = n - 1 /\ \A i \in 1 .. n - 1 : s[i] = stack[e][i]
    BY <1>1, <2>1, FrontFacts
  <2> HIDE DEF n
  <2> QED  BY <2>1, <2>2
<1> HIDE DEF t, s, n
<1>4. \A u \in Task : status'[u] = IF u = t THEN "done" ELSE status[u]
  BY <1>1 DEF TypeOK
<1>5. \A d \in Executor : stack'[d] = IF d = e THEN s ELSE stack[d]
  BY <1>1 DEF TypeOK
<1>6. Queue'
  BY <1>1, <1>2, <1>4 DEF Queue, Safe
<1>7. PendingExact'
  <2>1. Live' = Live \ {t} /\ t \in Live
    BY <1>2, <1>4 DEF Live
  <2>2. IsFiniteSet(Live)
    BY LiveFinite DEF PoolAssumption
  <2>3. Cardinality(Live \ {t}) = Cardinality(Live) - 1
    BY <2>1, <2>2, FS_RemoveElement
  <2> QED  BY <1>1, <2>1, <2>3 DEF PendingExact, Safe
<1>8. ASSUME NEW d \in Executor, NEW i \in 1 .. Len(stack'[d])
      PROVE  /\ i \in 1 .. Len(stack[d]) /\ stack'[d][i] = stack[d][i]
             /\ ~(d = e /\ i = n) /\ stack[d][i].task # t
  <2>1. /\ i \in 1 .. Len(stack[d]) /\ stack'[d][i] = stack[d][i]
        /\ ~(d = e /\ i = n)
    BY <1>3, <1>5 DEF n
  <2>2. stack[d][i].task # t
    BY <1>3, <2>1 DEF Safe, Stacks, n
  <2> QED  BY <2>1, <2>2
<1>9. ASSUME NEW d \in Executor, NEW i \in 1 .. Len(stack[d]),
             stack[d][i].task # t
      PROVE  i \in 1 .. Len(stack'[d])
  <2>1. CASE d = e
    <3>1. i # n
      BY <1>3, <1>9, <2>1
    <3> QED  BY <1>3, <1>5, <2>1, <3>1 DEF n
  <2>2. CASE d # e
    BY <1>5, <2>2
  <2> QED  BY <2>1, <2>2
<1>10. \A d \in Executor : \A i \in 1 .. Len(stack[d]) :
          stack[d][i].task \in 0 .. NumTasks
  BY FrameTypes DEF Activation
<1>11. Stacks'
  <2>1. stack'[Main] # <<>>
    <3>1. Main \in Executor /\ 1 \in 1 .. Len(stack[Main])
      <4>1. Main \in Executor
        BY DEF Executor
      <4>2. stack[Main] \in Seq(Activation) /\ stack[Main] # <<>>
        BY <4>1 DEF TypeOK, Safe, Stacks
      <4> QED  BY <4>1, <4>2, LenProperties, EmptySeq
    <3>2. stack[Main][1].task = 0
      BY <3>1 DEF Safe, Stacks
    <3>3. 1 \in 1 .. Len(stack'[Main])
      BY <1>1, <1>9, <3>1, <3>2 DEF t
    <3>4. Len(<<>>) = 0
      OBVIOUS
    <3> QED  BY <3>3, <3>4
  <2>2. ASSUME NEW d \in Executor, NEW i \in 1 .. Len(stack'[d])
        PROVE  /\ stack'[d][i].task = 0 <=> d = Main /\ i = 1
               /\ stack'[d][i].task # 0 =>
                     status'[stack'[d][i].task] = "running"
    <3>1. /\ stack[d][i].task = 0 <=> d = Main /\ i = 1
          /\ stack[d][i].task # 0 => status[stack[d][i].task] = "running"
      BY <1>8 DEF Safe, Stacks
    <3> QED  BY <1>4, <1>8, <1>10, <3>1, SMTT(20) DEF Task
  <2>3. ASSUME NEW c \in Executor, NEW d \in Executor,
               NEW i \in 1 .. Len(stack'[c]), NEW j \in 1 .. Len(stack'[d]),
               stack'[c][i].task = stack'[d][j].task
        PROVE  c = d /\ i = j
    <3>1. i \in 1 .. Len(stack[c]) /\ stack'[c][i] = stack[c][i]
      BY <1>8
    <3>2. j \in 1 .. Len(stack[d]) /\ stack'[d][j] = stack[d][j]
      BY <1>8
    <3>3. stack[c][i].task = stack[d][j].task
      BY <2>3, <3>1, <3>2
    <3> QED  BY <3>1, <3>2, <3>3 DEF Safe, Stacks
  <2>4. ASSUME NEW u \in Task, status'[u] = "running"
        PROVE  \E d \in Executor : \E i \in 1 .. Len(stack'[d]) :
                  stack'[d][i].task = u
    <3>1. u # t /\ status[u] = "running"
      BY <1>4, <2>4
    <3>2. PICK d \in Executor :
             \E i \in 1 .. Len(stack[d]) : stack[d][i].task = u
      BY <3>1 DEF Safe, Stacks
    <3>3. PICK i \in 1 .. Len(stack[d]) : stack[d][i].task = u
      BY <3>2
    <3>4. i \in 1 .. Len(stack'[d])
      BY <1>9, <3>1, <3>3
    <3> QED  BY <1>8, <3>3, <3>4
  <2> QED  BY <2>1, <2>2, <2>3, <2>4 DEF Stacks
<1>12. Waiters'
  <2>1. ASSUME NEW d \in Executor, NEW i \in 1 .. Len(stack'[d]),
               stack'[d][i].op = "wait"
        PROVE  /\ stack'[d][i].arg \in Task
               /\ status'[stack'[d][i].arg] \in {"running", "done"}
    <3>1. /\ stack[d][i].arg \in Task
          /\ status[stack[d][i].arg] \in {"running", "done"}
      BY <1>8, <2>1 DEF Safe, Waiters
    <3> QED  BY <1>4, <1>8, <3>1
  <2> QED  BY <2>1 DEF Waiters
<1> QED  BY <1>6, <1>7, <1>11, <1>12 DEF Safe

\* The records are freed when only Main is left.
LEMMA DrainSafe ==
    ASSUME PoolAssumption, TypeOK, Safe, NEW e \in Executor, DrainFree(e)
    PROVE  Safe'
<1>1. /\ stack[e] # <<>> /\ pending = 0 /\ pending' = pending
      /\ queue' = <<>>
      /\ status' = [t \in Task |->
                      IF status[t] = "unborn" THEN "unborn" ELSE "freed"]
      /\ stack' = [stack EXCEPT ![e] = InCall(e, "body", None)]
  BY DEF DrainFree, Draining, At, DrainReady
<1>2. Live = {}
  BY <1>1, LiveFinite, FS_EmptySet DEF Safe, PendingExact, PoolAssumption
<1>3. \A d \in Executor : \A i \in 1 .. Len(stack[d]) :
         stack[d][i].task = 0 /\ d = Main /\ i = 1
  <2>1. \A d \in Executor : \A i \in 1 .. Len(stack[d]) :
           stack[d][i].task = 0
    BY <1>2, FrameTypes DEF Safe, Stacks, Live, Activation, Task
  <2> QED  BY <2>1 DEF Safe, Stacks
<1>4. Called(e, "body", None)
  BY <1>1, CallStacks DEF CallOp
<1>5. stack'[Main] # <<>>
  BY <1>4 DEF Called, Safe, Stacks, Executor
<1>6. Len(stack[e]) \in Nat \ {0}
  BY <1>1, AtFacts
<1>7. \A d \in Executor : \A i \in 1 .. Len(stack'[d]) :
         stack'[d][i].task = 0 /\ d = Main /\ i = 1
  BY <1>3, <1>4 DEF Called
<1>8. e = Main /\ Len(stack[e]) = 1
  <2>1. 1 \in 1 .. Len(stack[e]) /\ Len(stack[e]) \in 1 .. Len(stack[e])
    BY <1>6
  <2> QED  BY <1>3, <2>1
<1>9. \A t \in Task : status'[t] \in {"unborn", "freed"}
  BY <1>1
<1>10. Queue'
  BY <1>1, <1>9 DEF Queue, Distinct
<1>11. Live' = {}
  BY <1>9 DEF Live
<1>12. PendingExact'
  BY <1>1, <1>11, FS_EmptySet DEF PendingExact
<1>13. Stacks'
  BY <1>5, <1>7, <1>9 DEF Stacks
<1>14. Waiters'
  <2>1. ASSUME NEW d \in Executor, NEW i \in 1 .. Len(stack'[d])
        PROVE  stack'[d][i].op # "wait"
    <3>1. d = e /\ i = Len(stack[e]) /\ i \in 1 .. Len(stack[d])
      BY <1>4, <1>7, <1>8 DEF Called
    <3> QED  BY <1>4, <3>1 DEF Called
  <2> QED  BY <2>1 DEF Waiters
<1> QED  BY <1>10, <1>12, <1>13, <1>14 DEF Safe

LEMMA SafeInit ==
    ASSUME PoolAssumption, Init
    PROVE  Safe
<1> DEFINE a == [task |-> 0, op |-> "body", arg |-> None, base |-> 0]
<1>1. a.task = 0 /\ a.op = "body"
  OBVIOUS
<1>2. stack = [e \in Executor |-> IF e = Main THEN << a >> ELSE <<>>]
  BY DEF Init
<1> HIDE DEF a
<1>3. \A e \in Executor : \A i \in 1 .. Len(stack[e]) :
         e = Main /\ i = 1 /\ stack[e][i] = a
  <2>1. /\ Len(<< a >>) = 1 /\ << a >>[1] = a /\ Len(<<>>) = 0
        /\ 1 .. 0 = {} /\ 1 .. 1 = {1}
    OBVIOUS
  <2>2. \A e \in Executor : stack[e] = IF e = Main THEN << a >> ELSE <<>>
    BY <1>2
  <2> QED  BY <2>1, <2>2
<1>4. stack[Main] # <<>>
  BY <1>2 DEF Executor
<1>5. \A t \in Task : status[t] = "unborn"
  BY DEF Init
<1>6. Stacks
  BY <1>1, <1>3, <1>4, <1>5 DEF Stacks
<1>7. Queue
  BY <1>5 DEF Init, Queue, Distinct
<1>8. Live = {}
  BY <1>5 DEF Live
<1>9. PendingExact
  BY <1>8, FS_EmptySet DEF PendingExact, Init
<1>10. Waiters
  BY <1>1, <1>3 DEF Waiters
<1> QED  BY <1>6, <1>7, <1>9, <1>10 DEF Safe

LEMMA SafeStep ==
    ASSUME PoolAssumption, TypeOK, Frames, Safe, [Next]_vars
    PROVE  Safe'
<1> USE DEF At
<1>1. ASSUME NEW e \in Executor, Spawn(e)
      PROVE  Safe'
  BY <1>1, SpawnSafe
<1>2. ASSUME NEW e \in Executor, Finish(e)
      PROVE  Safe'
  BY <1>2, FinishSafe
<1>3. ASSUME NEW e \in Executor, NEW t \in Task, WaitSteal(e, t)
      PROVE  Safe'
  <2>1. PICK k \in 1 .. Len(queue) : queue[k] = t
    BY <1>3 DEF WaitSteal, Safe, Queue
  <2>2. \E i \in 1 .. Len(queue) : queue[i] = t /\ queue' = RemoveAt(queue, i)
    <3>1. t \in ToSet(queue)
      BY <2>1 DEF ToSet, TypeOK
    <3> QED  BY <1>3, <3>1 DEF WaitSteal
  <2>3. Takes(t)
    BY <2>2, TakesAny
  <2> QED  BY <1>3, <2>3, BelowWait, StartSafe DEF WaitSteal
<1>4. ASSUME NEW e \in Executor, NEW t \in Task, WaitSleep(e, t)
      PROVE  Safe'
  <2>1. /\ stack[e] # <<>> /\ status[t] = "running"
        /\ stack' = [stack EXCEPT ![e] = InCall(e, "wait", t)]
        /\ UNCHANGED <<queue, pending, status>>
    BY <1>4 DEF WaitSleep
  <2> QED  BY <2>1, CallSafe, SameQueue DEF Safe, CallOp
<1>5. ASSUME NEW e \in Executor, NEW t \in Task, Cancel(e, t)
      PROVE  Safe'
  <2>1. UNCHANGED <<queue, pending, status, stack>>
    BY <1>5 DEF Cancel
  <2> QED  BY <2>1, SameSafe
<1>6. ASSUME NEW e \in Executor, WaitAgain(e)
      PROVE  Safe'
  <2>1. stack[e] # <<>> /\ UNCHANGED <<queue, pending, status>>
    BY <1>6 DEF WaitAgain
  <2>2. CASE stack' = [stack EXCEPT ![e] = InCall(e, "body", None)]
    BY <2>1, <2>2, CallSafe, SameQueue DEF Safe, CallOp
  <2>3. CASE stack' = stack
    BY <2>1, <2>3, SameSafe
  <2> QED  BY <1>6, <2>2, <2>3 DEF WaitAgain
<1>7. ASSUME NEW e \in Executor, RegionBegin(e)
      PROVE  Safe'
  <2>1. UNCHANGED <<queue, pending, status, stack>>
    BY <1>7 DEF RegionBegin
  <2> QED  BY <2>1, SameSafe
<1>8. ASSUME NEW e \in Executor, JoinDone(e)
      PROVE  Safe'
  <2>1. stack[e] # <<>> /\ blocks[e] # <<>>
    BY <1>8, OwnsFacts DEF JoinDone, Joining
  <2>2. Last(blocks[e]) \in Region
    BY <2>1, BlockFacts
  <2>3. /\ stack' = [stack EXCEPT ![e] = InCall(e, "put", Last(blocks[e]))]
        /\ UNCHANGED <<queue, pending, status>>
    BY <1>8 DEF JoinDone
  <2> QED  BY <2>1, <2>2, <2>3, CallSafe, SameQueue DEF Safe, CallOp
<1>9. ASSUME NEW e \in Executor, JoinSteal(e)
      PROVE  Safe'
  <2>1. stack[e] # <<>> /\ OwnsBlock(e)
    BY <1>9, OwnsFacts DEF JoinSteal, Joining
  <2>2. Below(e, InCall(e, "join", None))
    BY <2>1, BelowJoin
  <2>3. Oldest \in Task /\ status[Oldest] = "queued" /\ Takes(Oldest)
    BY <1>9, TakesOldest DEF JoinSteal
  <2> QED  BY <1>9, <2>2, <2>3, StartSafe DEF JoinSteal
<1>10. ASSUME NEW e \in Executor, JoinSleep(e)
       PROVE  Safe'
  <2>1. /\ stack[e] # <<>>
        /\ stack' = [stack EXCEPT ![e] = InCall(e, "join", None)]
        /\ UNCHANGED <<queue, pending, status>>
    BY <1>10 DEF JoinSleep, Joining
  <2> QED  BY <2>1, CallSafe, SameQueue DEF Safe, CallOp
<1>11. ASSUME NEW e \in Executor, RegionPut(e)
       PROVE  Safe'
  <2>1. /\ stack[e] # <<>>
        /\ stack' = [stack EXCEPT ![e] = InCall(e, "body", None)]
        /\ UNCHANGED <<queue, pending, status>>
    BY <1>11 DEF RegionPut
  <2> QED  BY <2>1, CallSafe, SameQueue DEF Safe, CallOp
<1>12. ASSUME NEW e \in Executor, DrainSleep(e)
       PROVE  Safe'
  <2>1. stack[e] # <<>> /\ UNCHANGED <<queue, pending, status>>
    BY <1>12 DEF DrainSleep, Draining
  <2>2. PICK op \in {"drain", "exit"} :
           stack' = [stack EXCEPT ![e] = InCall(e, op, None)]
    BY <1>12 DEF DrainSleep, DrainOp, Draining
  <2> QED  BY <2>1, <2>2, CallSafe, SameQueue DEF Safe, CallOp
<1>13. ASSUME NEW e \in Executor, DrainFree(e)
       PROVE  Safe'
  BY <1>13, DrainSafe
<1>14. ASSUME NEW w \in Worker, WorkerTake(w)
       PROVE  Safe'
  <2>1. w \in Executor /\ Below(w, <<>>)
    BY <1>14, BelowWorker DEF WorkerTake, Executor
  <2>2. Oldest \in Task /\ status[Oldest] = "queued" /\ Takes(Oldest)
    BY <1>14, TakesOldest DEF WorkerTake
  <2> QED  BY <1>14, <2>1, <2>2, StartSafe DEF WorkerTake
<1>15. ASSUME NEW w \in Worker, WorkerSleep(w)
       PROVE  Safe'
  <2>1. UNCHANGED <<queue, pending, status, stack>>
    BY <1>15 DEF WorkerSleep
  <2> QED  BY <2>1, SameSafe
<1>16. ASSUME UNCHANGED vars
       PROVE  Safe'
  <2>1. UNCHANGED <<queue, pending, status, stack>>
    BY <1>16 DEF vars
  <2> QED  BY <2>1, SameSafe
<1> QED
  BY <1>1, <1>2, <1>3, <1>4, <1>5, <1>6, <1>7, <1>8, <1>9, <1>10, <1>11,
     <1>12, <1>13, <1>14, <1>15, <1>16 DEF Next, Step, WorkerStep, Gone

\* The invariant the next theorems follow from: types, the shape of the
\* stacks, each task in one place, hphl_pending exact, no Wait on a freed
\* record.
THEOREM Invariance == Spec => []IInv
<1>1. Init => TypeOK /\ Frames /\ Safe
  BY TypeInit, SafeInit, PoolAssumption
<1>2. TypeOK /\ Frames /\ Safe /\ [Next]_vars => (TypeOK /\ Frames /\ Safe)'
  BY TypeStep, SafeStep, PoolAssumption
<1>3. TypeOK /\ Frames /\ Safe => IInv
  BY DEF Safe, IInv
<1> QED  BY <1>1, <1>2, <1>3, PTL DEF Spec

\* hphl_pending counts the tasks queued or running whenever hphl_q_cs is free,
\* whatever the program does: what hphl_join_tasks relies on.
THEOREM PendingIsExact == Spec => [](pending = Cardinality(Live))
<1>1. IInv => pending = Cardinality(Live)
  BY DEF IInv, PendingExact
<1> QED  BY <1>1, Invariance, PTL

LEMMA InQueueOnce ==
    ASSUME IInv, NEW t \in Task
    PROVE  /\ (status[t] = "queued") <=>
                 Cardinality({i \in 1 .. Len(queue) : queue[i] = t}) = 1
           /\ status[t] # "queued" => t \notin ToSet(queue)
<1> DEFINE S == {i \in 1 .. Len(queue) : queue[i] = t}
<1>a. \A x \in ToSet(queue) : \E i \in 1 .. Len(queue) : queue[i] = x
  <2>1. DOMAIN queue = 1 .. Len(queue)
    BY LenProperties DEF IInv, TypeOK
  <2> QED  BY <2>1 DEF ToSet
<1>1. CASE status[t] = "queued"
  <2>1. PICK k \in 1 .. Len(queue) : queue[k] = t
    BY <1>1 DEF IInv, Queue
  <2>2. S = {k}
    BY <2>1 DEF IInv, Queue, Distinct
  <2>3. Cardinality(S) = 1
    BY <2>2, FS_Singleton
  <2> QED  BY <1>1, <2>3
<1>2. CASE status[t] # "queued"
  <2>1. S = {}
    BY <1>2 DEF IInv, Queue
  <2>2. t \notin ToSet(queue)
    BY <1>2, <1>a DEF IInv, Queue
  <2>3. Cardinality(S) = 0
    BY <2>1, FS_EmptySet
  <2> QED  BY <1>2, <2>2, <2>3
<1> QED  BY <1>1, <1>2

LEMMA ActiveOnce ==
    ASSUME IInv, NEW t \in Task
    PROVE  /\ (status[t] = "running") <=> Cardinality(Activations(t)) = 1
           /\ status[t] # "running" => Activations(t) = {}
<1>1. \A p \in Activations(t) :
         \E e \in Executor : \E i \in 1 .. Len(stack[e]) :
            p = <<e, i>> /\ stack[e][i].task = t
  BY DEF Activations, Places
<1>2. CASE status[t] = "running"
  <2>1. PICK e \in Executor :
           \E i \in 1 .. Len(stack[e]) : stack[e][i].task = t
    BY <1>2 DEF IInv, Stacks
  <2>2. PICK i \in 1 .. Len(stack[e]) : stack[e][i].task = t
    BY <2>1
  <2>3. <<e, i>> \in Activations(t)
    BY <2>2 DEF Activations, Places
  <2>4. \A p \in Activations(t) : p = <<e, i>>
    BY <1>1, <2>2 DEF IInv, Stacks
  <2>5. Activations(t) = {<<e, i>>}
    BY <2>3, <2>4
  <2> QED  BY <1>2, <2>5, FS_Singleton
<1>3. CASE status[t] # "running"
  <2>1. Activations(t) = {}
    BY <1>1, <1>3 DEF IInv, Stacks, Task
  <2> QED  BY <1>3, <2>1, FS_EmptySet
<1> QED  BY <1>2, <1>3

\* A task is in exactly one place until it is done: Wait, the region barriers
\* and the workers never run it twice and never lose it.
THEOREM OnePlaceSafe == Spec => []OnePlace
<1>1. IInv => OnePlace
  BY InQueueOnce, ActiveOnce DEF OnePlace
<1> QED  BY <1>1, Invariance, PTL

\* A live task that inherited no handle has handles to its own children only,
\* and these outlive no drain.
Named ==
    ~Capture => \A u \in Live : \A t \in handles[u] : status[t] # "freed"

\* Steps that spawn nothing and free nothing.
NamesSame ==
    /\ handles' = handles
    /\ Live' \subseteq Live
    /\ \A t \in Task : status'[t] = "freed" => status[t] = "freed"

LEMMA NamesStep ==
    ASSUME PoolAssumption, IInv, [Next]_vars,
           ~\E e \in Executor : Spawn(e) \/ DrainFree(e)
    PROVE  NamesSame
<1>0. TypeOK /\ Safe
  BY DEF IInv, Safe
<1>1. ASSUME UNCHANGED <<status, handles>>
      PROVE  NamesSame
  BY <1>1 DEF NamesSame, Live
<1>2. ASSUME NEW e, NEW t \in Task, NEW below, Start(e, t, below),
             status[t] = "queued"
      PROVE  NamesSame
  BY <1>0, <1>2 DEF Start, Live, TypeOK, NamesSame
<1>3. ASSUME NEW e \in Executor, Finish(e)
      PROVE  NamesSame
  <2>1. /\ handles' = handles
        /\ \A t \in Task : status'[t] \in {status[t], "done"}
    BY <1>0, <1>3 DEF Finish, AfterRun, TypeOK
  <2> QED  BY <2>1 DEF Live, NamesSame
<1>4. ASSUME NEW e \in Executor, JoinSteal(e)
      PROVE  NamesSame
  BY <1>0, <1>2, <1>4, TakesOldest DEF JoinSteal
<1>5. ASSUME NEW w \in Worker, WorkerTake(w)
      PROVE  NamesSame
  BY <1>0, <1>2, <1>5, TakesOldest DEF WorkerTake
<1>6. ASSUME NEW e \in Executor, NEW t \in Task, WaitSteal(e, t)
      PROVE  NamesSame
  BY <1>2, <1>6 DEF WaitSteal
<1>7. ASSUME NEW e \in Executor, NEW t \in Task,
             WaitSleep(e, t) \/ Cancel(e, t)
      PROVE  NamesSame
  BY <1>1, <1>7 DEF WaitSleep, Cancel
<1>8. ASSUME NEW e \in Executor,
             \/ WaitAgain(e) \/ RegionBegin(e) \/ JoinDone(e) \/ JoinSleep(e)
             \/ RegionPut(e) \/ DrainSleep(e)
      PROVE  NamesSame
  BY <1>1, <1>8 DEF WaitAgain, RegionBegin, JoinDone, JoinSleep, RegionPut,
                    DrainSleep
<1>9. ASSUME NEW w \in Worker, WorkerSleep(w)
      PROVE  NamesSame
  BY <1>1, <1>9 DEF WorkerSleep
<1>10. ASSUME UNCHANGED vars
       PROVE  NamesSame
  BY <1>1, <1>10 DEF vars
<1> QED
  BY <1>3, <1>4, <1>5, <1>6, <1>7, <1>8, <1>9, <1>10
     DEF Next, Step, WorkerStep, Gone

\* The task spawned is queued, so that the handle its parent gets is live; it
\* has none itself.
LEMMA NamesSpawn ==
    ASSUME PoolAssumption, IInv, Named, NEW e \in Executor, Spawn(e)
    PROVE  Named'
<1>0. TypeOK
  BY DEF IInv
<1> SUFFICES ASSUME ~Capture PROVE \A u \in Live' : \A t \in handles'[u] : status'[t] # "freed"
  BY DEF Named
<1>1. PICK n \in Task :
         /\ status[n] = "unborn"
         /\ status' = [status EXCEPT ![n] = "queued"]
         /\ handles' = [handles EXCEPT ![n] = {}, ![Top(e).task] = @ \cup {n}]
  BY DEF Spawn
<1>2. /\ handles \in [0 .. NumTasks -> SUBSET Task]
      /\ status \in [Task -> {"unborn", "queued", "running", "done", "freed"}]
      /\ Task \subseteq 0 .. NumTasks
  BY <1>0 DEF TypeOK, Task
<1>3. \A t \in Task : status'[t] = IF t = n THEN "queued" ELSE status[t]
  BY <1>1, <1>2
<1>4. Live' = Live \cup {n} /\ n \notin Live
  BY <1>1, <1>3 DEF Live
<1>5. \A u \in Task : handles'[u] \subseteq
         (IF u = n THEN {} ELSE handles[u]) \cup {n}
  BY <1>1, <1>2
<1> QED
  BY <1>2, <1>3, <1>4, <1>5 DEF Named, Live

\* When the drain frees, no task is live.
LEMMA NamesDrain ==
    ASSUME PoolAssumption, IInv, NEW e \in Executor, DrainFree(e)
    PROVE  Named'
<1>1. pending = 0 /\ pending' = pending
  BY DEF DrainFree, DrainReady
<1>2. Live = {}
  BY <1>1, LiveFinite, FS_EmptySet DEF IInv, PendingExact, PoolAssumption
<1>3. Live' = {}
  BY <1>2 DEF DrainFree, Live
<1> QED
  BY <1>3 DEF Named

LEMMA NamedInvariance == Spec => []Named
<1>1. Init => Named
  BY DEF Init, Named, Live
<1>2. IInv /\ Named /\ [Next]_vars => Named'
  <2> SUFFICES ASSUME IInv, Named, [Next]_vars PROVE Named'
    OBVIOUS
  <2>1. CASE \E e \in Executor : Spawn(e)
    BY <2>1, NamesSpawn, PoolAssumption
  <2>2. CASE \E e \in Executor : DrainFree(e)
    BY <2>2, NamesDrain, PoolAssumption
  <2>3. CASE ~\E e \in Executor : Spawn(e) \/ DrainFree(e)
    <3>1. NamesSame
      BY <2>3, NamesStep, PoolAssumption
    <3>0. handles \in [0 .. NumTasks -> SUBSET Task] /\ NumTasks \in Nat
      BY PoolAssumption DEF IInv, TypeOK
    <3>2. \A u \in Live : handles[u] \subseteq Task
      <4>1. Live \subseteq 0 .. NumTasks
        BY <3>0 DEF Live, Task
      <4> QED  BY <3>0, <4>1
    <3> QED  BY <3>1, <3>2 DEF Named, NamesSame
  <2> QED  BY <2>1, <2>2, <2>3
<1> QED  BY <1>1, <1>2, Invariance, PTL DEF Spec

\* hphl_join_tasks frees no record that the scheduler still holds: not queued,
\* on no stack, waited for by no one; nor one to which a live task that
\* inherited no handles has a handle.
THEOREM NoDanglingRecordSafe == Spec => []NoDanglingRecord
<1>1. ASSUME IInv, Named, NEW t \in Task, status[t] = "freed"
      PROVE  /\ t \notin ToSet(queue)
             /\ \A e \in Executor : \A i \in 1 .. Len(stack[e]) :
                   /\ stack[e][i].task # t
                   /\ stack[e][i].op = "wait" => stack[e][i].arg # t
             /\ ~Capture => \A u \in Live : t \notin handles[u]
  <2>1. t \notin ToSet(queue)
    BY <1>1, InQueueOnce
  <2>2. \A e \in Executor : \A i \in 1 .. Len(stack[e]) :
           stack[e][i].task # t
    BY <1>1 DEF IInv, Stacks, Task
  <2>3. \A e \in Executor : \A i \in 1 .. Len(stack[e]) :
           stack[e][i].op = "wait" => stack[e][i].arg # t
    BY <1>1 DEF IInv, Waiters
  <2>4. ~Capture => \A u \in Live : t \notin handles[u]
    BY <1>1 DEF Named
  <2> QED  BY <2>1, <2>2, <2>3, <2>4
<1>2. IInv /\ Named => NoDanglingRecord
  BY <1>1 DEF NoDanglingRecord
<1> QED  BY <1>2, Invariance, NamedInvariance, PTL

-----------------------------------------------------------------------------
(***************************************************************************)
(* The second half: the region barriers, the slots of the pool of regions, *)
(* the counters kept in them, the executors asleep on them.                *)
(***************************************************************************)

\* The pool has a slot for every block that can be open at a time: 512 for the
\* 9 threads and the depth of 32 of concurrency.c:82,110-111.
SlotsEnough == Cardinality(Executor) * MaxDepth <= Cardinality(Region)

-----------------------------------------------------------------------------
(* The inductive invariant *)

\* The slots executor e holds: one for each block it has open, and the one it
\* is about to put back.
Putting(e) == stack[e] # <<>> /\ Top(e).op = "put"
Hold(e) == IF Putting(e) THEN Append(blocks[e], Top(e).arg) ELSE blocks[e]
Holds == [e \in Executor |-> Hold(e)]

\* Only the top activation of a stack can be giving a slot back.
NoPut(s) == \A i \in 1 .. Len(s) : s[i].op # "put"
Putters ==
    \A e \in Executor : \A i \in 1 .. Len(stack[e]) - 1 : stack[e][i].op # "put"

\* A slot that is free is held by no one, and a slot is held once; when the pool
\* is in use every slot is in one of these places.
SlotsOf(hold, free) ==
    /\ Distinct(free)
    /\ \A d, e \in Executor :
          \A i \in 1 .. Len(hold[d]), j \in 1 .. Len(hold[e]) :
             hold[d][i] = hold[e][j] => d = e /\ i = j
    /\ \A e \in Executor :
          \A i \in 1 .. Len(free), j \in 1 .. Len(hold[e]) : free[i] # hold[e][j]
    /\ \/ free = <<>> /\ \A e \in Executor : hold[e] = <<>>
       \/ \A r \in Region :
             \/ \E i \in 1 .. Len(free) : free[i] = r
             \/ \E e \in Executor : \E i \in 1 .. Len(hold[e]) : hold[e][i] = r

Slots ==
    /\ SlotsOf(Holds, freeList)
    /\ \A e \in Executor : Len(Holds[e]) <= MaxDepth

\* The count of a slot is that of the live tasks charged to it, none when no
\* block has it.
LiveIn(r) == {t \in Live : region[t] = r}
Counts ==
    \A r \in Region :
       /\ count[r] = Cardinality(LiveIn(r))
       /\ (\A e \in Executor : \A i \in 1 .. Len(blocks[e]) : blocks[e][i] # r)
             => count[r] = 0

\* What an executor that sleeps is in, and that it has something to wait for.
Waits(e) ==
    /\ cv[e] = "work" => queue = <<>>
    /\ cv[e] = "finished" =>
          stack[e] # <<>> /\ Top(e).op = "wait" /\ status[Top(e).arg] = "running"
    /\ cv[e] = "region" =>
          stack[e] # <<>> /\ Top(e).op = "join" /\ count[Last(blocks[e])] > 0
    /\ cv[e] = "drained" => pending > 0
Sleepers == exited = "no" => \A e \in Executor : Waits(e)

\* Where every spawn is a part of a block, tasks are charged to the block they
\* were written in.
Lexical ==
    /\ lex[0] = None
    /\ \A t \in Live : region[t] = lex[t]
PartsOnly == "spawn" \notin TaskOps

-----------------------------------------------------------------------------
(* The pool *)

\* The pool is filled with every slot once.
LEMMA PoolOrderFacts ==
    ASSUME PoolAssumption
    PROVE  /\ PoolOrder \in Seq(Region) /\ Distinct(PoolOrder)
           /\ \A r \in Region : \E i \in 1 .. Len(PoolOrder) : PoolOrder[i] = r
<1> DEFINE n == Cardinality(Region)
<1>1. n \in Nat /\ IsFiniteSet(Region)
  BY FS_CardinalityType DEF PoolAssumption
<1>2. \E s \in [1 .. n -> Region] :
         \A i, j \in DOMAIN s : s[i] = s[j] => i = j
  <2>1. PICK f : f \in Bijection(1 .. n, Region)
    BY FS_CardinalityType DEF PoolAssumption, ExistsBijection
  <2> QED  BY <2>1 DEF Bijection, Injection, IsInjective
<1>3. /\ PoolOrder \in [1 .. n -> Region]
      /\ \A i, j \in DOMAIN PoolOrder : PoolOrder[i] = PoolOrder[j] => i = j
  BY <1>2 DEF PoolOrder
<1>4. PoolOrder \in Seq(Region) /\ Len(PoolOrder) = n
  BY <1>1, <1>3, IsASeq, LenProperties
<1>5. Distinct(PoolOrder)
  BY <1>3, <1>4 DEF Distinct
<1>6. \A r \in Region : \E i \in 1 .. n : PoolOrder[i] = r
  <2>1. PoolOrder \in Injection(1 .. n, Region)
    BY <1>3 DEF Injection, IsInjective
  <2>2. IsFiniteSet(1 .. n) /\ Cardinality(1 .. n) = n
    BY <1>1, FS_Interval
  <2>3. PoolOrder \in Surjection(1 .. n, Region)
    BY <1>1, <2>1, <2>2, FS_Injection
  <2> QED  BY <2>3 DEF Surjection
<1> QED  BY <1>4, <1>5, <1>6

LEMMA SlotsFill ==
    ASSUME PoolAssumption, NEW hold,
           SlotsOf(hold, <<>>), \A e \in Executor : hold[e] = <<>>
    PROVE  SlotsOf(hold, FullPool)
<1>1. \A e \in Executor : 1 .. Len(hold[e]) = {}
  OBVIOUS
<1> QED  BY <1>1, PoolOrderFacts DEF SlotsOf, FullPool

\* A block takes the last free slot.
LEMMA SlotsTake ==
    ASSUME NEW hold \in [Executor -> Seq(Region)], NEW free \in Seq(Region),
           SlotsOf(hold, free), free # <<>>, NEW e \in Executor
    PROVE  SlotsOf([hold EXCEPT ![e] = Append(@, Last(free))], Front(free))
<1> DEFINE x == Last(free)
           f == Front(free)
           h == [hold EXCEPT ![e] = Append(hold[e], x)]
           n == Len(hold[e])
<1>1. /\ Len(free) \in Nat \ {0} /\ x \in Region /\ x = free[Len(free)]
      /\ f \in Seq(Region) /\ Len(f) = Len(free) - 1
      /\ \A i \in 1 .. Len(free) - 1 : f[i] = free[i]
  BY FrontFacts DEF Last
<1>2. /\ n \in Nat /\ Len(h[e]) = n + 1 /\ h[e][n + 1] = x
      /\ \A i \in 1 .. n : h[e][i] = hold[e][i]
  BY <1>1, AppendFacts, LenProperties
<1>3. \A d \in Executor : d # e => h[d] = hold[d]
  OBVIOUS
<1> HIDE DEF x, f, h
<1>4. ASSUME NEW d \in Executor, NEW i \in 1 .. Len(h[d])
      PROVE  \/ i \in 1 .. Len(hold[d]) /\ h[d][i] = hold[d][i]
             \/ d = e /\ i = n + 1 /\ h[d][i] = x
  BY <1>2, <1>3
<1>5. \A d \in Executor : \A i \in 1 .. Len(hold[d]) : hold[d][i] # x
  BY <1>1 DEF SlotsOf
<1>6. \A i \in 1 .. Len(f) : i \in 1 .. Len(free) /\ f[i] = free[i] /\ f[i] # x
  BY <1>1 DEF SlotsOf, Distinct
<1>7. Distinct(f)
  BY <1>6 DEF SlotsOf, Distinct
<1>8. ASSUME NEW c \in Executor, NEW d \in Executor,
             NEW i \in 1 .. Len(h[c]), NEW j \in 1 .. Len(h[d]), h[c][i] = h[d][j]
      PROVE  c = d /\ i = j
  <2>1. \/ i \in 1 .. Len(hold[c]) /\ h[c][i] = hold[c][i]
        \/ c = e /\ i = n + 1 /\ h[c][i] = x
    BY <1>4
  <2>2. \/ j \in 1 .. Len(hold[d]) /\ h[d][j] = hold[d][j]
        \/ d = e /\ j = n + 1 /\ h[d][j] = x
    BY <1>4
  <2> HIDE DEF n
  <2> QED  BY <1>5, <1>8, <2>1, <2>2 DEF SlotsOf
<1>9. ASSUME NEW d \in Executor, NEW i \in 1 .. Len(f), NEW j \in 1 .. Len(h[d])
      PROVE  f[i] # h[d][j]
  <2>1. i \in 1 .. Len(free) /\ f[i] = free[i] /\ f[i] # x
    BY <1>6
  <2>2. \/ j \in 1 .. Len(hold[d]) /\ h[d][j] = hold[d][j]
        \/ d = e /\ j = n + 1 /\ h[d][j] = x
    BY <1>4
  <2> HIDE DEF n
  <2> QED  BY <2>1, <2>2 DEF SlotsOf
<1>10. ASSUME NEW r \in Region
       PROVE  \/ \E i \in 1 .. Len(f) : f[i] = r
              \/ \E d \in Executor : \E i \in 1 .. Len(h[d]) : h[d][i] = r
  <2>1. CASE \E i \in 1 .. Len(free) : free[i] = r
    <3>1. PICK i \in 1 .. Len(free) : free[i] = r
      BY <2>1
    <3>2. CASE i = Len(free)
      <4>1. n + 1 \in 1 .. Len(h[e]) /\ h[e][n + 1] = r
        BY <1>1, <1>2, <3>1, <3>2
      <4> QED  BY <4>1
    <3>3. CASE i # Len(free)
      BY <1>1, <3>1, <3>3
    <3> QED  BY <3>2, <3>3
  <2>2. ASSUME NEW d \in Executor, NEW i \in 1 .. Len(hold[d]), hold[d][i] = r
        PROVE  \E c \in Executor : \E j \in 1 .. Len(h[c]) : h[c][j] = r
    <3>1. i \in 1 .. Len(h[d]) /\ h[d][i] = r
      BY <1>2, <1>3, <2>2
    <3> QED  BY <3>1
  <2>3. Len(free) # 0
    BY <1>1
  <2>4. \/ \E i \in 1 .. Len(free) : free[i] = r
        \/ \E d \in Executor : \E i \in 1 .. Len(hold[d]) : hold[d][i] = r
    BY <2>3 DEF SlotsOf
  <2> QED  BY <2>1, <2>2, <2>4
<1>11. SlotsOf(h, f)
  BY <1>7, <1>8, <1>9, <1>10 DEF SlotsOf
<1> QED  BY <1>11 DEF h, f, x

\* The last slot of an executor goes back.
LEMMA SlotsGive ==
    ASSUME NEW hold \in [Executor -> Seq(Region)], NEW free \in Seq(Region),
           SlotsOf(hold, free), NEW e \in Executor, hold[e] # <<>>
    PROVE  SlotsOf([hold EXCEPT ![e] = Front(@)], Append(free, Last(hold[e])))
<1> DEFINE x == Last(hold[e])
           f == Append(free, x)
           h == [hold EXCEPT ![e] = Front(hold[e])]
           n == Len(hold[e])
           m == Len(free)
<1>1. /\ n \in Nat \ {0} /\ x \in Region /\ x = hold[e][n]
      /\ Len(h[e]) = n - 1
      /\ \A i \in 1 .. n - 1 : h[e][i] = hold[e][i]
  BY FrontFacts DEF Last
<1>2. /\ m \in Nat /\ Len(f) = m + 1 /\ f[m + 1] = x
      /\ \A i \in 1 .. m : f[i] = free[i]
  BY <1>1, AppendFacts, LenProperties
<1>3. \A d \in Executor : d # e => h[d] = hold[d]
  OBVIOUS
<1>4. n \in 1 .. Len(hold[e])
  BY <1>1
<1> HIDE DEF x, f, h, m
<1>5. ASSUME NEW d \in Executor, NEW i \in 1 .. Len(h[d])
      PROVE  i \in 1 .. Len(hold[d]) /\ h[d][i] = hold[d][i] /\ h[d][i] # x
  <2>1. i \in 1 .. Len(hold[d]) /\ h[d][i] = hold[d][i] /\ ~(d = e /\ i = n)
    BY <1>1, <1>3
  <2> QED  BY <1>1, <1>4, <2>1 DEF SlotsOf
<1>6. ASSUME NEW i \in 1 .. Len(f)
      PROVE  \/ i \in 1 .. Len(free) /\ f[i] = free[i]
             \/ i = m + 1 /\ f[i] = x
  BY <1>2 DEF m
<1>7. \A i \in 1 .. Len(free) : free[i] # x
  BY <1>1, <1>4, SMTT(20) DEF SlotsOf
<1>8. Distinct(f)
  <2> SUFFICES ASSUME NEW i \in 1 .. Len(f), NEW j \in 1 .. Len(f), f[i] = f[j] PROVE i = j
    BY DEF Distinct
  <2>1. \/ i \in 1 .. Len(free) /\ f[i] = free[i]
        \/ i = m + 1 /\ f[i] = x
    BY <1>6
  <2>2. \/ j \in 1 .. Len(free) /\ f[j] = free[j]
        \/ j = m + 1 /\ f[j] = x
    BY <1>6
  <2>3. Distinct(free)
    BY DEF SlotsOf
  <2> HIDE DEF n
  <2> QED  BY <1>7, <2>1, <2>2, <2>3 DEF Distinct
<1>9. \A c, d \in Executor : \A i \in 1 .. Len(h[c]), j \in 1 .. Len(h[d]) :
         h[c][i] = h[d][j] => c = d /\ i = j
  BY <1>5 DEF SlotsOf
<1>10. ASSUME NEW d \in Executor, NEW i \in 1 .. Len(f), NEW j \in 1 .. Len(h[d])
       PROVE  f[i] # h[d][j]
  <2>1. \/ i \in 1 .. Len(free) /\ f[i] = free[i]
        \/ i = m + 1 /\ f[i] = x
    BY <1>6
  <2>2. j \in 1 .. Len(hold[d]) /\ h[d][j] = hold[d][j] /\ h[d][j] # x
    BY <1>5
  <2> HIDE DEF n
  <2> QED  BY <2>1, <2>2 DEF SlotsOf
<1>11. ASSUME NEW r \in Region
       PROVE  \/ \E i \in 1 .. Len(f) : f[i] = r
              \/ \E d \in Executor : \E i \in 1 .. Len(h[d]) : h[d][i] = r
  <2>1. ASSUME NEW i \in 1 .. Len(free), free[i] = r
        PROVE  \E j \in 1 .. Len(f) : f[j] = r
    <3>1. i \in 1 .. Len(f) /\ f[i] = r
      BY <1>2, <2>1 DEF m
    <3> QED  BY <3>1
  <2>2. ASSUME NEW d \in Executor, NEW i \in 1 .. Len(hold[d]), hold[d][i] = r
        PROVE  \/ \E j \in 1 .. Len(f) : f[j] = r
               \/ \E c \in Executor : \E j \in 1 .. Len(h[c]) : h[c][j] = r
    <3>1. CASE d = e /\ i = n
      <4>1. m + 1 \in 1 .. Len(f) /\ f[m + 1] = r
        BY <1>1, <1>2, <2>2, <3>1
      <4> QED  BY <4>1
    <3>2. CASE ~(d = e /\ i = n)
      <4>1. i \in 1 .. Len(h[d]) /\ h[d][i] = r
        BY <1>1, <1>3, <2>2, <3>2
      <4> QED  BY <4>1
    <3> QED  BY <3>1, <3>2
  <2>3. \/ \E i \in 1 .. Len(free) : free[i] = r
        \/ \E d \in Executor : \E i \in 1 .. Len(hold[d]) : hold[d][i] = r
    BY DEF SlotsOf
  <2> QED  BY <2>1, <2>2, <2>3
<1>12. SlotsOf(h, f)
  BY <1>8, <1>9, <1>10, <1>11 DEF SlotsOf
<1> QED  BY <1>12 DEF h, f, x

\* An executor that may still open a block finds a free slot.
LEMMA SlotsLeft ==
    ASSUME PoolAssumption, SlotsEnough, NEW hold \in [Executor -> Seq(Region)],
           SlotsOf(hold, <<>>), \A d \in Executor : Len(hold[d]) <= MaxDepth,
           NEW e \in Executor, Len(hold[e]) < MaxDepth
    PROVE  \A d \in Executor : hold[d] = <<>>
<1> SUFFICES ASSUME ~(\A d \in Executor : hold[d] = <<>>) PROVE FALSE
  OBVIOUS
<1> DEFINE P == Executor \X (1 .. MaxDepth)
           Q == P \ {<<e, MaxDepth>>}
           at(r) == CHOOSE p \in Q : p[2] \in 1 .. Len(hold[p[1]]) /\ hold[p[1]][p[2]] = r
<1>1. \A d \in Executor : Len(hold[d]) \in Nat
  BY LenProperties
<1>2. MaxDepth \in Nat \ {0}
  BY <1>1 DEF PoolAssumption
<1>3. \A r \in Region : \E d \in Executor : \E i \in 1 .. Len(hold[d]) : hold[d][i] = r
  <2>1. 1 .. Len(<<>>) = {}
    OBVIOUS
  <2> QED  BY <2>1 DEF SlotsOf
<1>4. ASSUME NEW r \in Region
      PROVE  /\ at(r) \in Q /\ at(r)[2] \in 1 .. Len(hold[at(r)[1]])
             /\ hold[at(r)[1]][at(r)[2]] = r
  <2>0. PICK d \in Executor : \E i \in 1 .. Len(hold[d]) : hold[d][i] = r
    BY <1>3
  <2>1. PICK i \in 1 .. Len(hold[d]) : hold[d][i] = r
    BY <2>0
  <2>2. i \in 1 .. MaxDepth /\ ~(d = e /\ i = MaxDepth)
    BY <1>1, <1>2, <2>1
  <2>3. \E p \in Q : p[2] \in 1 .. Len(hold[p[1]]) /\ hold[p[1]][p[2]] = r
    <3> DEFINE p == <<d, i>>
    <3>1. p \in Q /\ p[1] = d /\ p[2] = i
      BY <2>1, <2>2
    <3> HIDE DEF p
    <3> QED  BY <2>1, <3>1
  <2> HIDE DEF P, Q
  <2> QED  BY <2>3
<1> HIDE DEF at
<1> DEFINE f == [r \in Region |-> at(r)]
<1>5. f \in Injection(Region, Q)
  <2>1. \A r, s \in Region : at(r) = at(s) => r = s
    BY <1>4
  <2> QED  BY <1>4, <2>1 DEF Injection, IsInjective
<1>6. IsFiniteSet(Executor) /\ IsFiniteSet(1 .. MaxDepth) /\ Cardinality(1 .. MaxDepth) = MaxDepth
  BY <1>2, FS_AddElement, FS_Interval, SMTT(20) DEF PoolAssumption, Executor
<1>7. IsFiniteSet(P) /\ Cardinality(P) = Cardinality(Executor) * MaxDepth
  BY <1>6, FS_Product
<1>8. <<e, MaxDepth>> \in P
  BY <1>2
<1>9. IsFiniteSet(Q) /\ Cardinality(Q) = Cardinality(P) - 1
  <2> HIDE DEF P
  <2> QED  BY <1>7, <1>8, FS_RemoveElement
<1>10. Cardinality(Region) <= Cardinality(Q)
  BY <1>5, <1>9, FS_Injection
<1>11. /\ Cardinality(Region) \in Nat /\ Cardinality(P) \in Nat
       /\ Cardinality(P) <= Cardinality(Region)
  BY <1>7, FS_CardinalityType DEF PoolAssumption, SlotsEnough
<1> QED  BY <1>9, <1>10, <1>11

-----------------------------------------------------------------------------
(* What a step does to the slots executors hold *)

LEMMA HoldFacts ==
    ASSUME TypeOK, Frames
    PROVE  Holds \in [Executor -> Seq(Region)]
<1>1. ASSUME NEW e \in Executor
      PROVE  Hold(e) \in Seq(Region)
  <2>1. CASE Putting(e)
    <3>1. Top(e).arg \in Region
      BY <2>1, AtFacts DEF Frames, FramesOK, Putting
    <3> QED  BY <2>1, <3>1, BlockFacts, AppendFacts DEF Hold
  <2>2. CASE ~Putting(e)
    BY <2>2, BlockFacts DEF Hold
  <2> QED  BY <2>1, <2>2
<1> QED  BY <1>1 DEF Holds

\* The slots of its open blocks come first among those it holds.
LEMMA HoldsBlocks ==
    ASSUME TypeOK, Frames
    PROVE  \A e \in Executor : \A i \in 1 .. Len(blocks[e]) :
              i \in 1 .. Len(Holds[e]) /\ Holds[e][i] = blocks[e][i]
<1>1. ASSUME NEW e \in Executor, NEW i \in 1 .. Len(blocks[e])
      PROVE  i \in 1 .. Len(Hold(e)) /\ Hold(e)[i] = blocks[e][i]
  <2>1. CASE Putting(e)
    <3>1. Top(e).arg \in Region
      BY <2>1, AtFacts DEF Frames, FramesOK, Putting
    <3> QED  BY <2>1, <3>1, BlockFacts, AppendFacts DEF Hold
  <2>2. CASE ~Putting(e)
    BY <2>2 DEF Hold
  <2> QED  BY <2>1, <2>2
<1> QED  BY <1>1 DEF Holds

\* A step that changes one stack: what its executor holds, and where it may be
\* giving back.
LEMMA OneStack ==
    ASSUME TypeOK, Putters, NEW e \in Executor, NEW s \in Seq(Activation),
           stack' = [stack EXCEPT ![e] = s], blocks' = blocks,
           NoPut(s), ~Putting(e)
    PROVE  Holds' = Holds /\ Putters'
<1>1. \A d \in Executor : stack'[d] = IF d = e THEN s ELSE stack[d]
  BY DEF TypeOK
<1>2. ~Putting(e)'
  <2>1. s # <<>> => Len(s) \in 1 .. Len(s)
    BY LenProperties, EmptySeq
  <2> QED  BY <1>1, <2>1 DEF Putting, Top, NoPut, Last
<1>3. \A d \in Executor : Hold(d)' = Hold(d)
  BY <1>1, <1>2 DEF Hold, Putting, Top
<1>4. Putters'
  BY <1>1, LenProperties DEF Putters, NoPut
<1> QED  BY <1>3, <1>4 DEF Holds

LEMMA NotPutting ==
    ASSUME TypeOK, Putters, NEW e \in Executor, ~Putting(e)
    PROVE  NoPut(stack[e])
<1>1. CASE stack[e] = <<>>
  BY <1>1, EmptySeq DEF NoPut
<1>2. CASE stack[e] # <<>>
  BY <1>2, AtFacts DEF NoPut, Putters, Putting
<1> QED  BY <1>1, <1>2

LEMMA HoldCall ==
    ASSUME TypeOK, Putters, NEW e \in Executor, stack[e] # <<>>, ~Putting(e),
           NEW op \in CallOp, NEW arg \in Task \cup Region \cup {None},
           op # "put"
    PROVE  NoPut(InCall(e, op, arg)) /\ InCall(e, op, arg) \in Seq(Activation)
<1> DEFINE s == stack[e]
           c == Call(s, op, arg)
<1>1. s \in Seq(Activation) /\ s # <<>> /\ NoPut(s) /\ InCall(e, op, arg) = c
  BY AtFacts, NotPutting
<1>2. /\ Len(c) = Len(s)
      /\ \A i \in 1 .. Len(s) : i # Len(s) => c[i] = s[i]
      /\ c[Len(s)].op = op
  BY <1>1, CallFacts
<1>3. c \in Seq(Activation)
  BY <1>1, CallType
<1> HIDE DEF c, s
<1>4. NoPut(c)
  BY <1>1, <1>2 DEF NoPut
<1> QED  BY <1>1, <1>3, <1>4

LEMMA HoldStart ==
    ASSUME TypeOK, Putters, NEW e \in Executor, NEW t \in Task, ~Putting(e),
           NEW below \in Seq(Activation), NoPut(below), Start(e, t, below)
    PROVE  freeList' = freeList /\ Holds' = Holds /\ Putters'
<1> DEFINE a == Activate(t, e)
           s == Append(below, a)
<1>1. a \in Activation /\ a.op = "body"
  BY BlockFacts DEF Activate, Activation, Task
<1>2. /\ s \in Seq(Activation) /\ Len(below) \in Nat
      /\ Len(s) = Len(below) + 1 /\ s[Len(below) + 1] = a
      /\ \A i \in 1 .. Len(below) : s[i] = below[i]
  BY <1>1, AppendFacts, LenProperties
<1>3. stack' = [stack EXCEPT ![e] = s] /\ blocks' = blocks /\ freeList' = freeList
  BY DEF Start
<1> HIDE DEF a, s
<1>4. NoPut(s)
  BY <1>1, <1>2 DEF NoPut
<1> QED  BY <1>2, <1>3, <1>4, OneStack

LEMMA HoldSame ==
    ASSUME Putters, stack' = stack, blocks' = blocks
    PROVE  Holds' = Holds /\ Putters'
  BY DEF Holds, Hold, Putting, Top, Putters

\* Every step leaves the pool alone, or takes a slot from it for an executor
\* that is not at its depth limit, or gives back the last slot of an executor.
Takes1(e) ==
    /\ ~Putting(e) /\ Len(blocks[e]) < MaxDepth
    /\ freeList' = Front(Pool)
    /\ Holds' = [Holds EXCEPT ![e] = Append(@, Last(Pool))]
Gives1(e) ==
    /\ Holds[e] # <<>>
    /\ freeList' = Append(freeList, Last(Holds[e]))
    /\ Holds' = [Holds EXCEPT ![e] = Front(@)]

LEMMA BeginTakes ==
    ASSUME PoolAssumption, TypeOK, Frames, Putters, NEW e \in Executor,
           RegionBegin(e)
    PROVE  /\ Putters'
           /\ (freeList' = freeList /\ Holds' = Holds) \/ Takes1(e)
<1>1. stack[e] # <<>> /\ ~Putting(e) /\ stack' = stack
  BY DEF RegionBegin, At, Putting
<1>2. Putters'
  BY <1>1 DEF Putters
<1>3. CASE Len(blocks[e]) >= MaxDepth
  BY <1>1, <1>3, HoldSame DEF RegionBegin
<1>4. CASE ~(Len(blocks[e]) >= MaxDepth)
  <2>1. /\ freeList' = Front(Pool)
        /\ blocks' = [blocks EXCEPT ![e] = Append(blocks[e], Last(Pool))]
    BY <1>4 DEF RegionBegin
  <2>2. ASSUME NEW d \in Executor
        PROVE  Hold(d)' = IF d = e THEN Append(Hold(d), Last(Pool)) ELSE Hold(d)
    <3>1. Putting(d)' = Putting(d) /\ Top(d)' = Top(d)
      BY <1>1 DEF Putting, Top
    <3>2. blocks'[d] = IF d = e THEN Append(blocks[d], Last(Pool)) ELSE blocks[d]
      BY <2>1 DEF TypeOK
    <3> QED  BY <1>1, <3>1, <3>2 DEF Hold
  <2>3. Holds' = [Holds EXCEPT ![e] = Append(@, Last(Pool))]
    BY <2>2 DEF Holds
  <2>4. Len(blocks[e]) < MaxDepth
    BY <1>4, BlockFacts DEF PoolAssumption
  <2> QED  BY <1>1, <1>2, <2>1, <2>3, <2>4 DEF Takes1
<1> QED  BY <1>3, <1>4

\* The slot of a block that closes is held until it is back on the free list.
LEMMA DoneHolds ==
    ASSUME TypeOK, Frames, Putters, NEW e \in Executor, JoinDone(e)
    PROVE  freeList' = freeList /\ Holds' = Holds /\ Putters'
<1> DEFINE r == Last(blocks[e])
           s == stack[e]
           c == Call(s, "put", r)
<1>1. s # <<>> /\ blocks[e] # <<>> /\ ~Putting(e)
  BY OwnsFacts DEF JoinDone, Joining, At, Putting
<1>2. /\ r \in Region /\ s \in Seq(Activation)
      /\ Append(Front(blocks[e]), r) = blocks[e]
  BY <1>1, AtFacts, BlockFacts, PopPush
<1>3. /\ Len(c) = Len(s) /\ Len(s) \in Nat \ {0}
      /\ \A i \in 1 .. Len(s) : i # Len(s) => c[i] = s[i]
      /\ c[Len(s)].op = "put" /\ c[Len(s)].arg = r
  BY <1>1, <1>2, CallFacts DEF CallOp
<1>4. /\ freeList' = freeList
      /\ blocks' = [blocks EXCEPT ![e] = Front(blocks[e])]
      /\ stack' = [stack EXCEPT ![e] = c]
  BY <1>1, AtFacts DEF JoinDone
<1> HIDE DEF c
<1>5. \A d \in Executor :
         /\ stack'[d] = IF d = e THEN c ELSE stack[d]
         /\ blocks'[d] = IF d = e THEN Front(blocks[e]) ELSE blocks[d]
  BY <1>4 DEF TypeOK
<1>6. NoPut(s)
  BY <1>1, NotPutting
<1>7. Putters'
  <2>1. ASSUME NEW d \in Executor, NEW i \in 1 .. Len(stack'[d]) - 1
        PROVE  stack'[d][i].op # "put"
    <3>1. CASE d = e
      BY <1>3, <1>5, <1>6, <3>1 DEF NoPut
    <3>2. CASE d # e
      BY <1>5, <3>2 DEF Putters
    <3> QED  BY <3>1, <3>2
  <2> QED  BY <2>1 DEF Putters
<1>8. c # <<>> /\ Last(c) = c[Len(s)]
  BY <1>3, EmptySeq DEF Last
<1>9. ASSUME NEW d \in Executor
      PROVE  Hold(d)' = Hold(d)
  <2>1. CASE d = e
    <3>1. stack'[d] = c /\ blocks'[d] = Front(blocks[d]) /\ Top(d)' = Last(c)
      BY <1>5, <2>1 DEF Top
    <3>2. Hold(d)' = Append(Front(blocks[d]), r)
      BY <1>3, <1>8, <3>1 DEF Hold, Putting
    <3> QED  BY <1>1, <1>2, <2>1, <3>2 DEF Hold
  <2>2. CASE d # e
    BY <1>5, <2>2 DEF Hold, Putting, Top
  <2> QED  BY <2>1, <2>2
<1> QED  BY <1>4, <1>7, <1>9 DEF Holds

LEMMA PutGives ==
    ASSUME TypeOK, Frames, Putters, NEW e \in Executor, RegionPut(e)
    PROVE  Putters' /\ Gives1(e)
<1> DEFINE x == Top(e).arg
           s == stack[e]
           c == Call(s, "body", None)
<1>1. s # <<>> /\ Putting(e) /\ x \in Region /\ s \in Seq(Activation)
  BY AtFacts DEF RegionPut, At, Putting, Frames, FramesOK
<1>2. /\ Len(c) = Len(s) /\ Len(s) \in Nat \ {0}
      /\ \A i \in 1 .. Len(s) : i # Len(s) => c[i] = s[i]
      /\ c[Len(s)].op = "body"
  BY <1>1, CallFacts DEF CallOp
<1>3. /\ freeList' = Append(freeList, x) /\ blocks' = blocks
      /\ stack' = [stack EXCEPT ![e] = c]
  BY <1>1, AtFacts DEF RegionPut
<1>4. Hold(e) = Append(blocks[e], x) /\ blocks[e] \in Seq(Region)
  BY <1>1, BlockFacts DEF Hold
<1>5. Hold(e) # <<>> /\ Last(Hold(e)) = x /\ Front(Hold(e)) = blocks[e]
  BY <1>1, <1>4, PushPop
<1> HIDE DEF c, x
<1>6. \A d \in Executor : stack'[d] = IF d = e THEN c ELSE stack[d]
  BY <1>3 DEF TypeOK
<1>7. Putters'
  <2>1. ASSUME NEW d \in Executor, NEW i \in 1 .. Len(stack'[d]) - 1
        PROVE  stack'[d][i].op # "put"
    <3>1. CASE d = e
      BY <1>2, <1>6, <3>1 DEF Putters
    <3>2. CASE d # e
      BY <1>6, <3>2 DEF Putters
    <3> QED  BY <3>1, <3>2
  <2> QED  BY <2>1 DEF Putters
<1>8. Last(c).op = "body"
  BY <1>2 DEF Last
<1>9. \A d \in Executor : Hold(d)' = IF d = e THEN Front(Hold(e)) ELSE Hold(d)
  BY <1>3, <1>5, <1>6, <1>8 DEF Hold, Putting, Top
<1>10. Holds' = [Holds EXCEPT ![e] = Front(@)]
  BY <1>9 DEF Holds
<1> QED  BY <1>3, <1>5, <1>7, <1>10 DEF Gives1, Holds

Quiet == freeList' = freeList /\ Holds' = Holds

LEMMA HoldStep ==
    ASSUME PoolAssumption, TypeOK, Frames, Putters, [Next]_vars
    PROVE  /\ Putters'
           /\ Quiet \/ \E e \in Executor : Takes1(e) \/ Gives1(e)
<1> DEFINE Goal == Putters' /\ (Quiet \/ \E e \in Executor : Takes1(e) \/ Gives1(e))
<1>1. ASSUME UNCHANGED <<stack, blocks, freeList>>
      PROVE  Goal
  BY <1>1, HoldSame DEF Quiet
<1>2. ASSUME NEW e \in Executor, Spawn(e)
      PROVE  Goal
  BY <1>1, <1>2 DEF Spawn
<1>3. ASSUME NEW e \in Executor, Finish(e)
      PROVE  Goal
  <2>1. /\ stack[e] # <<>> /\ ~Putting(e)
        /\ stack' = [stack EXCEPT ![e] = Front(stack[e])]
        /\ UNCHANGED <<blocks, freeList>>
    BY <1>3 DEF Finish, At, Putting
  <2>2. stack[e] \in Seq(Activation) /\ Front(stack[e]) \in Seq(Activation)
    BY <2>1, AtFacts
  <2>3. NoPut(Front(stack[e]))
    <3> DEFINE s == stack[e]
               f == Front(s)
    <3>1. /\ Len(s) \in Nat \ {0} /\ Len(f) = Len(s) - 1
          /\ \A i \in 1 .. Len(s) - 1 : f[i] = s[i]
      BY <2>1, <2>2, FrontFacts
    <3>2. \A i \in 1 .. Len(s) - 1 : s[i].op # "put"
      BY DEF Putters
    <3> HIDE DEF f, s
    <3>3. NoPut(f)
      BY <3>1, <3>2 DEF NoPut
    <3> QED  BY <3>3 DEF f, s
  <2> QED  BY <2>1, <2>2, <2>3, OneStack DEF Quiet
<1>4. ASSUME NEW e \in Executor, NEW op \in CallOp,
             NEW arg \in Task \cup Region \cup {None}, op # "put",
             stack[e] # <<>>, ~Putting(e),
             stack' = [stack EXCEPT ![e] = InCall(e, op, arg)],
             UNCHANGED <<blocks, freeList>>
      PROVE  Goal
  BY <1>4, HoldCall, OneStack DEF Quiet
<1>5. ASSUME NEW e \in Executor, NEW t \in Task, NEW below \in Seq(Activation),
             ~Putting(e), NoPut(below), Start(e, t, below)
      PROVE  Goal
  BY <1>5, HoldStart DEF Quiet
<1>6. ASSUME NEW e \in Executor, NEW t \in Task, WaitSteal(e, t)
      PROVE  Goal
  <2>1. stack[e] # <<>> /\ ~Putting(e) /\ Start(e, t, stack[e])
    BY <1>6 DEF WaitSteal, At, Putting
  <2> QED  BY <1>5, <2>1, AtFacts, NotPutting
<1>7. ASSUME NEW e \in Executor, NEW t \in Task, WaitSleep(e, t)
      PROVE  Goal
  <2>1. /\ stack[e] # <<>> /\ ~Putting(e)
        /\ stack' = [stack EXCEPT ![e] = InCall(e, "wait", t)]
        /\ UNCHANGED <<blocks, freeList>>
    BY <1>7 DEF WaitSleep, At, Putting
  <2> QED  BY <1>4, <2>1 DEF CallOp
<1>8. ASSUME NEW e \in Executor, NEW t \in Task, Cancel(e, t)
      PROVE  Goal
  BY <1>1, <1>8 DEF Cancel
<1>9. ASSUME NEW e \in Executor, WaitAgain(e)
      PROVE  Goal
  <2>1. stack[e] # <<>> /\ ~Putting(e) /\ UNCHANGED <<blocks, freeList>>
    BY <1>9 DEF WaitAgain, At, Putting
  <2>2. CASE stack' = [stack EXCEPT ![e] = InCall(e, "body", None)]
    BY <1>4, <2>1, <2>2 DEF CallOp
  <2>3. CASE stack' = stack
    BY <1>1, <2>1, <2>3
  <2> QED  BY <1>9, <2>2, <2>3 DEF WaitAgain
<1>10. ASSUME NEW e \in Executor, RegionBegin(e)
       PROVE  Goal
  BY <1>10, BeginTakes DEF Quiet
<1>11. ASSUME NEW e \in Executor, JoinDone(e)
       PROVE  Goal
  BY <1>11, DoneHolds DEF Quiet
<1>12. ASSUME NEW e \in Executor, JoinSteal(e)
       PROVE  Goal
  <2>1. /\ stack[e] # <<>> /\ ~Putting(e)
        /\ Start(e, Oldest, InCall(e, "join", None))
    BY <1>12 DEF JoinSteal, Joining, At, Putting
  <2>2. Oldest \in Task
    BY <1>12, QueueFacts DEF JoinSteal
  <2>3. /\ NoPut(InCall(e, "join", None))
        /\ InCall(e, "join", None) \in Seq(Activation)
    BY <2>1, HoldCall DEF CallOp
  <2> QED  BY <1>5, <2>1, <2>2, <2>3
<1>13. ASSUME NEW e \in Executor, JoinSleep(e)
       PROVE  Goal
  <2>1. /\ stack[e] # <<>> /\ ~Putting(e)
        /\ stack' = [stack EXCEPT ![e] = InCall(e, "join", None)]
        /\ UNCHANGED <<blocks, freeList>>
    BY <1>13 DEF JoinSleep, Joining, At, Putting
  <2> QED  BY <1>4, <2>1 DEF CallOp
<1>14. ASSUME NEW e \in Executor, RegionPut(e)
       PROVE  Goal
  BY <1>14, PutGives
<1>15. ASSUME NEW e \in Executor, DrainSleep(e)
       PROVE  Goal
  <2>1. stack[e] # <<>> /\ ~Putting(e) /\ UNCHANGED <<blocks, freeList>>
    BY <1>15 DEF DrainSleep, Draining, At, Putting
  <2>2. PICK op \in {"drain", "exit"} :
           stack' = [stack EXCEPT ![e] = InCall(e, op, None)]
    BY <1>15 DEF DrainSleep, DrainOp, Draining, At
  <2> QED  BY <1>4, <2>1, <2>2 DEF CallOp
<1>16. ASSUME NEW e \in Executor, DrainFree(e)
       PROVE  Goal
  <2>1. /\ stack[e] # <<>> /\ ~Putting(e)
        /\ stack' = [stack EXCEPT ![e] = InCall(e, "body", None)]
        /\ UNCHANGED <<blocks, freeList>>
    BY <1>16 DEF DrainFree, Draining, At, Putting
  <2> QED  BY <1>4, <2>1 DEF CallOp
<1>17. ASSUME NEW w \in Worker, WorkerTake(w)
       PROVE  Goal
  <2>1. w \in Executor /\ ~Putting(w) /\ Start(w, Oldest, <<>>)
    BY <1>17 DEF WorkerTake, Putting, Executor
  <2>2. Oldest \in Task
    BY <1>17, QueueFacts DEF WorkerTake
  <2>3. NoPut(<<>>) /\ <<>> \in Seq(Activation)
    BY EmptySeq DEF NoPut
  <2> QED  BY <1>5, <2>1, <2>2, <2>3
<1>18. ASSUME NEW w \in Worker, WorkerSleep(w)
       PROVE  Goal
  BY <1>1, <1>18 DEF WorkerSleep
<1>19. ASSUME UNCHANGED vars
       PROVE  Goal
  BY <1>1, <1>19 DEF vars
<1>20. Goal
  <2> HIDE DEF Goal
  <2> QED
    BY <1>2, <1>3, <1>6, <1>7, <1>8, <1>9, <1>10, <1>11, <1>12, <1>13, <1>14,
       <1>15, <1>16, <1>17, <1>18, <1>19 DEF Next, Step, WorkerStep, Gone
<1> QED  BY <1>20

\* hphl_region_pool_init refills an empty free list; no one holds a slot then.
LEMMA PoolFree ==
    ASSUME PoolAssumption, SlotsEnough, TypeOK, Frames, Slots,
           NEW e \in Executor, ~Putting(e), Len(blocks[e]) < MaxDepth
    PROVE  /\ Pool \in Seq(Region) /\ Pool # <<>> /\ SlotsOf(Holds, Pool)
           /\ \A d \in Executor : \A i \in 1 .. Len(Holds[d]) :
                 Holds[d][i] # Last(Pool)
<1>1. Pool \in Seq(Region) /\ Pool # <<>>
  BY PoolFacts DEF TypeOK
<1>2. Holds \in [Executor -> Seq(Region)] /\ Len(Holds[e]) < MaxDepth
  BY HoldFacts DEF Holds, Hold
<1>3. SlotsOf(Holds, Pool)
  <2>1. CASE freeList # <<>>
    BY <2>1 DEF Pool, Slots
  <2>2. CASE freeList = <<>>
    <3>1. SlotsOf(Holds, <<>>) /\ \A d \in Executor : Len(Holds[d]) <= MaxDepth
      BY <2>2 DEF Slots
    <3>2. \A d \in Executor : Holds[d] = <<>>
      BY <1>2, <3>1, SlotsLeft
    <3>3. SlotsOf(Holds, FullPool)
      BY <3>1, <3>2, SlotsFill
    <3> QED  BY <2>2, <3>3 DEF Pool
  <2> QED  BY <2>1, <2>2
<1>4. Len(Pool) \in 1 .. Len(Pool) /\ Last(Pool) = Pool[Len(Pool)]
  BY <1>1, FrontFacts DEF Last
<1> QED  BY <1>1, <1>3, <1>4 DEF SlotsOf

LEMMA SlotsStep ==
    ASSUME PoolAssumption, SlotsEnough, TypeOK, Frames, Putters, Slots,
           [Next]_vars
    PROVE  Putters' /\ Slots'
<1> DEFINE Fit(h) == \A d \in Executor : Len(h[d]) <= MaxDepth
<1>1. Holds \in [Executor -> Seq(Region)] /\ MaxDepth \in Nat
  BY HoldFacts DEF PoolAssumption
<1>2. \A d \in Executor : Len(Holds[d]) \in Nat
  BY <1>1, LenProperties
<1>3. SlotsOf(Holds, freeList) /\ Fit(Holds) /\ freeList \in Seq(Region)
  BY DEF Slots, TypeOK
<1>4. ASSUME NEW e \in Executor, Takes1(e)
      PROVE  SlotsOf(Holds', freeList') /\ Fit(Holds')
  <2>1. /\ Pool \in Seq(Region) /\ Pool # <<>> /\ SlotsOf(Holds, Pool)
        /\ Last(Pool) \in Region
    BY <1>4, PoolFree, FrontFacts DEF Takes1
  <2>2. /\ freeList' = Front(Pool)
        /\ Holds' = [Holds EXCEPT ![e] = Append(Holds[e], Last(Pool))]
    BY <1>4 DEF Takes1
  <2>3. SlotsOf(Holds', freeList')
    BY <1>1, <2>1, <2>2, SlotsTake
  <2>4. Len(Holds[e]) < MaxDepth
    BY <1>4 DEF Takes1, Holds, Hold
  <2>5. Len(Append(Holds[e], Last(Pool))) = Len(Holds[e]) + 1
    BY <1>1, <2>1, AppendFacts
  <2>6. Fit(Holds')
    BY <1>1, <1>2, <1>3, <2>2, <2>4, <2>5
  <2> QED  BY <2>3, <2>6
<1>5. ASSUME NEW e \in Executor, Gives1(e)
      PROVE  SlotsOf(Holds', freeList') /\ Fit(Holds')
  <2>1. /\ Holds[e] # <<>> /\ freeList' = Append(freeList, Last(Holds[e]))
        /\ Holds' = [Holds EXCEPT ![e] = Front(Holds[e])]
    BY <1>5 DEF Gives1
  <2>2. SlotsOf(Holds', freeList')
    BY <1>1, <1>3, <2>1, SlotsGive
  <2>3. Len(Front(Holds[e])) = Len(Holds[e]) - 1
    BY <1>1, <2>1, FrontFacts
  <2>4. Fit(Holds')
    BY <1>1, <1>2, <1>3, <2>1, <2>3
  <2> QED  BY <2>2, <2>4
<1>6. ASSUME Quiet
      PROVE  SlotsOf(Holds', freeList') /\ Fit(Holds')
  <2>1. Holds' = Holds /\ freeList' = freeList
    BY <1>6 DEF Quiet
  <2> QED  BY <1>3, <2>1
<1>7. SlotsOf(Holds', freeList') /\ Fit(Holds')
  <2> HIDE DEF Fit
  <2> QED  BY <1>4, <1>5, <1>6, HoldStep
<1>8. Slots'
  BY <1>7 DEF Slots
<1> QED  BY <1>8, HoldStep

-----------------------------------------------------------------------------
(* The counters *)

LEMMA LiveInFinite ==
    ASSUME PoolAssumption, NEW r
    PROVE  IsFiniteSet(LiveIn(r)) /\ Cardinality(LiveIn(r)) \in Nat
<1>1. IsFiniteSet(Live)
  BY LiveFinite DEF PoolAssumption
<1>2. IsFiniteSet(LiveIn(r))
  BY <1>1, FS_Subset DEF LiveIn
<1> QED  BY <1>2, FS_CardinalityType

\* No block of any executor has slot r.
Unused(r) == \A e \in Executor : \A i \in 1 .. Len(blocks[e]) : blocks[e][i] # r

LEMMA CountsSpawn ==
    ASSUME PoolAssumption, TypeOK, Counts, NEW e \in Executor, Spawn(e)
    PROVE  Counts'
<1>1. PICK t \in Task :
         /\ status[t] = "unborn"
         /\ status' = [status EXCEPT ![t] = "queued"]
         /\ region' = [region EXCEPT ![t] = CurrentRegion(e)]
  BY DEF Spawn
<1>2. /\ count' = [r \in Region |->
                     IF r = CurrentRegion(e) THEN count[r] + 1 ELSE count[r]]
      /\ blocks' = blocks
  BY DEF Spawn
<1>3. ASSUME NEW r \in Region
      PROVE  count'[r] = Cardinality(LiveIn(r)') /\ (Unused(r)' => count'[r] = 0)
  <2>1. IsFiniteSet(LiveIn(r)) /\ count[r] = Cardinality(LiveIn(r))
    BY LiveInFinite DEF Counts
  <2>2. \A u \in Task :
           /\ status'[u] = IF u = t THEN "queued" ELSE status[u]
           /\ region'[u] = IF u = t THEN CurrentRegion(e) ELSE region[u]
    BY <1>1 DEF TypeOK
  <2>3. t \notin LiveIn(r)
    BY <1>1 DEF LiveIn, Live
  <2>4. CASE r = CurrentRegion(e)
    <3>1. LiveIn(r)' = LiveIn(r) \cup {t}
      BY <2>2, <2>4 DEF LiveIn, Live
    <3>2. Cardinality(LiveIn(r) \cup {t}) = Cardinality(LiveIn(r)) + 1
      BY <2>1, <2>3, FS_AddElement
    <3>3. ~Unused(r)'
      <4>1. blocks[e] # <<>> /\ r = Last(blocks[e])
        BY <2>4 DEF CurrentRegion, PoolAssumption
      <4>2. Len(blocks[e]) \in 1 .. Len(blocks[e]) /\ r = blocks[e][Len(blocks[e])]
        BY <4>1, BlockFacts, EmptySeq DEF Last
      <4> QED  BY <1>2, <4>2 DEF Unused
    <3> QED  BY <1>2, <2>1, <2>4, <3>1, <3>2, <3>3
  <2>5. CASE r # CurrentRegion(e)
    <3>1. LiveIn(r)' = LiveIn(r)
      BY <1>1, <2>2, <2>5 DEF LiveIn, Live
    <3>2. Unused(r)' => Unused(r)
      BY <1>2 DEF Unused
    <3>3. Unused(r) => count[r] = 0
      BY DEF Unused, Counts
    <3> QED  BY <1>2, <2>1, <2>5, <3>1, <3>2, <3>3
  <2> QED  BY <2>4, <2>5
<1> QED  BY <1>3 DEF Counts, Unused

LEMMA CountsFinish ==
    ASSUME PoolAssumption, TypeOK, Stacks, Counts, NEW e \in Executor, Finish(e)
    PROVE  Counts'
<1> DEFINE t == Top(e).task
<1>1. /\ stack[e] # <<>> /\ t # 0
      /\ status' = [status EXCEPT ![t] = "done"]
      /\ count' = [r \in Region |->
                     IF r = region[t] THEN count[r] - 1 ELSE count[r]]
      /\ region' = region /\ blocks' = blocks
  BY DEF Finish, At, AfterRun, Charged
<1>2. t \in Task /\ status[t] = "running"
  BY <1>1, TopFacts
<1> HIDE DEF t
<1>3. ASSUME NEW r \in Region
      PROVE  count'[r] = Cardinality(LiveIn(r)') /\ (Unused(r)' => count'[r] = 0)
  <2>1. IsFiniteSet(LiveIn(r)) /\ count[r] = Cardinality(LiveIn(r))
    BY LiveInFinite DEF Counts
  <2>2. \A u \in Task : status'[u] = IF u = t THEN "done" ELSE status[u]
    BY <1>1 DEF TypeOK
  <2>3. LiveIn(r)' = LiveIn(r) \ {t}
    BY <1>1, <2>2 DEF LiveIn, Live
  <2>4. Unused(r)' => count[r] = 0
    BY <1>1 DEF Unused, Counts
  <2>5. t \in LiveIn(r) <=> r = region[t]
    BY <1>2 DEF LiveIn, Live
  <2>6. Cardinality(LiveIn(r) \ {t}) =
           IF t \in LiveIn(r) THEN Cardinality(LiveIn(r)) - 1
                              ELSE Cardinality(LiveIn(r))
    BY <2>1, FS_RemoveElement
  <2>7. r = region[t] => count[r] # 0
    <3>1. LiveIn(r) = {} <=> Cardinality(LiveIn(r)) = 0
      BY <2>1, FS_EmptySet
    <3> QED  BY <2>1, <2>5, <3>1
  <2> QED  BY <1>1, <2>1, <2>3, <2>4, <2>5, <2>6, <2>7
<1> QED  BY <1>3 DEF Counts, Unused

\* A step that changes neither the live tasks nor what they are charged to, and
\* closes no block whose count is not zero.
LEMMA CountsSame ==
    ASSUME Counts, Live' = Live, region' = region, count' = count,
           \A r \in Region : Unused(r)' => Unused(r) \/ count[r] = 0
    PROVE  Counts'
<1>1. \A r \in Region : LiveIn(r)' = LiveIn(r)
  BY DEF LiveIn
<1>2. \A r \in Region : Unused(r) => count[r] = 0
  BY DEF Counts, Unused
<1> QED  BY <1>1, <1>2 DEF Counts, Unused

LEMMA CountsBegin ==
    ASSUME PoolAssumption, SlotsEnough, TypeOK, Frames, Slots, Counts,
           NEW e \in Executor, RegionBegin(e)
    PROVE  Counts' /\ count' = count
<1>1. UNCHANGED <<status, region>> /\ Live' = Live
  BY DEF RegionBegin, Live
<1>2. CASE Len(blocks[e]) >= MaxDepth
  <2>1. UNCHANGED <<count, blocks>>
    BY <1>2 DEF RegionBegin
  <2> QED  BY <1>1, <2>1, CountsSame DEF Unused
<1>3. CASE ~(Len(blocks[e]) >= MaxDepth)
  <2> DEFINE x == Last(Pool)
  <2>1. /\ count' = [count EXCEPT ![x] = 0]
        /\ blocks' = [blocks EXCEPT ![e] = Append(blocks[e], x)]
    BY <1>3 DEF RegionBegin
  <2>2. ~Putting(e) /\ Len(blocks[e]) < MaxDepth
    BY <1>3, BlockFacts DEF RegionBegin, At, Putting, PoolAssumption
  <2>3. /\ x \in Region
        /\ \A d \in Executor : \A i \in 1 .. Len(Holds[d]) : Holds[d][i] # x
    BY <2>2, PoolFree, FrontFacts
  <2> HIDE DEF x
  <2>4. \A d \in Executor : \A i \in 1 .. Len(blocks[d]) :
           i \in 1 .. Len(Holds[d]) /\ Holds[d][i] = blocks[d][i]
    BY HoldsBlocks
  <2>5. Unused(x)
    BY <2>3, <2>4 DEF Unused
  <2>6. count[x] = 0
    BY <2>3, <2>5 DEF Counts, Unused
  <2>7. count' = count
    BY <2>1, <2>6 DEF TypeOK
  <2>8. \A r \in Region : Unused(r)' => Unused(r)
    <3>1. blocks[e] \in Seq(Region) /\ Len(blocks[e]) \in Nat
      BY BlockFacts
    <3>2. \A i \in 1 .. Len(blocks[e]) :
             i \in 1 .. Len(blocks'[e]) /\ blocks'[e][i] = blocks[e][i]
      BY <2>1, <2>3, <3>1, AppendFacts DEF TypeOK
    <3>3. \A d \in Executor : d # e => blocks'[d] = blocks[d]
      BY <2>1 DEF TypeOK
    <3> QED  BY <3>2, <3>3 DEF Unused
  <2> QED  BY <1>1, <2>7, <2>8, CountsSame
<1> QED  BY <1>2, <1>3, <1>1 DEF RegionBegin

LEMMA CountsDone ==
    ASSUME TypeOK, Frames, Counts, NEW e \in Executor, JoinDone(e)
    PROVE  Counts'
<1>1. stack[e] # <<>> /\ blocks[e] # <<>>
  BY OwnsFacts DEF JoinDone, Joining, At
<1>2. /\ Live' = Live /\ region' = region /\ count' = count
      /\ count[Last(blocks[e])] = 0
      /\ blocks' = [blocks EXCEPT ![e] = Front(blocks[e])]
  BY DEF JoinDone, JoinReady, Live
<1>3. ASSUME NEW r \in Region, Unused(r)', r # Last(blocks[e])
      PROVE  Unused(r)
  <2>1. \A d \in Executor : d # e => blocks'[d] = blocks[d]
    BY <1>2 DEF TypeOK
  <2> DEFINE b == blocks[e]
             f == Front(b)
  <2>2. /\ Len(b) \in Nat \ {0} /\ Last(b) = b[Len(b)] /\ Len(f) = Len(b) - 1
        /\ \A i \in 1 .. Len(b) - 1 : f[i] = b[i]
    BY <1>1, BlockFacts, FrontFacts DEF Last
  <2>3. blocks'[e] = f
    BY <1>2 DEF TypeOK
  <2> HIDE DEF f, b
  <2>4. \A i \in 1 .. Len(b) : b[i] # r
    <3>1. ASSUME NEW i \in 1 .. Len(b), b[i] = r
          PROVE  FALSE
      <4>1. i # Len(b)
        BY <1>3, <2>2, <3>1 DEF b
      <4>2. i \in 1 .. Len(f) /\ f[i] = r
        BY <2>2, <3>1, <4>1
      <4> QED  BY <1>3, <2>3, <4>2 DEF Unused
    <3> QED  BY <3>1
  <2> QED  BY <1>3, <2>1, <2>4 DEF Unused, b
<1>4. \A r \in Region : Unused(r)' => Unused(r) \/ count[r] = 0
  BY <1>2, <1>3
<1> QED  BY <1>2, <1>4, CountsSame

LEMMA CountsStep ==
    ASSUME PoolAssumption, SlotsEnough, IInv, Slots, Counts, [Next]_vars
    PROVE  Counts'
<1>1. ASSUME UNCHANGED <<status, region, count, blocks>>
      PROVE  Counts'
  BY <1>1, CountsSame DEF Live, Unused
<1>2. ASSUME NEW e \in Executor, NEW t \in Task, NEW below, Start(e, t, below),
             status[t] = "queued"
      PROVE  Counts'
  <2>1. /\ Live' = Live
        /\ UNCHANGED <<region, count, blocks>>
    BY <1>2 DEF Start, Live, IInv, TypeOK
  <2> QED  BY <2>1, CountsSame DEF Unused
<1>3. ASSUME NEW e \in Executor, Spawn(e)
      PROVE  Counts'
  BY <1>3, CountsSpawn DEF IInv
<1>4. ASSUME NEW e \in Executor, Finish(e)
      PROVE  Counts'
  BY <1>4, CountsFinish DEF IInv
<1>5. ASSUME NEW e \in Executor, NEW t \in Task, WaitSteal(e, t)
      PROVE  Counts'
  BY <1>2, <1>5 DEF WaitSteal
<1>6. ASSUME NEW e \in Executor, NEW t \in Task,
             WaitSleep(e, t) \/ Cancel(e, t)
      PROVE  Counts'
  BY <1>1, <1>6 DEF WaitSleep, Cancel
<1>7. ASSUME NEW e \in Executor,
             WaitAgain(e) \/ JoinSleep(e) \/ RegionPut(e) \/ DrainSleep(e)
      PROVE  Counts'
  BY <1>1, <1>7 DEF WaitAgain, JoinSleep, RegionPut, DrainSleep
<1>8. ASSUME NEW e \in Executor, RegionBegin(e)
      PROVE  Counts'
  BY <1>8, CountsBegin DEF IInv
<1>9. ASSUME NEW e \in Executor, JoinDone(e)
      PROVE  Counts'
  BY <1>9, CountsDone DEF IInv
<1>10. ASSUME NEW e \in Executor, JoinSteal(e)
       PROVE  Counts'
  <2>1. Oldest \in Task /\ status[Oldest] = "queued"
    BY <1>10, TakesOldest DEF JoinSteal, IInv, Safe
  <2> QED  BY <1>2, <1>10, <2>1 DEF JoinSteal
<1>11. ASSUME NEW e \in Executor, DrainFree(e)
       PROVE  Counts'
  <2>1. /\ pending = 0 /\ UNCHANGED <<region, count, blocks>>
        /\ status' = [t \in Task |->
                        IF status[t] = "unborn" THEN "unborn" ELSE "freed"]
    BY <1>11 DEF DrainFree, DrainReady
  <2>2. Live = {}
    BY <2>1, LiveFinite, FS_EmptySet DEF IInv, PendingExact, PoolAssumption
  <2>3. Live' = {}
    BY <2>1 DEF Live
  <2> QED  BY <2>1, <2>2, <2>3, CountsSame DEF Unused
<1>12. ASSUME NEW w \in Worker, WorkerTake(w)
       PROVE  Counts'
  <2>1. Oldest \in Task /\ status[Oldest] = "queued" /\ w \in Executor
    BY <1>12, TakesOldest DEF WorkerTake, IInv, Safe, Executor
  <2> QED  BY <1>2, <1>12, <2>1 DEF WorkerTake
<1>13. ASSUME NEW w \in Worker, WorkerSleep(w)
       PROVE  Counts'
  BY <1>1, <1>13 DEF WorkerSleep
<1>14. ASSUME UNCHANGED vars
       PROVE  Counts'
  BY <1>1, <1>14 DEF vars
<1> QED
  BY <1>3, <1>4, <1>5, <1>6, <1>7, <1>8, <1>9, <1>10, <1>11, <1>12, <1>13,
     <1>14 DEF Next, Step, WorkerStep, Gone

-----------------------------------------------------------------------------
(* The sleepers *)

\* What a step of another executor leaves executor d: its stacks, and a reason
\* to sleep if it is not woken.
Keeps(d) ==
    /\ stack'[d] = stack[d] /\ blocks'[d] = blocks[d]
    /\ cv'[d] \in {cv[d], "awake"}
    /\ cv'[d] = "work" /\ queue = <<>> => queue' = <<>>
    /\ cv'[d] = "finished" =>
          \A t \in Task : status[t] = "running" => status'[t] = "running"
    /\ cv'[d] = "region" =>
          \A r \in Region : r = Last(blocks[d]) /\ count[r] > 0 => count'[r] > 0
    /\ cv'[d] = "drained" /\ pending > 0 => pending' > 0

LEMMA KeptWaits ==
    ASSUME TypeOK, Frames, Waiters, NEW d \in Executor, Waits(d), Keeps(d)
    PROVE  Waits(d)'
<1>1. stack'[d] = stack[d] /\ blocks'[d] = blocks[d] /\ Top(d)' = Top(d)
  BY DEF Keeps, Top
<1>2. CASE cv'[d] = "work"
  BY <1>2 DEF Keeps, Waits
<1>3. CASE cv'[d] = "finished"
  <2>1. stack[d] # <<>> /\ Top(d).op = "wait" /\ status[Top(d).arg] = "running"
    BY <1>3 DEF Keeps, Waits
  <2>2. Top(d).arg \in Task
    BY <2>1, AtFacts DEF Waiters
  <2>3. status'[Top(d).arg] = "running"
    BY <1>3, <2>1, <2>2 DEF Keeps
  <2> QED  BY <1>1, <1>3, <2>1, <2>3 DEF Waits
<1>4. CASE cv'[d] = "region"
  <2>1. stack[d] # <<>> /\ Top(d).op = "join" /\ count[Last(blocks[d])] > 0
    BY <1>4 DEF Keeps, Waits
  <2>2. Last(blocks[d]) \in Region
    BY <2>1, OwnsFacts, BlockFacts
  <2>3. count'[Last(blocks[d])] > 0
    BY <1>4, <2>1, <2>2 DEF Keeps
  <2> QED  BY <1>1, <1>4, <2>1, <2>3 DEF Waits
<1>5. CASE cv'[d] = "drained"
  BY <1>5 DEF Keeps, Waits
<1> QED  BY <1>2, <1>3, <1>4, <1>5 DEF Waits

\* The step of executor e leaves the others a reason to sleep, and e awake or
\* with a reason of its own.
LEMMA KeptSleepers ==
    ASSUME IInv, Sleepers, NEW e \in Executor, exited = "no",
           \A d \in Executor : d # e => Keeps(d),
           Waits(e)'
    PROVE  Sleepers'
<1>1. ASSUME NEW d \in Executor
      PROVE  Waits(d)'
  <2>1. CASE d = e
    BY <2>1
  <2>2. CASE d # e
    BY <2>2, KeptWaits DEF IInv, Sleepers
  <2> QED  BY <2>1, <2>2
<1> QED  BY <1>1 DEF Sleepers

LEMMA AwakeWaits == \A e \in Executor : cv'[e] = "awake" => Waits(e)'
  BY DEF Waits

\* Changing one stack and nothing the others wait for.
Elsewhere(e) ==
    /\ \A d \in Executor : d # e => /\ stack'[d] = stack[d]
                                    /\ blocks'[d] = blocks[d]
                                    /\ cv'[d] = cv[d]
    /\ queue = <<>> => queue' = <<>>
    /\ \A t \in Task : status[t] = "running" => status'[t] = "running"
    /\ count' = count /\ pending' = pending

LEMMA ElsewhereKeeps ==
    ASSUME NEW e \in Executor, Elsewhere(e)
    PROVE  \A d \in Executor : d # e => Keeps(d)
  BY DEF Elsewhere, Keeps

LEMMA SpawnSleepers ==
    ASSUME IInv, Sleepers, NEW e \in Executor, Spawn(e)
    PROVE  Sleepers'
<1>1. /\ exited = "no" /\ cv[e] = "awake"
      /\ cv' = [x \in Executor |-> IF cv[x] \in {"work"} THEN "awake" ELSE cv[x]]
      /\ stack' = stack /\ blocks' = blocks /\ pending' = pending + 1
      /\ pending \in Int /\ count \in [Region -> Int]
      /\ count' = [r \in Region |->
                     IF r = CurrentRegion(e) THEN count[r] + 1 ELSE count[r]]
  BY DEF Spawn, At, Woken, IInv, TypeOK
<1>2. PICK t \in Task :
         status[t] = "unborn" /\ status' = [status EXCEPT ![t] = "queued"]
  BY DEF Spawn
<1>3. \A u \in Task : status[u] = "running" => status'[u] = "running"
  BY <1>2 DEF IInv, TypeOK
<1>4. \A r \in Region : count[r] > 0 => count'[r] > 0
  BY <1>1
<1>5. \A d \in Executor : Keeps(d)
  BY <1>1, <1>3, <1>4 DEF Keeps
<1>6. cv'[e] = "awake"
  BY <1>1
<1> QED  BY <1>1, <1>5, <1>6, AwakeWaits, KeptSleepers

\* The end of a task wakes who waits for it: t.Wait(), the barrier of its
\* region when its count comes to zero, the drain when it was the last.
LEMMA FinishSleepers ==
    ASSUME IInv, Sleepers, NEW e \in Executor, Finish(e)
    PROVE  Sleepers'
<1>1. /\ exited = "no" /\ cv[e] = "awake" /\ queue' = queue
      /\ blocks' = blocks /\ pending' = pending - 1
      /\ stack' = [stack EXCEPT ![e] = Front(stack[e])]
      /\ pending \in Int /\ count \in [Region -> Int]
      /\ count' = [r \in Region |->
                     IF r = Charged(e) THEN count[r] - 1 ELSE count[r]]
  BY DEF Finish, At, IInv, TypeOK
<1>2. ASSUME NEW d \in Executor
      PROVE  /\ cv'[d] \in {cv[d], "awake"} /\ cv'[d] # "finished"
             /\ pending = 1 => cv'[d] # "drained"
             /\ cv'[d] = "region" =>
                   Last(blocks[d]) # Charged(e) \/ count[Charged(e)] # 1
  <2>1. cv'[d] = IF /\ cv[d] = "region"
                    /\ Last(blocks[d]) = Charged(e)
                    /\ count[Charged(e)] = 1
                 THEN "awake"
                 ELSE IF cv[d] \in FinishWakes THEN "awake" ELSE cv[d]
    BY DEF Finish, Woken
  <2>2. "finished" \in FinishWakes /\ (pending = 1 => "drained" \in FinishWakes)
    BY DEF FinishWakes
  <2> QED  BY <2>1, <2>2
<1>3. ASSUME NEW d \in Executor, d # e
      PROVE  Keeps(d)
  <2>1. stack'[d] = stack[d] /\ blocks'[d] = blocks[d]
    BY <1>1, <1>3 DEF IInv, TypeOK
  <2>2. ASSUME cv'[d] = "region", NEW r \in Region, r = Last(blocks[d]),
               count[r] > 0
        PROVE  count'[r] > 0
    <3>1. CASE r = Charged(e)
      <4>1. count[r] \in Int /\ count'[r] = count[r] - 1
        BY <1>1, <3>1
      <4>2. count[r] # 1
        BY <1>2, <2>2, <3>1
      <4> QED  BY <2>2, <4>1, <4>2
    <3>2. CASE r # Charged(e)
      BY <1>1, <2>2, <3>2
    <3> QED  BY <3>1, <3>2
  <2>3. cv'[d] = "drained" /\ pending > 0 => pending' > 0
    BY <1>1, <1>2
  <2> QED  BY <1>1, <1>2, <2>1, <2>2, <2>3 DEF Keeps
<1>4. cv'[e] = "awake"
  BY <1>1, <1>2
<1> QED  BY <1>1, <1>3, <1>4, AwakeWaits, KeptSleepers

LEMMA StartSleepers ==
    ASSUME IInv, Sleepers, NEW e \in Executor, NEW t \in Task, NEW below,
           status[t] = "queued", Start(e, t, below), UNCHANGED cv,
           exited = "no", cv[e] = "awake", queue # <<>>
    PROVE  Sleepers'
<1>1. Elsewhere(e)
  BY DEF Start, Elsewhere, IInv, TypeOK
<1> QED  BY <1>1, ElsewhereKeeps, AwakeWaits, KeptSleepers

\* The top activation of e, awake, enters or leaves a call.
LEMMA CallSleepers ==
    ASSUME IInv, Sleepers, NEW e \in Executor, exited = "no", stack[e] # <<>>,
           NEW op \in CallOp, NEW arg \in Task \cup Region \cup {None},
           stack' = [stack EXCEPT ![e] = InCall(e, op, arg)],
           NEW c, cv' = [cv EXCEPT ![e] = c],
           UNCHANGED <<queue, pending, status, count, blocks>>,
           \/ c = "awake"
           \/ c = "finished" /\ op = "wait" /\ status[arg] = "running"
           \/ c = "region" /\ op = "join" /\ count[Last(blocks[e])] > 0
           \/ c = "drained" /\ pending > 0
    PROVE  Sleepers'
<1>1. \A d \in Executor : d # e => Keeps(d)
  BY DEF Keeps, IInv, TypeOK
<1>2. /\ stack'[e] # <<>> /\ Top(e)'.op = op /\ Top(e)'.arg = arg
  <2>1. /\ stack[e] \in Seq(Activation) /\ Len(stack[e]) \in Nat \ {0}
        /\ InCall(e, op, arg) = Call(stack[e], op, arg)
    BY AtFacts DEF IInv
  <2> DEFINE k == Call(stack[e], op, arg)
  <2>2. stack'[e] = k
    BY <2>1 DEF IInv, TypeOK
  <2>3. /\ Len(k) = Len(stack[e])
        /\ k[Len(stack[e])].op = op /\ k[Len(stack[e])].arg = arg
    BY <2>1, CallFacts
  <2> HIDE DEF k
  <2> QED  BY <2>1, <2>2, <2>3, EmptySeq DEF Top, Last
<1>3. cv'[e] = c
  BY DEF IInv, TypeOK
<1>4. Waits(e)'
  BY <1>2, <1>3 DEF Waits
<1> QED  BY <1>1, <1>4, KeptSleepers

LEMMA SleepersStep ==
    ASSUME PoolAssumption, SlotsEnough, IInv, Slots, Counts, Sleepers,
           [Next]_vars
    PROVE  Sleepers'
<1>a. TypeOK /\ Frames /\ Waiters /\ Safe
  BY DEF IInv, Safe
<1>b. \A e \in Executor : cv[e] = "awake" => cv = [cv EXCEPT ![e] = "awake"]
  BY <1>a DEF TypeOK
<1>1. ASSUME NEW e \in Executor, Spawn(e)
      PROVE  Sleepers'
  BY <1>1, SpawnSleepers
<1>2. ASSUME NEW e \in Executor, Finish(e)
      PROVE  Sleepers'
  BY <1>2, FinishSleepers
<1>3. ASSUME NEW e \in Executor, NEW t \in Task, WaitSteal(e, t)
      PROVE  Sleepers'
  <2>1. queue # <<>>
    <3>1. \E i \in 1 .. Len(queue) : queue[i] = t
      BY <1>3 DEF WaitSteal, IInv, Queue
    <3> QED  BY <3>1, EmptySeq
  <2> QED  BY <1>3, <2>1, StartSleepers DEF WaitSteal, At
<1>4. ASSUME NEW e \in Executor, NEW t \in Task, WaitSleep(e, t)
      PROVE  Sleepers'
  BY <1>4, CallSleepers DEF WaitSleep, At, CallOp
<1>5. ASSUME NEW e \in Executor, NEW t \in Task, Cancel(e, t)
      PROVE  Sleepers'
  BY <1>5 DEF Cancel, Sleepers, Waits, Top
<1>6. ASSUME NEW e \in Executor, WaitAgain(e)
      PROVE  Sleepers'
  <2>1. /\ exited = "no" /\ stack[e] # <<>> /\ cv[e] = "awake"
        /\ Top(e).op = "wait" /\ exited' = exited
        /\ UNCHANGED <<queue, pending, status, count, blocks>>
    BY <1>6 DEF WaitAgain, At
  <2>2. CASE status[Top(e).arg] = "done"
    <3>1. stack' = [stack EXCEPT ![e] = InCall(e, "body", None)] /\ cv' = cv
      BY <1>6, <2>2 DEF WaitAgain
    <3> QED  BY <1>b, <2>1, <3>1, CallSleepers DEF CallOp
  <2>3. CASE status[Top(e).arg] # "done"
    <3>1. cv' = [cv EXCEPT ![e] = "finished"] /\ stack' = stack
      BY <1>6, <2>3 DEF WaitAgain
    <3>2. status[Top(e).arg] = "running"
      BY <1>a, <2>1, <2>3, AtFacts DEF Waiters
    <3>3. \A d \in Executor : d # e => Keeps(d)
      BY <1>a, <2>1, <3>1 DEF Keeps, TypeOK
    <3>4. Waits(e)'
      BY <1>a, <2>1, <3>1, <3>2 DEF Waits, Top, TypeOK
    <3> QED  BY <2>1, <3>3, <3>4, KeptSleepers
  <2> QED  BY <2>2, <2>3
<1>7. ASSUME NEW e \in Executor, RegionBegin(e)
      PROVE  Sleepers'
  <2>1. /\ exited = "no" /\ cv[e] = "awake" /\ count' = count
        /\ UNCHANGED <<queue, pending, status, stack, cv>>
    BY <1>7, <1>a, CountsBegin DEF RegionBegin, At
  <2>2. \A d \in Executor : d # e => blocks'[d] = blocks[d]
    BY <1>7, <1>a DEF RegionBegin, TypeOK
  <2>3. Elsewhere(e)
    BY <2>1, <2>2 DEF Elsewhere
  <2> QED  BY <2>1, <2>3, ElsewhereKeeps, AwakeWaits, KeptSleepers
<1>8. ASSUME NEW e \in Executor, JoinDone(e)
      PROVE  Sleepers'
  <2>1. /\ exited = "no" /\ cv[e] = "awake"
        /\ UNCHANGED <<queue, pending, status, count, cv>>
        /\ \A d \in Executor : d # e => blocks'[d] = blocks[d]
        /\ \A d \in Executor : d # e => stack'[d] = stack[d]
    BY <1>8, <1>a DEF JoinDone, Joining, At, TypeOK
  <2>2. Elsewhere(e)
    BY <2>1 DEF Elsewhere
  <2> QED  BY <2>1, <2>2, ElsewhereKeeps, AwakeWaits, KeptSleepers
<1>9. ASSUME NEW e \in Executor, JoinSteal(e)
      PROVE  Sleepers'
  <2>1. Oldest \in Task /\ status[Oldest] = "queued"
    BY <1>9, <1>a, TakesOldest DEF JoinSteal
  <2> QED  BY <1>9, <2>1, StartSleepers DEF JoinSteal, Joining, At
<1>10. ASSUME NEW e \in Executor, JoinSleep(e)
       PROVE  Sleepers'
  <2>1. /\ exited = "no" /\ stack[e] # <<>>
        /\ count[Last(blocks[e])] # 0
        /\ stack' = [stack EXCEPT ![e] = InCall(e, "join", None)]
        /\ cv' = [cv EXCEPT ![e] = "region"]
        /\ UNCHANGED <<queue, pending, status, count, blocks>>
    BY <1>10 DEF JoinSleep, Joining, At, JoinReady
  <2>2. Last(blocks[e]) \in Region
    BY <1>10, <1>a, OwnsFacts, BlockFacts DEF JoinSleep, Joining, At
  <2>3. count[Last(blocks[e])] > 0
    BY <2>1, <2>2, LiveInFinite DEF Counts
  <2> QED  BY <2>1, <2>3, CallSleepers DEF CallOp
<1>11. ASSUME NEW e \in Executor, RegionPut(e)
       PROVE  Sleepers'
  <2>1. /\ exited = "no" /\ stack[e] # <<>> /\ cv[e] = "awake" /\ cv' = cv
        /\ stack' = [stack EXCEPT ![e] = InCall(e, "body", None)]
        /\ UNCHANGED <<queue, pending, status, count, blocks>>
    BY <1>11 DEF RegionPut, At
  <2> QED  BY <1>b, <2>1, CallSleepers DEF CallOp
<1>12. ASSUME NEW e \in Executor, DrainSleep(e)
       PROVE  Sleepers'
  <2>1. /\ exited = "no" /\ stack[e] # <<>> /\ pending # 0
        /\ cv' = [cv EXCEPT ![e] = "drained"]
        /\ UNCHANGED <<queue, pending, status, count, blocks>>
    BY <1>12 DEF DrainSleep, Draining, At, DrainReady
  <2>2. PICK op \in {"drain", "exit"} :
           stack' = [stack EXCEPT ![e] = InCall(e, op, None)]
    BY <1>12 DEF DrainSleep, DrainOp, Draining, At
  <2>3. pending > 0
    <3>1. Cardinality(Live) \in Nat
      BY LiveFinite, FS_CardinalityType DEF PoolAssumption
    <3> QED  BY <2>1, <3>1 DEF IInv, PendingExact
  <2> QED  BY <2>1, <2>2, <2>3, CallSleepers DEF CallOp
<1>13. ASSUME NEW e \in Executor, DrainFree(e)
       PROVE  Sleepers'
  <2>1. /\ exited = "no" /\ cv[e] = "awake" /\ pending = 0 /\ queue' = <<>>
        /\ UNCHANGED <<pending, count, blocks, cv>>
        /\ \A d \in Executor : d # e => stack'[d] = stack[d]
    BY <1>13, <1>a DEF DrainFree, Draining, DrainReady, At, TypeOK
  <2>2. Live = {}
    BY <2>1, LiveFinite, FS_EmptySet DEF IInv, PendingExact, PoolAssumption
  <2>3. \A t \in Task : status[t] # "running"
    BY <2>2 DEF Live
  <2>4. Elsewhere(e)
    BY <2>1, <2>3 DEF Elsewhere
  <2> QED  BY <2>1, <2>4, ElsewhereKeeps, AwakeWaits, KeptSleepers
<1>14. ASSUME NEW w \in Worker, WorkerTake(w)
       PROVE  Sleepers'
  <2>1. Oldest \in Task /\ status[Oldest] = "queued" /\ w \in Executor
    BY <1>14, <1>a, TakesOldest DEF WorkerTake, Executor
  <2> QED  BY <1>14, <2>1, StartSleepers DEF WorkerTake
<1>15. ASSUME NEW w \in Worker, WorkerSleep(w)
       PROVE  Sleepers'
  <2>1. /\ w \in Executor /\ exited = "no" /\ queue = <<>>
        /\ cv' = [cv EXCEPT ![w] = "work"]
        /\ UNCHANGED <<queue, pending, status, count, blocks, stack>>
    BY <1>15 DEF WorkerSleep, Executor
  <2>2. \A d \in Executor : d # w => Keeps(d)
    BY <1>a, <2>1 DEF Keeps, TypeOK
  <2>3. Waits(w)'
    BY <1>a, <2>1 DEF Waits, TypeOK
  <2> QED  BY <2>1, <2>2, <2>3, KeptSleepers
<1>16. ASSUME UNCHANGED vars
       PROVE  Sleepers'
  BY <1>16 DEF vars, Sleepers, Waits, Top
<1> QED
  BY <1>1, <1>2, <1>3, <1>4, <1>5, <1>6, <1>7, <1>8, <1>9, <1>10, <1>11,
     <1>12, <1>13, <1>14, <1>15, <1>16 DEF Next, Step, WorkerStep, Gone

-----------------------------------------------------------------------------
(* Tasks are charged to the block they are written in *)

MainBase == stack[Main] # <<>> /\ stack[Main][1].base = 0

LEMMA MainBaseStep ==
    ASSUME PoolAssumption, IInv, MainBase, [Next]_vars
    PROVE  MainBase'
<1> DEFINE m == stack[Main]
<1>0. /\ Main \in Executor /\ m \in Seq(Activation) /\ m # <<>>
      /\ Len(m) \in Nat \ {0} /\ m[1].base = 0 /\ m[1].task = 0
      /\ TypeOK /\ Frames /\ Safe
  <2>1. Main \in Executor /\ m # <<>> /\ m[1].base = 0 /\ TypeOK
    BY DEF Executor, MainBase, IInv
  <2>2. m \in Seq(Activation) /\ Len(m) \in Nat \ {0}
    BY <2>1, AtFacts
  <2>3. m[1].task = 0
    BY <2>1, <2>2 DEF IInv, Stacks
  <2> QED  BY <2>1, <2>2, <2>3 DEF IInv, Safe
<1>1. ASSUME stack'[Main] = m
      PROVE  MainBase'
  BY <1>0, <1>1 DEF MainBase
<1>2. ASSUME NEW e \in Executor, NEW op \in CallOp,
             NEW arg \in Task \cup Region \cup {None},
             stack' = [stack EXCEPT ![e] = InCall(e, op, arg)]
      PROVE  MainBase'
  <2>1. CASE e = Main
    <3> DEFINE c == Call(m, op, arg)
    <3>1. stack'[Main] = c
      BY <1>0, <1>2, <2>1, AtFacts DEF TypeOK
    <3>2. Len(c) = Len(m) /\ c[1].base = m[1].base
      BY <1>0, CallFacts
    <3> HIDE DEF c
    <3>3. c # <<>>
      BY <1>0, <3>2, EmptySeq
    <3> QED  BY <1>0, <3>1, <3>2, <3>3 DEF MainBase
  <2>2. CASE e # Main
    BY <1>0, <1>1, <1>2, <2>2 DEF TypeOK
  <2> QED  BY <2>1, <2>2
<1>3. ASSUME NEW e \in Executor, NEW t \in Task, NEW below \in Seq(Activation),
             Start(e, t, below),
             e = Main => Len(below) = Len(m) /\ below[1].base = 0
      PROVE  MainBase'
  <2>1. CASE e = Main
    <3> DEFINE s == Append(below, Activate(t, e))
    <3>1. Activate(t, e) \in Activation
      BY <1>0, BlockFacts DEF Activate, Activation, Task
    <3>2. Len(s) = Len(below) + 1 /\ \A i \in 1 .. Len(below) : s[i] = below[i]
      BY <3>1, AppendFacts
    <3>3. stack'[Main] = s
      BY <1>0, <1>3, <2>1 DEF Start, TypeOK
    <3> HIDE DEF s
    <3>4. s # <<>> /\ s[1].base = 0
      BY <1>0, <1>3, <2>1, <3>2, EmptySeq
    <3> QED  BY <3>3, <3>4 DEF MainBase
  <2>2. CASE e # Main
    BY <1>0, <1>1, <1>3, <2>2 DEF Start, TypeOK
  <2> QED  BY <2>1, <2>2
<1>4. ASSUME NEW e \in Executor, Finish(e)
      PROVE  MainBase'
  <2>1. CASE e = Main
    <3> DEFINE f == Front(m)
    <3>1. Len(f) = Len(m) - 1 /\ \A i \in 1 .. Len(m) - 1 : f[i] = m[i]
      BY <1>0, FrontFacts
    <3>2. stack'[Main] = f /\ Top(Main).task # 0
      BY <1>0, <1>4, <2>1 DEF Finish, TypeOK
    <3> HIDE DEF f
    <3>3. Len(m) # 1
      BY <1>0, <3>2, AtFacts
    <3>4. f # <<>> /\ f[1].base = 0
      <4>1. 1 \in 1 .. Len(m) - 1 /\ Len(f) # 0
        <5> HIDE DEF m
        <5>1. Len(m) \in Nat \ {0}
          BY <1>0
        <5> QED  BY <3>1, <3>3, <5>1
      <4>2. f[1] = m[1]
        BY <3>1, <4>1
      <4> QED  BY <1>0, <4>1, <4>2, EmptySeq
    <3> QED  BY <3>2, <3>4 DEF MainBase
  <2>2. CASE e # Main
    BY <1>0, <1>1, <1>4, <2>2 DEF Finish, TypeOK
  <2> QED  BY <2>1, <2>2
<1>5. ASSUME NEW e \in Executor, Spawn(e) \/ RegionBegin(e)
      PROVE  MainBase'
  BY <1>1, <1>5 DEF Spawn, RegionBegin
<1>6. ASSUME NEW e \in Executor, NEW t \in Task, WaitSteal(e, t)
      PROVE  MainBase'
  <2>1. Start(e, t, stack[e]) /\ stack[e] \in Seq(Activation)
    BY <1>0, <1>6 DEF WaitSteal, TypeOK
  <2> QED  BY <1>0, <1>3, <2>1
<1>7. ASSUME NEW e \in Executor, NEW t \in Task,
             WaitSleep(e, t) \/ Cancel(e, t)
      PROVE  MainBase'
  <2>1. CASE stack' = [stack EXCEPT ![e] = InCall(e, "wait", t)]
    BY <1>2, <2>1 DEF CallOp
  <2> QED  BY <1>1, <1>7, <2>1 DEF WaitSleep, Cancel
<1>8. ASSUME NEW e \in Executor, WaitAgain(e) \/ RegionPut(e) \/ DrainFree(e)
      PROVE  MainBase'
  <2>1. CASE stack' = [stack EXCEPT ![e] = InCall(e, "body", None)]
    BY <1>2, <2>1 DEF CallOp
  <2> QED  BY <1>1, <1>8, <2>1 DEF WaitAgain, RegionPut, DrainFree
<1>9. ASSUME NEW e \in Executor, JoinDone(e)
      PROVE  MainBase'
  <2>1. Last(blocks[e]) \in Region
    BY <1>0, <1>9, OwnsFacts, BlockFacts DEF JoinDone, Joining, At
  <2>2. stack' = [stack EXCEPT ![e] = InCall(e, "put", Last(blocks[e]))]
    BY <1>9 DEF JoinDone
  <2> QED  BY <1>2, <2>1, <2>2 DEF CallOp
<1>10. ASSUME NEW e \in Executor, JoinSteal(e)
       PROVE  MainBase'
  <2>1. /\ stack[e] # <<>> /\ Start(e, Oldest, InCall(e, "join", None))
        /\ InCall(e, "join", None) = Call(stack[e], "join", None)
        /\ stack[e] \in Seq(Activation) /\ Oldest \in Task
    BY <1>0, <1>10, AtFacts, QueueFacts DEF JoinSteal, Joining, At
  <2> DEFINE c == Call(stack[e], "join", None)
  <2>2. /\ c \in Seq(Activation) /\ Len(c) = Len(stack[e])
        /\ \A i \in 1 .. Len(stack[e]) : c[i].base = stack[e][i].base
    BY <2>1, CallFacts, CallType DEF CallOp
  <2> HIDE DEF c
  <2>3. e = Main => Len(c) = Len(m) /\ c[1].base = 0
    BY <1>0, <2>2
  <2>4. Start(e, Oldest, c)
    BY <2>1 DEF c
  <2> QED  BY <1>3, <2>1, <2>2, <2>3, <2>4
<1>11. ASSUME NEW e \in Executor, JoinSleep(e)
       PROVE  MainBase'
  BY <1>2, <1>11 DEF JoinSleep, CallOp
<1>12. ASSUME NEW e \in Executor, DrainSleep(e)
       PROVE  MainBase'
  <2>1. PICK op \in {"drain", "exit"} :
           stack' = [stack EXCEPT ![e] = InCall(e, op, None)]
    BY <1>12 DEF DrainSleep, DrainOp, Draining, At
  <2> QED  BY <1>2, <2>1 DEF CallOp
<1>13. ASSUME NEW w \in Worker, WorkerTake(w)
       PROVE  MainBase'
  <2>1. /\ Oldest \in Task /\ w \in Executor /\ w # Main
        /\ <<>> \in Seq(Activation) /\ Start(w, Oldest, <<>>)
    BY <1>0, <1>13, QueueFacts, EmptySeq DEF WorkerTake, Executor, PoolAssumption
  <2> QED  BY <1>3, <2>1
<1>14. ASSUME NEW w \in Worker, WorkerSleep(w)
       PROVE  MainBase'
  BY <1>1, <1>14 DEF WorkerSleep
<1>15. ASSUME UNCHANGED vars
       PROVE  MainBase'
  BY <1>1, <1>15 DEF vars
<1> QED
  BY <1>4, <1>5, <1>6, <1>7, <1>8, <1>9, <1>10, <1>11, <1>12, <1>13, <1>14,
     <1>15 DEF Next, Step, WorkerStep, Gone

\* Only a spawn adds a live task or changes what one is charged to.
LEMMA LiveStep ==
    ASSUME IInv, [Next]_vars, ~\E e \in Executor : Spawn(e)
    PROVE  Live' \subseteq Live /\ region' = region /\ lex' = lex
<1> DEFINE Goal == Live' \subseteq Live /\ region' = region /\ lex' = lex
<1>0. TypeOK /\ Safe
  BY DEF IInv, Safe
<1>1. ASSUME UNCHANGED <<status, region, lex>>
      PROVE  Goal
  BY <1>1 DEF Live
<1>2. ASSUME NEW e, NEW t \in Task, NEW below, Start(e, t, below),
             status[t] = "queued"
      PROVE  Goal
  BY <1>0, <1>2 DEF Start, Live, TypeOK
<1>3. ASSUME NEW e \in Executor, Finish(e) \/ DrainFree(e)
      PROVE  Goal
  <2>1. region' = region /\ lex' = lex
    BY <1>3 DEF Finish, DrainFree
  <2>2. \A t \in Task : status'[t] \in {"queued", "running"} => status'[t] = status[t]
    BY <1>0, <1>3 DEF Finish, DrainFree, AfterRun, TypeOK
  <2> QED  BY <2>1, <2>2 DEF Live
<1>4. ASSUME NEW e \in Executor, JoinSteal(e)
      PROVE  Goal
  BY <1>0, <1>2, <1>4, TakesOldest DEF JoinSteal
<1>5. ASSUME NEW w \in Worker, WorkerTake(w)
      PROVE  Goal
  BY <1>0, <1>2, <1>5, TakesOldest DEF WorkerTake
<1>6. ASSUME NEW e \in Executor, NEW t \in Task, WaitSteal(e, t)
      PROVE  Goal
  BY <1>2, <1>6 DEF WaitSteal
<1>7. ASSUME NEW e \in Executor, NEW t \in Task,
             WaitSleep(e, t) \/ Cancel(e, t)
      PROVE  Goal
  BY <1>1, <1>7 DEF WaitSleep, Cancel
<1>8. ASSUME NEW e \in Executor,
             \/ WaitAgain(e) \/ RegionBegin(e) \/ JoinDone(e) \/ JoinSleep(e)
             \/ RegionPut(e) \/ DrainSleep(e)
      PROVE  Goal
  BY <1>1, <1>8 DEF WaitAgain, RegionBegin, JoinDone, JoinSleep, RegionPut,
                    DrainSleep
<1>9. ASSUME NEW w \in Worker, WorkerSleep(w)
      PROVE  Goal
  BY <1>1, <1>9 DEF WorkerSleep
<1>10. ASSUME UNCHANGED vars
       PROVE  Goal
  BY <1>1, <1>10 DEF vars
<1> HIDE DEF Goal
<1>11. Goal
  BY <1>3, <1>4, <1>5, <1>6, <1>7, <1>8, <1>9, <1>10
     DEF Next, Step, WorkerStep, Gone
<1> QED  BY <1>11 DEF Goal

LEMMA LexicalStep ==
    ASSUME PoolAssumption, PartsOnly, IInv, MainBase, Lexical, [Next]_vars
    PROVE  Lexical'
<1>1. CASE ~\E e \in Executor : Spawn(e)
  BY <1>1, LiveStep DEF Lexical
<1>2. ASSUME NEW e \in Executor, Spawn(e)
      PROVE  Lexical'
  <2>0. TypeOK /\ Frames /\ Stacks /\ stack[e] # <<>>
    BY <1>2 DEF IInv, Spawn, At
  <2>1. PICK t \in Task :
           /\ status' = [status EXCEPT ![t] = "queued"]
           /\ region' = [region EXCEPT ![t] = CurrentRegion(e)]
           /\ lex' = [lex EXCEPT ![t] = IF OwnsBlock(e)
                                        THEN Last(blocks[e])
                                        ELSE lex[Top(e).task]]
    BY <1>2 DEF Spawn
  <2>2. CurrentRegion(e) = IF OwnsBlock(e) THEN Last(blocks[e])
                                           ELSE lex[Top(e).task]
    <3>1. CASE OwnsBlock(e)
      BY <2>0, <3>1, OwnsFacts DEF CurrentRegion
    <3>2. CASE ~OwnsBlock(e)
      <4>1. Top(e).task = 0
        BY <1>2, <3>2 DEF Spawn, May, PartsOnly
      <4>2. /\ Len(stack[e]) \in 1 .. Len(stack[e])
            /\ Top(e) = stack[e][Len(stack[e])]
        BY <2>0, AtFacts
      <4>3. e = Main /\ Len(stack[e]) = 1
        <5> DEFINE n == Len(stack[e])
        <5>1. n \in 1 .. Len(stack[e]) /\ stack[e][n].task = 0
          BY <4>1, <4>2
        <5> HIDE DEF n
        <5>2. e = Main /\ n = 1
          BY <2>0, <5>1 DEF Stacks
        <5> QED  BY <5>2 DEF n
      <4>4. Top(e).base = 0 /\ Len(blocks[e]) \in Nat
        BY <2>0, <4>2, <4>3, BlockFacts DEF MainBase
      <4>5. blocks[e] = <<>>
        BY <2>0, <3>2, <4>4, BlockFacts, EmptySeq DEF OwnsBlock
      <4> QED  BY <3>2, <4>1, <4>5 DEF CurrentRegion, Lexical
    <3> QED  BY <3>1, <3>2
  <2>3. /\ t # 0 /\ t \in 0 .. NumTasks /\ Task \subseteq 0 .. NumTasks
    BY DEF Task
  <2>4. lex'[0] = None
    BY <2>0, <2>1, <2>3 DEF Lexical, TypeOK, PoolAssumption
  <2>5. ASSUME NEW u \in Task, status'[u] \in {"queued", "running"}
        PROVE  region'[u] = lex'[u]
    <3>1. CASE u = t
      BY <2>0, <2>1, <2>2, <2>3, <3>1 DEF TypeOK
    <3>2. CASE u # t
      <4>1. status'[u] = status[u] /\ region'[u] = region[u] /\ lex'[u] = lex[u]
        BY <2>0, <2>1, <2>3, <3>2 DEF TypeOK
      <4> QED  BY <2>5, <4>1 DEF Lexical, Live
    <3> QED  BY <3>1, <3>2
  <2> QED  BY <2>4, <2>5 DEF Lexical, Live
<1> QED  BY <1>1, <1>2

-----------------------------------------------------------------------------
(* The theorems *)

\* Only the end of a region barrier closes a block.
LEMMA BlocksStep ==
    ASSUME PoolAssumption, TypeOK, Frames, [Next]_vars, NEW e \in Executor,
           Len(blocks'[e]) < Len(blocks[e])
    PROVE  JoinDone(e)
<1>0. blocks[e] \in Seq(Region) /\ Len(blocks[e]) \in Nat
  BY BlockFacts
<1>1. blocks' # blocks
  BY <1>0
<1>2. ASSUME NEW d \in Executor, RegionBegin(d)
      PROVE  FALSE
  <2>0. blocks' = [blocks EXCEPT ![d] = Append(blocks[d], Last(Pool))]
    BY <1>1, <1>2 DEF RegionBegin
  <2>1. d = e
    BY <1>0, <2>0 DEF TypeOK
  <2>2. Last(Pool) \in Region
    BY PoolFacts, FrontFacts DEF TypeOK
  <2>3. blocks'[e] = Append(blocks[e], Last(Pool))
    BY <2>0, <2>1 DEF TypeOK
  <2>4. Len(blocks'[e]) = Len(blocks[e]) + 1
    BY <1>0, <2>2, <2>3, AppendFacts
  <2> QED  BY <1>0, <2>4
<1>3. ASSUME NEW d \in Executor, JoinDone(d)
      PROVE  d = e
  BY <1>0, <1>3 DEF JoinDone, TypeOK
<1>4. \A d \in Executor : \A t \in Task :
         ~(WaitSteal(d, t) \/ WaitSleep(d, t) \/ Cancel(d, t))
  BY <1>1 DEF WaitSteal, WaitSleep, Cancel, Start
<1>5. \A d \in Executor : ~(\/ Spawn(d) \/ Finish(d) \/ WaitAgain(d)
                            \/ JoinSteal(d) \/ JoinSleep(d) \/ RegionPut(d)
                            \/ DrainSleep(d) \/ DrainFree(d))
  BY <1>1 DEF Spawn, Finish, WaitAgain, JoinSteal, JoinSleep, RegionPut,
              DrainSleep, DrainFree, Start
<1>6. \A w \in Worker : ~(WorkerTake(w) \/ WorkerSleep(w))
  BY <1>1 DEF WorkerTake, WorkerSleep, Start
<1>7. ~UNCHANGED vars
  BY <1>1 DEF vars
<1> QED  BY <1>2, <1>3, <1>4, <1>5, <1>6, <1>7 DEF Next, Step, WorkerStep, Gone

RegionInv == SlotsEnough /\ Putters /\ Slots /\ Counts /\ Sleepers
LexInv == PartsOnly /\ MainBase /\ Lexical

LEMMA RegionInit ==
    ASSUME PoolAssumption, Init
    PROVE  Putters /\ Slots /\ Counts /\ Sleepers /\ MainBase /\ Lexical
<1> DEFINE a == [task |-> 0, op |-> "body", arg |-> None, base |-> 0]
<1>1. a.op = "body" /\ a.base = 0
  OBVIOUS
<1>2. stack = [e \in Executor |-> IF e = Main THEN << a >> ELSE <<>>]
  BY DEF Init
<1> HIDE DEF a
<1>3. ASSUME NEW e \in Executor
      PROVE  /\ Hold(e) = <<>> /\ Len(<<>>) = 0
             /\ \A i \in 1 .. Len(stack[e]) - 1 : stack[e][i].op # "put"
  <2>1. /\ blocks[e] = <<>> /\ Len(<<>>) = 0 /\ Len(<< a >>) = 1
        /\ stack[e] = IF e = Main THEN << a >> ELSE <<>>
    BY <1>2 DEF Init
  <2>2. ~Putting(e)
    BY <1>1, <2>1 DEF Putting, Top, Last
  <2> QED  BY <2>1, <2>2 DEF Hold
<1>4. Putters
  BY <1>3 DEF Putters
<1>5. freeList = <<>> /\ \A e \in Executor : Holds[e] = <<>> /\ Len(Holds[e]) = 0
  BY <1>3 DEF Holds, Init
<1>6. Slots
  BY <1>5 DEF Slots, SlotsOf, Distinct, PoolAssumption
<1>7. Live = {} /\ \A r \in Region : count[r] = 0
  BY DEF Init, Live
<1>8. Counts
  BY <1>7, FS_EmptySet DEF Counts, LiveIn
<1>9. Sleepers
  BY DEF Init, Sleepers, Waits
<1>10. MainBase
  BY <1>1, <1>2 DEF MainBase, Executor
<1>11. Lexical
  BY <1>7 DEF Lexical, Init
<1> QED  BY <1>4, <1>6, <1>8, <1>9, <1>10, <1>11

LEMMA RegionStep ==
    ASSUME PoolAssumption, IInv, RegionInv, [Next]_vars
    PROVE  RegionInv'
<1>1. TypeOK /\ Frames
  BY DEF IInv
<1>2. SlotsEnough'
  BY DEF RegionInv, SlotsEnough
<1> QED  BY <1>1, <1>2, SlotsStep, CountsStep, SleepersStep DEF RegionInv

\* The invariant the next theorems follow from, as long as the pool has a slot
\* for every block that can be open.
THEOREM RegionInvariance == SlotsEnough /\ Spec => [](IInv /\ RegionInv)
<1>1. SlotsEnough /\ Init => RegionInv
  BY RegionInit, PoolAssumption DEF RegionInv
<1>2. IInv /\ RegionInv /\ [Next]_vars => RegionInv'
  BY RegionStep, PoolAssumption
<1> QED  BY <1>1, <1>2, Invariance, PTL DEF Spec

\* No two parallel blocks share a slot of hphl_region_pool, no slot in use is
\* free, and each counts exactly the live tasks charged to it.
THEOREM RegionsExactSafe == SlotsEnough /\ Spec => []RegionsExact
<1>1. ASSUME IInv, RegionInv
      PROVE  RegionsExact
  <2>1. CountersExact
    BY <1>1 DEF CountersExact, IInv, PendingExact, RegionInv, Counts, LiveIn
  <2>2. \A e \in Executor : \A i \in 1 .. Len(blocks[e]) :
           i \in 1 .. Len(Holds[e]) /\ Holds[e][i] = blocks[e][i]
    BY <1>1, HoldsBlocks DEF IInv
  <2>3. SlotsOf(Holds, freeList)
    BY <1>1 DEF RegionInv, Slots
  <2>4. RegionExclusive
    <3>1. ASSUME NEW d \in Executor, NEW e \in Executor,
                 NEW i \in 1 .. Len(blocks[d]), NEW j \in 1 .. Len(blocks[e]),
                 blocks[d][i] = blocks[e][j]
          PROVE  d = e /\ i = j
      BY <2>2, <2>3, <3>1 DEF SlotsOf
    <3>2. ASSUME NEW e \in Executor, NEW i \in 1 .. Len(freeList),
                 NEW j \in 1 .. Len(blocks[e])
          PROVE  freeList[i] # blocks[e][j]
      BY <2>2, <2>3 DEF SlotsOf
    <3>3. \A i, j \in 1 .. Len(freeList) : freeList[i] = freeList[j] => i = j
      BY <2>3 DEF SlotsOf, Distinct
    <3> QED  BY <3>1, <3>2, <3>3 DEF RegionExclusive
  <2> QED  BY <1>1, <2>1, <2>4 DEF RegionsExact, IInv
<1>2. IInv /\ RegionInv => RegionsExact
  BY <1>1
<1> QED  BY <1>2, RegionInvariance, PTL

\* No executor sleeps for something that has already happened: every step that
\* ends a wait wakes who waits.
THEOREM NoLostWakeupSafe == SlotsEnough /\ Spec => []NoLostWakeup
<1>1. IInv /\ RegionInv => NoLostWakeup
  BY DEF RegionInv, Sleepers, Waits, NoLostWakeup
<1> QED  BY <1>1, RegionInvariance, PTL

\* Where tasks spawn only parts of their own parallel blocks, hphl_region_join
\* returns only when every task written in the block has finished.
THEOREM JoinWaitsForAll == SlotsEnough /\ PartsOnly /\ Spec => JoinIsBarrier
<1>1. PartsOnly /\ Init => LexInv
  BY RegionInit, PoolAssumption DEF LexInv
<1>2. IInv /\ LexInv /\ [Next]_vars => LexInv'
  BY MainBaseStep, LexicalStep, PoolAssumption DEF LexInv, PartsOnly
<1>4. ASSUME IInv, RegionInv, Lexical, [Next]_vars, NEW e \in Executor,
             Len(blocks'[e]) < Len(blocks[e]), NEW t \in Live
      PROVE  lex[t] # Last(blocks[e])
  <2>0. TypeOK /\ Frames /\ blocks[e] \in Seq(Region) /\ Len(blocks[e]) \in Nat
    BY <1>4, BlockFacts DEF IInv
  <2>1. JoinDone(e)
    BY <1>4, BlocksStep, PoolAssumption DEF IInv
  <2>2. count[Last(blocks[e])] = 0 /\ Last(blocks[e]) \in Region
    BY <2>0, <2>1, OwnsFacts, BlockFacts DEF JoinDone, JoinReady, Joining, At
  <2>3. LiveIn(Last(blocks[e])) = {}
    BY <1>4, <2>2, LiveInFinite, FS_EmptySet, PoolAssumption DEF RegionInv, Counts
  <2> QED  BY <1>4, <2>3 DEF LiveIn, Lexical
<1>5. IInv /\ RegionInv /\ LexInv /\ [Next]_vars =>
         [\A e \in Executor : Len(blocks'[e]) < Len(blocks[e]) =>
             \A t \in Live : lex[t] # Last(blocks[e])]_vars
  BY <1>4 DEF LexInv
<1> QED  BY <1>1, <1>2, <1>5, Invariance, RegionInvariance, PTL
         DEF Spec, JoinIsBarrier
=============================================================================
