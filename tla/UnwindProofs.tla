---------------------------- MODULE UnwindProofs ----------------------------
(***************************************************************************)
(* Proofs about the blocks of a compiled program, for any number of        *)
(* threads, objects, stripes and open blocks.                              *)
(***************************************************************************)
EXTENDS Unwind, SeqLemmas

\* What the program keeps to where the handler chain is concerned: no return,
\* break or continue out of a try block, and no try in tasks of the x64 back end.
Disciplined == ~JumpsInTry /\ (TasksThrow => "x64" \notin Backends)

\* The record of an open try block says where the block is; one on the stack
\* (x64) is where its block is.
Rooted ==
    \A t \in Thread : \A i \in Kind(t, "try") :
        LET r == stack[t][i].of
        IN  /\ MayThrow(t)
            /\ frame[r] = <<t, i>>
            /\ ~ThreadLocal => r = <<t, i>>

HandlerInv ==
    /\ Disciplined /\ TypeOK
    /\ Rooted /\ ChainIsStack /\ HeapIsTries /\ LandsAtHome

\* Every open lock block has its stripe, and has it alone.
Locked ==
    \A t, u \in Thread : \A i \in Kind(t, "lock"), j \in Kind(u, "lock") :
        /\ LockSlot(stack[t][i].of) \in held
        /\ LockSlot(stack[t][i].of) = LockSlot(stack[u][j].of) =>
              t = u /\ i = j

LockInv == ~Reassigns /\ TypeOK /\ Locked

-----------------------------------------------------------------------------
(* The stack of blocks *)

LEMMA StackFacts ==
    ASSUME TypeOK, NEW t \in Thread
    PROVE  /\ stack[t] \in Seq(BlockType)
           /\ Len(stack[t]) \in Nat /\ Len(stack[t]) <= MaxDepth
           /\ \A i \in 1 .. Len(stack[t]) : stack[t][i] \in BlockType
           /\ \A k : \A i \in Kind(t, k) :
                 i \in 1 .. Len(stack[t]) /\ stack[t][i].kind = k
           /\ \A i \in Kind(t, "try") :
                 /\ stack[t][i].of \in Rec
                 /\ stack[t][i] = Block("try", stack[t][i].of)
           /\ \A i \in Kind(t, "lock") : stack[t][i].of \in Obj
<1>1. stack[t] \in Seq(BlockType) /\ Len(stack[t]) <= MaxDepth
  BY DEF TypeOK
<1>2. Len(stack[t]) \in Nat /\ \A i \in 1 .. Len(stack[t]) : stack[t][i] \in BlockType
  BY <1>1, LenProperties, ElementOfSeq
<1>3. \A i \in 1 .. Len(stack[t]) :
         /\ stack[t][i].kind = "try" =>
               /\ stack[t][i].of \in Rec
               /\ stack[t][i] = Block("try", stack[t][i].of)
         /\ stack[t][i].kind = "lock" => stack[t][i].of \in Obj
  BY <1>2 DEF BlockType, Block
<1> QED
  BY <1>1, <1>2, <1>3 DEF Kind

\* The other stacks are the same, and this one has a block more.
Pushed(t, b) ==
    /\ stack' \in [Thread -> Seq(BlockType)]
    /\ \A u \in Thread \ {t} : stack'[u] = stack[u]
    /\ Len(stack'[t]) = Len(stack[t]) + 1
    /\ Len(stack'[t]) <= MaxDepth
    /\ \A i \in 1 .. Len(stack[t]) : stack'[t][i] = stack[t][i]
    /\ stack'[t][Len(stack[t]) + 1] = b

\* The other stacks are the same, and this one has its first n blocks.
Trimmed(t, n) ==
    /\ stack' \in [Thread -> Seq(BlockType)]
    /\ \A u \in Thread \ {t} : stack'[u] = stack[u]
    /\ n \in 0 .. Len(stack[t]) /\ Len(stack'[t]) = n
    /\ \A i \in 1 .. n : stack'[t][i] = stack[t][i]

LEMMA PushFacts ==
    ASSUME TypeOK, NEW t \in Thread, NEW b \in BlockType, Open(t, b)
    PROVE  Pushed(t, b)
<1>1. stack \in [Thread -> Seq(BlockType)] /\ stack[t] \in Seq(BlockType)
  BY DEF TypeOK
<1>2. stack' = [stack EXCEPT ![t] = Append(@, b)] /\ Len(stack[t]) < MaxDepth
  BY DEF Open
<1>3. /\ Append(stack[t], b) \in Seq(BlockType)
      /\ Len(Append(stack[t], b)) = Len(stack[t]) + 1
      /\ \A i \in 1 .. Len(stack[t]) : Append(stack[t], b)[i] = stack[t][i]
      /\ Append(stack[t], b)[Len(stack[t]) + 1] = b
  BY <1>1, AppendFacts
<1>4. stack'[t] = Append(stack[t], b) /\ \A u \in Thread \ {t} : stack'[u] = stack[u]
  BY <1>1, <1>2
<1>5. stack' \in [Thread -> Seq(BlockType)]
  BY <1>1, <1>2, <1>3
<1>6. Len(stack[t]) + 1 <= MaxDepth
  BY <1>1, <1>2, LenProperties, UnwindAssumption
<1> QED
  BY <1>3, <1>4, <1>5, <1>6 DEF Pushed

LEMMA TrimFacts ==
    ASSUME TypeOK, NEW t \in Thread, NEW n \in 0 .. Len(stack[t]),
           stack' = [stack EXCEPT ![t] = SubSeq(@, 1, n)]
    PROVE  Trimmed(t, n)
<1>1. /\ stack \in [Thread -> Seq(BlockType)] /\ stack[t] \in Seq(BlockType)
      /\ Len(stack[t]) \in Nat
  BY LenProperties DEF TypeOK
<1> DEFINE q == SubSeq(stack[t], 1, n)
<1>2. \A i \in 1 .. n : stack[t][i] \in BlockType
  BY <1>1, ElementOfSeq
<1>3. q \in Seq(BlockType) /\ Len(q) = n /\ \A i \in 1 .. n : q[i] = stack[t][i]
  BY <1>1, <1>2, SubSeqProperties
<1>4. stack'[t] = q /\ \A u \in Thread \ {t} : stack'[u] = stack[u]
  BY <1>1
<1>5. stack' \in [Thread -> Seq(BlockType)]
  BY <1>1, <1>3
<1> QED
  BY <1>3, <1>4, <1>5 DEF Trimmed

LEMMA CloseFacts ==
    ASSUME TypeOK, NEW t \in Thread, stack[t] # <<>>, Close(t)
    PROVE  Trimmed(t, Len(stack[t]) - 1)
<1>1. stack[t] \in Seq(BlockType) /\ Len(stack[t]) \in Nat \ {0}
  BY FrontFacts DEF TypeOK
<1>2. stack' = [stack EXCEPT ![t] = SubSeq(@, 1, Len(stack[t]) - 1)]
  BY DEF Close, Front
<1>3. Len(stack[t]) - 1 \in 0 .. Len(stack[t])
  BY <1>1
<1> QED
  BY <1>2, <1>3, TrimFacts

LEMMA TopFacts ==
    ASSUME TypeOK, NEW t \in Thread, NEW k, TopIs(t, k)
    PROVE  /\ stack[t] # <<>>
           /\ Len(stack[t]) \in Kind(t, k)
           /\ Last(stack[t]) = stack[t][Len(stack[t])]
<1>1. stack[t] # <<>> /\ Last(stack[t]).kind = k
  BY DEF TopIs
<1>2. stack[t] \in Seq(BlockType) /\ Len(stack[t]) \in Nat \ {0}
  BY <1>1, FrontFacts DEF TypeOK
<1> QED
  BY <1>1, <1>2 DEF Last, Kind

\* The blocks of a kind, before and after.
LEMMA PushKinds ==
    ASSUME TypeOK, NEW t \in Thread, NEW b \in BlockType, Pushed(t, b), NEW k
    PROVE  /\ \A u \in Thread \ {t} : Kind(u, k)' = Kind(u, k)
           /\ Kind(t, k)' = IF b.kind = k THEN Kind(t, k) \cup {Len(stack[t]) + 1}
                            ELSE Kind(t, k)
<1>1. Len(stack[t]) \in Nat
  BY StackFacts
<1>2. \A u \in Thread \ {t} : Kind(u, k)' = Kind(u, k)
  BY DEF Pushed, Kind
<1>3. Kind(t, k)' = IF b.kind = k THEN Kind(t, k) \cup {Len(stack[t]) + 1}
                    ELSE Kind(t, k)
  BY <1>1 DEF Pushed, Kind
<1> QED
  BY <1>2, <1>3

LEMMA TrimKinds ==
    ASSUME TypeOK, NEW t \in Thread, NEW n, Trimmed(t, n), NEW k
    PROVE  /\ \A u \in Thread \ {t} : Kind(u, k)' = Kind(u, k)
           /\ Kind(t, k)' = {i \in Kind(t, k) : i <= n}
           /\ \A i \in Kind(t, k)' : stack'[t][i] = stack[t][i]
<1>1. Len(stack[t]) \in Nat
  BY StackFacts
<1>2. \A u \in Thread \ {t} : Kind(u, k)' = Kind(u, k)
  BY DEF Trimmed, Kind
<1>3. Kind(t, k)' = {i \in Kind(t, k) : i <= n}
  BY <1>1 DEF Trimmed, Kind
<1>4. \A i \in Kind(t, k)' : stack'[t][i] = stack[t][i]
  BY <1>1 DEF Trimmed, Kind
<1> QED
  BY <1>2, <1>3, <1>4

-----------------------------------------------------------------------------
(* Types *)

LEMMA PushType ==
    ASSUME TypeOK, NEW t \in Thread, NEW b \in BlockType, Pushed(t, b)
    PROVE  /\ stack' \in [Thread -> Seq(BlockType)]
           /\ \A u \in Thread : Len(stack'[u]) <= MaxDepth
  BY DEF Pushed, TypeOK

LEMMA TrimType ==
    ASSUME TypeOK, NEW t \in Thread, NEW n, Trimmed(t, n)
    PROVE  /\ stack' \in [Thread -> Seq(BlockType)]
           /\ \A u \in Thread : Len(stack'[u]) <= MaxDepth
<1>1. \A u \in Thread : Len(stack[u]) \in Nat /\ Len(stack[u]) <= MaxDepth
  BY StackFacts
<1>2. Len(stack'[t]) <= MaxDepth
  BY <1>1, UnwindAssumption DEF Trimmed
<1> QED
  BY <1>1, <1>2 DEF Trimmed

\* A record for a new try block, and the room for it.
LEMMA NewRecFacts ==
    ASSUME TypeOK, NEW t \in Thread, EnterTry(t)
    PROVE  /\ NewRec(t) \in Rec
           /\ ~ThreadLocal => NewRec(t) = <<t, Len(stack[t]) + 1>>
           /\ ThreadLocal => NewRec(t) \notin heap
           /\ <<t, Len(stack[t]) + 1>> \in Rec
           /\ Block("try", NewRec(t)) \in BlockType
           /\ Pushed(t, Block("try", NewRec(t)))
<1> DEFINE r == NewRec(t)
<1>1. Len(stack[t]) \in Nat /\ Len(stack[t]) < MaxDepth
  BY StackFacts DEF EnterTry, Open
<1>2. <<t, Len(stack[t]) + 1>> \in Rec
  BY <1>1, UnwindAssumption DEF Rec
<1>3. /\ r \in Rec
      /\ ~ThreadLocal => r = <<t, Len(stack[t]) + 1>>
      /\ ThreadLocal => r \notin heap
  <2>1. CASE ThreadLocal
    <3>1. PICK n \in 1 .. MaxDepth : <<t, n>> \notin heap
      BY DEF EnterTry
    <3> DEFINE m == CHOOSE i \in 1 .. MaxDepth : <<t, i>> \notin heap
    <3>2. m \in 1 .. MaxDepth /\ <<t, m>> \notin heap
      BY <3>1
    <3>3. r = <<t, m>>
      BY <2>1 DEF NewRec
    <3> HIDE DEF m, r
    <3> QED
      BY <3>2, <3>3, <2>1 DEF Rec
  <2>2. CASE ~ThreadLocal
    BY <1>2, <2>2 DEF NewRec
  <2> QED
    BY <2>1, <2>2
<1>5. Block("try", r) \in BlockType
  BY <1>3 DEF Block, BlockType
<1>6. Open(t, Block("try", r))
  BY DEF EnterTry
<1> HIDE DEF r
<1>7. Pushed(t, Block("try", r))
  BY <1>5, <1>6, PushFacts
<1>8. r = NewRec(t)
  BY DEF r
<1> QED
  BY <1>2, <1>3, <1>5, <1>7, <1>8

LEMMA SlotFacts ==
    ASSUME NEW o \in Obj
    PROVE  LockSlot(o) \in Stripes /\ o \in LockSlot(o)
<1>1. \E s \in Stripes : o \in s
  BY UnwindAssumption
<1> QED
  BY <1>1 DEF LockSlot

\* What a step does to the stack of its thread: a new block, the first
\* blocks only, or nothing.
LEMMA CallPushes ==
    ASSUME TypeOK, NEW t \in Thread, Call(t) \/ RunTask(t)
    PROVE  \E b \in BlockType : Pushed(t, b) /\ b.kind \in {"call", "task"}
<1>1. /\ Block("call", None) \in BlockType /\ Block("call", None).kind = "call"
      /\ Block("task", None) \in BlockType /\ Block("task", None).kind = "task"
  BY DEF Block, BlockType
<1>2. Open(t, Block("call", None)) \/ Open(t, Block("task", None))
  BY DEF Call, RunTask
<1> QED
  BY <1>1, <1>2, PushFacts

LEMMA LockPushes ==
    ASSUME TypeOK, NEW t \in Thread, EnterLock(t)
    PROVE  /\ want[t] \in Obj
           /\ Block("lock", want[t]) \in BlockType
           /\ Pushed(t, Block("lock", want[t]))
<1>1. want[t] \in Obj
  BY DEF EnterLock, TypeOK
<1>2. Block("lock", want[t]) \in BlockType
  BY <1>1 DEF Block, BlockType
<1> QED
  BY <1>1, <1>2, PushFacts DEF EnterLock

\* A jump drops one block and, if tries may be jumped out of, those above it;
\* if not, the block is the top one and no try.
LEMMA JumpTrims ==
    ASSUME TypeOK, NEW t \in Thread, Jump(t) \/ FinishTask(t)
    PROVE  \E d \in 1 .. Len(stack[t]) :
              /\ Trimmed(t, d - 1)
              /\ ~JumpsInTry => d = Len(stack[t]) /\ stack[t][d].kind # "try"
<1>0. Len(stack[t]) \in Nat
  BY StackFacts
<1>1. PICK d \in 1 .. Len(stack[t]) :
         Jumps(t, d) /\ (~JumpsInTry => stack[t][d].kind # "try")
  BY DEF Jump, FinishTask, Kind
<1>2. d - 1 \in 0 .. Len(stack[t])
  BY <1>0
<1>3. Trimmed(t, d - 1)
  BY <1>1, <1>2, TrimFacts DEF Jumps
<1>4. ASSUME ~JumpsInTry PROVE d = Len(stack[t])
  <2> DEFINE n == Len(stack[t])
  <2>1. ~\E i \in d + 1 .. n : TRUE
    BY <1>1, <1>4 DEF Jumps
  <2>2. d \in 1 .. n /\ n \in Nat
    BY <1>0
  <2> HIDE DEF n
  <2>3. d = n
    BY <2>1, <2>2
  <2> QED  BY <2>3 DEF n
<1> QED
  BY <1>1, <1>3, <1>4

LEMMA ClosesTop ==
    ASSUME TypeOK, NEW t \in Thread, NEW k, TopIs(t, k), Close(t)
    PROVE  Trimmed(t, Len(stack[t]) - 1) /\ Len(stack[t]) \in Kind(t, k)
  BY TopFacts, CloseFacts

\* A throw that lands trims its own stack to below the handler.
LEMMA ThrowTrims ==
    ASSUME TypeOK, NEW t \in Thread, Throw(t), IsHome(t, chain[Cell(t)])
    PROVE  LET e == chain[Cell(t)]
           IN  /\ e \in Rec
               /\ frame[e][1] = t /\ frame[e][2] \in Kind(t, "try")
               /\ stack[t][frame[e][2]] = Block("try", e)
               /\ Trimmed(t, frame[e][2] - 1)
<1> DEFINE e == chain[Cell(t)]
           d == frame[e][2]
<1>1. e \in Rec
  BY DEF Throw, TypeOK, Cell, ThreadLocal
<1>2. /\ frame[e][1] = t /\ d \in 1 .. Len(stack[t])
      /\ stack[t][d] = Block("try", e)
  BY DEF IsHome
<1>3. d \in Kind(t, "try") /\ d - 1 \in 0 .. Len(stack[t])
  <2>1. Len(stack[t]) \in Nat
    BY StackFacts
  <2>2. stack[t][d].kind = "try"
    BY <1>2 DEF Block
  <2> QED  BY <1>2, <2>1, <2>2 DEF Kind
<1>4. stack' = [stack EXCEPT ![t] = SubSeq(@, 1, d - 1)]
  BY DEF Throw
<1>5. Trimmed(t, d - 1)
  BY <1>3, <1>4, TrimFacts
<1> QED
  BY <1>1, <1>2, <1>3, <1>5

LEMMA TypeInit == Init => TypeOK
<1> SUFFICES ASSUME Init PROVE TypeOK
  OBVIOUS
<1>1. stack \in [Thread -> Seq(BlockType)]
  BY EmptySeq DEF Init
<1>2. \A t \in Thread : Len(stack[t]) <= MaxDepth
  BY EmptySeq, UnwindAssumption DEF Init
<1>3. chain \in [Thread \cup {Process} -> Rec \cup {None}]
  BY DEF Init
<1>4. frame \in [Rec -> Rec]
  BY DEF Init
<1>5. prev \in [Rec -> Rec \cup {None}]
  BY DEF Init
<1>6. want \in [Thread -> Obj \cup {None}]
  BY DEF Init
<1>7. /\ backend \in Backends /\ pending \in Int
      /\ heap \subseteq Rec /\ held \subseteq Stripes /\ lost \subseteq Thread
  BY DEF Init
<1>8. exited \in BOOLEAN
  BY DEF Init
<1> QED
  BY <1>1, <1>2, <1>3, <1>4, <1>5, <1>6, <1>7, <1>8 DEF TypeOK

LEMMA TypeStep ==
    ASSUME TypeOK, NEW t \in Thread, Step(t), UNCHANGED backend
    PROVE  TypeOK'
<1> DEFINE StackOK == /\ stack' \in [Thread -> Seq(BlockType)]
                      /\ \A u \in Thread : Len(stack'[u]) <= MaxDepth
           e == chain[Cell(t)]
<1>0. /\ Cell(t) \in Thread \cup {Process} /\ e \in Rec \cup {None}
      /\ None \notin Rec
  BY UnwindAssumption DEF TypeOK, Cell
<1>1. CASE Call(t) \/ RunTask(t)
  <2>1. StackOK
    BY <1>1, CallPushes, PushType
  <2>2. pending' \in Int
    BY <1>1 DEF Call, RunTask, TypeOK
  <2> QED
    BY <1>1, <2>1, <2>2 DEF Call, RunTask, handlers, TypeOK
<1>2. CASE Jump(t)
  <2>1. StackOK
    BY <1>2, JumpTrims, TrimType
  <2> QED
    BY <1>2, <2>1 DEF Jump, handlers, TypeOK
<1>3. CASE FinishTask(t)
  <2>1. StackOK
    BY <1>3, JumpTrims, TrimType
  <2> QED
    BY <1>3, <2>1 DEF FinishTask, handlers, TypeOK
<1>4. CASE EnterTry(t)
  <2> DEFINE r == NewRec(t)
  <2>1. StackOK
    BY <1>4, NewRecFacts, PushType
  <2>2. r \in Rec /\ <<t, Len(stack[t]) + 1>> \in Rec
    BY <1>4, NewRecFacts
  <2>3. /\ prev' = [prev EXCEPT ![r] = e]
        /\ frame' = [frame EXCEPT ![r] = <<t, Len(stack[t]) + 1>>]
        /\ chain' = [chain EXCEPT ![Cell(t)] = r]
        /\ heap' = IF ThreadLocal THEN heap \cup {r} ELSE heap
    BY <1>4 DEF EnterTry
  <2> HIDE DEF r, StackOK, e
  <2>4. /\ prev' \in [Rec -> Rec \cup {None}] /\ frame' \in [Rec -> Rec]
        /\ chain' \in [Thread \cup {Process} -> Rec \cup {None}]
        /\ heap' \subseteq Rec
    BY <1>0, <2>2, <2>3 DEF TypeOK
  <2> QED
    BY <1>4, <2>1, <2>4 DEF EnterTry, TypeOK, StackOK
<1>5. CASE LeaveTry(t)
  <2> DEFINE r == Last(stack[t]).of
  <2>1. CASE e = None /\ ~ThreadLocal
    BY <1>5, <2>1 DEF LeaveTry, TypeOK, handlers
  <2>2. CASE ~(e = None /\ ~ThreadLocal)
    <3>1. /\ TopIs(t, "try") /\ Close(t)
          /\ chain' = IF e = r \/ ~ThreadLocal
                      THEN [chain EXCEPT ![Cell(t)] = prev[e]] ELSE chain
          /\ heap' = Freed(r)
          /\ prev' = Wiped(prev, r, None) /\ frame' = Wiped(frame, r, r)
      BY <1>5, <2>2 DEF LeaveTry
    <3>2. StackOK
      BY <3>1, ClosesTop, TrimType
    <3>3. r \in Rec
      BY <3>1, TopFacts, StackFacts
    <3> HIDE DEF r, StackOK, e
    <3>4. e = r \/ ~ThreadLocal => prev[e] \in Rec \cup {None}
      BY <1>0, <2>2, <3>3 DEF TypeOK
    <3>5. /\ prev' \in [Rec -> Rec \cup {None}] /\ frame' \in [Rec -> Rec]
          /\ heap' \subseteq Rec
      BY <3>1, <3>3 DEF Wiped, Freed, TypeOK
    <3>6. chain' \in [Thread \cup {Process} -> Rec \cup {None}]
      BY <1>0, <3>1, <3>4 DEF TypeOK
    <3> QED
      BY <1>5, <2>2, <3>2, <3>5, <3>6 DEF LeaveTry, TypeOK, StackOK, e
  <2> QED
    BY <2>1, <2>2
<1>6. CASE Throw(t)
  <2>1. CASE ~IsHome(t, e)
    BY <1>6, <2>1 DEF Throw, TypeOK, handlers
  <2>2. CASE IsHome(t, e)
    <3>1. /\ chain' = Outer(t, e)
          /\ heap' = Freed(e)
          /\ prev' = Wiped(prev, e, None) /\ frame' = Wiped(frame, e, e)
          /\ UNCHANGED lost
      BY <1>6, <2>2 DEF Throw
    <3>2. e \in Rec /\ StackOK
      BY <1>6, <2>2, ThrowTrims, TrimType
    <3> HIDE DEF StackOK, e
    <3>5. /\ prev' \in [Rec -> Rec \cup {None}] /\ frame' \in [Rec -> Rec]
          /\ heap' \subseteq Rec
      BY <3>1, <3>2 DEF Wiped, Freed, TypeOK
    <3>6. chain' \in [Thread \cup {Process} -> Rec \cup {None}]
      BY <1>0, <3>1, <3>2 DEF Outer, TypeOK
    <3> QED
      BY <1>6, <3>1, <3>2, <3>5, <3>6 DEF Throw, TypeOK, StackOK
  <2> QED
    BY <2>1, <2>2
<1>7. CASE ThrowUncaught(t)
  BY <1>7 DEF ThrowUncaught, TypeOK, handlers
<1>8. CASE WantLock(t)
  BY <1>8 DEF WantLock, TypeOK, handlers
<1>9. CASE EnterLock(t)
  <2>1. want[t] \in Obj /\ StackOK
    BY <1>9, LockPushes, PushType
  <2>2. held' \subseteq Stripes
    BY <1>9, <2>1, SlotFacts DEF EnterLock, TypeOK
  <2> QED
    BY <1>9, <2>1, <2>2 DEF EnterLock, TypeOK, handlers
<1>10. CASE LeaveLock(t)
  <2>1. StackOK
    BY <1>10, ClosesTop, TrimType DEF LeaveLock
  <2>2. held' \subseteq Stripes
    BY <1>10 DEF LeaveLock, TypeOK
  <2> QED
    BY <1>10, <2>1, <2>2 DEF LeaveLock, TypeOK, handlers
<1> QED
  BY <1>1, <1>2, <1>3, <1>4, <1>5, <1>6, <1>7, <1>8, <1>9, <1>10 DEF Step

\* The types hold for any constants, whatever the program does.
THEOREM TypeCorrect == Spec => []TypeOK
<1>1. TypeOK /\ [Next]_vars => TypeOK'
  <2> SUFFICES ASSUME TypeOK, [Next]_vars PROVE TypeOK'
    OBVIOUS
  <2>1. CASE Next
    BY <2>1, TypeStep DEF Next
  <2>2. CASE UNCHANGED vars
    BY <2>2 DEF vars, TypeOK
  <2> QED
    BY <2>1, <2>2
<1> QED
  BY <1>1, TypeInit, PTL DEF Spec

-----------------------------------------------------------------------------
(* Locks *)

\* A step that adds no lock block and releases nothing keeps every stripe with
\* its block; it may drop blocks, whose stripes then stay taken.
LEMMA LocksKept ==
    ASSUME LockInv, TypeOK', NEW t \in Thread, UNCHANGED held,
           \/ \E b \in BlockType : Pushed(t, b) /\ b.kind # "lock"
           \/ \E n : Trimmed(t, n)
           \/ UNCHANGED stack
    PROVE  LockInv'
<1> DEFINE Fewer == \A u \in Thread : \A i \in Kind(u, "lock")' :
                       i \in Kind(u, "lock") /\ stack'[u][i] = stack[u][i]
<1>4. Fewer
  <2>1. CASE \E b \in BlockType : Pushed(t, b) /\ b.kind # "lock"
    <3>1. PICK b \in BlockType : Pushed(t, b) /\ b.kind # "lock"
      BY <2>1
    <3>2. \A u \in Thread : Kind(u, "lock")' = Kind(u, "lock")
      BY <3>1, PushKinds DEF LockInv
    <3>3. Kind(t, "lock") \subseteq 1 .. Len(stack[t])
      BY DEF Kind
    <3>4. /\ \A u \in Thread \ {t} : stack'[u] = stack[u]
          /\ \A i \in 1 .. Len(stack[t]) : stack'[t][i] = stack[t][i]
      BY <3>1 DEF Pushed
    <3> QED
      BY <3>2, <3>3, <3>4
  <2>2. CASE \E n : Trimmed(t, n)
    <3>1. PICK n : Trimmed(t, n)
      BY <2>2
    <3>2. /\ \A u \in Thread \ {t} : Kind(u, "lock")' = Kind(u, "lock")
          /\ Kind(t, "lock")' = {i \in Kind(t, "lock") : i <= n}
          /\ \A i \in Kind(t, "lock")' : stack'[t][i] = stack[t][i]
      BY <3>1, TrimKinds DEF LockInv
    <3> QED
      BY <3>1, <3>2 DEF Trimmed
  <2>3. CASE UNCHANGED stack
    BY <2>3 DEF Kind
  <2> QED
    BY <2>1, <2>2, <2>3
<1> HIDE DEF Fewer
<1>5. Locked'
  BY <1>4 DEF LockInv, Locked, LockSlot, Fewer
<1> QED
  BY <1>5 DEF LockInv

LEMMA LockEntered ==
    ASSUME LockInv, TypeOK', NEW t \in Thread, EnterLock(t)
    PROVE  LockInv'
<1> DEFINE o == want[t]
           n == Len(stack[t]) + 1
<1>1. /\ o \in Obj /\ Block("lock", o) \in BlockType
      /\ Pushed(t, Block("lock", o))
  BY LockPushes DEF LockInv
<1>2. held' = held \cup {LockSlot(o)} /\ LockSlot(o) \notin held
  BY DEF EnterLock, Free
<1>3. /\ \A u \in Thread \ {t} : Kind(u, "lock")' = Kind(u, "lock")
      /\ Kind(t, "lock")' = Kind(t, "lock") \cup {n}
      /\ Len(stack[t]) \in Nat
  BY <1>1, PushKinds, StackFacts DEF LockInv, Block
<1>4. /\ stack'[t][n].of = o
      /\ \A u \in Thread : \A i \in Kind(u, "lock") : stack'[u][i] = stack[u][i]
  <2>1. stack'[t][n].of = o
    BY <1>1 DEF Pushed, Block
  <2>2. ASSUME NEW u \in Thread, NEW i \in Kind(u, "lock") PROVE stack'[u][i] = stack[u][i]
    <3>1. i \in 1 .. Len(stack[u])
      BY DEF Kind
    <3> QED  BY <1>1, <3>1 DEF Pushed
  <2> QED  BY <2>1, <2>2
<1>5. \A u \in Thread : \A i \in Kind(u, "lock")' :
         \/ u = t /\ i = n
         \/ i \in Kind(u, "lock") /\ stack'[u][i] = stack[u][i]
  BY <1>3, <1>4
<1>6. n \notin Kind(t, "lock")
  BY <1>3 DEF Kind
<1> HIDE DEF n, o
<1>7. ASSUME NEW u \in Thread, NEW v \in Thread,
             NEW i \in Kind(u, "lock")', NEW j \in Kind(v, "lock")'
      PROVE  /\ LockSlot(stack'[u][i].of) \in held'
             /\ LockSlot(stack'[u][i].of) = LockSlot(stack'[v][j].of) =>
                   u = v /\ i = j
  <2>1. \/ u = t /\ i = n /\ stack'[u][i].of = o
        \/ /\ i \in Kind(u, "lock") /\ stack'[u][i].of = stack[u][i].of
           /\ LockSlot(stack[u][i].of) \in held
    BY <1>4, <1>5 DEF LockInv, Locked
  <2>2. \/ v = t /\ j = n /\ stack'[v][j].of = o
        \/ /\ j \in Kind(v, "lock") /\ stack'[v][j].of = stack[v][j].of
           /\ LockSlot(stack[v][j].of) \in held
    BY <1>4, <1>5 DEF LockInv, Locked
  <2> QED
    BY <1>2, <2>1, <2>2 DEF LockInv, Locked
<1>8. Locked'
  BY <1>7 DEF Locked, LockSlot
<1> QED
  BY <1>8 DEF LockInv

LEMMA LockLeft ==
    ASSUME LockInv, TypeOK', NEW t \in Thread, LeaveLock(t)
    PROVE  LockInv'
<1> DEFINE n == Len(stack[t])
<1>1. Trimmed(t, n - 1) /\ n \in Kind(t, "lock")
  BY ClosesTop DEF LeaveLock, LockInv
<1>2. held' = held \ {LockSlot(stack[t][n].of)}
  BY TopFacts DEF LeaveLock, Targets, LockInv
<1>3. /\ \A u \in Thread \ {t} : Kind(u, "lock")' = Kind(u, "lock")
      /\ Kind(t, "lock")' = {i \in Kind(t, "lock") : i <= n - 1}
      /\ n \in Nat
  BY <1>1, TrimKinds, StackFacts DEF LockInv
<1>4. \A u \in Thread : \A i \in Kind(u, "lock")' : stack'[u][i] = stack[u][i]
  <2>1. \A i \in Kind(t, "lock")' : stack'[t][i] = stack[t][i]
    BY <1>1, TrimKinds DEF LockInv
  <2>2. \A u \in Thread \ {t} : stack'[u] = stack[u]
    BY <1>1 DEF Trimmed
  <2> QED  BY <2>1, <2>2
<1>5. n \notin Kind(t, "lock")'
  BY <1>3
<1> HIDE DEF n
<1>6. \A u \in Thread : \A i \in Kind(u, "lock")' :
         i \in Kind(u, "lock") /\ ~(u = t /\ i = n)
  BY <1>3, <1>5
<1>7. Locked'
  BY <1>1, <1>2, <1>4, <1>6 DEF LockInv, Locked, LockSlot
<1> QED
  BY <1>7 DEF LockInv

\* Inductive invariant of the lock blocks, for a program that assigns no
\* variable while it is the target of a lock.
LEMMA LockInvariance == LockInv /\ [Next]_vars => LockInv'
<1> SUFFICES ASSUME LockInv, [Next]_vars PROVE LockInv'
  OBVIOUS
<1>1. CASE UNCHANGED vars
  BY <1>1 DEF vars, LockInv, TypeOK, Locked, Kind, LockSlot
<1>2. ASSUME NEW t \in Thread, Step(t), UNCHANGED backend PROVE LockInv'
  <2>0. TypeOK /\ TypeOK'
    BY <1>2, TypeStep DEF LockInv
  <2>1. CASE Call(t) \/ RunTask(t)
    <3>1. \E b \in BlockType : Pushed(t, b) /\ b.kind # "lock"
      BY <2>0, <2>1, CallPushes
    <3> QED
      BY <2>0, <2>1, <3>1, LocksKept DEF Call, RunTask
  <2>2. CASE Jump(t)
    BY <2>0, <2>2, JumpTrims, LocksKept DEF Jump
  <2>3. CASE FinishTask(t)
    BY <2>0, <2>3, JumpTrims, LocksKept DEF FinishTask
  <2>4. CASE EnterTry(t)
    <3>1. \E b \in BlockType : Pushed(t, b) /\ b.kind # "lock"
      BY <2>0, <2>4, NewRecFacts DEF Block
    <3> QED
      BY <2>0, <2>4, <3>1, LocksKept DEF EnterTry
  <2>5. CASE LeaveTry(t)
    <3>1. UNCHANGED stack \/ \E n : Trimmed(t, n)
      BY <2>0, <2>5, ClosesTop DEF LeaveTry
    <3> QED
      BY <2>0, <2>5, <3>1, LocksKept DEF LeaveTry
  <2>6. CASE Throw(t)
    <3>1. UNCHANGED stack \/ \E n : Trimmed(t, n)
      BY <2>0, <2>6, ThrowTrims DEF Throw
    <3> QED
      BY <2>0, <2>6, <3>1, LocksKept DEF Throw
  <2>7. CASE ThrowUncaught(t) \/ WantLock(t)
    BY <2>0, <2>7, LocksKept DEF ThrowUncaught, WantLock
  <2>8. CASE EnterLock(t)
    BY <2>0, <2>8, LockEntered
  <2>9. CASE LeaveLock(t)
    BY <2>0, <2>9, LockLeft
  <2> QED
    BY <1>2, <2>1, <2>2, <2>3, <2>4, <2>5, <2>6, <2>7, <2>8, <2>9 DEF Step
<1> QED
  BY <1>1, <1>2 DEF Next

\* Lock blocks exclude each other, whatever is thrown, caught or returned from
\* (hphl_lock_begin, hphl_lock_end), when no lock target is assigned.
THEOREM LocksExclude == ~Reassigns /\ Spec => []Serialized
<1>1. ~Reassigns /\ Init => LockInv
  <2> SUFFICES ASSUME ~Reassigns, Init PROVE LockInv
    OBVIOUS
  <2>1. \A t \in Thread : Kind(t, "lock") = {}
    BY EmptySeq DEF Init, Kind
  <2> QED
    BY <2>1, TypeInit DEF LockInv, Locked
<1>2. LockInv => Serialized
  BY StackFacts DEF LockInv, Locked, Serialized
<1> QED
  BY <1>1, <1>2, LockInvariance, PTL DEF Spec

-----------------------------------------------------------------------------
(* Handlers *)

\* The chains of two threads are two (LLVM), or only one thread throws (x64).
LEMMA CellOwn ==
    ASSUME Disciplined, TypeOK, NEW t \in Thread, NEW u \in Thread,
           MayThrow(t), MayThrow(u), Cell(t) = Cell(u)
    PROVE  t = u
<1>1. backend \in {"llvm", "x64"} /\ backend \in Backends
  BY UnwindAssumption DEF TypeOK
<1>2. CASE ThreadLocal
  BY <1>2 DEF Cell
<1>3. CASE ~ThreadLocal
  BY <1>1, <1>3 DEF Disciplined, MayThrow, ThreadLocal
<1> QED
  BY <1>2, <1>3

\* A record belongs to one open try block.
LEMMA RecordOwn ==
    ASSUME TypeOK, Rooted, NEW t \in Thread, NEW u \in Thread,
           NEW i \in Kind(t, "try"), NEW j \in Kind(u, "try"),
           stack[t][i].of = stack[u][j].of
    PROVE  t = u /\ i = j
<1>1. frame[stack[t][i].of] = <<t, i>> /\ frame[stack[u][j].of] = <<u, j>>
  BY DEF Rooted
<1> QED
  BY <1>1

\* What is innermost depends on the blocks below only.
LEMMA InnermostSame ==
    ASSUME NEW s, NEW r, NEW n \in Int, NEW h,
           \A i \in 1 .. n : r[i] = s[i],
           Innermost(s, n, h)
    PROVE  Innermost(r, n, h)
<1>1. {i \in 1 .. n : r[i].kind = "try"} = {i \in 1 .. n : s[i].kind = "try"}
  OBVIOUS
<1> QED
  BY <1>1 DEF Innermost

\* Where the innermost try block is the last block.
LEMMA InnermostTop ==
    ASSUME NEW s, NEW n \in Nat \ {0}, NEW h, h # None,
           s[n].kind = "try", s[n].of = h
    PROVE  Innermost(s, n, h)
  BY DEF Innermost

\* There is one innermost record, and no handler where there is no try block.
LEMMA InnermostOnly ==
    ASSUME NEW s, NEW n \in Nat, NEW h, Innermost(s, n, h),
           NEW d \in 1 .. n, s[d].kind = "try",
           \A k \in d + 1 .. n : s[k].kind # "try"
    PROVE  h # None /\ s[d].of = h
  BY DEF Innermost

\* Blocks that are no try blocks do not matter.
LEMMA InnermostBelow ==
    ASSUME NEW s, NEW n \in Nat, NEW m \in 0 .. n, NEW h,
           \A k \in m + 1 .. n : s[k].kind # "try"
    PROVE  Innermost(s, n, h) <=> Innermost(s, m, h)
<1>1. {i \in 1 .. m : s[i].kind = "try"} = {i \in 1 .. n : s[i].kind = "try"}
  OBVIOUS
<1> QED
  BY <1>1 DEF Innermost

\* The part of the invariant that is about one thread.
ChainOf(t) ==
    /\ Innermost(stack[t], Len(stack[t]), chain[Cell(t)])
    /\ \A i \in Kind(t, "try") :
          Innermost(stack[t], i - 1, prev[stack[t][i].of])

\* A step that adds or drops blocks other than try blocks keeps the handlers.
LEMMA TriesKept ==
    ASSUME HandlerInv, TypeOK', UNCHANGED <<handlers, lost, backend>>,
           NEW t \in Thread, NEW m \in 0 .. Len(stack[t]),
           Len(stack'[t]) \in Nat, m <= Len(stack'[t]),
           \A u \in Thread \ {t} : stack'[u] = stack[u],
           \A i \in 1 .. m : stack'[t][i] = stack[t][i],
           \A i \in m + 1 .. Len(stack[t]) : stack[t][i].kind # "try",
           \A i \in m + 1 .. Len(stack'[t]) : stack'[t][i].kind # "try"
    PROVE  HandlerInv'
<1>0. TypeOK /\ Len(stack[t]) \in Nat /\ lost = {}
  BY StackFacts DEF HandlerInv, LandsAtHome
<1>1. /\ \A u \in Thread : Kind(u, "try")' = Kind(u, "try")
      /\ \A u \in Thread : \A i \in Kind(u, "try") : stack'[u][i] = stack[u][i]
      /\ \A i \in Kind(t, "try") : i \in 1 .. m
  <2>1. Kind(t, "try")' = {i \in 1 .. m : stack[t][i].kind = "try"}
    BY <1>0 DEF Kind
  <2>2. Kind(t, "try") = {i \in 1 .. m : stack[t][i].kind = "try"}
    BY <1>0 DEF Kind
  <2>3. \A u \in Thread \ {t} : Kind(u, "try")' = Kind(u, "try")
    BY DEF Kind
  <2> QED
    BY <2>1, <2>2, <2>3
<1>2. Rooted'
  <2>1. /\ \A u \in Thread : MayThrow(u)' <=> MayThrow(u)
        /\ ThreadLocal' <=> ThreadLocal
        /\ frame' = frame
    BY DEF MayThrow, ThreadLocal, handlers
  <2>2. ASSUME NEW u \in Thread, NEW i \in Kind(u, "try")'
        PROVE  LET r == stack'[u][i].of
               IN  MayThrow(u) /\ frame'[r] = <<u, i>> /\ (~ThreadLocal => r = <<u, i>>)
    <3>1. i \in Kind(u, "try") /\ stack'[u][i] = stack[u][i]
      BY <1>1
    <3>2. Rooted
      BY DEF HandlerInv
    <3> QED
      BY <2>1, <3>1, <3>2 DEF Rooted
  <2> QED
    BY <2>1, <2>2 DEF Rooted
<1>3. HeapIsTries'
  BY <1>1 DEF HandlerInv, HeapIsTries, handlers, ThreadLocal
<1>4. ASSUME NEW u \in Thread, MayThrow(u)' PROVE ChainOf(u)'
  <2>1. ChainOf(u)
    BY <1>0, <1>4 DEF HandlerInv, ChainIsStack, ChainOf, MayThrow, ThreadLocal
  <2>2. Cell(u)' = Cell(u) /\ chain' = chain /\ prev' = prev
    BY DEF Cell, ThreadLocal, handlers
  <2>5. ChainOf(u)' <=>
           /\ Innermost(stack'[u], Len(stack'[u]), chain'[Cell(u)'])
           /\ \A i \in Kind(u, "try")' :
                 Innermost(stack'[u], i - 1, prev'[stack'[u][i].of])
    BY DEF ChainOf, Innermost
  <2>3. CASE u # t
    BY <1>1, <2>1, <2>2, <2>3, <2>5 DEF ChainOf
  <2>4. CASE u = t
    <3>1. Innermost(stack[t], m, chain[Cell(t)])
      BY <1>0, <2>1, <2>4, InnermostBelow DEF ChainOf
    <3>2. Innermost(stack'[t], m, chain[Cell(t)])
      <4>1. m \in Int
        OBVIOUS
      <4> QED
        BY <3>1, <4>1, InnermostSame, Zenon
    <3>3. Innermost(stack'[t], Len(stack'[t]), chain[Cell(t)])
      <4>1. m \in 0 .. Len(stack'[t])
        OBVIOUS
      <4> QED
        BY <3>2, <4>1, InnermostBelow
    <3>4. \A i \in Kind(t, "try") :
             Innermost(stack'[t], i - 1, prev[stack[t][i].of])
      <4> TAKE i \in Kind(t, "try")
      <4>1. i \in 1 .. m /\ Innermost(stack[t], i - 1, prev[stack[t][i].of])
        BY <1>1, <2>1, <2>4 DEF ChainOf
      <4>2. \A k \in 1 .. i - 1 : stack'[t][k] = stack[t][k]
        BY <4>1
      <4> QED
        BY <4>1, <4>2, InnermostSame
    <3> QED
      BY <1>1, <2>2, <2>4, <2>5, <3>3, <3>4
  <2> QED
    BY <2>3, <2>4
<1>5. ChainIsStack'
  BY <1>4 DEF ChainIsStack, ChainOf, Innermost
<1> QED
  BY <1>0, <1>2, <1>3, <1>5 DEF HandlerInv, LandsAtHome

\* A new try block: its record is new, and the handler outside it is what was
\* innermost.
LEMMA TryEntered ==
    ASSUME HandlerInv, TypeOK', UNCHANGED backend, NEW t \in Thread, EnterTry(t)
    PROVE  HandlerInv'
<1> DEFINE r == NewRec(t)
           n == Len(stack[t])
           c == chain[Cell(t)]
<1>0. TypeOK /\ Disciplined /\ Rooted /\ lost = {} /\ lost' = {} /\ MayThrow(t)
  BY DEF HandlerInv, LandsAtHome, EnterTry
<1>1. /\ r \in Rec /\ r # None /\ <<t, n + 1>> \in Rec
      /\ ~ThreadLocal => r = <<t, n + 1>>
      /\ ThreadLocal => r \notin heap
      /\ Block("try", r) \in BlockType
      /\ Pushed(t, Block("try", r))
      /\ n \in Nat
  BY <1>0, NewRecFacts, StackFacts, UnwindAssumption
<1>2. /\ prev' = [prev EXCEPT ![r] = c]
      /\ frame' = [frame EXCEPT ![r] = <<t, n + 1>>]
      /\ chain' = [chain EXCEPT ![Cell(t)] = r]
      /\ heap' = IF ThreadLocal THEN heap \cup {r} ELSE heap
  BY DEF EnterTry
<1>3. /\ \A u \in Thread \ {t} : Kind(u, "try")' = Kind(u, "try")
      /\ Kind(t, "try")' = Kind(t, "try") \cup {n + 1}
      /\ stack'[t][n + 1].kind = "try" /\ stack'[t][n + 1].of = r
      /\ \A u \in Thread \ {t} : stack'[u] = stack[u]
      /\ \A i \in 1 .. n : stack'[t][i] = stack[t][i]
      /\ Len(stack'[t]) = n + 1
      /\ \A u \in Thread : Kind(u, "try") \subseteq 1 .. Len(stack[u])
  <2>1. /\ \A u \in Thread \ {t} : Kind(u, "try")' = Kind(u, "try")
        /\ Kind(t, "try")' = Kind(t, "try") \cup {n + 1}
    BY <1>0, <1>1, PushKinds DEF Block
  <2>2. /\ stack'[t][n + 1].kind = "try" /\ stack'[t][n + 1].of = r
        /\ \A u \in Thread \ {t} : stack'[u] = stack[u]
        /\ \A i \in 1 .. n : stack'[t][i] = stack[t][i]
        /\ Len(stack'[t]) = n + 1
    BY <1>1 DEF Block, Pushed
  <2>3. \A u \in Thread : Kind(u, "try") \subseteq 1 .. Len(stack[u])
    BY DEF Kind
  <2> QED  BY <2>1, <2>2, <2>3
<1>4. /\ \A u \in Thread : MayThrow(u)' <=> MayThrow(u)
      /\ ThreadLocal' <=> ThreadLocal
      /\ \A u \in Thread : Cell(u)' = Cell(u) /\ Cell(u) \in Thread \cup {Process}
  BY DEF MayThrow, ThreadLocal, Cell
\* The record of an open try block is another one.
<1>5. \A u \in Thread : \A i \in Kind(u, "try") :
         /\ stack[u][i].of # r /\ stack[u][i].of \in Rec
         /\ stack'[u][i] = stack[u][i]
  <2> TAKE u \in Thread
  <2> TAKE i \in Kind(u, "try")
  <2>1. stack[u][i].of \in Rec /\ stack'[u][i] = stack[u][i]
    BY <1>0, <1>3, StackFacts
  <2>2. CASE ThreadLocal
    BY <1>1, <2>1, <2>2 DEF HandlerInv, HeapIsTries
  <2>3. CASE ~ThreadLocal
    BY <1>0, <1>1, <1>3, <2>1, <2>3 DEF Rooted
  <2> QED
    BY <2>1, <2>2, <2>3
<1> HIDE DEF r, n, c
<1>6. Rooted'
  <2>1. ASSUME NEW u \in Thread, NEW i \in Kind(u, "try")'
        PROVE  LET q == stack'[u][i].of
               IN  MayThrow(u) /\ frame'[q] = <<u, i>> /\ (~ThreadLocal => q = <<u, i>>)
    <3>1. CASE i \in Kind(u, "try")
      BY <1>0, <1>1, <1>2, <1>5, <3>1 DEF Rooted, TypeOK
    <3>2. CASE u = t /\ i = n + 1
      BY <1>0, <1>1, <1>2, <1>3, <3>2 DEF TypeOK
    <3> QED
      BY <1>3, <3>1, <3>2
  <2> QED
    BY <1>4, <2>1 DEF Rooted
<1>7. HeapIsTries'
  <2>1. heap = {q \in Rec : ThreadLocal /\ \E u \in Thread :
                              \E i \in Kind(u, "try") : stack[u][i].of = q}
    BY DEF HandlerInv, HeapIsTries
  <2>2. ASSUME NEW q \in Rec
        PROVE  (\E u \in Thread : \E i \in Kind(u, "try")' : stack'[u][i].of = q) <=>
               (q = r \/ \E u \in Thread : \E i \in Kind(u, "try") : stack[u][i].of = q)
    BY <1>3, <1>5
  <2>3. heap' = {q \in Rec : ThreadLocal /\ \E u \in Thread :
                              \E i \in Kind(u, "try")' : stack'[u][i].of = q}
    BY <1>1, <1>2, <2>1, <2>2
  <2> QED
    BY <1>4, <2>3 DEF HeapIsTries
<1>8. ASSUME NEW u \in Thread, MayThrow(u) PROVE ChainOf(u)'
  <2>1. ChainOf(u)
    BY <1>0, <1>8 DEF HandlerInv, ChainIsStack, ChainOf
  <2>2. ChainOf(u)' <=>
           /\ Innermost(stack'[u], Len(stack'[u]), chain'[Cell(u)])
           /\ \A i \in Kind(u, "try")' :
                 Innermost(stack'[u], i - 1, prev'[stack'[u][i].of])
    BY <1>4 DEF ChainOf, Innermost
  <2>3. \A i \in Kind(u, "try") : prev'[stack'[u][i].of] = prev[stack[u][i].of]
    BY <1>2, <1>5 DEF HandlerInv, TypeOK
  <2>4. CASE u # t
    <3>1. chain'[Cell(u)] = chain[Cell(u)]
      BY <1>0, <1>2, <1>4, <1>8, <2>4, CellOwn DEF HandlerInv, TypeOK
    <3> QED
      BY <1>3, <2>1, <2>2, <2>3, <2>4, <3>1 DEF ChainOf
  <2>5. CASE u = t
    <3>1. Innermost(stack'[t], n + 1, r)
      BY <1>1, <1>3, InnermostTop
    <3>2. chain'[Cell(t)] = r /\ prev'[r] = c
      BY <1>1, <1>2, <1>4 DEF HandlerInv, TypeOK
    <3>3. Innermost(stack'[t], n, c)
      <4>1. Innermost(stack[t], n, c)
        BY <2>1, <2>5 DEF ChainOf, c, n
      <4> QED
        BY <1>1, <1>3, <4>1, InnermostSame
    <3>4. \A i \in Kind(t, "try") : Innermost(stack'[t], i - 1, prev[stack[t][i].of])
      <4> TAKE i \in Kind(t, "try")
      <4>1. i \in 1 .. n /\ Innermost(stack[t], i - 1, prev[stack[t][i].of])
        BY <1>3, <2>1, <2>5 DEF ChainOf, n
      <4>2. i - 1 \in Int /\ \A k \in 1 .. i - 1 : stack'[t][k] = stack[t][k]
        BY <1>1, <1>3, <4>1
      <4> QED
        BY <4>1, <4>2, InnermostSame, Zenon
    <3>5. ASSUME NEW i \in Kind(t, "try")'
          PROVE  Innermost(stack'[t], i - 1, prev'[stack'[t][i].of])
      <4>1. CASE i \in Kind(t, "try")
        BY <1>5, <2>3, <2>5, <3>4, <4>1
      <4>2. CASE i = n + 1
        <5>1. i - 1 = n
          BY <1>1, <4>2
        <5>2. prev'[stack'[t][i].of] = c
          BY <1>3, <3>2, <4>2
        <5> QED
          BY <3>3, <5>1, <5>2
      <4> QED
        BY <1>3, <4>1, <4>2
    <3>6. Innermost(stack'[t], Len(stack'[t]), chain'[Cell(t)])
      BY <1>3, <3>1, <3>2
    <3> QED
      BY <2>2, <2>5, <3>5, <3>6
  <2> QED
    BY <2>4, <2>5
<1>9. ChainIsStack'
  BY <1>4, <1>8 DEF ChainIsStack, ChainOf, Innermost
<1> QED
  BY <1>0, <1>6, <1>7, <1>9 DEF HandlerInv, LandsAtHome

\* The innermost try block of a thread is left, by its end or by a throw: its
\* record goes, and the handler outside it is current.
LEMMA TryLeft ==
    ASSUME HandlerInv, TypeOK', UNCHANGED <<backend, lost>>, NEW t \in Thread,
           NEW d \in Kind(t, "try"), NEW e \in Rec,
           stack[t][d].of = e,
           \A k \in d + 1 .. Len(stack[t]) : stack[t][k].kind # "try",
           Trimmed(t, d - 1),
           chain' = [chain EXCEPT ![Cell(t)] = prev[e]],
           heap' = heap \ {e},
           prev' = Wiped(prev, e, None), frame' = Wiped(frame, e, e)
    PROVE  HandlerInv'
<1>0. /\ TypeOK /\ Disciplined /\ Rooted /\ lost = {} /\ lost' = {}
      /\ MayThrow(t)
  BY DEF HandlerInv, LandsAtHome, Rooted
<1>1. Len(stack[t]) \in Nat /\ d \in 1 .. Len(stack[t]) /\ d - 1 \in Nat
  BY <1>0, StackFacts DEF Kind
<1>2. /\ \A u \in Thread \ {t} : Kind(u, "try")' = Kind(u, "try")
      /\ Kind(t, "try")' = Kind(t, "try") \ {d}
      /\ \A u \in Thread \ {t} : stack'[u] = stack[u]
      /\ \A i \in 1 .. d - 1 : stack'[t][i] = stack[t][i]
      /\ Len(stack'[t]) = d - 1
      /\ \A i \in Kind(t, "try")' : i \in 1 .. d - 1
  <2>1. /\ Kind(t, "try")' = {i \in Kind(t, "try") : i <= d - 1}
        /\ \A u \in Thread \ {t} : Kind(u, "try")' = Kind(u, "try")
    BY <1>0, TrimKinds
  <2>2. \A i \in Kind(t, "try") : i \in 1 .. d
    BY <1>1 DEF Kind
  <2>3. /\ \A u \in Thread \ {t} : stack'[u] = stack[u]
        /\ \A i \in 1 .. d - 1 : stack'[t][i] = stack[t][i]
        /\ Len(stack'[t]) = d - 1
    BY DEF Trimmed
  <2>4. \A i \in Kind(t, "try") : i <= d - 1 <=> i # d
    BY <1>1, <2>2
  <2>5. Kind(t, "try")' = Kind(t, "try") \ {d}
    BY <2>1, <2>4
  <2>6. ASSUME NEW i \in Kind(t, "try")' PROVE i \in 1 .. d - 1
    <3>1. i \in Kind(t, "try") /\ i <= d - 1
      BY <2>1
    <3>2. i \in 1 .. d
      BY <2>2, <3>1
    <3> QED  BY <1>1, <3>1, <3>2
  <2> QED
    BY <2>1, <2>3, <2>5, <2>6
<1>3. /\ \A u \in Thread : MayThrow(u)' <=> MayThrow(u)
      /\ ThreadLocal' <=> ThreadLocal
      /\ \A u \in Thread : Cell(u)' = Cell(u) /\ Cell(u) \in Thread \cup {Process}
  BY DEF MayThrow, ThreadLocal, Cell
\* The other records are left as they are.
<1>4. \A u \in Thread : \A i \in Kind(u, "try")' :
         /\ i \in Kind(u, "try") /\ stack'[u][i] = stack[u][i]
         /\ stack[u][i].of \in Rec \ {e}
         /\ prev'[stack[u][i].of] = prev[stack[u][i].of]
         /\ frame'[stack[u][i].of] = frame[stack[u][i].of]
  <2> SUFFICES ASSUME NEW u \in Thread, NEW i \in Kind(u, "try")'
               PROVE  /\ i \in Kind(u, "try") /\ stack'[u][i] = stack[u][i]
                      /\ stack[u][i].of \in Rec \ {e}
                      /\ prev'[stack[u][i].of] = prev[stack[u][i].of]
                      /\ frame'[stack[u][i].of] = frame[stack[u][i].of]
    OBVIOUS
  <2>1. i \in Kind(u, "try") /\ stack'[u][i] = stack[u][i] /\ ~(u = t /\ i = d)
    BY <1>2
  <2>2. stack[u][i].of \in Rec
    BY <1>0, <2>1, StackFacts
  <2>3. stack[u][i].of # e
    BY <1>0, <2>1, RecordOwn
  <2> QED
    BY <1>0, <2>1, <2>2, <2>3 DEF Wiped, TypeOK
<1>5. Rooted'
  <2>1. ASSUME NEW u \in Thread, NEW i \in Kind(u, "try")'
        PROVE  LET q == stack'[u][i].of
               IN  MayThrow(u) /\ frame'[q] = <<u, i>> /\ (~ThreadLocal => q = <<u, i>>)
    <3>1. /\ i \in Kind(u, "try") /\ stack'[u][i] = stack[u][i]
          /\ frame'[stack[u][i].of] = frame[stack[u][i].of]
      BY <1>4
    <3> QED
      BY <1>0, <3>1 DEF Rooted
  <2> QED
    BY <1>3, <2>1 DEF Rooted
<1>6. HeapIsTries'
  <2>1. heap = {q \in Rec : ThreadLocal /\ \E u \in Thread :
                              \E i \in Kind(u, "try") : stack[u][i].of = q}
    BY DEF HandlerInv, HeapIsTries
  <2>2. ASSUME NEW q \in Rec
        PROVE  (\E u \in Thread : \E i \in Kind(u, "try")' : stack'[u][i].of = q) <=>
               /\ q # e
               /\ \E u \in Thread : \E i \in Kind(u, "try") : stack[u][i].of = q
    <3>1. ASSUME NEW u \in Thread, NEW i \in Kind(u, "try"), stack[u][i].of = q, q # e
          PROVE  i \in Kind(u, "try")' /\ stack'[u][i].of = q
      <4>1. i \in Kind(u, "try")'
        BY <1>2, <3>1
      <4> QED
        BY <1>4, <3>1, <4>1
    <3> QED
      BY <1>4, <3>1
  <2>3. heap' = {q \in Rec : ThreadLocal /\ \E u \in Thread :
                              \E i \in Kind(u, "try")' : stack'[u][i].of = q}
    BY <2>1, <2>2
  <2> QED
    BY <1>3, <2>3 DEF HeapIsTries
<1>7. ASSUME NEW u \in Thread, MayThrow(u) PROVE ChainOf(u)'
  <2>1. ChainOf(u)
    BY <1>0, <1>7 DEF HandlerInv, ChainIsStack, ChainOf
  <2>2. ChainOf(u)' <=>
           /\ Innermost(stack'[u], Len(stack'[u]), chain'[Cell(u)])
           /\ \A i \in Kind(u, "try")' :
                 Innermost(stack'[u], i - 1, prev'[stack'[u][i].of])
    BY <1>3 DEF ChainOf, Innermost
  <2>3. CASE u # t
    <3>1. chain'[Cell(u)] = chain[Cell(u)]
      BY <1>0, <1>3, <1>7, <2>3, CellOwn DEF TypeOK
    <3> QED
      BY <1>2, <1>4, <2>1, <2>2, <2>3, <3>1 DEF ChainOf
  <2>4. CASE u = t
    <3>1. Innermost(stack[t], d - 1, prev[e])
      BY <2>1, <2>4 DEF ChainOf
    <3>2. Innermost(stack'[t], Len(stack'[t]), chain'[Cell(t)])
      <4>1. chain'[Cell(t)] = prev[e]
        BY <1>0, <1>3 DEF TypeOK
      <4>2. Innermost(stack'[t], d - 1, prev[e])
        BY <1>1, <1>2, <3>1, InnermostSame
      <4> QED
        BY <1>2, <4>1, <4>2
    <3>3. ASSUME NEW i \in Kind(t, "try")'
          PROVE  Innermost(stack'[t], i - 1, prev'[stack'[t][i].of])
      <4>1. i \in 1 .. d - 1 /\ Innermost(stack[t], i - 1, prev[stack[t][i].of])
        BY <1>2, <1>4, <2>1, <2>4 DEF ChainOf
      <4>2. i - 1 \in Int /\ \A k \in 1 .. i - 1 : stack'[t][k] = stack[t][k]
        BY <1>1, <1>2, <4>1
      <4>3. Innermost(stack'[t], i - 1, prev[stack[t][i].of])
        BY <4>1, <4>2, InnermostSame
      <4> QED
        BY <1>4, <4>3
    <3> QED
      BY <2>2, <2>4, <3>2, <3>3
  <2> QED
    BY <2>3, <2>4
<1>8. ChainIsStack'
  BY <1>3, <1>7 DEF ChainIsStack, ChainOf, Innermost
<1> QED
  BY <1>0, <1>5, <1>6, <1>8 DEF HandlerInv, LandsAtHome

\* The end of a try block finds its own record current.
LEMMA EndsCurrent ==
    ASSUME HandlerInv, TypeOK', UNCHANGED backend, NEW t \in Thread, LeaveTry(t)
    PROVE  HandlerInv'
<1> DEFINE n == Len(stack[t])
           e == stack[t][n].of
<1>0. TypeOK /\ Rooted /\ lost = {}
  BY DEF HandlerInv, LandsAtHome
<1>1. /\ n \in Kind(t, "try") /\ n \in Nat \ {0} /\ e \in Rec /\ e # None
      /\ Last(stack[t]) = stack[t][n] /\ stack[t] # <<>>
      /\ stack[t][n].kind = "try"
  BY <1>0, TopFacts, StackFacts, UnwindAssumption DEF LeaveTry, Kind
<1>2. chain[Cell(t)] = e
  <2>1. Innermost(stack[t], n, chain[Cell(t)])
    BY <1>0, <1>1 DEF HandlerInv, ChainIsStack, Rooted
  <2> QED
    BY <1>1, <2>1, InnermostOnly
<1>3. /\ Close(t) /\ UNCHANGED lost
      /\ chain' = [chain EXCEPT ![Cell(t)] = prev[e]]
      /\ heap' = heap \ {e}
      /\ prev' = Wiped(prev, e, None) /\ frame' = Wiped(frame, e, e)
  BY <1>1, <1>2 DEF LeaveTry, Freed
<1>4. Trimmed(t, n - 1)
  BY <1>0, <1>1, <1>3, CloseFacts
<1>5. \A k \in n + 1 .. n : stack[t][k].kind # "try"
  BY <1>1
<1> QED
  BY <1>1, <1>3, <1>4, <1>5, TryLeft

\* A throw finds its handler in its own thread, in a block that is open.
LEMMA ThrowsHome ==
    ASSUME HandlerInv, NEW t \in Thread, Throw(t)
    PROVE  LET e == chain[Cell(t)]
           IN  /\ IsHome(t, e)
               /\ \A k \in frame[e][2] + 1 .. Len(stack[t]) :
                     stack[t][k].kind # "try"
<1> DEFINE n == Len(stack[t])
           e == chain[Cell(t)]
<1>0. TypeOK /\ Rooted /\ lost = {} /\ MayThrow(t) /\ e # None /\ n \in Nat
  BY StackFacts DEF HandlerInv, LandsAtHome, Throw
<1>1. Innermost(stack[t], n, e)
  BY <1>0 DEF HandlerInv, ChainIsStack
<1>2. PICK d \in 1 .. n : /\ stack[t][d].kind = "try" /\ stack[t][d].of = e
                          /\ \A k \in 1 .. n : stack[t][k].kind = "try" => k <= d
  BY <1>0, <1>1 DEF Innermost
<1>3. d \in Kind(t, "try")
  BY <1>2 DEF Kind
<1>4. frame[e] = <<t, d>> /\ stack[t][d] = Block("try", e)
  <2>1. stack[t][d] = Block("try", stack[t][d].of)
    BY <1>0, <1>3, StackFacts
  <2>2. frame[stack[t][d].of] = <<t, d>>
    BY <1>0, <1>3 DEF Rooted
  <2> QED  BY <1>2, <2>1, <2>2
<1>5. \A k \in d + 1 .. n : stack[t][k].kind # "try"
  BY <1>0, <1>2
<1> QED
  BY <1>2, <1>4, <1>5 DEF IsHome

LEMMA ThrowLands ==
    ASSUME HandlerInv, TypeOK', UNCHANGED backend, NEW t \in Thread, Throw(t)
    PROVE  HandlerInv'
<1> DEFINE e == chain[Cell(t)]
           d == frame[e][2]
<1>1. /\ IsHome(t, e) /\ TypeOK
      /\ \A k \in d + 1 .. Len(stack[t]) : stack[t][k].kind # "try"
  BY ThrowsHome DEF HandlerInv
<1>2. /\ e \in Rec /\ d \in Kind(t, "try") /\ stack[t][d].of = e
      /\ Trimmed(t, d - 1)
  <2>1. /\ e \in Rec /\ d \in Kind(t, "try") /\ stack[t][d] = Block("try", e)
        /\ Trimmed(t, d - 1)
    BY <1>1, ThrowTrims
  <2> QED
    BY <2>1 DEF Block
<1>3. /\ UNCHANGED lost
      /\ chain' = [chain EXCEPT ![Cell(t)] = prev[e]]
      /\ heap' = heap \ {e}
      /\ prev' = Wiped(prev, e, None) /\ frame' = Wiped(frame, e, e)
  BY <1>1 DEF Throw, Freed, Outer
<1> HIDE DEF e, d
<1> QED
  BY <1>1, <1>2, <1>3, TryLeft

LEMMA PlainPush ==
    ASSUME HandlerInv, TypeOK', UNCHANGED <<handlers, lost, backend>>,
           NEW t \in Thread, NEW b \in BlockType, Pushed(t, b), b.kind # "try"
    PROVE  HandlerInv'
<1> DEFINE n == Len(stack[t])
<1>1. n \in Nat /\ Len(stack'[t]) = n + 1 /\ stack'[t][n + 1].kind # "try"
  BY StackFacts DEF HandlerInv, Pushed
<1>2. \A i \in n + 1 .. Len(stack'[t]) : stack'[t][i].kind # "try"
  BY <1>1
<1>3. n \in 0 .. Len(stack[t])
  BY <1>1
<1>4. \A i \in n + 1 .. Len(stack[t]) : stack[t][i].kind # "try"
  BY <1>1
<1>5. Len(stack'[t]) \in Nat /\ n <= Len(stack'[t])
  BY <1>1
<1>6. /\ \A u \in Thread \ {t} : stack'[u] = stack[u]
      /\ \A i \in 1 .. n : stack'[t][i] = stack[t][i]
  BY DEF Pushed
<1> HIDE DEF n
<1> QED
  BY <1>2, <1>3, <1>4, <1>5, <1>6, TriesKept

LEMMA PlainTrim ==
    ASSUME HandlerInv, TypeOK', UNCHANGED <<handlers, lost, backend>>,
           NEW t \in Thread, NEW n \in Nat, n + 1 = Len(stack[t]), Trimmed(t, n),
           stack[t][n + 1].kind # "try"
    PROVE  HandlerInv'
<1>1. /\ n \in 0 .. Len(stack[t]) /\ Len(stack'[t]) = n
      /\ \A i \in n + 1 .. Len(stack[t]) : stack[t][i].kind # "try"
      /\ \A i \in n + 1 .. Len(stack'[t]) : stack'[t][i].kind # "try"
  BY DEF Trimmed
<1> QED
  BY <1>1, TriesKept DEF Trimmed

LEMMA HandlersUnchanged ==
    ASSUME HandlerInv, TypeOK', UNCHANGED <<stack, handlers, lost, backend>>
    PROVE  HandlerInv'
<1>1. /\ \A u \in Thread : MayThrow(u)' <=> MayThrow(u)
      /\ \A u : \A k : Kind(u, k)' = Kind(u, k)
      /\ ThreadLocal' <=> ThreadLocal
      /\ chain' = chain /\ prev' = prev /\ frame' = frame /\ heap' = heap
      /\ \A u \in Thread : Cell(u)' = Cell(u)
  BY DEF MayThrow, ThreadLocal, Cell, Kind, handlers
<1>2. Rooted'
  BY <1>1 DEF HandlerInv, Rooted
<1>3. HeapIsTries'
  BY <1>1 DEF HandlerInv, HeapIsTries
<1>4. ChainIsStack'
  BY <1>1 DEF HandlerInv, ChainIsStack, Innermost
<1> QED
  BY <1>2, <1>3, <1>4 DEF HandlerInv, LandsAtHome

\* Inductive invariant of the handlers.
LEMMA HandlerStep ==
    ASSUME HandlerInv, NEW t \in Thread, Step(t), UNCHANGED backend
    PROVE  HandlerInv'
<1>0. TypeOK /\ TypeOK' /\ Len(stack[t]) \in Nat
  BY TypeStep, StackFacts DEF HandlerInv
<1>1. CASE Call(t) \/ RunTask(t)
  <2>1. PICK b \in BlockType : Pushed(t, b) /\ b.kind \in {"call", "task"}
    BY <1>0, <1>1, CallPushes
  <2> QED
    BY <1>0, <1>1, <2>1, PlainPush DEF Call, RunTask
<1>2. CASE Jump(t) \/ FinishTask(t)
  <2>1. PICK d \in 1 .. Len(stack[t]) :
           /\ Trimmed(t, d - 1)
           /\ ~JumpsInTry => d = Len(stack[t]) /\ stack[t][d].kind # "try"
    BY <1>0, <1>2, JumpTrims
  <2>2. d = Len(stack[t]) /\ stack[t][d].kind # "try"
    BY <2>1 DEF HandlerInv, Disciplined
  <2>3. d - 1 \in Nat /\ d - 1 + 1 = Len(stack[t]) /\ d - 1 + 1 = d
    BY <2>1, <2>2
  <2>4. UNCHANGED <<handlers, lost>>
    BY <1>2 DEF Jump, FinishTask
  <2> QED
    BY <1>0, <2>1, <2>2, <2>3, <2>4, PlainTrim
<1>3. CASE LeaveLock(t)
  <2> DEFINE n == Len(stack[t]) - 1
  <2>1. /\ Trimmed(t, n) /\ n \in Nat /\ n + 1 = Len(stack[t])
        /\ stack[t][n + 1].kind # "try"
    BY <1>0, <1>3, ClosesTop DEF LeaveLock, Kind
  <2>2. UNCHANGED <<handlers, lost>>
    BY <1>3 DEF LeaveLock
  <2> HIDE DEF n
  <2> QED
    BY <1>0, <2>1, <2>2, PlainTrim
<1>4. CASE EnterTry(t)
  BY <1>0, <1>4, TryEntered
<1>5. CASE LeaveTry(t)
  BY <1>0, <1>5, EndsCurrent
<1>6. CASE Throw(t)
  BY <1>0, <1>6, ThrowLands
<1>7. CASE ThrowUncaught(t) \/ WantLock(t)
  <2>1. UNCHANGED <<stack, handlers, lost>>
    BY <1>7 DEF ThrowUncaught, WantLock
  <2> QED
    BY <1>0, <2>1, HandlersUnchanged
<1>8. CASE EnterLock(t)
  <2>1. /\ Block("lock", want[t]) \in BlockType
        /\ Pushed(t, Block("lock", want[t]))
        /\ Block("lock", want[t]).kind # "try"
    BY <1>0, <1>8, LockPushes DEF Block
  <2> QED
    BY <1>0, <1>8, <2>1, PlainPush DEF EnterLock
<1> QED
  BY <1>1, <1>2, <1>3, <1>4, <1>5, <1>6, <1>7, <1>8 DEF Step

LEMMA HandlerInvariance == HandlerInv /\ [Next]_vars => HandlerInv'
<1> SUFFICES ASSUME HandlerInv, [Next]_vars PROVE HandlerInv'
  OBVIOUS
<1>1. CASE Next
  BY <1>1, HandlerStep DEF Next
<1>2. CASE UNCHANGED vars
  <2>1. TypeOK'
    BY <1>2 DEF HandlerInv, TypeOK, vars
  <2> QED
    BY <1>2, <2>1, HandlersUnchanged DEF vars, handlers
<1> QED
  BY <1>1, <1>2

LEMMA HandlerInit == Disciplined /\ Init => HandlerInv
<1> SUFFICES ASSUME Disciplined, Init PROVE HandlerInv
  OBVIOUS
<1>1. \A t \in Thread : \A k : Kind(t, k) = {}
  BY EmptySeq DEF Init, Kind
<1>2. TypeOK /\ heap = {} /\ lost = {}
  BY TypeInit DEF Init
<1>3. Rooted /\ HeapIsTries /\ LandsAtHome
  BY <1>1, <1>2 DEF Rooted, HeapIsTries, LandsAtHome
<1>4. ASSUME NEW t \in Thread PROVE ChainOf(t)
  <2>1. Len(stack[t]) = 0 /\ chain[Cell(t)] = None
    BY EmptySeq DEF Init, Cell
  <2> QED
    BY <1>1, <2>1 DEF ChainOf, Innermost
<1>5. ChainIsStack
  BY <1>4 DEF ChainIsStack, ChainOf
<1> QED
  BY <1>2, <1>3, <1>5 DEF HandlerInv

\* The chain of handlers is the nest of open try blocks and a record is freed
\* once, when its block ends (hphl_exc_push, hphl_exc_end, hphl_exc_free), in a
\* program that has no return, break or continue out of a try block and, if the
\* x64 back end compiled it, has try in Main only.
THEOREM HandlersAreTries == Disciplined /\ Spec => []HandlersExact
<1>1. HandlerInv => HandlersExact
  BY DEF HandlerInv, HandlersExact
<1> QED
  BY <1>1, HandlerInit, HandlerInvariance, PTL DEF Spec

\* In such a program a throw goes to a try block that the throwing thread has
\* open (hphl_exc_restore, the jmpq of the x64 throw).
THEOREM ThrowsLandAtHome == Disciplined /\ Spec => []LandsAtHome
<1>1. HandlerInv => LandsAtHome
  BY DEF HandlerInv
<1> QED
  BY <1>1, HandlerInit, HandlerInvariance, PTL DEF Spec
=============================================================================
