-------------------------------- MODULE Mir --------------------------------
(***************************************************************************)
(* The three-address form made of the optimised tree (mir/mir.cpp): basic  *)
(* blocks of instructions over names, built in the order of creation.  A   *)
(* name is a pair: a variable <<"x", 0>>, a temporary <<"t", n>>, and after *)
(* renaming one with its version, <<"x", 0, v>>.  A construct the form has *)
(* no instruction for becomes "opaque".                                    *)
(***************************************************************************)
EXTENDS Llvm, SequencesExt

Name(n) == [o |-> "name", n |-> n]
Local(n) == Name(<<n, 0>>)
Temp(n) == Name(<<"%t", n>>)
Imm(v) == [o |-> "imm", v |-> v]
GlobalName(n) == [o |-> "global", n |-> n]
None == [o |-> "none"]
Ins(op, d, a, b, x) == [op |-> op, d |-> d, a |-> a, b |-> b, x |-> x]
Goto(l) == Ins("br", None, l, 0, "")

(* The builder: blocks <<label, instructions>>, counters, enclosing loops  *)
(* and the operand that the last expression gave.                          *)
NewMir == [bs |-> <<[l |-> 0, is |-> <<>>]>>, t |-> 0, n |-> 0, loops |-> <<>>, v |-> None]
Build(m, i) == [m EXCEPT !.bs[Len(m.bs)].is = Append(@, i)]
CurTerminated(m) == LET is == Last(m.bs).is
            IN  is # <<>> /\ Last(is).op \in {"ret", "br", "cbr"}
Result(m, v) == [m EXCEPT !.v = v]
NewTemp(m) == [m EXCEPT !.t = @ + 1, !.v = Temp(m.t)]
NewLabels(m, k) == [m EXCEPT !.n = @ + k]
StartBlockOpen(m, l) == [m EXCEPT !.bs = Append(@, [l |-> l, is |-> <<>>])]      \* mutant
StartBlock(m, l) ==
  LET closed == IF CurTerminated(m) THEN m ELSE Build(m, Goto(l))
  IN  [closed EXCEPT !.bs = Append(@, [l |-> l, is |-> <<>>])]
Opaque(m) == Result(Build(m, Ins("opaque", None, None, None, "")), None)
(* An instruction whose result is a new temporary. *)
Into(m, op, a, b, x) == LET t == NewTemp(m) IN Build(t, Ins(op, t.v, a, b, x))

RECURSIVE LowerExpr(_, _)
LowerLogic(e, m0) ==
  LET r == Temp(m0.t)  rhs == m0.n + 1  join == m0.n + 2
      l == LowerExpr(e.l, NewLabels(NewTemp(m0), 2))
      test == Build(l, IF e.op = "and" THEN Ins("cbr", l.v, rhs, join, "")
                       ELSE Ins("cbr", l.v, join, rhs, ""))
      right == LowerExpr(e.r, StartBlock(test, rhs))
      kept == Build(Build(right, Ins("store", right.v, r.n, None, "")), Goto(join))
  IN  Into(StartBlock(kept, join), "local", r, None, "")

LowerAssign(e, m) ==
  LET v == LowerExpr(e.e, m)
      old == Into(v, "local", Local(e.x.n), None, "")
      new == IF e.op = "set" THEN v ELSE Into(old, "bin", old.v, v.v, e.op)
  IN  IF e.x.k # "var" \/ e.x.n \in {"g", "p"} THEN Opaque(m)
      ELSE Build(new, Ins("store", new.v, <<e.x.n, 0>>, None, ""))

LowerCall(e, m) ==                  \* the target first, then the arguments
  LET t == NewTemp(m)
      a == LowerExpr(e.e, t)
  IN  Result(Build(a, Ins("call", t.v, a.v, None, e.f)), t.v)
LowerSelf(e, m) ==
  LET t == NewTemp(m)
      l == LowerExpr(e.l, t)
      r == LowerExpr(e.r, l)
  IN  Result(Build(r, Ins("call", t.v, l.v, r.v, "self")), t.v)

LowerExpr(e, m) ==
  CASE e.k \in {"lit", "bool"} -> Result(m, Imm(e.v))
    [] e.k = "var" /\ e.n # "p" -> Result(m, IF e.n = "g" THEN GlobalName("g") ELSE Local(e.n))
    [] e.k = "bin" ->
         IF e.op \in Logical THEN LowerLogic(e, m)
         ELSE LET l == LowerExpr(e.l, m)
                  r == LowerExpr(e.r, l)
              IN  (CASE e.op \in Comparisons -> Into(r, "cmp", l.v, r.v, e.op)
                    [] e.op = DerivedEq -> Into(r, "cmp", l.v, r.v, "eq")
                    [] OTHER -> Into(r, "bin", l.v, r.v, e.op))
    [] e.k = "un" -> LET o == LowerExpr(e.e, m)
                     IN  Into(o, "unary", o.v, None, IF e.op \in {"neg", "not"} THEN e.op ELSE "bnot")
    [] e.k = "asg" -> LowerAssign(e, m)
    [] e.k = "call" -> LowerCall(e, m)
    [] e.k = "self" -> LowerSelf(e, m)
    [] OTHER -> Opaque(m)

JumpIfOpen(m, l) == IF CurTerminated(m) THEN m ELSE Build(m, Goto(l))
Inside(m, brk, cont) == [m EXCEPT !.loops = <<<<brk, cont>>>> \o @]
Outer(m) == [m EXCEPT !.loops = Tail(@)]

RECURSIVE LowerStmt(_, _)
LowerIf(s, m) ==
  LET c == LowerExpr(s.c, m)
      th == c.n + 1  el == c.n + 2  en == c.n + 3  has == s.b # NoStmt
      test == Build(NewLabels(c, 3), Ins("cbr", c.v, th, IF has THEN el ELSE en, ""))
      yes == JumpIfOpen(LowerStmt(s.a, StartBlock(test, th)), en)
      no == JumpIfOpen(LowerStmt(s.b, StartBlock(yes, el)), en)
  IN  StartBlock(IF has THEN no ELSE yes, en)
LowerWhile(s, m) ==
  LET co == m.n + 1  bo == m.n + 2  en == m.n + 3
      c == LowerExpr(s.c, StartBlock(Build(NewLabels(m, 3), Goto(co)), co))
      body == StartBlock(Build(c, Ins("cbr", c.v, bo, en, "")), bo)
      done == Outer(LowerStmt(s.b, Inside(body, en, co)))
  IN  StartBlock(Build(done, Goto(co)), en)
LowerFor(s, m0) ==
  LET m == LowerStmt(s.i, m0)
      co == m.n + 1  bo == m.n + 2  st == m.n + 3  en == m.n + 4
      head == StartBlock(Build(NewLabels(m, 4), Goto(co)), co)
      c == LowerExpr(s.c, head)
      test == IF s.c = NoExpr THEN head ELSE Build(c, Ins("cbr", c.v, bo, en, ""))
      done == Outer(LowerStmt(s.b, Inside(StartBlock(test, bo), en, st)))
      step == StartBlock(done, st)
      next == IF s.s = NoExpr THEN step ELSE LowerExpr(s.s, step)
  IN  StartBlock(Build(next, Goto(co)), en)
Leave(m, which) ==                   \* break and continue; what follows is out of reach
  IF m.loops = <<>> THEN m
  ELSE StartBlock(Build(NewLabels(m, 1), Goto(Head(m.loops)[which])), m.n + 1)

LowerStmt(s, m) ==
  CASE s.k = "gone" -> m
    [] s.k = "block" -> FoldLeft(LAMBDA k, t : LowerStmt(t, k), m, s.ss)
    [] s.k = "decl" -> IF s.e = NoExpr THEN m
                       ELSE LET v == LowerExpr(s.e, m) IN Build(v, Ins("store", v.v, <<s.n, 0>>, None, ""))
    [] s.k = "expr" -> LowerExpr(s.e, m)
    [] s.k = "return" -> IF s.e = NoExpr THEN Build(m, Ins("ret", None, None, None, ""))
                         ELSE LET v == LowerExpr(s.e, m) IN Build(v, Ins("ret", v.v, None, None, ""))
    [] s.k = "if" -> LowerIf(s, m)
    [] s.k = "while" -> LowerWhile(s, m)
    [] s.k = "for" -> LowerFor(s, m)
    [] s.k = "break" -> Leave(m, 1)
    [] s.k = "continue" -> Leave(m, 2)
    [] OTHER -> Opaque(m)            \* do-while, panic, assert, throw, try, lock

Lowered(body) ==
  LET m == LowerStmt(body, NewMir)
  IN  (IF CurTerminated(m) THEN m ELSE Build(m, Ins("ret", None, None, None, ""))).bs

-----------------------------------------------------------------------------
(***************************************************************************)
(* Static single assignment over that form (SsaBuilder in mir/mir.cpp):    *)
(* the flow graph from the last instruction of each block, dominators by   *)
(* sweeps until nothing changes, dominance frontiers, phis for the         *)
(* variables stored in two blocks or more, renaming down the tree of       *)
(* dominators with a stack of versions per name.                           *)
(***************************************************************************)

(***************************************************************************)
(* The flow graph, over positions in the list of blocks.                   *)
(***************************************************************************)
BlockAt(bs, l) == CHOOSE k \in DOMAIN bs : bs[k].l = l
Succs(bs, k) ==
  LET is == bs[k].is
      lab == IF is = <<>> THEN <<>>
             ELSE CASE Last(is).op = "br" -> <<Last(is).a>>
                    [] Last(is).op = "cbr" -> <<Last(is).a, Last(is).b>>
                    [] OTHER -> <<>>
  IN  [j \in DOMAIN lab |-> BlockAt(bs, lab[j])]
Preds(bs) == [k \in DOMAIN bs |->
  SelectSeq([j \in DOMAIN bs |-> j], LAMBDA j : k \in Range(Succs(bs, j)))]

(***************************************************************************)
(* Dominators: idom[k] is the position of the immediate one, 0 when none.  *)
(***************************************************************************)
NoIdoms(bs) == [k \in DOMAIN bs |-> IF k = 1 THEN 1 ELSE 0]
RECURSIVE Meet(_, _, _)
MeetFirst(idom, a, b) == b                                       \* mutant
Meet(idom, a, b) ==                        \* the two fingers
  IF a = b THEN a ELSE IF a > b THEN Meet(idom, idom[a], b) ELSE Meet(idom, a, idom[b])
Candidate(idom, k, preds) ==
  FoldLeft(LAMBDA c, p : IF idom[p] = 0 \/ p = k THEN c ELSE IF c = 0 THEN p ELSE Meet(idom, p, c),
           0, preds)
Sweep(bs, idom) ==
  LET preds == Preds(bs)
      step(d, k) == LET c == Candidate(d, k, preds[k]) IN IF c = 0 THEN d ELSE [d EXCEPT ![k] = c]
  IN  FoldLeft(step, idom, [j \in 1..(Len(bs) - 1) |-> j + 1])
Kids(idom, k) == SelectSeq([j \in DOMAIN idom |-> j], LAMBDA j : j # 1 /\ idom[j] = k /\ j # k)

RECURSIVE Runners(_, _, _)
Runners(idom, p, stop) ==                  \* p and its dominators below stop
  IF p \in {0, stop} THEN {} ELSE {p} \cup Runners(idom, IF p = 1 THEN 0 ELSE idom[p], stop)
FrontiersOf(bs, idom) ==
  LET preds == Preds(bs)
      joins == {k \in DOMAIN bs : Len(preds[k]) >= 2}
  IN  [r \in DOMAIN bs |-> {k \in joins : \E p \in Range(preds[k]) : r \in Runners(idom, p, idom[k])}]

(***************************************************************************)
(* Phis.  Only stores are counted as definitions of a variable: a value it *)
(* enters the function with is not one.                                    *)
(***************************************************************************)
StoredNames(bs) == UNION {{i.a : i \in {j \in Range(bs[k].is) : j.op = "store"}} : k \in DOMAIN bs}
StoredIn(bs, n) == {k \in DOMAIN bs : \E i \in Range(bs[k].is) : i.op = "store" /\ i.a = n}
RECURSIVE PhiBlocks(_, _, _)
PhiBlocksOnce(df, work, has) == has \cup UNION {df[k] : k \in work}             \* mutant
PhiBlocks(df, work, has) ==                \* the frontiers of the blocks, again and again
  LET new == UNION {df[k] : k \in work} \ has
  IN  IF new = {} THEN has ELSE PhiBlocks(df, new, has \cup new)
PhiWorth(bs, n) == Cardinality(StoredIn(bs, n)) >= 2
Phi(n) == Ins("phi", Name(n), n, <<>>, "")
WithPhis(bs, df) ==
  LET at(n) == IF PhiWorth(bs, n) THEN PhiBlocks(df, StoredIn(bs, n), {}) ELSE {}
      add(b, k) == [b EXCEPT !.is = SetToSeq({Phi(n) : n \in {v \in StoredNames(bs) : k \in at(v)}}) \o @]
  IN  [k \in DOMAIN bs |-> add(bs[k], k)]

(***************************************************************************)
(* Renaming.  st.top gives the stack of versions of a name, st.count the   *)
(* next one.                                                               *)
(***************************************************************************)
Versioned(n, v) == <<n[1], n[2], v>>
Stack(st, n) == IF n \in DOMAIN st.top THEN st.top[n] ELSE <<>>
Top(st, o) == IF o.o # "name" THEN o                  \* version 0 when none is in sight
              ELSE Name(Versioned(o.n, IF Stack(st, o.n) = <<>> THEN 0 ELSE Head(Stack(st, o.n))))
Count(st, n) == IF n \in DOMAIN st.count THEN st.count[n] ELSE 0
NewDepth(st, n) == [st EXCEPT !.top = (n :> <<Count(st, n)>> \o Stack(st, n)) @@ @,
                              !.count = (n :> Len(Stack(st, n)) + 1) @@ @]      \* mutant
New(st, n) == [st EXCEPT !.top = (n :> <<Count(st, n)>> \o Stack(st, n)) @@ @,
                         !.count = (n :> Count(st, n) + 1) @@ @]
Fresh1(st, n) == Name(Versioned(n, Count(st, n)))
RenameIns(st, i) ==                        \* the stack after it, and the instruction
  LET d == IF i.op = "store" THEN i.a ELSE i.d.n
      def(j) == [st |-> New(st, d), i |-> [j EXCEPT !.d = Fresh1(st, d)]]
  IN  CASE i.op = "phi" -> [st |-> New(st, i.a), i |-> [i EXCEPT !.d = Fresh1(st, i.a)]]
        [] i.op = "store" -> [st |-> New(st, d), i |-> [i EXCEPT !.d = Top(st, @), !.a = Fresh1(st, d).n]]
        [] i.op \in {"local", "unary"} -> def([i EXCEPT !.a = Top(st, @)])
        [] i.op \in {"bin", "cmp"} -> def([i EXCEPT !.a = Top(st, @), !.b = Top(st, @)])
        [] i.op = "call" -> def([i EXCEPT !.a = Top(st, @), !.b = Top(st, @)])
        [] i.op = "ret" -> [st |-> st, i |-> [i EXCEPT !.d = Top(st, @)]]
        [] OTHER -> [st |-> st, i |-> i]   \* a branch keeps the name of its condition
RenameBlock(st, k) ==
  LET step(a, i) == LET r == RenameIns(a.st, i) IN [st |-> r.st, is |-> Append(a.is, r.i)]
      r == FoldLeft(step, [st |-> st, is |-> <<>>], st.bs[k].is)
  IN  [r.st EXCEPT !.bs[k].is = r.is]
FillPhi(st, i) == IF i.op = "phi" THEN [i EXCEPT !.b = Append(@, Top(st, Name(i.a)))] ELSE i
FillPhis(st, k) ==                         \* the arguments this block gives its successors
  FoldLeft(LAMBDA a, s : [a EXCEPT !.bs[s].is = [j \in DOMAIN @ |-> FillPhi(st, @[j])]],
           st, Succs(st.bs, k))
RECURSIVE Rename(_, _, _)
RenameKeep(idom, st, k) ==                                       \* mutant: nothing is popped
  FoldLeft(LAMBDA a, c : Rename(idom, a, c), FillPhis(RenameBlock(st, k), k), Kids(idom, k))
Rename(idom, st, k) ==
  LET done == FoldLeft(LAMBDA a, c : Rename(idom, a, c), FillPhis(RenameBlock(st, k), k), Kids(idom, k))
  IN  [done EXCEPT !.top = st.top]
Renamed(bs, idom) ==
  Rename(idom, [bs |-> bs, top |-> [n \in {} |-> <<>>], count |-> [n \in {} |-> 0]], 1).bs

(***************************************************************************)
(* What a list of blocks computes, before and after renaming.  No part of  *)
(* the compiler runs this form: it is dumped for a reader (--dump-mir).    *)
(* Names hold values in a function that grows with the definitions; a name *)
(* that was never defined reads as Junk.  A branch keeps its condition's   *)
(* name without a version and reads the version defined last.              *)
(***************************************************************************)
Lookup(m, n) == IF n \in DOMAIN m.vals THEN m.vals[n] ELSE Junk
Value(m, o) == CASE o.o = "imm" -> o.v
                 [] o.o = "global" -> m.env[o.n]
                 [] o.o = "name" -> Lookup(m, o.n)
                 [] OTHER -> Junk
Define(m, n, v) == [m EXCEPT !.vals = (n :> v) @@ (<<n[1], n[2]>> :> v) @@ @]

(* The positions the phis of block k choose from: its reachable            *)
(* predecessors, in order.                                                 *)
RECURSIVE ReachFrom(_, _, _)
ReachFrom(bs, new, seen) ==
  LET more == (UNION {Range(Succs(bs, k)) : k \in new}) \ seen
  IN  IF more = {} THEN seen ELSE ReachFrom(bs, more, seen \cup more)
Reachable(bs) == ReachFrom(bs, {1}, {1})
LivePreds(bs) == LET live == Reachable(bs)  preds == Preds(bs)
                 IN  [k \in DOMAIN bs |-> SelectSeq(preds[k], LAMBDA j : j \in live)]
Enter(code, m, from, k) ==
  LET is == code.bs[k].is
      phis == {is[j] : j \in {i \in DOMAIN is : is[i].op = "phi"}}
      at == CHOOSE j \in DOMAIN code.preds[k] : code.preds[k][j] = from
      arg(p) == IF at \in DOMAIN p.b THEN Value(m, p.b[at]) ELSE Junk
      new == [n \in UNION {{p.d.n, <<p.d.n[1], p.d.n[2]>>} : p \in phis} |->
                arg(CHOOSE p \in phis : p.d.n = n \/ <<p.d.n[1], p.d.n[2]>> = n)]
  IN  [m EXCEPT !.vals = new @@ @]

RECURSIVE Exec(_, _, _, _, _)
Exec(code, k, i, m, fuel) ==
  IF ~Running(m) THEN m
  ELSE IF fuel = 0 THEN Stop(m, "fuel")
  ELSE IF i > Len(code.bs[k].is) THEN Stop(m, "wild")
  ELSE LET s == code.bs[k].is[i]
           a == Value(m, s.a)  b == Value(m, s.b)  d == Value(m, s.d)
           go(n) == Exec(code, k, i + 1, n, fuel - 1)
           set(v) == go(Define(m, s.d.n, v))
           to(l) == LET j == BlockAt(code.bs, l) IN Exec(code, j, 1, Enter(code, m, k, j), fuel - 1)
       IN  CASE s.op = "opaque" \/ s.x = "self" -> Stop(m, "opaque")
             [] s.op = "phi" -> go(m)
             [] s.op = "local" -> set(a)
             [] s.op = "cmp" -> set(Bool(Compare(s.x, a, b, FALSE)))
             [] s.op = "bin" -> IF Traps(s.x, a, b, FALSE) THEN Stop(m, "trap")
                                ELSE set(Compute(s.x, a, b, FALSE))
             [] s.op = "unary" -> set(CASE s.x = "neg" -> Wrap(-a) [] s.x = "not" -> Bool(a = 0)
                                        [] OTHER -> -a - 1)
             [] s.op = "call" -> LET c == CallF(Give(m, a), s.x)
                                 IN  IF Running(c) THEN go(Define(c, s.d.n, c.v)) ELSE c
             [] s.op = "store" -> go(Define(m, s.a, d))
             [] s.op = "ret" -> Stop(Give(m, IF s.d = None THEN 0 ELSE d), "ret")
             [] s.op = "br" -> to(s.a)
             [] s.op = "cbr" -> to(IF d # 0 THEN s.a ELSE s.b)

MirMachine(env) ==
  LET names == {n \in DOMAIN env : n \notin {"a", "l", "g", "p"}}
      vals == [n \in {<<x, 0>> : x \in names} \cup {<<x, 0, 0>> : x \in names} |-> env[n[1]]]
  IN  Machine(env) @@ [vals |-> vals]
MirOutcome(bs, env, fuel) ==
  Seen(Exec([bs |-> bs, preds |-> LivePreds(bs)], 1, 1, MirMachine(env), fuel))
=============================================================================
