------------------------------- MODULE HirOpt -------------------------------
(***************************************************************************)
(* The optimiser of the tree (hir/hirOpt.cpp), which runs in front of all  *)
(* back ends: constant folding and removal of dead branches, repeated at   *)
(* most four times while a branch was removed, then removal of unused      *)
(* locals.  Folding computes on 64-bit integers and refuses a result that  *)
(* does not fit; division, comparison and the bounds ignore the operands'  *)
(* signedness, a right shift is logical.                                   *)
(***************************************************************************)
EXTENDS Hir

IsInt(e) == e.k = "lit"
IsBool(e) == e.k = "bool"
IsConst(e) == IsInt(e) \/ IsBool(e)
MkInt(v, u, t) == [k |-> "lit", v |-> v, u |-> u, t |-> t]
MkBool(b, t) == [k |-> "bool", v |-> Bool(b), t |-> t]

Fits(n, u) == IF u THEN n \in 0..(Word - 1) ELSE n \in MinInt..(-MinInt - 1)

(* Whether an integer operation on two literals of one signedness folds. *)
Valid(op, a, b, u) ==
  CASE op = "add" -> Fits(a + b, u)
    [] op = "sub" -> Fits(a - b, u)
    [] op = "mul" -> Fits(a * b, u)
    [] op \in {"div", "mod"} -> b # 0 /\ ~(a = MinInt /\ b = -1)
    [] op \in {"shl", "shr"} -> b \in 0..(W - 1)
    [] OTHER -> op # DerivedEq

FoldInts(op, a, b, u, t) ==
  CASE op \in Comparisons -> MkBool(Compare(op, a, b, FALSE), t)
    [] op = "and" -> MkBool(a # 0 /\ b # 0, t)
    [] op = "or" -> MkBool(a # 0 \/ b # 0, t)
    [] op = "shr" -> MkInt(Compute("shr", a, b, TRUE), u, t)
    [] OTHER -> MkInt(Compute(op, a, b, FALSE), u, t)

FoldBools(e) ==
  LET a == e.l.v = 1  b == e.r.v = 1
  IN  CASE e.op = "and" -> MkBool(a /\ b, e.t)
        [] e.op = "or" -> MkBool(a \/ b, e.t)
        [] e.op = "eq" -> MkBool(a = b, e.t)
        [] e.op = "ne" -> MkBool(a # b, e.t)
        [] OTHER -> e

FoldBinary(e) ==
  IF e.op = DerivedEq THEN e
  ELSE IF IsInt(e.l) /\ IsInt(e.r) /\ e.l.u = e.r.u
    THEN IF Valid(e.op, e.l.v, e.r.v, e.l.u)
           THEN FoldInts(e.op, e.l.v, e.r.v, e.l.u, e.t) ELSE e
  ELSE IF IsBool(e.l) /\ IsBool(e.r) THEN FoldBools(e) ELSE e

FoldUnary(e) ==
  IF IsInt(e.e)
    THEN CASE e.op = "neg" /\ ~e.e.u -> MkInt(Wrap(-e.e.v), FALSE, e.t)
           [] e.op = "bnot" -> MkInt(-e.e.v - 1, e.e.u, e.t)
           [] e.op = "not" -> MkBool(e.e.v = 0, e.t)
           [] OTHER -> e
  ELSE IF IsBool(e.e) /\ e.op = "not" THEN MkBool(e.e.v = 0, e.t) ELSE e

FoldCast(e) ==
  IF ~IsConst(e.e) THEN e
  ELSE IF e.t = "bool"
    THEN IF IsInt(e.e) THEN MkBool(e.e.v # 0, e.t) ELSE e
  ELSE MkInt(e.e.v, e.t = "uint", e.t)

(* The elements of a tuple, inc/dec and the target of an assignment stay. *)
RECURSIVE Fold(_)
Fold(e) ==
  CASE e.k = "bin" -> FoldBinary([e EXCEPT !.l = Fold(e.l), !.r = Fold(e.r)])
    [] e.k = "un" -> FoldUnary([e EXCEPT !.e = Fold(e.e)])
    [] e.k = "cast" -> FoldCast([e EXCEPT !.e = Fold(e.e)])
    [] e.k \in {"asg", "call", "index"} ->
         LET f == [e EXCEPT !.e = Fold(e.e)]
         IN  IF e.k = "asg" THEN [f EXCEPT !.x = Fold(e.x)] ELSE f
    [] e.k = "self" -> [e EXCEPT !.l = Fold(e.l), !.r = Fold(e.r)]
    [] OTHER -> e

(***************************************************************************)
(* Dead branches.  A simplified statement and whether one was removed.     *)
(***************************************************************************)
Simple(s, ch) == [s |-> s, ch |-> ch]
Truth(c) == IsConst(c) /\ c.v # 0
Falsity(c) == IsConst(c) /\ c.v = 0

RECURSIVE SimplifyStmt(_)
SimplifyList(ss) ==
  LET r == [i \in DOMAIN ss |-> SimplifyStmt(ss[i])]
      kept == SelectSeq([i \in DOMAIN ss |-> r[i].s], LAMBDA s : s # NoStmt)
  IN  [ss |-> kept, ch |-> \E i \in DOMAIN r : r[i].ch]
SimplifyBlock(b) == LET l == SimplifyList(b.ss) IN Simple(Block(l.ss), l.ch)

SimplifyIfQuiet(s, c) ==                                        \* mutant: the change is not reported
  IF Truth(c) THEN Simple(s.a, FALSE) ELSE Simple([s EXCEPT !.c = c], FALSE)
SimplifyIf(s, c) ==
  CASE Truth(c) -> Simple(s.a, TRUE)
    [] Falsity(c) -> Simple(s.b, TRUE)
    [] OTHER -> LET a == SimplifyBlock(s.a)
                    b == IF s.b = NoStmt THEN Simple(NoStmt, FALSE) ELSE SimplifyStmt(s.b)
                IN  Simple([s EXCEPT !.c = c, !.a = a.s, !.b = b.s], a.ch \/ b.ch)

SimplifyLoopDrop(s, c) ==                                       \* mutant: a do-while as a while
  IF Falsity(c) THEN Simple(NoStmt, TRUE) ELSE Simple([s EXCEPT !.c = c], FALSE)
SimplifyLoop(s, c) ==
  LET b == SimplifyBlock(s.b)
      loop == Simple([s EXCEPT !.c = c, !.b = b.s], b.ch)
  IN  CASE s.k = "while" /\ Falsity(c) -> Simple(NoStmt, TRUE)
        [] s.k = "dowhile" /\ Falsity(c) -> Simple(b.s, TRUE)
        [] s.k = "for" /\ Falsity(c) -> Simple(s.i, TRUE)
        [] OTHER -> loop

SimplifyStmt(s) ==
  CASE s.k = "if" -> SimplifyIf(s, Fold(s.c))
    [] s.k \in {"while", "dowhile", "for"} -> SimplifyLoop(s, Fold(s.c))
    [] s.k = "block" -> SimplifyBlock(s)
    [] s.k \in {"decl", "expr", "return"} -> Simple([s EXCEPT !.e = Fold(s.e)], FALSE)
    [] s.k = "assert" -> Simple([s EXCEPT !.c = Fold(s.c)], FALSE)
    [] s.k = "throw" -> Simple([s EXCEPT !.e = Fold(s.e)], FALSE)
    [] s.k = "try" -> LET b == SimplifyBlock(s.b)  h == SimplifyBlock(s.h)
                      IN  Simple([s EXCEPT !.b = b.s, !.h = h.s], b.ch \/ h.ch)
    [] s.k = "lock" -> LET b == SimplifyBlock(s.b) IN Simple([s EXCEPT !.b = b.s], b.ch)
    [] OTHER -> Simple(s, FALSE)

(***************************************************************************)
(* Unused locals: declarations of names that no collected expression       *)
(* mentions, with an initial value that counts as pure.                    *)
(***************************************************************************)
RECURSIVE PureExpr(_)
PureExpr(e) ==
  CASE e.k \in {"none", "lit", "bool"} -> TRUE
    [] e.k = "var" -> e.n # "p"                                   \* p: a property
    [] e.k = "bin" -> e.op # DerivedEq /\ PureExpr(e.l) /\ PureExpr(e.r)
    [] e.k = "un" -> e.op \notin IncDec /\ PureExpr(e.e)
    [] e.k = "cast" -> PureExpr(e.e)
    [] OTHER -> FALSE

RECURSIVE CollectExpr(_), Collect(_)
CollectValue(e) == CollectExpr(e.e)                             \* mutant: not the target
CollectAssign(e) == CollectExpr(e.x) \cup CollectExpr(e.e)
CollectExpr(e) ==
  CASE e.k = "var" -> {e.n}
    [] e.k \in {"bin", "self"} -> CollectExpr(e.l) \cup CollectExpr(e.r)
    [] e.k = "asg" -> CollectAssign(e)
    [] e.k = "index" -> {e.a} \cup CollectExpr(e.e)
    [] e.k \in {"un", "cast", "call"} -> CollectExpr(e.e)
    [] OTHER -> {}

Collect(s) ==
  CASE s.k = "block" -> UNION {Collect(s.ss[i]) : i \in DOMAIN s.ss}
    [] s.k \in {"decl", "expr", "return", "throw"} -> CollectExpr(s.e)
    [] s.k = "try" -> Collect(s.b) \cup Collect(s.h)
    [] s.k = "lock" -> Collect(s.b)
    [] s.k = "if" -> CollectExpr(s.c) \cup Collect(s.a) \cup Collect(s.b)
    [] s.k \in {"while", "dowhile"} -> CollectExpr(s.c) \cup Collect(s.b)
    [] s.k = "for" -> Collect(s.i) \cup CollectExpr(s.c) \cup CollectExpr(s.s) \cup Collect(s.b)
    [] s.k = "assert" -> CollectExpr(s.c)
    [] OTHER -> {}

DceLocal(d, used) == d.n \notin used /\ PureExpr(d.e)

RECURSIVE DceStmt(_, _)
DceBlock(ss, used) ==
  LET kept == SelectSeq(ss, LAMBDA s : ~(s.k = "decl" /\ DceLocal(s, used)))
  IN  [i \in DOMAIN kept |-> DceStmt(kept[i], used)]
DceStmt(s, used) ==
  CASE s.k = "block" -> Block(DceBlock(s.ss, used))
    [] s.k = "if" -> [s EXCEPT !.a = DceStmt(s.a, used), !.b = DceStmt(s.b, used)]
    [] s.k \in {"while", "dowhile", "for", "lock"} -> [s EXCEPT !.b = DceStmt(s.b, used)]
    [] s.k = "try" -> [s EXCEPT !.b = DceStmt(s.b, used), !.h = DceStmt(s.h, used)]
    [] OTHER -> s

Eliminate(body) == DceStmt(body, Collect(body))
MaxRounds == 4
=============================================================================
