-------------------------------- MODULE Lower --------------------------------
(***************************************************************************)
(* The lowering of the syntax tree to the HIR (hir/hir.cpp): the sugar of  *)
(* an expression becomes statements, put out before the statement that the *)
(* expression stands in, and the expression itself a temporary.            *)
(* Low(e, c, n) gives those statements (ss), the expression that is left   *)
(* (e) and the number of the last temporary (n); of a statement there is   *)
(* no expression left, and no e.  The context c holds what                 *)
(* the lowerer keeps: the depth of loops, the depths at which the switches *)
(* around opened, the postconditions and the returned type.                *)
(***************************************************************************)
EXTENDS AstRun

Temp(n) == "__h" \o ToString(n)
TempVar(n, t) == Var(Temp(n), t)
Assign(x, e) == Ex(Asg("set", x, e))
Neg(e) == Un("not", e)
Default == Lit(0)                    \* hDefaultValue: zero, false or null
None == Cell("None", NoExpr, "opt")

SwitchSuppressedAll(c) == c.sw # <<>>
SwitchSuppressed(c) == c.sw # <<>> /\ c.loop = c.sw[Len(c.sw)]
InLoop(c) == [c EXCEPT !.loop = @ + 1]
InSwitch(c) == [c EXCEPT !.sw = Append(@, c.loop)]

(***************************************************************************)
(* wrapPattern: the statements inner, under the tests that p makes of the  *)
(* expression x.  A temporary is numbered from n on for a list's data; the *)
(* number of a pattern's last one is n plus its lists.                     *)
(***************************************************************************)
RECURSIVE Lists(_), Wrapped1(_, _, _, _), WrapSubs(_, _, _, _, _)
SumLists(ps) == LET F[i \in 0..Len(ps)] == IF i = 0 THEN 0 ELSE F[i - 1] + Lists(ps[i]) IN F[Len(ps)]
Lists(p) == CASE p.k = "list" -> 1 + SumLists(p.subs)
              [] p.k \in {"variant", "struct"} -> SumLists(p.subs)
              [] OTHER -> 0
Test(c, inner) == <<If(c, Block(inner), NoStmt)>>

WrapSubs(ps, x, off, inner, n) ==    \* the first sub-pattern is the outermost
  IF ps = <<>> THEN inner
  ELSE Wrapped1(Head(ps), LoadAt(x, off), WrapSubs(Tail(ps), x, off + 1, inner, n + Lists(Head(ps))), n)

WrappedList(p, x, inner, n) ==      \* the length, the elements from the data, the rest sliced
  LET need == Len(p.subs)
      size == Rt("hphl_list_len", <<x>>)
      rest == Rt("hphl_list_slice", <<x, Lit(need), Bin("sub", size, Lit(need), "int")>>)
      flow == WrapSubs(p.subs, TempVar(n + 1, "list"), 0,
                       IF p.rest = "" THEN inner ELSE <<Decl(p.rest, "list", rest)>> \o inner, n + 1)
      data == Decl(Temp(n + 1), "list", Rt("hphl_list_data", <<x>>))
  IN  <<data>> \o (IF p.rest # "" /\ need = 0 THEN flow
                   ELSE Test(Bin(IF p.rest = "" THEN "eq" ELSE "ge", size, Lit(need), "bool"), flow))
Wrapped1(p, x, inner, n) ==
  CASE p.k = "any" -> inner
    [] p.k = "const" -> Test(Bin("eq", IF p.cell THEN Tag(x) ELSE x, Lit(p.v), "bool"), inner)
    [] p.k = "range" -> Test(Bin("and", Bin("ge", x, Lit(p.lo), "bool"),
                                        Bin("le", x, Lit(p.hi), "bool"), "bool"), inner)
    [] p.k = "bind" -> <<Decl(p.n, "int", x)>> \o inner
    [] p.k = "variant" -> Test(Bin("eq", Tag(x), Lit(p.v), "bool"), WrapSubs(p.subs, x, 1, inner, n))
    [] p.k = "struct" -> WrapSubs(p.subs, x, 0, inner, n)
    [] p.k = "list" -> WrappedList(p, x, inner, n)

(***************************************************************************)
(* Expressions.                                                            *)
(***************************************************************************)
RECURSIVE Low(_, _, _), LowAll(_, _, _), LowStmt(_, _, _), LowList(_, _, _), LowArms(_, _, _, _, _)
LowAll(es, c, n) ==
  IF es = <<>> THEN [ss |-> <<>>, es |-> <<>>, n |-> n]
  ELSE LET a == Low(Head(es), c, n)  r == LowAll(Tail(es), c, a.n)
       IN  [ss |-> a.ss \o r.ss, es |-> <<a.e>> \o r.es, n |-> r.n]

Keep(e, n) == [ss |-> <<>>, e |-> e, n |-> n]
Hoisted(ss, e, n) == [ss |-> <<Seq1(ss)>>, e |-> e, n |-> n]

LowTernary(e, c, n) ==
  LET val == TempVar(n + 1, e.t)
      q == Low(e.c, c, n + 1)  a == Low(e.a, c, q.n)  b == Low(e.b, c, a.n)
  IN  Hoisted(<<Decl(val.n, e.t, Default)>> \o q.ss \o
              <<If(q.e, Block(a.ss \o <<Assign(val, a.e)>>), Block(b.ss \o <<Assign(val, b.e)>>))>>, val, b.n)

LowCoalesce(e, c, n) ==
  LET cell == TempVar(n + 1, e.l.t)  val == TempVar(n + 2, e.t)
      l == Low(e.l, c, n + 2)  r == Low(e.r, c, l.n)
      nullable == e.l.t \in {"ref", "list"}
      bad == IF nullable THEN Bin("eq", cell, Lit(0), "bool")
             ELSE Bin("eq", Tag(cell), Lit(BadTag(e.l.t)), "bool")
  IN  Hoisted(l.ss \o <<Decl(cell.n, e.l.t, l.e), Decl(val.n, e.t, Default),
                If(bad, Block(r.ss \o <<Assign(val, r.e)>>),
                   Block(<<Assign(val, IF nullable THEN cell ELSE LoadAt(cell, 1))>>))>>, val, r.n)

LowPropagate(e, c, n) ==
  LET cell == TempVar(n + 1, e.e.t)  val == TempVar(n + 2, e.t)
      o == Low(e.e, c, n + 2)
  IN  Hoisted(o.ss \o <<Decl(cell.n, e.e.t, o.e), Decl(val.n, e.t, Default),
                If(Bin("eq", Tag(cell), Lit(BadTag(e.e.t)), "bool"),
                   Block(<<Return(IF e.e.t = "opt" THEN None ELSE cell)>>),
                   Block(<<Assign(val, LoadAt(cell, 1))>>))>>, val, o.n)

(* The value of a reference, or Some of a value; null or None without it.  *)
Present(t, e) == IF t = "opt" THEN Cell("Some", e, "opt") ELSE e
Absent(t) == IF t = "opt" THEN None ELSE Lit(0)

LowOptField(e, c, n) ==
  LET obj == TempVar(n + 1, "ref")  val == TempVar(n + 2, e.t)
      o == Low(e.e, c, n + 2)
  IN  Hoisted(o.ss \o <<Decl(obj.n, "ref", o.e), Decl(val.n, e.t, Default),
                If(Bin("ne", obj, Lit(0), "bool"), Block(<<Assign(val, Present(e.t, Field(obj, e.j, e.t)))>>),
                   Block(<<Assign(val, Absent(e.t))>>))>>, val, o.n)

LowOptIndex(e, c, n) ==
  LET obj == TempVar(n + 1, "list")  idx == TempVar(n + 2, "int")  val == TempVar(n + 3, e.t)
      o == Low(e.l, c, n + 3)  i == Low(e.r, c, o.n)
      inside == Bin("and", Bin("ge", idx, Lit(0), "bool"),
                    Bin("lt", idx, Rt("hphl_list_len", <<obj>>), "bool"), "bool")
      none == Block(<<Assign(val, Absent(e.t))>>)
  IN  Hoisted(o.ss \o <<Decl(obj.n, "list", o.e)>> \o i.ss \o
              <<Decl(idx.n, "int", i.e), Decl(val.n, e.t, Default),
                If(Bin("ne", obj, Lit(0), "bool"),
                   Block(<<If(inside, Block(<<Assign(val, Present(e.t, Item(obj, idx)))>>), none)>>),
                   none)>>, val, i.n)

LowOptCall(e, c, n) ==
  LET obj == TempVar(n + 1, "ref")  val == TempVar(n + 2, e.t)
      void == e.t = "void"
      o == Low(e.l, c, n + 2)  a == Low(e.r, c, o.n)
      call == Call(e.f, a.e)
  IN  Hoisted(o.ss \o <<Decl(obj.n, "ref", o.e)>> \o (IF void THEN <<>> ELSE <<Decl(val.n, e.t, Default)>>) \o
              <<If(Bin("ne", obj, Lit(0), "bool"),
                   Block(a.ss \o <<IF void THEN Ex(call) ELSE Assign(val, Present(e.t, call))>>),
                   IF void THEN Block(<<>>) ELSE Block(<<Assign(val, Absent(e.t))>>))>>,
              IF void THEN Lit(0) ELSE val, a.n)

(* Every arm is tried while the flag done is off, and turns it on.         *)
LowArms(arms, v, c, n, isExpr) ==
  IF arms = <<>> THEN [ss |-> <<>>, n |-> n]
  ELSE LET arm == Head(arms)
           y == IF arm.y.k = "none" THEN LowList(arm.ss, c, n) ELSE Low(arm.y, c, n)
           did == <<Assign(v.done, BoolLit(TRUE))>>
           body == (IF arm.y.k = "none" THEN y.ss ELSE y.ss \o <<Assign(v.val, y.e)>>) \o did
           g == IF arm.g.k = "none" THEN Keep(NoExpr, y.n) ELSE Low(arm.g, c, y.n)
           flow == IF arm.g.k = "none" THEN body ELSE g.ss \o Test(g.e, body)
           wrapped == Wrapped1(arm.p, v.sbj, flow, g.n)
           outer == IF arm.n \in {"", "_"} THEN wrapped ELSE <<Decl(arm.n, "int", v.sbj)>> \o wrapped
           rest == LowArms(Tail(arms), v, c, g.n + Lists(arm.p), isExpr)
       IN  [ss |-> Test(Neg(v.done), outer) \o rest.ss, n |-> rest.n]

LowMatch(e, c, n) ==
  LET isExpr == e.arms # <<>> /\ e.arms[1].y.k # "none"
      v == [sbj |-> TempVar(n + 1, e.e.t), done |-> TempVar(n + 2, "bool"), val |-> TempVar(n + 3, "int")]
      s == Low(e.e, c, n + 3)
      arms == LowArms(e.arms, v, c, s.n, isExpr)
  IN  Hoisted(s.ss \o <<Decl(v.sbj.n, e.e.t, s.e), Decl(v.done.n, "bool", BoolLit(FALSE))>>
              \o (IF isExpr THEN <<Decl(v.val.n, "int", Default)>> ELSE <<>>) \o arms.ss
              \o Test(Neg(v.done), <<Ex(Rt("hphl_match_fail", <<>>))>>),
              IF isExpr THEN v.val ELSE Lit(0), arms.n)

LowFieldKept(x, c, n) == Keep(x, n)
LowField(x, c, n) ==                 \* the object of a field, or the name itself
  IF x.k = "field" THEN LET o == Low(x.e, c, n) IN [o EXCEPT !.e = [x EXCEPT !.e = o.e]] ELSE Keep(x, n)

Low(e, c, n) ==
  CASE e.k \in {"none", "lit", "bool", "var"} -> Keep(e, n)
    [] e.k \in {"un", "call", "field", "cell", "is", "unwrap"} ->
       (LET a == Low(e.e, c, n) IN [a EXCEPT !.e = [e EXCEPT !.e = a.e]])
    [] e.k \in {"bin", "tuple", "item", "add"} ->
       (LET r == LowAll(<<e.l, e.r>>, c, n)
        IN  [ss |-> r.ss, e |-> [e EXCEPT !.l = r.es[1], !.r = r.es[2]], n |-> r.n])
    [] e.k = "newlist" -> (LET r == LowAll(e.es, c, n) IN [ss |-> r.ss, e |-> [e EXCEPT !.es = r.es], n |-> r.n])
    [] e.k = "asg" ->
       (LET x == LowField(e.x, c, n)  a == Low(e.e, c, x.n)
        IN  [ss |-> x.ss \o a.ss, e |-> [e EXCEPT !.x = x.e, !.e = a.e], n |-> a.n])
    [] e.k = "tern" -> LowTernary(e, c, n)
    [] e.k = "coalesce" -> LowCoalesce(e, c, n)
    [] e.k = "propagate" -> LowPropagate(e, c, n)
    [] e.k = "optfield" -> LowOptField(e, c, n)
    [] e.k = "optindex" -> LowOptIndex(e, c, n)
    [] e.k = "optcall" -> LowOptCall(e, c, n)
    [] e.k = "match" -> LowMatch(e, c, n)
    [] OTHER -> LowStmt(e, c, n)

(***************************************************************************)
(* Statements.                                                             *)
(***************************************************************************)
LowRest(a, ss, c) == LET r == LowList(ss, c, a.n) IN [ss |-> a.ss \o r.ss, n |-> r.n]
LowList(ss, c, n) ==
  IF ss = <<>> THEN [ss |-> <<>>, n |-> n] ELSE LowRest(Low(Head(ss), c, n), Tail(ss), c)
Branch(s, c, n) == LET r == Low(s, c, n) IN [s |-> Block(r.ss), n |-> r.n]

(* Checks one after the other, and the checks of a return, which stand in  *)
(* the block of its result while their sugar goes before that block.       *)
Asserts(es, c, n) == LowList([i \in DOMAIN es |-> AssertThat(es[i])], c, n)
Checks(es, c, n) == LET r == LowAll(es, c, n)
                    IN  [ss |-> r.ss, checks |-> [i \in DOMAIN r.es |-> AssertThat(r.es[i])], n |-> r.n]

LowReturnPlain(s, c, n) == LET a == Low(s.e, c, n) IN [ss |-> Append(a.ss, Return(a.e)), n |-> a.n]
LowReturn(s, c, n) ==
  LET a == Low(s.e, c, n)
      k == Checks(c.ens, c, a.n)
      void == s.e.k = "none"
      result == Var("result", "int")
  IN  IF c.ens = <<>> THEN [ss |-> Append(a.ss, Return(a.e)), n |-> a.n]
      ELSE [ss |-> a.ss \o k.ss \o
                   <<Block((IF void THEN <<>> ELSE <<Decl("result", "int", a.e)>>) \o k.checks \o
                           <<Return(IF void THEN NoExpr ELSE result)>>)>>, n |-> k.n]

LowFor(s, c, n) ==
  LET i == Branch(s.i, InLoop(c), n)
      q == Low(s.c, InLoop(c), i.n)  p == Low(s.s, InLoop(c), q.n)
      b == Branch(s.b, InLoop(c), p.n)
      init == IF Len(i.s.ss) = 1 THEN i.s.ss[1] ELSE i.s
  IN  [ss |-> q.ss \o p.ss \o <<For(init, q.e, p.e, b.s)>>, n |-> b.n]

RECURSIVE Chain(_, _, _, _, _)
Chain(cases, x, d, c, n) ==          \* if, else if, ..., else the default
  IF cases = <<>> THEN LET r == LowList(d, c, n) IN [s |-> Block(r.ss), n |-> r.n]
  ELSE LET r == Chain(Tail(cases), x, d, c, n)
           b == LowList(Head(cases).ss, c, r.n)
       IN  [s |-> If(Bin("eq", x, Lit(Head(cases).v), "bool"), Block(b.ss), r.s), n |-> b.n]
LowSwitch(s, c, n) ==
  LET subj == TempVar(n + 1, "int")
      e == Low(s.e, c, n + 1)
      chain == Chain(s.cases, subj, s.d, InSwitch(c), e.n)
  IN  [ss |-> <<Block(e.ss \o <<Decl(subj.n, "int", e.e), chain.s>>)>>, n |-> chain.n]

LowForeach(s, c, n) ==
  LET base == TempVar(n + 1, "list")  len == TempVar(n + 2, "int")  idx == TempVar(n + 3, "int")
      e == Low(s.e, c, n + 3)
      b == Low(s.b, InLoop(c), e.n)
      item == Decl(s.n, "int", Rt("hphl_list_at", <<Rt("hphl_list_data", <<base>>), idx>>))
  IN  [ss |-> <<Block(e.ss \o <<Decl(base.n, "list", e.e),
                  Decl(len.n, "int", Rt("hphl_list_len", <<base>>)), Decl(idx.n, "int", Lit(0)),
                  For(NoStmt, Bin("lt", idx, len, "bool"), Asg("add", idx, Lit(1)),
                      Block(<<item>> \o b.ss))>>)>>, n |-> b.n]

LowDestructure(s, c, n) ==
  LET e == Low(s.e, c, n)
      part(j) == Decl(s.ns[j], "int", Field(Var("__dtup", "tuple"), j - 1, "int"))
  IN  [ss |-> e.ss \o <<Decl("__dtup", "tuple", e.e), part(1), part(2)>>, n |-> e.n]

LowAssert(s, c, n) == LET q == Low(s.c, c, n) IN [ss |-> Append(q.ss, AssertThat(q.e)), n |-> q.n]
LowThrow(s, c, n) == LET a == Low(s.e, c, n) IN [ss |-> Append(a.ss, [s EXCEPT !.e = a.e]), n |-> a.n]
LowTry(s, c, n) ==
  LET b == Branch(s.b, c, n)
      h == Branch(s.h, c, b.n)
  IN  [ss |-> <<Try(b.s, s.n, h.s)>>, n |-> h.n]
LowLock(s, c, n) == LET b == Branch(s.b, c, n) IN [ss |-> <<Lock(b.s)>>, n |-> b.n]

LowStmt(s, c, n) ==
  CASE s.k = "gone" -> [ss |-> <<>>, n |-> n]
    [] s.k = "block" -> (LET b == LowList(s.ss, c, n) IN [ss |-> <<Block(b.ss)>>, n |-> b.n])
    [] s.k = "if" ->
       (LET q == Low(s.c, c, n)  a == Branch(s.a, c, q.n)  b == Branch(s.b, c, a.n)
        IN  [ss |-> Append(q.ss, If(q.e, a.s, IF s.b = NoStmt THEN NoStmt ELSE b.s)), n |-> b.n])
    [] s.k = "while" ->
       (LET q == Low(s.c, c, n)  b == Branch(s.b, InLoop(c), q.n)
        IN  [ss |-> Append(q.ss, While(q.e, b.s)), n |-> b.n])
    [] s.k = "dowhile" ->
       (LET b == Branch(s.b, InLoop(c), n)  q == Low(s.c, c, b.n)
        IN  [ss |-> Append(q.ss, DoWhile(q.e, b.s)), n |-> q.n])
    [] s.k = "for" -> LowFor(s, c, n)
    [] s.k \in {"break", "continue"} -> [ss |-> IF SwitchSuppressed(c) THEN <<>> ELSE <<s>>, n |-> n]
    [] s.k = "return" -> LowReturn(s, c, n)
    [] s.k = "throw" -> LowThrow(s, c, n)
    [] s.k \in {"expr", "decl"} ->
       (LET a == Low(s.e, c, n) IN [ss |-> Append(a.ss, [s EXCEPT !.e = a.e]), n |-> a.n])
    [] s.k = "assert" -> LowAssert(s, c, n)
    [] s.k = "panic" -> [ss |-> <<s>>, n |-> n]
    [] s.k = "destructure" -> LowDestructure(s, c, n)
    [] s.k = "switch" -> LowSwitch(s, c, n)
    [] s.k = "foreach" -> LowForeach(s, c, n)
    [] s.k = "try" -> LowTry(s, c, n)
    [] s.k = "lock" -> LowLock(s, c, n)

(***************************************************************************)
(* A function: what it requires, its body, and, when it returns nothing,   *)
(* what it ensures where the body ends.                                    *)
(***************************************************************************)
Fn(req, ens, t, ss) == [req |-> req, ens |-> ens, t |-> t, ss |-> ss]
Lowered(fn) ==
  LET c == [loop |-> 0, sw |-> <<>>, ens |-> fn.ens]
      r == Asserts(fn.req, c, 0)
      b == LowList(fn.ss, c, r.n)
  IN  r.ss \o b.ss \o (IF fn.t = "void" THEN Asserts(fn.ens, c, b.n).ss ELSE <<>>)
=============================================================================
