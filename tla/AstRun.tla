------------------------------- MODULE AstRun -------------------------------
(***************************************************************************)
(* What a function means, read off the code made straight from the syntax  *)
(* tree (stmt_ast.cpp, expr_ast.cpp, match_pattern.cpp).  Sugar -- ?:, ?,  *)
(* ??, ?., ?[], match, switch, foreach, destructuring -- is code of its    *)
(* own there.  The few nodes that only a lowered tree holds are run by the *)
(* same walk, so that both trees of a function have an outcome.            *)
(*                                                                         *)
(* A state s has the value in the accumulator (v), the heap (h, an address *)
(* is an index, null is 0), the calls made (out), why the walk stopped     *)
(* (st), the scopes (env) and what is left to spend on statements (f).     *)
(***************************************************************************)
EXTENDS Hir, TLC

Tern(c, a, b) == [k |-> "tern", c |-> c, a |-> a, b |-> b, t |-> a.t]
Cell(v, e, t) == [k |-> "cell", v |-> v, e |-> e, t |-> t]   \* None, Some, Ok, Err
Propagate(e) == [k |-> "propagate", e |-> e, t |-> "int"]
Coalesce(l, r) == [k |-> "coalesce", l |-> l, r |-> r, t |-> IF l.t = "ref" THEN "ref" ELSE "int"]
Field(o, j, t) == [k |-> "field", e |-> o, j |-> j, t |-> t]
OptField(o, j, t) == [k |-> "optfield", e |-> o, j |-> j, t |-> t]
OptIndex(l, r) == [k |-> "optindex", l |-> l, r |-> r, t |-> "opt"]
OptCall(o, f, e, t) == [k |-> "optcall", l |-> o, f |-> f, r |-> e, t |-> t]
Match(e, arms) == [k |-> "match", e |-> e, arms |-> arms, t |-> "int"]
Arm(p, g, ss, y) == [p |-> p, n |-> "", g |-> g, ss |-> ss, y |-> y]
Item(l, r) == [k |-> "item", l |-> l, r |-> r, t |-> "int"]
Add1(l, r) == [k |-> "add", l |-> l, r |-> r, t |-> "void"]          \* list.Add
Is(e, v) == [k |-> "is", e |-> e, v |-> v, t |-> "bool"]
Unwrap(e, v) == [k |-> "unwrap", e |-> e, v |-> v, t |-> "int"]
NewList(es) == [k |-> "newlist", es |-> es, t |-> "list"]

Switch(e, cases, d) == [k |-> "switch", e |-> e, cases |-> cases, d |-> d]
Foreach(n, e, b) == [k |-> "foreach", n |-> n, e |-> e, b |-> b]
Destructure(ns, e) == [k |-> "destructure", ns |-> ns, e |-> e]

(* Nodes of a lowered tree: a block without a scope, the tag of a cell, a  *)
(* word at an offset, calls of the runtime, an element without a check.    *)
Seq1(ss) == [k |-> "seq", ss |-> ss]
LoadAt(e, j) == [k |-> "load", e |-> e, j |-> j, t |-> "int"]
Tag(e) == LoadAt(e, 0)
Rt(f, es) == [k |-> "rt", f |-> f, es |-> es, t |-> "int"]

TagOf(v) == IF v \in {"Some", "Err"} THEN 1 ELSE 0
BadTag(t) == IF t = "opt" THEN 0 ELSE 1            \* None, Err

(***************************************************************************)
(* States.                                                                 *)
(***************************************************************************)
Start(env, h, fuel) == [v |-> 0, h |-> h, out |-> <<>>, st |-> "run", env |-> <<env>>, f |-> fuel]
Runs(s) == s.st = "run"
Stop(s, why) == [s EXCEPT !.st = why]
Give(s, v) == [s EXCEPT !.v = v]
Alloc(s, words) == [s EXCEPT !.h = Append(s.h, words), !.v = Len(s.h) + 1]
Enter(s) == [s EXCEPT !.env = Append(s.env, <<>>)]
Leave(s, depth) == [s EXCEPT !.env = SubSeq(s.env, 1, depth)]
Put(s, i, n, v) == [s EXCEPT !.env[i] = n :> v @@ s.env[i], !.v = v]
Name(s, n, v) == Put(s, Len(s.env), n, v)
ScopeOf(s, n) == LET I == {i \in DOMAIN s.env : n \in DOMAIN s.env[i]}
                 IN  IF I = {} THEN 0 ELSE CHOOSE i \in I : \A j \in I : j <= i
Get(s, n) == LET i == ScopeOf(s, n) IN IF i = 0 THEN Stop(s, "unbound") ELSE Give(s, s.env[i][n])
Set(s, n, v) == LET i == ScopeOf(s, n) IN IF i = 0 THEN Stop(s, "unbound") ELSE Put(s, i, n, v)
Holds(s, a, j) == a \in DOMAIN s.h /\ j + 1 \in DOMAIN s.h[a]
Load(s, a, j) == IF Holds(s, a, j) THEN Give(s, s.h[a][j + 1]) ELSE Stop(s, "wild")
Store(s, a, j, v) == IF Holds(s, a, j) THEN [Give(s, v) EXCEPT !.h[a][j + 1] = v] ELSE Stop(s, "wild")
Spend(s) == IF s.f = 0 THEN Stop(s, "fuel") ELSE [s EXCEPT !.f = @ - 1]
Operate(s, op, a, b) ==
  IF Traps(op, a, b, FALSE) THEN Stop(s, "trap")
  ELSE Give(s, IF op \in Comparisons THEN Bool(Compare(op, a, b, FALSE)) ELSE Compute(op, a, b, FALSE))
CallOf(s, f, v) == [s EXCEPT !.out = Append(s.out, <<f, v>>), !.v = CallResult(f, v),
                             !.st = IF CallThrows(f, v) THEN "throw" ELSE "run"]

(***************************************************************************)
(* Patterns: a fits at value v, binding names in the top scope.            *)
(***************************************************************************)
Wildcard == [k |-> "any"]
Const(v, cell) == [k |-> "const", v |-> v, cell |-> cell]
Between(lo, hi) == [k |-> "range", lo |-> lo, hi |-> hi]
Bind(n) == [k |-> "bind", n |-> n]
Variant(v, subs) == [k |-> "variant", v |-> v, subs |-> subs]     \* v: the tag
Struct(subs) == [k |-> "struct", subs |-> subs]
ListOf(subs, rest) == [k |-> "list", subs |-> subs, rest |-> rest]   \* rest: a name, or ""

Missed(s) == Give(s, 0)
RECURSIVE Fit(_, _, _), FitAll(_, _, _, _, _)
FitAll(subs, i, a, off, s) ==       \* from the i-th: at the words of block a
  IF i > Len(subs) THEN Give(s, 1)
  ELSE LET w == Load(s, a, off + i - 1)
           r == Fit(subs[i], w.v, w)
       IN  IF ~Runs(w) THEN w ELSE IF ~Runs(r) \/ r.v = 0 THEN r ELSE FitAll(subs, i + 1, a, off, r)
Fit(p, v, s) ==
  CASE p.k = "any" -> Give(s, 1)
    [] p.k = "const" -> (LET w == IF p.cell THEN Load(s, v, 0) ELSE Give(s, v)
                         IN  IF Runs(w) THEN Give(w, Bool(w.v = p.v)) ELSE w)
    [] p.k = "range" -> Give(s, Bool(p.lo <= v /\ v <= p.hi))
    [] p.k = "bind" -> Give(Name(s, p.n, v), 1)
    [] p.k = "variant" -> (LET w == Load(s, v, 0)
                           IN  IF ~Runs(w) THEN w ELSE IF w.v # p.v THEN Missed(w)
                               ELSE FitAll(p.subs, 1, v, 1, w))
    [] p.k = "struct" -> FitAll(p.subs, 1, v, 0, s)
    [] p.k = "list" ->
       (IF v \notin DOMAIN s.h THEN Stop(s, "wild")
        ELSE IF Len(s.h[v]) < Len(p.subs) \/ (p.rest = "" /\ Len(s.h[v]) > Len(p.subs)) THEN Missed(s)
        ELSE LET r == FitAll(p.subs, 1, v, 0, s)
                 c == Alloc(r, SubSeq(r.h[v], Len(p.subs) + 1, Len(r.h[v])))
             IN  IF p.rest = "" \/ ~Runs(r) \/ r.v = 0 THEN r
                 ELSE Give(Name(c, p.rest, c.v), 1))

(***************************************************************************)
(* Expressions.                                                            *)
(***************************************************************************)
RECURSIVE Ev(_, _), Run(_, _), RunAll(_, _), RunArms(_, _, _), Loop(_, _), Each(_, _, _, _, _), EvAll(_, _)
After(e, s, F(_)) == LET r == Ev(e, s) IN IF Runs(r) THEN F(r) ELSE r
EvAll(es, s) ==                     \* v: the sequence of values
  IF es = <<>> THEN Give(s, <<>>)
  ELSE After(Head(es), s, LAMBDA a : LET r == EvAll(Tail(es), a)
                                     IN  IF Runs(r) THEN Give(r, <<a.v>> \o r.v) ELSE r)
Wrapped(r, t) == IF Runs(r) /\ t = "opt" THEN Alloc(r, <<1, r.v>>) ELSE r
Nothing(s, t) == IF t = "opt" THEN Alloc(s, <<0, 0>>) ELSE Give(s, 0)

EvAssign(e, s) ==
  IF e.op = "set"
  THEN After(e.e, s, LAMBDA a :
         IF e.x.k = "var" THEN Set(a, e.x.n, a.v)
         ELSE After(e.x.e, a, LAMBDA b : Store(b, b.v, e.x.j, a.v)))
  ELSE IF e.x.k = "var"
  THEN After(e.x, s, LAMBDA old : After(e.e, old, LAMBDA a :
         LET r == Operate(a, e.op, old.v, a.v) IN IF Runs(r) THEN Set(r, e.x.n, r.v) ELSE r))
  ELSE After(e.x.e, s, LAMBDA o : LET old == Load(o, o.v, e.x.j) IN
         IF ~Runs(old) THEN old ELSE After(e.e, old, LAMBDA a :
           LET r == Operate(a, e.op, old.v, a.v) IN IF Runs(r) THEN Store(r, o.v, e.x.j, r.v) ELSE r))

EvRuntime(f, vs, s) ==
  CASE f = "hphl_match_fail" -> Stop(s, "fail")
    [] vs[1] \notin DOMAIN s.h -> Stop(s, "wild")
    [] f = "hphl_list_len" -> Give(s, Len(s.h[vs[1]]))
    [] f = "hphl_list_data" -> Give(s, vs[1])
    [] f = "hphl_list_at" -> Load(s, vs[1], vs[2])
    [] f = "hphl_list_slice" -> Alloc(s, SubSeq(s.h[vs[1]], vs[2] + 1, vs[2] + vs[3]))

EvUnary(e, s) == After(e.e, s, LAMBDA a :
  LET w == Wrap(IF e.op \in {"preinc", "postinc"} THEN a.v + 1 ELSE a.v - 1)
  IN  CASE e.op \in {"preinc", "predec"} -> Set(a, e.e.n, w)
        [] e.op \in {"postinc", "postdec"} -> Give(Set(a, e.e.n, w), a.v)
        [] e.op = "not" -> Give(a, Bool(a.v = 0))
        [] e.op = "neg" -> Give(a, Wrap(-a.v)))

EvLogic(e, s) == After(e.l, s, LAMBDA a :
  IF (a.v # 0) = (e.op = "or") THEN Give(a, Bool(a.v # 0))
  ELSE After(e.r, a, LAMBDA b : Give(b, Bool(b.v # 0))))
EvBinary(e, s) == After(e.l, s, LAMBDA a : After(e.r, a, LAMBDA b : Operate(b, e.op, a.v, b.v)))

EvNew(es, s) == LET r == EvAll(es, s) IN IF Runs(r) THEN Alloc(r, r.v) ELSE r
EvCell(e, s) == LET c == Alloc(s, <<TagOf(e.v), 0>>)
                IN  IF e.e.k = "none" THEN c
                    ELSE After(e.e, c, LAMBDA a : Give(Store(a, c.v, 1, a.v), c.v))
EvPropagate(e, s) == After(e.e, s, LAMBDA a :
  LET w == Load(a, a.v, 0)
  IN  IF ~Runs(w) THEN w
      ELSE IF w.v # BadTag(e.e.t) THEN Load(w, a.v, 1)
      ELSE Stop(IF e.e.t = "opt" THEN Alloc(w, <<0, 0>>) ELSE Give(w, a.v), "ret"))
EvCoalesce(e, s) == After(e.l, s, LAMBDA a :
  LET w == Load(a, a.v, 0)
  IN  IF ~Runs(w) THEN w ELSE IF w.v = BadTag(e.l.t) THEN Ev(e.r, w) ELSE Load(w, a.v, 1))
EvOptField(e, s) == After(e.e, s, LAMBDA a :
  IF a.v = 0 THEN Nothing(a, e.t) ELSE Wrapped(Load(a, a.v, e.j), e.t))
EvOptIndex(e, s) == After(e.l, s, LAMBDA a : After(e.r, a, LAMBDA i :
  IF Holds(i, a.v, i.v) THEN Wrapped(Load(i, a.v, i.v), e.t) ELSE Nothing(i, e.t)))
EvOptCall(e, s) == After(e.l, s, LAMBDA a :
  IF a.v = 0 THEN Nothing(a, e.t) ELSE After(e.r, a, LAMBDA b : Wrapped(CallOf(b, e.f, b.v), e.t)))

(* An element of a list, checked; what a cell holds, when its tag is v.    *)
EvItem(e, s) == After(e.l, s, LAMBDA a : After(e.r, a, LAMBDA i :
  IF Holds(i, a.v, i.v) THEN Load(i, a.v, i.v) ELSE Stop(i, "panic")))
EvIs(e, s) == After(e.e, s, LAMBDA a :
  LET w == Load(a, a.v, 0) IN IF Runs(w) THEN Give(w, Bool(w.v = TagOf(e.v))) ELSE w)
EvUnwrap(e, s) == After(e.e, s, LAMBDA a :
  LET w == Load(a, a.v, 0)
  IN  IF ~Runs(w) THEN w ELSE IF w.v = TagOf(e.v) THEN Load(w, a.v, 1) ELSE Stop(w, "panic"))
EvAdd(e, s) == After(e.l, s, LAMBDA a : After(e.r, a, LAMBDA b :
  IF a.v \in DOMAIN b.h THEN [b EXCEPT !.h[a.v] = Append(@, b.v)] ELSE Stop(b, "wild")))

Ev(e, s) ==
  CASE e.k \in {"lit", "bool"} -> Give(s, e.v)
    [] e.k = "var" -> Get(s, e.n)
    [] e.k = "un" -> EvUnary(e, s)
    [] e.k = "bin" -> (IF e.op \in Logical THEN EvLogic(e, s) ELSE EvBinary(e, s))
    [] e.k = "asg" -> EvAssign(e, s)
    [] e.k = "call" -> After(e.e, s, LAMBDA a : CallOf(a, e.f, a.v))
    [] e.k = "tuple" -> EvNew(<<e.l, e.r>>, s)
    [] e.k = "newlist" -> EvNew(e.es, s)
    [] e.k \in {"field", "load"} -> After(e.e, s, LAMBDA a : Load(a, a.v, e.j))
    [] e.k = "item" -> EvItem(e, s)
    [] e.k = "add" -> EvAdd(e, s)
    [] e.k = "is" -> EvIs(e, s)
    [] e.k = "unwrap" -> EvUnwrap(e, s)
    [] e.k = "cell" -> EvCell(e, s)
    [] e.k = "tern" -> After(e.c, s, LAMBDA a : Ev(IF a.v # 0 THEN e.a ELSE e.b, a))
    [] e.k = "propagate" -> EvPropagate(e, s)
    [] e.k = "coalesce" -> EvCoalesce(e, s)
    [] e.k = "optfield" -> EvOptField(e, s)
    [] e.k = "optindex" -> EvOptIndex(e, s)
    [] e.k = "optcall" -> EvOptCall(e, s)
    [] e.k = "match" -> After(e.e, s, LAMBDA a : RunArms(e.arms, a.v, a))
    [] e.k = "rt" -> (LET r == EvAll(e.es, s) IN IF Runs(r) THEN EvRuntime(e.f, r.v, r) ELSE r)

RunArms(arms, v, s) ==
  IF arms = <<>> THEN Stop(s, "fail")
  ELSE LET arm == Head(arms)
           depth == Len(s.env)
           named == IF arm.n = "" THEN Enter(s) ELSE Name(Enter(s), arm.n, v)
           fit == Fit(arm.p, v, named)
           ok == IF ~Runs(fit) \/ fit.v = 0 \/ arm.g.k = "none" THEN fit ELSE Ev(arm.g, fit)
       IN  IF ~Runs(ok) THEN ok
           ELSE IF ok.v = 0 THEN RunArms(Tail(arms), v, Leave(ok, depth))
           ELSE Leave(IF arm.y.k = "none" THEN RunAll(arm.ss, ok) ELSE Ev(arm.y, ok), depth)

(***************************************************************************)
(* Statements.  A break or continue stops the walk until its loop, or a    *)
(* switch, takes it up.                                                    *)
(***************************************************************************)
Scoped(s, T(_)) == Leave(T(Enter(s)), Len(s.env))
RunAll(ss, s) == IF ss = <<>> \/ ~Runs(s) THEN s ELSE RunAll(Tail(ss), Run(Head(ss), s))
Again(s) == IF s.st = "cont" THEN Stop(s, "run") ELSE s
Done(s) == IF s.st = "brk" THEN Stop(s, "run") ELSE s

Loop(w, s) ==                       \* the condition, the body, the step
  LET test(q) == IF w.c.k = "none" THEN Give(q, 1) ELSE Ev(w.c, q)
      c == IF w.k = "first" THEN Give(s, 1) ELSE test(s)
      b == Again(Scoped(c, LAMBDA q : Run(w.b, q)))
      n == IF w.s.k = "none" \/ ~Runs(b) THEN b ELSE Ev(w.s, b)
  IN  IF ~Runs(c) \/ c.v = 0 THEN c
      ELSE IF ~Runs(n) THEN Done(n)
      ELSE LET p == Spend(n) IN IF Runs(p) THEN Loop([w EXCEPT !.k = "next"], p) ELSE p

Each(f, a, i, len, s) ==            \* from the i-th element of the list at a
  IF i = len THEN s
  ELSE LET w == Load(s, a, i)
           b == Again(Scoped(Name(w, f.n, w.v), LAMBDA q : Run(f.b, q)))
       IN  IF ~Runs(w) THEN w ELSE IF ~Runs(b) THEN Done(b)
           ELSE LET p == Spend(b) IN IF Runs(p) THEN Each(f, a, i + 1, len, p) ELSE p

RunFor(x, s) == Scoped(s, LAMBDA q :
  LET i == Run(x.i, q) IN IF Runs(i) THEN Loop([k |-> "next", c |-> x.c, s |-> x.s, b |-> x.b], i) ELSE i)
RunForeach(x, s) == After(x.e, s, LAMBDA a :         \* the length is read once
  IF a.v \notin DOMAIN a.h THEN Stop(a, "wild")
  ELSE Scoped(a, LAMBDA q : Each(x, a.v, 0, Len(a.h[a.v]), q)))
RunSwitch(x, s) == After(x.e, s, LAMBDA a :
  LET I == {i \in DOMAIN x.cases : x.cases[i].v = a.v}
      ss == IF I = {} THEN x.d ELSE x.cases[CHOOSE i \in I : \A j \in I : i <= j].ss
  IN  Done(Scoped(a, LAMBDA q : RunAll(ss, q))))
RunDestructure(x, s) == After(x.e, s, LAMBDA a :
  LET p == Load(a, a.v, 0)  q == Load(a, a.v, 1) IN Name(Name(q, x.ns[1], p.v), x.ns[2], q.v))
RunDecl(x, s) ==                    \* the name is known before its value
  LET n == Name(s, x.n, Junk)
  IN  IF x.e.k = "none" THEN n ELSE After(x.e, n, LAMBDA a : Name(a, x.n, a.v))
RunReturn(x, s) == IF x.e.k = "none" THEN Stop(s, "ret") ELSE After(x.e, s, LAMBDA a : Stop(a, "ret"))
RunIf(x, s) == After(x.c, s, LAMBDA a : Scoped(a, LAMBDA q : Run(IF a.v # 0 THEN x.a ELSE x.b, q)))
RunTry(x, s) ==
  LET b == Scoped(s, LAMBDA q : Run(x.b, q))
  IN  IF b.st # "throw" THEN b ELSE Scoped(Stop(b, "run"), LAMBDA q : Run(x.h, Name(q, x.n, b.v)))

RunLock(x, s) == Scoped(s, LAMBDA q : Run(x.b, q))
RunThrow(x, s) == After(x.e, s, LAMBDA a : Stop(a, "throw"))
RunAssert(x, s) == After(x.c, s, LAMBDA a : IF a.v # 0 THEN a ELSE Stop(a, "assert"))
RunPanic(s) == Stop(s, "panic")

Run(x, s) ==
  CASE x.k \in {"gone", "none"} -> s
    [] x.k = "block" -> Scoped(s, LAMBDA q : RunAll(x.ss, q))
    [] x.k = "seq" -> RunAll(x.ss, s)
    [] x.k = "expr" -> Ev(x.e, s)
    [] x.k = "decl" -> RunDecl(x, s)
    [] x.k = "return" -> RunReturn(x, s)
    [] x.k = "if" -> RunIf(x, s)
    [] x.k = "while" -> Loop([k |-> "next", c |-> x.c, s |-> NoExpr, b |-> x.b], s)
    [] x.k = "dowhile" -> Loop([k |-> "first", c |-> x.c, s |-> NoExpr, b |-> x.b], s)
    [] x.k = "for" -> RunFor(x, s)
    [] x.k = "foreach" -> RunForeach(x, s)
    [] x.k = "switch" -> RunSwitch(x, s)
    [] x.k = "destructure" -> RunDestructure(x, s)
    [] x.k = "break" -> Stop(s, "brk")
    [] x.k = "continue" -> Stop(s, "cont")
    [] x.k = "panic" -> RunPanic(s)
    [] x.k = "assert" -> RunAssert(x, s)
    [] x.k = "throw" -> RunThrow(x, s)
    [] x.k = "try" -> RunTry(x, s)
    [] x.k = "lock" -> RunLock(x, s)
=============================================================================
