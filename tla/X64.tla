--------------------------------- MODULE X64 ---------------------------------
(***************************************************************************)
(* The x64 back end (codegen/expr_hir.cpp and its helpers).  Expressions   *)
(* leave their value in rax; what a binary operator has of its left        *)
(* operand while the right one runs is staged in r10, in the operand's own *)
(* slot, or in the stack, by rules that look at the right operand only     *)
(* partly: "live" is r10Live_, the compiler's note that r10 holds one.     *)
(* The machine is Llvm's with the scratch register added.                  *)
(***************************************************************************)
EXTENDS Llvm

CONSTANT Regs       \* locals held in callee-saved registers (tryAllocReg)

X64Machine(env) ==
  [env |-> env, out |-> <<>>, ctl |-> "run", v |-> 0, hdl |-> <<>>, held |-> 0, r10 |-> Junk, bound |-> <<>>]
Scratch(m, v) == [m EXCEPT !.r10 = v]
Calls(m) == Scratch(m, Junk)

(* hirHasCall: casts, index checks, property getters, comparators and the  *)
(* check of a policy are calls it does not see.                            *)
RECURSIVE HasCall(_)
HasCall(e) ==
  CASE e.k = "call" -> TRUE
    [] e.k = "bin" -> HasCall(e.l) \/ HasCall(e.r)
    [] e.k \in {"un", "index"} -> HasCall(e.e)
    [] e.k = "asg" -> HasCall(e.x) \/ HasCall(e.e)
    [] OTHER -> FALSE

(* applyOverflowPolicy: saturation compares signed whatever the type.      *)
X64Policy(m, t) ==
  LET v == m.v
  IN  CASE PolicyOf(t) = "default" -> m
        [] PolicyOf(t) = "wrap" -> Give(m, ToNarrow(v, t))
        [] PolicyOf(t) = "checked" ->
             IF v \in MinOf(t)..MaxOf(t) THEN Calls(m) ELSE Stop(m, "panic")
        [] PolicyOf(t) = "saturate" ->
             Give(m, CASE v < MinOf(t) -> MinOf(t) [] v > MaxOf(t) -> MaxOf(t) [] OTHER -> v)

IsPow2(n) == \E i \in 0..(W - 2) : n = 2 ^ i
ByPow2(e) == e.op \in {"div", "mod"} /\ e.r.k = "lit" /\ IsPow2(e.r.v)

(* The operation on rax and rcx.  A power of two needs no division; for    *)
(* the remainder it uses r10.                                              *)
Alu(m, e, a, b) ==
  LET u == Unsigned(e.l.t)
      n == IF ByPow2(e) /\ e.op = "mod" /\ ~u /\ e.r.v # 1 THEN Scratch(m, TMod(a, b)) ELSE m
  IN  CASE ByPow2(e) -> Give(n, Compute(e.op, a, b, u))
        [] PolicyOf(e.t) = "checked" /\ e.op \in {"div", "mod"} /\ b = 0 -> Stop(m, "panic")
        [] OTHER -> Operate(m, e.op, a, b, u)

(* Reload of a left operand that is a variable, from its slot; a global    *)
(* has none and what lies at the place of slot -1 is loaded instead.       *)
Reload(m, x, saved) == CASE x.n = "g" -> Junk
                         [] x.n = "p" -> saved
                         [] OTHER -> m.env[x.n]

(* maxIndexForHir: the bound of a loop over the index, trusted.            *)
RECURSIVE MaxIndex(_, _)
MaxIndex(e, bound) ==
  LET l == MaxIndex(e.l, bound)  r == MaxIndex(e.r, bound)
  IN  CASE e.k = "lit" -> e.v
        [] e.k = "var" -> IF bound # <<>> /\ bound[1] = e.n THEN bound[2] - 1 ELSE -1
        [] e.k = "bin" /\ e.op \in {"add", "sub", "mul"} ->
             IF l < 0 \/ r < 0 THEN -1 ELSE Wrap(CASE e.op = "add" -> l + r
                                                   [] e.op = "sub" -> l - r
                                                   [] OTHER -> l * r)
        [] OTHER -> -1
Elided(m, x) == x.a = "a" /\ MaxIndex(x.e, m.bound) \in DOMAIN m.env["a"]

(* Whether the left operand may wait in r10: no call is seen on the right, *)
(* and r10 is not already in use.                                          *)
MayStageNested(e, live) == ~HasCall(e.r)                        \* mutant
MayStage(e, live) == ~HasCall(e.r) /\ ~live

RECURSIVE X(_, _, _)
(* Both operands of e: the machine after, rax's and rcx's contents.        *)
Operands(e, m, live) ==
  LET l == X(e.l, m, live)
      free == MayStage(e, live)
      r == IF free THEN X(e.r, Scratch(l, l.v), TRUE) ELSE X(e.r, l, live)
  IN  CASE ~Running(l) -> [m |-> l, a |-> 0, b |-> 0]
        [] e.r.k = "lit" -> [m |-> l, a |-> l.v, b |-> e.r.v]
        [] ~Running(r) -> [m |-> r, a |-> 0, b |-> 0]
        [] free -> [m |-> r, a |-> r.r10, b |-> r.v]
        [] e.l.k = "var" -> [m |-> r, a |-> Reload(r, e.l, l.v), b |-> r.v]
        [] OTHER -> [m |-> r, a |-> l.v, b |-> r.v]

XLogic(e, m, live) ==
  LET l == X(e.l, m, live)
      r == X(e.r, l, live)
      short == IF e.op = "and" THEN l.v = 0 ELSE l.v # 0
  IN  IF ~Running(l) THEN l
      ELSE IF short THEN Give(l, Bool(e.op = "or"))
      ELSE IF Running(r) THEN Give(r, Bool(r.v # 0)) ELSE r

XCompare(e, m, live) ==
  LET l == X(e.l, m, live)
      r == X(e.r, l, live)
      o == Operands(e, m, live)
  IN  CASE e.op = DerivedEq ->                       \* arguments of a call, once each
             IF Running(r) THEN Calls(Give(LogCall(r, <<"equ", l.v, r.v>>), Bool(l.v = r.v)))
             ELSE r
        [] ~Running(o.m) -> o.m
        [] OTHER -> Give(o.m, Bool(Compare(e.op, o.a, o.b, Unsigned(e.l.t))))

XArith(e, m, live) ==
  LET o == Operands(e, m, live)
      n == Alu(o.m, e, o.a, o.b)
  IN  CASE ~Running(o.m) -> o.m
        [] Running(n) /\ e.op \in Arith -> X64Policy(n, e.t)
        [] OTHER -> n

(* genHirAddr of a target: the machine that has checked its index.         *)
Place(x, m, live) ==
  LET i == X(x.e, m, live)
  IN  CASE x.k = "var" -> m
        [] ~Running(i) -> i
        [] i.v \notin DOMAIN i.env[x.a] -> Stop(i, IF Elided(i, x) THEN "wild" ELSE "panic")
        [] OTHER -> IF Elided(i, x) THEN i ELSE Calls(i)
Load(x, p) == IF x.k = "var" THEN p.env[x.n] ELSE p.env[x.a][p.v]
StoreAt(x, p, m, v) ==
  IF x.k = "var" THEN Give(SetVar(m, x.n, v), v) ELSE Give([m EXCEPT !.env[x.a][p.v] = v], v)

(* The address waits in r10 from the load to the store; a checked policy   *)
(* in between is a call.                                                   *)
ThroughR10(x, p, new) ==
  LET n == X64Policy(Give(Scratch(p, 0), new), x.t)
  IN  IF ~Running(n) THEN n
      ELSE IF n.r10 = 0 THEN StoreAt(x, p, n, n.v) ELSE Stop(n, "wild")

XIncDec(e, m, live) ==
  LET p == Place(e.e, m, live)
      old == Load(e.e, p)
      done == ThroughR10(e.e, p, Wrap(old + (IF e.op \in {"preinc", "postinc"} THEN 1 ELSE -1)))
  IN  IF ~Running(p) THEN p
      ELSE IF Running(done) /\ e.op \in {"postinc", "postdec"} THEN Give(done, old) ELSE done

(* Assignment: the value, then the target.  A property gets the value,     *)
(* whatever the operator.                                                  *)
XSet(e, m, live) ==
  LET v == X(e.e, m, live)
      p == Place(e.x, v, live)
  IN  IF ~Running(v) THEN v ELSE IF ~Running(p) THEN p ELSE StoreAt(e.x, p, p, v.v)

XCompound(e, m, live) ==
  LET v == X(e.e, m, live)
      p == Place(e.x, v, live)
      n == Operate(p, e.op, Load(e.x, p), v.v, FALSE)
      inReg == e.x.k = "var" /\ e.x.n \in Regs
      rp == X64Policy(n, e.x.t)
  IN  CASE ~Running(v) -> v
        [] ~Running(p) -> p
        [] ~Running(n) -> n
        [] inReg -> IF Running(rp) THEN StoreAt(e.x, p, rp, rp.v) ELSE rp
        [] OTHER -> ThroughR10(e.x, p, n.v)

XAssign(e, m, live) ==
  LET v == X(e.e, m, live)
  IN  CASE e.x.k = "var" /\ e.x.n = "p" ->
             IF Running(v) THEN Calls(StoreVar(v, "p")) ELSE v
        [] e.op = "set" -> XSet(e, m, live)
        [] OTHER -> XCompound(e, m, live)

X(e, m, live) ==
  LET o == X(e.e, m, live)
  IN
  IF ~Running(m) THEN m
  ELSE CASE e.k \in {"lit", "bool"} -> Give(m, e.v)
         [] e.k = "var" -> IF e.n = "p" THEN Calls(Give(LogCall(m, <<"get">>), m.env["p"]))
                           ELSE Give(m, m.env[e.n])
         [] e.k = "bin" -> IF e.op \in Logical THEN XLogic(e, m, live)
                           ELSE IF e.op \in Comparisons \cup {DerivedEq} THEN XCompare(e, m, live)
                           ELSE XArith(e, m, live)
         [] e.k = "un" /\ e.op \in IncDec -> XIncDec(e, m, live)
         [] e.k = "un" -> IF ~Running(o) THEN o
                          ELSE IF e.op = "neg" THEN X64Policy(Give(o, Wrap(-o.v)), e.t)
                          ELSE Give(o, IF e.op = "bnot" THEN -o.v - 1 ELSE Bool(o.v = 0))
         [] e.k = "asg" -> XAssign(e, m, live)
         [] e.k = "cast" -> o
         [] e.k = "call" -> IF Running(o) THEN Calls(CallF(o, e.f)) ELSE o
         [] e.k = "index" -> IF ~Running(o) THEN o
                             ELSE IF o.v \in DOMAIN o.env[e.a]
                               THEN Calls(Give(o, o.env[e.a][o.v])) ELSE Stop(o, "panic")
         [] e.k = "tuple" -> X(e.r, X(e.l, m, live), live)

(***************************************************************************)
(* Statements: loops test at the end and are entered by a jump; what       *)
(* follows a jump is emitted all the same.                                 *)
(***************************************************************************)
Jump(st, n) == Put(st, <<"br", n>>)

RECURSIVE Gen(_, _, _), GenAll(_, _, _)
GenAll(ss, st, lp) == IF ss = <<>> THEN st ELSE GenAll(Tail(ss), Gen(Head(ss), st, lp), lp)

GenIf(s, st0, lp) ==
  LET el == st0.n + 1  en == st0.n + 2
      yes == Gen(s.a, Put(Fresh(st0, 2), <<"jz", s.c, el>>), lp)
  IN  IF s.b = NoStmt THEN Label(yes, el)
      ELSE Label(Gen(s.b, Label(Jump(yes, en), el), lp), en)

GenLoop(s, st0) ==
  LET co == st0.n + 1  bo == st0.n + 2  en == st0.n + 3
      enter == IF s.k = "while" THEN Jump(Fresh(st0, 3), co) ELSE Fresh(st0, 3)
      body == Gen(s.b, Label(enter, bo), <<en, co>>)
  IN  Label(Put(Label(body, co), <<"jnz", s.c, bo>>), en)

(* extractLoopBound: a declared variable below a literal; neither the step *)
(* nor the body is looked at.                                              *)
LoopBound(s) ==
  IF /\ s.i.k = "decl" /\ s.c.k = "bin" /\ s.c.op \in {"lt", "le"}
     /\ s.c.l.k = "var" /\ s.c.l.n = s.i.n /\ s.c.r.k = "lit"
    THEN <<s.i.n, IF s.c.op = "lt" THEN s.c.r.v ELSE Wrap(s.c.r.v + 1)>>
    ELSE <<>>

GenFor(s, st0, lp) ==
  LET co == st0.n + 1  bo == st0.n + 2  sp == st0.n + 3  en == st0.n + 4
      known == Put(Fresh(st0, 4), <<"bound", LoopBound(s)>>)
      enter == Label(Jump(Gen(s.i, known, lp), co), bo)
      body == Label(Gen(s.b, enter, <<en, sp>>), sp)
      step == Label(IF s.s = NoExpr THEN body ELSE Put(body, <<"do", s.s>>), co)
      test == IF s.c = NoExpr THEN Jump(step, bo) ELSE Put(step, <<"jnz", s.c, bo>>)
  IN  Put(Label(test, en), <<"bound", <<>>>>)

(* The record in the frame is unlinked where the body ends and where the   *)
(* handler begins: whatever is on top of the chain there.                  *)
GenTry(s, st0, lp) ==
  LET ha == st0.n + 1  en == st0.n + 2
      body == Gen(s.b, Put(Fresh(st0, 2), <<"try", ha>>), lp)
      handler == Label(Jump(Put(body, <<"pop">>), en), ha)
  IN  Label(Gen(s.h, Put(handler, <<"caught", s.n>>), lp), en)

Gen(s, st, lp) ==
  CASE s.k = "block" -> GenAll(s.ss, st, lp)
    [] s.k = "decl" -> IF s.e = NoExpr THEN st ELSE Put(st, <<"store", s.n, s.e>>)
    [] s.k = "expr" -> Put(st, <<"do", s.e>>)
    [] s.k = "return" -> Put(st, <<"ret", s.e>>)
    [] s.k = "if" -> GenIf(s, st, lp)
    [] s.k \in {"while", "dowhile"} -> GenLoop(s, st)
    [] s.k = "for" -> GenFor(s, st, lp)
    [] s.k \in {"break", "continue"} ->
         IF lp = <<>> THEN st ELSE Jump(st, lp[IF s.k = "break" THEN 1 ELSE 2])
    [] s.k = "throw" -> Put(st, <<"throw", s.e>>)
    [] s.k = "try" -> GenTry(s, st, lp)
    [] s.k = "lock" -> Put(Gen(s.b, Put(st, <<"unlock", -1>>), lp), <<"unlock", 1>>)
    [] s.k = "panic" -> Put(st, <<"panic">>)
    [] s.k = "assert" -> LET ok == st.n + 1
                         IN  Label(Put(Put(Fresh(st, 1), <<"jnz", s.c, ok>>), <<"panic">>), ok)
    [] OTHER -> st

X64Code(body) == Put(Gen(body, Start("chain"), <<>>), <<"ret", NoExpr>>)

(* emitSelfTailCallHir: each argument goes to its parameter's slot before  *)
(* the next is evaluated, then the body is entered again.                  *)
SelfCall(e, m) ==
  LET l == X(e.l, m, FALSE)
      x == SetVar(l, "x", l.v)
      r == X(e.r, x, FALSE)
  IN  IF ~Running(l) THEN l ELSE IF ~Running(r) THEN r ELSE SetVar(r, "y", r.v)

RECURSIVE XRun(_, _, _, _)
XRun(code, pc, m, fuel) ==
  IF ~Running(m) THEN m
  ELSE IF fuel = 0 THEN Stop(m, "fuel")
  ELSE LET i == code.c[pc]
           to(n, k) == XRun(code, At(code, n), k, fuel - 1)
           next(n) == IF n.ctl = "throw" /\ Catcher(code, pc, n) # Outside
                        THEN to(Catcher(code, pc, n), Caught(code, n))
                        ELSE XRun(code, pc + 1, n, fuel - 1)
           v == X(i[2], m, FALSE)
           done(k) == IF Running(v) THEN k ELSE v
           test(want) == IF Running(v) /\ (v.v # 0) = want THEN to(i[3], v) ELSE next(v)
       IN  CASE i[1] = "label" -> XRun(code, pc + 1, m, fuel)
             [] i[1] = "do" -> next(v)
             [] i[1] = "bound" -> XRun(code, pc + 1, [m EXCEPT !.bound = i[2]], fuel)
             [] i[1] = "store" -> LET e == X(i[3], m, FALSE)
                                  IN  next(IF Running(e) THEN SetVar(e, i[2], e.v) ELSE e)
             [] i[1] = "br" -> to(i[2], m)
             [] i[1] = "jnz" -> test(TRUE)
             [] i[1] = "jz" -> test(FALSE)
             [] i[1] = "try" -> next([m EXCEPT !.hdl = <<i[2]>> \o @])
             [] i[1] = "pop" -> next([m EXCEPT !.hdl = Tail(@)])
             [] i[1] = "caught" -> next(SetVar(m, i[2], m.v))
             [] i[1] = "throw" -> next(done(Stop(v, "throw")))
             [] i[1] = "unlock" -> next(Unlock(m, i[2]))
             [] i[1] = "ret" -> IF i[2].k = "self" THEN XRun(code, 1, SelfCall(i[2], m), fuel - 1)
                                ELSE IF i[2] = NoExpr THEN Stop(Give(m, 0), "ret")
                                ELSE next(done(Stop(v, "ret")))
             [] i[1] = "panic" -> Stop(m, "panic")

X64Outcome(body, env, fuel) == Seen(XRun(X64Code(body), 1, X64Machine(env), fuel))
=============================================================================
