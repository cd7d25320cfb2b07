-------------------------------- MODULE Llvm --------------------------------
(***************************************************************************)
(* The textual LLVM back end (irgen/irgen.cpp).  Statements become a list  *)
(* of instructions with labels and terminators; expressions are evaluated  *)
(* in the order in which their code is emitted.  Both operands of && and   *)
(* || are evaluated; a comparison that calls a generated comparator emits  *)
(* its operands a second time for the call; a policy applies to compound   *)
(* assignment and to ++/-- only; a fixed array is not bounds-checked; the  *)
(* index of a compound target is evaluated for the load and for the store. *)
(***************************************************************************)
EXTENDS Hir

(* A machine: variables, log of calls, how it stands and the last value.   *)
(* hdl holds the catch labels of the try blocks entered, innermost first;  *)
(* held counts the takings of the lock that have not been released.        *)
Machine(env) == [env |-> env, out |-> <<>>, ctl |-> "run", v |-> 0, hdl |-> <<>>, held |-> 0]
Running(m) == m.ctl = "run"
Give(m, v) == [m EXCEPT !.v = v]
Stop(m, ctl) == [m EXCEPT !.ctl = ctl]
SetVar(m, n, v) == [m EXCEPT !.env[n] = v]
LogCall(m, what) == [m EXCEPT !.out = Append(@, what)]

CallF(m, f) ==
  LET c == LogCall(Give(m, CallResult(f, m.v)), <<f, m.v>>)
  IN  IF CallThrows(f, m.v) THEN Stop(c, "throw")
      ELSE IF CallCounts(f) THEN SetVar(c, "g", Wrap(c.env["g"] + 1)) ELSE c

(* irgen's applyOverflowPolicy: unsigned bounds are compared unsigned.     *)
Policy(m, t) ==
  LET v == m.v  p == PolicyOf(t)
      below == IF Unsigned(t) THEN FALSE ELSE v < MinOf(t)
      above == IF Unsigned(t) THEN Uns(v) > MaxOf(t) ELSE v > MaxOf(t)
  IN  CASE p = "default" -> m
        [] p = "wrap" -> Give(m, ToNarrow(v, t))
        [] p = "checked" -> IF v \in MinOf(t)..MaxOf(t) THEN m ELSE Stop(m, "panic")
        [] p = "saturate" -> Give(m, IF above THEN MaxOf(t) ELSE IF below THEN MinOf(t) ELSE v)

CellUnchecked(m, a) ==                          \* mutant
  IF m.v \in DOMAIN m.env[a] THEN Give(m, m.env[a][m.v]) ELSE Stop(m, "wild")
Cell(m, a) ==                                   \* the element whose index is m.v
  CASE m.v \in DOMAIN m.env[a] -> Give(m, m.env[a][m.v])
    [] a = "l" -> Stop(m, "panic")              \* a list: hphl_list_check
    [] OTHER -> Stop(m, "wild")                 \* a fixed array: no check
StoreCell(m, a, v) ==
  CASE m.v \in DOMAIN m.env[a] -> Give([m EXCEPT !.env[a][m.v] = v], v)
    [] a = "l" -> Stop(m, "panic")
    [] OTHER -> Stop(m, "wild")

Operate(m, op, a, b, u) ==
  IF Traps(op, a, b, u) THEN Stop(m, "trap") ELSE Give(m, Compute(op, a, b, u))

StoreVar(m, n) == IF n = "p" THEN LogCall(SetVar(m, n, m.v), <<"set", m.v>>)
                  ELSE SetVar(m, n, m.v)

RECURSIVE Ev(_, _)
(* The target of a compound assignment or of ++/--: store v into it.       *)
StoreTo(m, x, v) ==
  IF x.k = "var" THEN Give(SetVar(m, x.n, v), v)
  ELSE LET i == Ev(x.e, m) IN IF Running(i) THEN StoreCell(i, x.a, v) ELSE i

EvArith(e, l, r) == Operate(r, e.op, l.v, r.v, Unsigned(e.l.t))
EvBin(e, m) ==
  LET l == Ev(e.l, m)
      r == Ev(e.r, l)
      l2 == IF e.op = DerivedEq THEN Ev(e.l, r) ELSE l
      r2 == IF e.op = DerivedEq THEN Ev(e.r, l2) ELSE r
      u == Unsigned(e.l.t)
  IN  IF ~Running(r2) THEN r2
      ELSE CASE e.op = DerivedEq -> Give(LogCall(r2, <<"equ", l2.v, r2.v>>), Bool(l2.v = r2.v))
             [] e.op \in Comparisons -> Give(r, Bool(Compare(e.op, l.v, r.v, u)))
             [] e.op = "and" -> Give(r, Bool(l.v # 0 /\ r.v # 0))
             [] e.op = "or" -> Give(r, Bool(l.v # 0 \/ r.v # 0))
             [] OTHER -> EvArith(e, l, r)

EvIncDec(e, m) ==
  LET old == Ev(e.e, m)
      new == Policy(Give(old, Wrap(old.v + (IF e.op \in {"preinc", "postinc"} THEN 1 ELSE -1))),
                    e.e.t)
      done == StoreTo(new, e.e, new.v)
  IN  IF ~Running(old) THEN old ELSE IF ~Running(new) THEN new
      ELSE IF ~Running(done) THEN done
      ELSE IF e.op \in {"preinc", "predec"} THEN Give(done, new.v) ELSE Give(done, old.v)

EvSet(e, m) ==
  LET v == Ev(e.e, m)
  IN  IF ~Running(v) THEN v
      ELSE IF e.x.k = "var" THEN StoreVar(v, e.x.n) ELSE StoreTo(v, e.x, v.v)

EvCompound(e, m) ==
  LET t == Ev(e.x, m)
      v == Ev(e.e, t)
      n == Operate(v, e.op, t.v, v.v, Unsigned(e.x.t))
      p == Policy(n, e.x.t)
  IN  IF ~Running(v) THEN v ELSE IF ~Running(n) THEN n
      ELSE IF ~Running(p) THEN p ELSE StoreTo(p, e.x, p.v)

EvUnary(e, m) ==
  LET o == Ev(e.e, m)
  IN  IF ~Running(o) THEN o
      ELSE Give(o, CASE e.op = "neg" -> Wrap(-o.v)
                     [] e.op = "bnot" -> -o.v - 1
                     [] e.op = "not" -> Bool(o.v = 0))

EvCast(e, m) ==
  LET o == Ev(e.e, m)
  IN  IF Running(o) /\ e.t = "bool" /\ e.e.t # "bool" THEN Give(o, o.v % 2) ELSE o

Ev(e, m) ==
  IF ~Running(m) THEN m
  ELSE CASE e.k \in {"lit", "bool"} -> Give(m, e.v)
         [] e.k = "var" -> IF e.n = "p" THEN Give(LogCall(m, <<"get">>), m.env["p"])
                           ELSE Give(m, m.env[e.n])
         [] e.k = "bin" -> EvBin(e, m)
         [] e.k = "un" /\ e.op \in IncDec -> EvIncDec(e, m)
         [] e.k = "un" -> EvUnary(e, m)
         [] e.k = "asg" -> IF e.op = "set" THEN EvSet(e, m) ELSE EvCompound(e, m)
         [] e.k = "cast" -> EvCast(e, m)
         [] e.k = "call" -> LET o == Ev(e.e, m) IN IF Running(o) THEN CallF(o, e.f) ELSE o
         [] e.k = "index" -> LET o == Ev(e.e, m) IN IF Running(o) THEN Cell(o, e.a) ELSE o
         [] e.k = "tuple" -> Ev(e.r, Ev(e.l, m))

(***************************************************************************)
(* Statements.  st carries the code so far and the number of the last      *)
(* label; lp the break and continue labels of the innermost loop.          *)
(***************************************************************************)
Terminators == {"ret", "br", "cbr", "unreachable"}

(* What is being emitted: code c, with for each instruction the catch      *)
(* label that encloses it (h); the last label; the way exceptions work;    *)
(* the try blocks open, each with the locks taken in it (wasm's stacks).   *)
Start(eh) == [c |-> <<>>, h |-> <<>>, n |-> 0, eh |-> eh, tries |-> <<>>]
Outside == 0                                     \* the label of the propagation block
TargetOutermost(st) == IF st.tries = <<>> THEN Outside          \* mutant
                       ELSE st.tries[Len(st.tries)].catch
Target(st) == IF st.tries = <<>> THEN Outside ELSE Head(st.tries).catch
Put(st, ins) == [st EXCEPT !.c = Append(@, ins), !.h = Append(@, Target(st))]
Label(st, n) == Put(st, <<"label", n>>)
Open(st) == st.c = <<>> \/ st.c[Len(st.c)][1] \notin Terminators
BrIfOpen(st, n) == IF Open(st) THEN Put(st, <<"br", n>>) ELSE st
Fresh(st, k) == [st EXCEPT !.n = @ + k]
PushTry(st, n) == [st EXCEPT !.tries = <<[catch |-> n, locks |-> 0]>> \o @]
PopTry(st) == [st EXCEPT !.tries = Tail(@)]
Wasm(st) == st.eh = "wasm"

RECURSIVE Emit(_, _, _), EmitAll(_, _, _)
EmitAll(ss, st, lp) == IF ss = <<>> THEN st ELSE EmitAll(Tail(ss), Emit(Head(ss), st, lp), lp)

EmitIf(s, st0, lp) ==
  LET th == st0.n + 1  el == st0.n + 2  en == st0.n + 3
      has == s.b # NoStmt
      test == Put(Fresh(st0, 3), <<"cbr", s.c, th, IF has THEN el ELSE en>>)
      yes == BrIfOpen(Emit(s.a, Label(test, th), lp), en)
      no == IF has THEN BrIfOpen(Emit(s.b, Label(yes, el), lp), en) ELSE yes
  IN  Label(no, en)

EmitWhile(s, st0) ==
  LET co == st0.n + 1  bo == st0.n + 2  en == st0.n + 3
      head == Label(Put(Fresh(st0, 3), <<"br", co>>), co)
      body == Label(Put(head, <<"cbr", s.c, bo, en>>), bo)
  IN  Label(BrIfOpen(Emit(s.b, body, <<en, co>>), co), en)

EmitDoWhile(s, st0) ==
  LET bo == st0.n + 1  co == st0.n + 2  en == st0.n + 3
      body == Label(Put(Fresh(st0, 3), <<"br", bo>>), bo)
      test == Label(BrIfOpen(Emit(s.b, body, <<en, co>>), co), co)
  IN  Label(Put(test, <<"cbr", s.c, bo, en>>), en)

EmitFor(s, st0, lp) ==
  LET co == st0.n + 1  bo == st0.n + 2  sp == st0.n + 3  en == st0.n + 4
      init == Emit(s.i, Fresh(st0, 4), lp)
      head == Label(Put(init, <<"br", co>>), co)
      test == Put(head, IF s.c = NoExpr THEN <<"br", bo>> ELSE <<"cbr", s.c, bo, en>>)
      body == BrIfOpen(Emit(s.b, Label(test, bo), <<en, sp>>), sp)
      step == Label(body, sp)
      again == BrIfOpen(IF s.s = NoExpr THEN step ELSE Put(step, <<"do", s.s>>), co)
  IN  Label(again, en)

(* wasm: the cleanup of the innermost try only, of every lock taken in it. *)
EmitThrow(s, st) ==
  IF ~Wasm(st) THEN Put(Put(st, <<"throw", s.e>>), <<"unreachable">>)
  ELSE LET n == IF st.tries = <<>> THEN 0 ELSE Head(st.tries).locks
           raised == Put(Put(st, <<"raise", s.e>>), <<"unlock", n>>)
       IN  Put(raised, <<"br", Target(st)>>)

EmitTry(s, st0, lp) ==
  LET bo == st0.n + 1  ca == st0.n + 2  en == st0.n + 3
      st == Fresh(st0, 3)
      body == IF Wasm(st)
                THEN BrIfOpen(PopTry(Emit(s.b, PushTry(Label(Put(st, <<"br", bo>>), bo), ca), lp)), en)
                ELSE Put(Put(Emit(s.b, Label(Put(st, <<"try", ca>>), bo), lp), <<"end", ca>>), <<"br", en>>)
      caught == Emit(s.h, Put(Label(body, ca), <<"caught", s.n>>), lp)
  IN  Label(IF Wasm(st) THEN BrIfOpen(caught, en) ELSE Put(caught, <<"br", en>>), en)

(* The lock is noted in the enclosing try and stays noted when it ends.    *)
EmitLock(s, st, lp) ==
  LET taken == Put(st, <<"unlock", -1>>)
      noted == IF Wasm(st) /\ st.tries # <<>> THEN [taken EXCEPT !.tries[1].locks = @ + 1] ELSE taken
  IN  Put(Emit(s.b, noted, lp), <<"unlock", 1>>)

Emit(s, st, lp) ==
  CASE s.k = "block" -> EmitAll(s.ss, st, lp)
    [] s.k = "decl" -> Put(st, <<"store", s.n, s.e>>)
    [] s.k = "expr" -> Put(st, <<"do", s.e>>)
    [] s.k = "return" -> Put(st, <<"ret", s.e>>)
    [] s.k = "if" -> EmitIf(s, st, lp)
    [] s.k = "while" -> EmitWhile(s, st)
    [] s.k = "dowhile" -> EmitDoWhile(s, st)
    [] s.k = "for" -> EmitFor(s, st, lp)
    [] s.k \in {"break", "continue"} ->
         IF lp = <<>> THEN Put(st, <<"unreachable">>)
         ELSE BrIfOpen(st, lp[IF s.k = "break" THEN 1 ELSE 2])
    [] s.k = "throw" -> EmitThrow(s, st)
    [] s.k = "try" -> EmitTry(s, st, lp)
    [] s.k = "lock" -> EmitLock(s, st, lp)
    [] s.k = "panic" -> Put(Put(st, <<"panic">>), <<"unreachable">>)
    [] s.k = "assert" ->
         LET ok == st.n + 1  fail == st.n + 2
             test == Label(Put(Fresh(st, 2), <<"cbr", s.c, ok, fail>>), fail)
         IN  Label(Put(Put(test, <<"panic">>), <<"unreachable">>), ok)
    [] OTHER -> st

(* genFunction: a body that falls off its end gets a return.               *)
LlvmCode(body, eh) == LET st == Emit(body, Start(eh), <<>>)
                      IN  IF Open(st) THEN Put(st, <<"ret", NoExpr>>) ELSE st

(* genHirCondI1: a bool that is not a comparison is truncated to its low bit. *)
Holds(m, e) == IF e.t = "bool" THEN m.v % 2 = 1 ELSE m.v # 0

At(code, n) == CHOOSE i \in DOMAIN code.c : code.c[i] = <<"label", n>>
Unlock(m, n) == [m EXCEPT !.held = @ - n]

(* An exception raised at pc: to the handler registered last, or to the    *)
(* catch block that encloses the instruction, or out of the function.      *)
Catcher(code, pc, m) == IF Wasm(code) THEN code.h[pc]
                        ELSE IF m.hdl = <<>> THEN Outside ELSE Head(m.hdl)
CaughtKept(code, m) == [m EXCEPT !.ctl = "run"]                 \* mutant: stays in the chain
Caught(code, m) == [m EXCEPT !.ctl = "run", !.hdl = IF Wasm(code) THEN @ ELSE Tail(@)]

RECURSIVE Run(_, _, _, _)
(* Execute from pc; fuel bounds the instructions of a program that loops.  *)
Run(code, pc, m, fuel) ==
  IF ~Running(m) THEN m
  ELSE IF fuel = 0 THEN Stop(m, "fuel")
  ELSE LET i == code.c[pc]
           to(n, k) == IF n = Outside THEN Stop(k, "throw") ELSE Run(code, At(code, n), k, fuel - 1)
           next(n) == IF n.ctl = "throw" /\ Catcher(code, pc, n) # Outside
                        THEN to(Catcher(code, pc, n), Caught(code, n))
                        ELSE Run(code, pc + 1, n, fuel - 1)
           v == Ev(i[2], m)
           done(k) == IF Running(v) THEN k ELSE v
       IN  CASE i[1] = "label" -> Run(code, pc + 1, m, fuel)
             [] i[1] = "do" -> next(v)
             [] i[1] = "store" -> IF i[3] = NoExpr THEN next(m)
                                  ELSE LET e == Ev(i[3], m)
                                       IN  next(IF Running(e) THEN SetVar(e, i[2], e.v) ELSE e)
             [] i[1] = "br" -> to(i[2], m)
             [] i[1] = "cbr" -> IF Running(v) THEN to(i[IF Holds(v, i[2]) THEN 3 ELSE 4], v) ELSE next(v)
             [] i[1] = "try" -> next([m EXCEPT !.hdl = <<i[2]>> \o @])
             [] i[1] = "end" -> next([m EXCEPT !.hdl = IF @ # <<>> /\ Head(@) = i[2] THEN Tail(@) ELSE @])
             [] i[1] = "caught" -> next(SetVar(m, i[2], m.v))
             [] i[1] = "throw" -> next(done(Stop(v, "throw")))
             [] i[1] = "raise" -> next(v)
             [] i[1] = "unlock" -> next(Unlock(m, i[2]))
             [] i[1] = "ret" /\ i[2].k = "self" ->          \* a call: fresh parameters
                  LET l == Ev(i[2].l, m)  r == Ev(i[2].r, l)
                  IN  IF ~Running(r) THEN next(r)
                      ELSE Run(code, 1, SetVar(SetVar(r, "x", l.v), "y", r.v), fuel - 1)
             [] i[1] = "ret" -> IF i[2] = NoExpr THEN Stop(Give(m, 0), "ret")
                                ELSE next(done(Stop(v, "ret")))
             [] i[1] = "panic" -> Stop(m, "panic")
             [] i[1] = "unreachable" -> Stop(m, "wild")

(* What the caller sees: calls made, how it ended, what it returned or     *)
(* threw, the variables it shares, the handlers and locks left behind.     *)
Seen(m) == IF m.ctl \in {"ret", "throw"}
             THEN <<m.out, m.ctl, m.v, m.env["g"], m.env["p"], Len(m.hdl), m.held>>
             ELSE <<m.out, m.ctl>>
LlvmOutcome(body, eh, env, fuel) == Seen(Run(LlvmCode(body, eh), 1, Machine(env), fuel))
=============================================================================
