-------------------------------- MODULE Sugar --------------------------------
(***************************************************************************)
(* The lowering against the walk of the tree: one function at a time is    *)
(* taken from Fns, lowered, and both trees are run in every environment.   *)
(*                                                                         *)
(* Where a construct is known not to survive, it is a quirk (QuirksOf); a  *)
(* function is taken only when Quirks holds all of its quirks.             *)
(* The properties speak of the step that lowers (lowered'): MCFront checks *)
(* them of every step.                                                     *)
(***************************************************************************)
EXTENDS Lower

CONSTANTS Fns,        \* functions, as Fn makes them
          SugarEnvs,  \* environments: names and their values
          SugarHeap,  \* the blocks these speak of
          Quirks,     \* the quirks a function may have
          SugarFuel   \* turns of loops

SugarKinds == {"tern", "coalesce", "propagate", "optfield", "optindex", "optcall", "match"}
RECURSIVE Parts(_), PartsOf(_)
Kids(e) == CASE e.k \in {"un", "call", "field", "cell", "is", "unwrap", "propagate", "optfield"} -> <<e.e>>
             [] e.k \in {"bin", "tuple", "item", "add", "coalesce", "optindex", "optcall"} -> <<e.l, e.r>>
             [] e.k = "newlist" -> e.es
             [] e.k = "asg" -> IF e.op = "set" THEN <<e.e, e.x>> ELSE <<e.x, e.e>>
             [] e.k = "tern" -> <<e.c, e.a, e.b>>
             [] e.k = "match" -> <<e.e>> \o [i \in DOMAIN e.arms |-> e.arms[i].g] \o [i \in DOMAIN e.arms |-> e.arms[i].y]
             [] e.k = "rt" -> e.es
             [] e.k = "load" -> <<e.e>>
             [] OTHER -> <<>>
Parts(e) == {e} \cup UNION {Parts(Kids(e)[i]) : i \in DOMAIN Kids(e)}
InArms(e) == UNION {UNION {{x.arms[i].ss[j] : j \in DOMAIN x.arms[i].ss} : i \in DOMAIN x.arms} :
                      x \in {y \in Parts(e) : y.k = "match"}}

StmtExprs(s) == CASE s.k \in {"expr", "decl", "return", "throw", "switch", "foreach", "destructure"} -> {s.e}
                  [] s.k \in {"if", "while", "dowhile", "assert"} -> {s.c}
                  [] s.k = "for" -> {s.c, s.s}
                  [] OTHER -> {}
StmtKids(s) == CASE s.k = "block" -> {s.ss[i] : i \in DOMAIN s.ss}
                 [] s.k = "if" -> {s.a, s.b}
                 [] s.k \in {"while", "dowhile", "foreach", "lock"} -> {s.b}
                 [] s.k = "for" -> {s.i, s.b}
                 [] s.k = "try" -> {s.b, s.h}
                 [] s.k = "switch" -> {Block(s.d)} \cup {Block(s.cases[i].ss) : i \in DOMAIN s.cases}
                 [] OTHER -> {}
PartsOf(s) == {s} \cup UNION {PartsOf(q) : q \in StmtKids(s) \cup UNION {InArms(e) : e \in StmtExprs(s)}}
AllStmts(fn) == PartsOf(Block(fn.ss))
AllExprs(fn) == UNION {UNION {Parts(e) : e \in StmtExprs(s)} : s \in AllStmts(fn)}

HasSugar(e) == \E x \in Parts(e) : x.k \in SugarKinds
Impure(e) == \E x \in Parts(e) : \/ x.k \in {"call", "asg", "propagate", "optcall", "match", "field", "load", "rt", "item", "add", "unwrap", "is"}
                                 \/ x.k = "bin" /\ x.op \in {"div", "mod"}
                                 \/ x.k = "un" /\ x.op \in IncDec
Constant(e) == \A x \in Parts(e) : x.k \in {"lit", "bool"}
Left(e) == Low(e, [loop |-> 0, sw |-> <<>>, ens |-> <<>>], 0).e
IsTemp(e) == e.k = "var" /\ HasSugar(e) = FALSE /\ e.n \in {Temp(i) : i \in 1..9}

(* The sugar of a later operand runs before what is left of an earlier one. *)
Overtakes(es) == \E i, j \in DOMAIN es : i < j /\ HasSugar(es[j]) /\
  LET r == Left(es[i]) IN Impure(r) \/ (~Constant(r) /\ ~IsTemp(r) /\ Impure(es[j]))

RECURSIVE Escapes(_)
Escapes(s) ==                      \* a break or continue of a switch around
  \/ s.k \in {"break", "continue"}
  \/ s.k \in {"block", "if", "try", "lock", "expr"} /\
       \E q \in StmtKids(s) \cup UNION {InArms(e) : e \in StmtExprs(s)} : Escapes(q)
LooseExit(ss) == \E i \in DOMAIN ss : Escapes(ss[i]) /\ ~(ss[i].k = "break" /\ i = Len(ss))

If1(c, q) == IF c THEN {q} ELSE {}
ExprQuirks(e) ==
  If1(e.k \in {"bin", "tuple", "item", "add", "newlist", "asg"} /\ Overtakes(Kids(e)), "hoist")
  \cup If1(e.k = "asg" /\ e.op = "set" /\ e.x.k = "field" /\ HasSugar(e.x) /\ ~Constant(e.e), "hoist")
  \cup If1(e.k = "bin" /\ e.op \in Logical /\ HasSugar(e.r) /\ Impure(e.r), "short")
  \cup If1(e.k = "coalesce" /\ e.l.t \in {"ref", "list"}, "nullref")
StmtQuirks(s) ==
  If1(s.k \in {"while", "dowhile", "for"} /\ \E e \in StmtExprs(s) : HasSugar(e), "loopcond")
  \cup If1(s.k = "for" /\ \E e \in StmtExprs(s.i) : HasSugar(e), "forinit")
  \cup If1(s.k = "switch" /\ \E b \in StmtKids(s) : LooseExit(b.ss), "switchbreak")
  \cup If1(s.k = "decl" /\ \E x \in Parts(s.e) : x.k = "var" /\ x.n = s.n, "selfinit")
FnQuirks(fn) ==
  If1(\E i \in DOMAIN fn.ens : HasSugar(fn.ens[i]), "ensure")
  \cup If1(fn.ens # <<>> /\ \E x \in AllExprs(fn) : x.k = "propagate", "tryensure")
  \cup If1(fn.ens # <<>> /\ \E s \in AllStmts(fn) : s.k = "return" /\
             \E x \in Parts(s.e) : x.k = "var" /\ x.n = "result", "selfinit")
QuirksOf(fn) == FnQuirks(fn) \cup UNION {StmtQuirks(s) : s \in AllStmts(fn)}
                             \cup UNION {ExprQuirks(e) : e \in AllExprs(fn)}

VARIABLES fn, lowered
sugarVars == <<fn, lowered>>
NoCode == <<>>

SugarInit == fn \in {q \in Fns : QuirksOf(q) \subseteq Quirks} /\ lowered = NoCode
LowerFunction == /\ lowered = NoCode
                 /\ lowered' = Lowered(fn)
                 /\ UNCHANGED fn
SugarNext == LowerFunction
SugarSpec == SugarInit /\ [][SugarNext]_sugarVars

(***************************************************************************)
(* What can be seen of a run.                                              *)
(***************************************************************************)
Final(ss, env) == Scoped(Start(env, SugarHeap, SugarFuel), LAMBDA q : RunAll(ss, q))
Seen(s, t) == LET v == IF s.st # "ret" \/ t = "void" THEN 0
                       ELSE IF t \in {"opt", "res"} /\ s.v \in DOMAIN s.h THEN s.h[s.v] ELSE s.v
              IN  <<s.out, IF s.st = "run" THEN "ret" ELSE s.st, v>>
(* Of the tree itself: pre- and postconditions are asserted around it.     *)
Asserted(es, s) == RunAll([i \in DOMAIN es |-> AssertThat(es[i])], s)
Walked(env) ==
  LET s == Scoped(Start(env, SugarHeap, SugarFuel), LAMBDA q :
             LET r == Asserted(fn.req, q) IN IF Runs(r) THEN RunAll(fn.ss, r) ELSE r)
      e == IF s.st \notin {"ret", "run"} \/ (s.st = "run" /\ fn.t # "void") THEN s
           ELSE LET a == Asserted(fn.ens, Name(Enter(Stop(s, "run")), "result", s.v))
                IN  IF Runs(a) THEN s ELSE a
  IN  e

(* A lowered tree has no sugar left (hir.h: "sem açúcar").                 *)
Core(s) == /\ s.k \notin {"switch", "foreach", "destructure"}
           /\ \A e \in StmtExprs(s) : ~HasSugar(e)
NoSugarLeft == \A s \in PartsOf(Block(lowered')) : Core(s)

(* Without sugar a function does what it did with it: the same calls in    *)
(* the same order, the same end and the same value.                        *)
SugarKept == \A env \in SugarEnvs :
  LET a == Walked(env)  b == Final(lowered', env)
  IN  "fuel" \notin {a.st, b.st} => Seen(a, fn.t) = Seen(b, fn.t)

(* No value is returned that breaks a postcondition.                       *)
EnsuresChecked == \A env \in SugarEnvs :
  LET s == Final(lowered', env)
  IN  s.st = "ret" => Runs(Asserted(fn.ens, Name(Stop([s EXCEPT !.env = <<env>>], "run"), "result", s.v)))
=============================================================================
