------------------------------- MODULE Compile -------------------------------
(***************************************************************************)
(* A function's way through the compiler: rounds of the optimiser, removal *)
(* of unused locals, then code of either back end (hirOptimize, genHir).   *)
(* A behaviour takes one body of Bodies through the passes; the properties *)
(* run what has been made of it, by both back ends, on every environment.  *)
(* They are of steps: of what a step makes of a body, or of the body that  *)
(* it starts from (Compiled), the source first and the one emitted last.   *)
(*                                                                         *)
(* The passes and the back ends are known to differ on some constructs:    *)
(* each is named by a quirk, found in a body by QuirksOf, and a body is    *)
(* taken only when Quirks holds all of its quirks.                         *)
(***************************************************************************)
EXTENDS HirOpt, X64, Mir

CONSTANTS Bodies,    \* the bodies to compile: blocks over x, y, t, g, p, a, l
          Envs,      \* the environments to run them in
          Quirks,    \* the quirks a body may have
          Fuel       \* jumps and statements a run may take

ASSUME CompileAssumption == Junk \in MinInt..(-MinInt - 1) /\ Fuel \in Nat

(* Every expression of a statement, and every part of an expression.       *)
RECURSIVE Exprs(_), SubExprs(_)
SubExprs(e) ==
  {e} \cup CASE e.k \in {"bin", "self", "tuple"} -> SubExprs(e.l) \cup SubExprs(e.r)
             [] e.k \in {"un", "call", "cast", "index"} -> SubExprs(e.e)
             [] e.k = "asg" -> SubExprs(e.x) \cup SubExprs(e.e)
             [] OTHER -> {}
Exprs(s) ==
  CASE s.k = "block" -> UNION {Exprs(s.ss[i]) : i \in DOMAIN s.ss}
    [] s.k \in {"decl", "expr", "return", "throw"} -> SubExprs(s.e)
    [] s.k = "try" -> Exprs(s.b) \cup Exprs(s.h)
    [] s.k = "lock" -> Exprs(s.b)
    [] s.k = "if" -> SubExprs(s.c) \cup Exprs(s.a) \cup Exprs(s.b)
    [] s.k \in {"while", "dowhile"} -> SubExprs(s.c) \cup Exprs(s.b)
    [] s.k = "for" -> Exprs(s.i) \cup SubExprs(s.c) \cup SubExprs(s.s) \cup Exprs(s.b)
    [] s.k = "assert" -> SubExprs(s.c)
    [] OTHER -> {}

RECURSIVE Stmts(_)
Stmts(s) ==
  {s} \cup CASE s.k = "block" -> UNION {Stmts(s.ss[i]) : i \in DOMAIN s.ss}
             [] s.k = "if" -> Stmts(s.a) \cup Stmts(s.b)
             [] s.k \in {"while", "dowhile", "lock"} -> Stmts(s.b)
             [] s.k = "try" -> Stmts(s.b) \cup Stmts(s.h)
             [] s.k = "for" -> Stmts(s.i) \cup Stmts(s.b)
             [] OTHER -> {}

(***************************************************************************)
(* What an expression may do.                                              *)
(***************************************************************************)
Writes(e) == {x.x.n : x \in {y \in SubExprs(e) : y.k = "asg" /\ y.x.k = "var"}}
             \cup {x.e.n : x \in {y \in SubExprs(e) : y.k = "un" /\ y.op \in IncDec /\ y.e.k = "var"}}
             \cup {"g" : x \in {y \in SubExprs(e) : y.k = "call" /\ CallCounts(y.f)}}
Quiet(e) == \A x \in SubExprs(e) :          \* nothing to see, nothing to trap
  /\ x.k \in {"lit", "bool", "var", "bin", "un", "cast"}
  /\ x.k = "var" => x.n # "p"
  /\ x.k = "bin" => x.op \notin {"div", "mod", DerivedEq}
  /\ x.k = "un" => x.op \notin IncDec
Hidden(e) == \E x \in SubExprs(e) :         \* a call that hirHasCall does not see
  \/ x.k = "cast" /\ HasCall(x.e)
  \/ x.k = "index" \/ (x.k = "var" /\ x.n = "p")
  \/ x.k = "bin" /\ (x.op = DerivedEq \/ PolicyOf(x.t) = "checked")
UsesR10(e) == \E x \in SubExprs(e) :
  \/ x.k = "bin" /\ ByPow2(x) /\ x.op = "mod" /\ ~Unsigned(x.l.t) /\ x.r.v # 1
  \/ x.k = "un" /\ x.op \in IncDec
  \/ x.k = "asg" /\ x.op # "set" /\ ~(x.x.k = "var" /\ x.x.n \in Regs)
Mentions(e) == {x.n : x \in {y \in SubExprs(e) : y.k = "var"}}

(***************************************************************************)
(* The quirks: where the back ends, or a body and its optimised form, may  *)
(* part.                                                                   *)
(***************************************************************************)
BinQuirks(e) ==
  LET staged == e.op \notin Logical \cup {DerivedEq} /\ e.r.k # "lit"
  IN  {"logic" : i \in {j \in {e} : j.op \in Logical /\ ~Quiet(j.r)}}
      \cup {"twice" : i \in {j \in {e} : j.op = DerivedEq /\ ~(Quiet(j.l) /\ Quiet(j.r))}}
      \cup {"plain" : i \in {j \in {e} : j.op \in Arith /\ PolicyOf(j.t) # "default"}}
      \cup {"r10" : i \in {j \in {e} : staged /\ ~HasCall(j.r) /\ UsesR10(j.r)}}
      \cup {"hidden" : i \in {j \in {e} : staged /\ ~HasCall(j.r) /\ Hidden(j.r)}}
      \cup {"reload" : i \in {j \in {e} : staged /\ j.l.k = "var" /\ HasCall(j.r)
                                            /\ (j.l.n = "g" \/ j.l.n \in Writes(j.r))}}
      \cup {"unsigned" : i \in {j \in {e} : Unsigned(j.l.t) /\ j.op \in Comparisons \cup {"div", "mod"}}}
ExprQuirks(e) ==
  CASE e.k = "bin" -> BinQuirks(e)
    [] e.k = "un" -> IF PolicyOf(e.t) = "default" THEN {}
                     ELSE IF e.op = "neg" THEN {"plain"}
                     ELSE IF PolicyOf(e.t) = "checked" THEN {"policy"}
                     ELSE IF e.t = "usat" THEN {"usat"} ELSE {}
    [] e.k = "cast" -> IF e.t = "bool" /\ e.e.t # "bool" THEN {"tobool"} ELSE {}
    [] e.k = "index" -> IF e.a = "a" /\ e.e.k # "lit" /\ e.e # Var("i", "int") THEN {"bounds"} ELSE {}
    [] e.k = "asg" /\ e.op # "set" ->
         (IF e.x.k = "index" /\ ~Quiet(e.x.e) THEN {"again"} ELSE {})
         \cup (IF Writes(e.e) = {} \/ Writes(e.e) \cap Mentions(e.x) = {} THEN {} ELSE {"order"})
         \cup (IF Unsigned(e.x.t) /\ e.op \in {"div", "mod"} THEN {"unsigned"} ELSE {})
         \cup (IF e.x.t = "usat" THEN {"usat"} ELSE {})
         \cup (IF PolicyOf(e.x.t) = "checked" /\ ~(e.x.k = "var" /\ e.x.n \in Regs)
                 THEN {"policy"} ELSE {})
         \cup (IF e.x.k = "var" /\ e.x.n = "p" THEN {"property"} ELSE {})
    [] e.k = "self" -> IF "x" \in Mentions(e.r) THEN {"tail"} ELSE {}
    [] OTHER -> {}

Has(s, kinds) == \E t \in Stmts(s) : t.k \in kinds
Leaves(s) == Has(s, {"break", "continue"})
StmtQuirks(s) ==
  CASE s.k = "dowhile" -> IF Falsity(Fold(s.c)) /\ Leaves(s.b) THEN {"once"} ELSE {}
    [] s.k = "try" -> (IF Has(s.b, {"return", "break", "continue"}) THEN {"leak"} ELSE {})
                      \cup (IF Has(s.b, {"lock"}) /\ Has(s.b, {"throw"}) THEN {"relock"} ELSE {})
    [] s.k = "lock" -> IF \/ Has(s.b, {"return", "break", "continue", "throw"})
                          \/ \E e \in Exprs(s.b) : e.k = "call" /\ e.f = "k"
                         THEN {"locked"} ELSE {}
    [] s.k = "for" -> IF "i" \in UNION {Writes(e) : e \in Exprs(s.b)} THEN {"loopvar"} ELSE {}
    [] s.k = "decl" -> IF PureExpr(s.e) /\ ~Quiet(s.e) THEN {"trap"} ELSE {}
    [] OTHER -> {}
DeclaredIn(b) == {s.n : s \in {t \in Stmts(b) : t.k = "decl"}}
Unseen(b) ==                                \* locals that only tuples mention
  (UNION {Mentions(e) : e \in {x \in Exprs(b) : x.k = "tuple"}}) \cap (DeclaredIn(b) \ Collect(b))
QuirksOf(b) == (UNION {StmtQuirks(s) : s \in Stmts(b)})
               \cup (UNION {ExprQuirks(e) : e \in Exprs(b)})
               \cup {"tuple" : n \in Unseen(b)}

(***************************************************************************)
(* The passes.                                                             *)
(***************************************************************************)
VARIABLES source,     \* the body as lowered
          body,       \* what the passes have made of it
          rounds,     \* rounds of folding done
          changed,    \* the last one removed a branch
          phase,      \* "fold", "eliminate", "emit", and for the dump
                      \* "mir", "sweep", "place", "rename", "ssa"
          blocks,     \* the three-address form, and what it was before renaming
          idom        \* the immediate dominators found so far
vars == <<source, body, rounds, changed, phase, blocks, idom>>
passVars == <<source, rounds, changed>>

Init == /\ source \in {b \in Bodies : QuirksOf(b) \subseteq Quirks}
        /\ body = source
        /\ rounds = 0 /\ changed = TRUE /\ phase = "fold"
        /\ blocks = <<>> /\ idom = <<>>

MoreWhileChanged == phase = "fold" /\ changed                   \* mutant: no limit
MoreRounds == phase = "fold" /\ changed /\ rounds < MaxRounds

Round == /\ MoreRounds
         /\ LET r == SimplifyList(body.ss)
            IN  body' = Block(r.ss) /\ changed' = r.ch
         /\ rounds' = rounds + 1
         /\ UNCHANGED <<source, phase, blocks, idom>>

EndRounds == /\ phase = "fold" /\ ~MoreRounds
             /\ phase' = "eliminate"
             /\ UNCHANGED <<passVars, body, blocks, idom>>

RemoveUnused == /\ phase = "eliminate"
                /\ body' = Eliminate(body)
                /\ phase' = "emit"
                /\ UNCHANGED <<passVars, blocks, idom>>

(* --dump-mir [--ssa]: the optimised tree as blocks, then the renaming, for  *)
(* a function of more than one block.                                      *)
LowerMir == /\ phase = "emit"
            /\ blocks' = Lowered(body)
            /\ phase' = "mir"
            /\ UNCHANGED <<passVars, body, idom>>
StartSsa == /\ phase = "mir" /\ Len(blocks) > 1
            /\ idom' = NoIdoms(blocks)
            /\ phase' = "sweep"
            /\ UNCHANGED <<passVars, body, blocks>>
SweepDominators == /\ phase = "sweep"
                   /\ idom' = Sweep(blocks, idom)
                   /\ phase' = IF idom' = idom THEN "place" ELSE "sweep"
                   /\ UNCHANGED <<passVars, body, blocks>>
PlacePhis == /\ phase = "place"
             /\ blocks' = WithPhis(blocks, FrontiersOf(blocks, idom))
             /\ phase' = "rename"
             /\ UNCHANGED <<passVars, body, idom>>
RenameNames == /\ phase = "rename"
               /\ blocks' = Renamed(blocks, idom)
               /\ phase' = "ssa"
               /\ UNCHANGED <<passVars, body, idom>>

Next == LowerMir \/ StartSsa \/ SweepDominators \/ PlacePhis \/ RenameNames \/ Round \/ EndRounds \/ RemoveUnused
Spec == Init /\ [][Next]_vars

(***************************************************************************)
(* Properties.                                                             *)
(***************************************************************************)
CompileTypeOK == rounds \in 0..MaxRounds /\ changed \in BOOLEAN
                 /\ phase \in {"fold", "eliminate", "emit", "mir", "sweep", "place", "rename", "ssa"}
                 /\ body.k = "block"

Ll(b, env) == LlvmOutcome(b, "native", env, Fuel)
Wa(b, env) == LlvmOutcome(b, "wasm", env, Fuel)
X86(b, env) == X64Outcome(b, env, Fuel)
Ended(o) == o[2] # "fuel"
Compiled == phase \in {"fold", "eliminate", "emit"}

(* No pass changes what the function does: calls made, how it ends, what   *)
(* it returns and leaves in globals (hirOpt.h: the tree is rewritten in    *)
(* place for all back ends).                                               *)
MeaningKept == [][body' # body => \A env \in Envs :
  LET o == Ll(source, env) IN Ended(o) => Ll(body', env) = o]_vars

(* The back ends give the function the same behaviour, whatever pass it    *)
(* has been through: so do the two ways of LLVM to throw, by the chain of  *)
(* handlers of the runtime and by a flag tested after every call (wasm).   *)
BackEndsAgree == [][Compiled => \A env \in Envs :
  LET o == Ll(body, env)
  IN  \A p \in {X86(body, env), Wa(body, env)} : Ended(o) /\ Ended(p) => o = p]_vars

(* The left operand of an operator is what it was when the right one has   *)
(* run, wherever it waited (the note on r10Live_ in genHirBinary).         *)
LeftKept == [][Compiled => \A env \in Envs, e \in {x \in Exprs(body) : x.k = "bin"} :
  LET m == X64Machine(env)  o == Operands(e, m, FALSE)
  IN  e.op \notin Logical /\ Running(o.m) => o.a = X(e.l, m, FALSE).v]_vars

(* A function that returns or throws leaves no handler and no lock behind. *)
Balanced == [][Compiled => \A env \in Envs :
  \A o \in {Ll(body, env), Wa(body, env), X86(body, env)} :
    o[2] \in {"ret", "throw"} => o[6] = 0 /\ o[7] = 0]_vars

(* No code runs into a place it should not: a block left without a         *)
(* terminator, an unchecked index, an address lost from its register.      *)
NoWildRun == \A env \in Envs :
  Ll(body, env)[2] # "wild" /\ Wa(body, env)[2] # "wild" /\ X86(body, env)[2] # "wild"

(* Removing unused locals leaves no name without its declaration.          *)
MentionedIn(b) == UNION {Mentions(e) : e \in Exprs(b)}
NamesDeclared == MentionedIn(body) \cap DeclaredIn(source) \subseteq DeclaredIn(body)

(* When folding stops early, no constant condition is left to remove.      *)
FixedPoint == (phase # "fold" /\ rounds < MaxRounds) => SimplifyList(body.ss) = [ss |-> body.ss, ch |-> FALSE]

(* What the passes leave is whole: typed, folded, declared, without a way  *)
(* into the wild.                                                          *)
BodyWhole == [][Compiled => CompileTypeOK /\ NoWildRun /\ NamesDeclared /\ FixedPoint]_vars

(***************************************************************************)
(* The three-address form has quirks of its own: an operand is a name,     *)
(* read when the operator is (late); and, or leave their result unset when *)
(* the left side decides (logic); ++ and -- come out as ~ (step); types    *)
(* are lost (typed), and with them the comparator of a struct (derived).   *)
(* Renaming knows no definition of a parameter (param). *)
(***************************************************************************)
MirQuirksOf(b) ==
  LET es == Exprs(b)
      late(e) == e.k = "bin" /\ e.l.k \in {"var", "asg"} /\ Mentions(e.l) \cap Writes(e.r) # {}
  IN  {"late" : e \in {x \in es : late(x)}}
      \cup {"logic" : e \in {x \in es : x.k = "bin" /\ x.op \in Logical}}
      \cup {"derived" : e \in {x \in es : x.k = "bin" /\ x.op = DerivedEq}}
      \cup {"step" : e \in {x \in es : x.k = "un" /\ x.op \in IncDec}}
      \cup {"typed" : e \in {x \in es : "t" \in DOMAIN x /\ x.t \notin {"int", "bool", "tuple"}}}
ParamQuirk(bs) == \E n \in StoredNames(bs) : n[1] \in {"x", "y"} /\ ~PhiWorth(bs, n)
Mi(bs, env) == MirOutcome(bs, env, Fuel)
Known(o) == Ended(o) /\ o[2] # "opaque"

(* The blocks do what the tree they were made of does.                     *)
MirMeans(bs) == MirQuirksOf(body) \subseteq Quirks =>
  \A env \in Envs : LET o == Mi(bs, env)  p == Ll(body, env)
                     IN  Known(o) /\ Ended(p) => o = p

(* So do the renamed ones: every use sees the version that reaches it, and *)
(* the arguments of a phi are in the order of its block's predecessors.    *)
SsaMeans(bs) == (ParamQuirk(Lowered(body)) => "param" \in Quirks) =>
  \A env \in Envs : LET o == Mi(Lowered(body), env) IN Ended(o) => Mi(bs, env) = o

(* Nothing is defined twice.                                               *)
Defs(bs) == UNION {{<<k, j>> : j \in {i \in DOMAIN bs[k].is : bs[k].is[i].op \notin
              {"ret", "br", "cbr", "opaque"}}} : k \in DOMAIN bs}
Defined(i) == IF i.op = "store" THEN i.a ELSE i.d.n
SingleDefs(bs) ==
  \A p, q \in {d \in Defs(bs) : d[1] \in Reachable(bs)} :
    Defined(bs[p[1]].is[p[2]]) = Defined(bs[q[1]].is[q[2]]) => p = q

(* A block dominates another when no way from the entry avoids it: that,   *)
(* and no more, is in the tree once the sweeps change nothing.             *)
RECURSIVE TreeAbove(_, _)
TreeAbove(d, k) == {k} \cup IF d[k] \in {0, k} THEN {} ELSE TreeAbove(d, d[k])
Avoiding(bs, k) == IF k = 1 THEN {} ELSE ReachFrom(bs, {1}, {1, k}) \ {k}
DominatorsExact ==
  \A k \in Reachable(blocks) :
    TreeAbove(idom, k) = {d \in Reachable(blocks) : k \notin Avoiding(blocks, d)}

(* The dump is of the function: its blocks mean what the tree does, its    *)
(* renaming changes nothing and is an assignment once.                     *)
MirFaithful ==
  [][/\ (phase' = "mir" => MirMeans(blocks'))
     /\ (phase = "place" => DominatorsExact)
     /\ (phase' = "ssa" => SsaMeans(blocks') /\ SingleDefs(blocks'))]_vars
=============================================================================
