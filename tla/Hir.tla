-------------------------------- MODULE Hir --------------------------------
(***************************************************************************)
(* The typed tree between semantic analysis and the back ends (hir/hir.h): *)
(* expressions and statements as records, the machine word, and what the   *)
(* operators of the language compute on it.  The word has W bits here, 64  *)
(* in the code; a policy (wrap, checked, saturate) applies to narrow types *)
(* only, of N bits.  Strings, floats, objects and tuples are left out: the *)
(* models that use this module speak of control and of integer data.       *)
(***************************************************************************)
EXTENDS Integers, Sequences, FiniteSets, Bitwise

CONSTANTS W,      \* bits of a word
          N,      \* bits of a narrow type
          Junk    \* what a register holds after a call, and a name never set

ASSUME WordAssumption == W \in Nat /\ N \in 1..(W - 1)

Word == 2 ^ W
Wrap(n) == ((n + Word \div 2) % Word) - Word \div 2     \* to two's complement
Uns(n) == n % Word                                      \* the bits as unsigned
MinInt == -(Word \div 2)

(***************************************************************************)
(* Types.  "int" and "uint" fill a word; the others are narrow, with the   *)
(* overflow policy in their name.                                          *)
(***************************************************************************)
Unsigned(t) == t \in {"uint", "usat", "uwrap"}
PolicyOf(t) == CASE t \in {"wrap", "uwrap"} -> "wrap"
                 [] t = "check" -> "checked"
                 [] t \in {"sat", "usat"} -> "saturate"
                 [] OTHER -> "default"
MinOf(t) == IF Unsigned(t) THEN 0 ELSE -(2 ^ (N - 1))
MaxOf(t) == IF Unsigned(t) THEN 2 ^ N - 1 ELSE 2 ^ (N - 1) - 1
ToNarrow(n, t) == IF Unsigned(t) THEN n % 2 ^ N
                  ELSE ((n + 2 ^ (N - 1)) % 2 ^ N) - 2 ^ (N - 1)

NoExpr == [k |-> "none"]
Lit(v) == [k |-> "lit", v |-> v, u |-> FALSE, t |-> "int"]
ULit(v) == [k |-> "lit", v |-> v, u |-> TRUE, t |-> "uint"]
BoolLit(b) == [k |-> "bool", v |-> IF b THEN 1 ELSE 0, t |-> "bool"]
Var(n, t) == [k |-> "var", n |-> n, t |-> t]
Bin(op, l, r, t) == [k |-> "bin", op |-> op, l |-> l, r |-> r, t |-> t]
Un(op, e) == [k |-> "un", op |-> op, e |-> e, t |-> IF op = "not" THEN "bool" ELSE e.t]
Asg(op, x, e) == [k |-> "asg", op |-> op, x |-> x, e |-> e, t |-> x.t]
Call(f, e) == [k |-> "call", f |-> f, e |-> e, t |-> "int"]
Cast(e, t) == [k |-> "cast", e |-> e, t |-> t]
Index(a, e) == [k |-> "index", a |-> a, e |-> e, t |-> "int"]
Self(l, r) == [k |-> "self", l |-> l, r |-> r, t |-> "int"]   \* tail call with parameters x, y
Tuple(l, r) == [k |-> "tuple", l |-> l, r |-> r, t |-> "tuple"]

NoStmt == [k |-> "gone"]
Block(ss) == [k |-> "block", ss |-> ss]
Decl(n, t, e) == [k |-> "decl", n |-> n, t |-> t, e |-> e]
Ex(e) == [k |-> "expr", e |-> e]
Return(e) == [k |-> "return", e |-> e]
If(c, a, b) == [k |-> "if", c |-> c, a |-> a, b |-> b]    \* b: a block, an if, or none
While(c, b) == [k |-> "while", c |-> c, b |-> b]
DoWhile(c, b) == [k |-> "dowhile", c |-> c, b |-> b]
For(i, c, s, b) == [k |-> "for", i |-> i, c |-> c, s |-> s, b |-> b]
Break == [k |-> "break"]
Continue == [k |-> "continue"]
Panic == [k |-> "panic"]
AssertThat(c) == [k |-> "assert", c |-> c]
Throw(e) == [k |-> "throw", e |-> e]
Try(b, n, h) == [k |-> "try", b |-> b, n |-> n, h |-> h]    \* catch (n) h
Lock(b) == [k |-> "lock", b |-> b]                          \* of one object

IncDec == {"preinc", "predec", "postinc", "postdec"}
Comparisons == {"eq", "ne", "lt", "gt", "le", "ge"}
DerivedEq == "deq"                \* == on structs: a call of the generated comparator
Logical == {"and", "or"}
Arith == {"add", "sub", "mul", "div", "mod"}

Bool(b) == IF b THEN 1 ELSE 0
TDiv(a, b) == LET q == (IF a < 0 THEN -a ELSE a) \div (IF b < 0 THEN -b ELSE b)
              IN  IF (a < 0) # (b < 0) THEN -q ELSE q
TMod(a, b) == a - b * TDiv(a, b)

Compare(op, a, b, u) ==
  LET x == IF u THEN Uns(a) ELSE a  y == IF u THEN Uns(b) ELSE b
  IN  CASE op = "eq" -> x = y [] op = "ne" -> x # y [] op = "lt" -> x < y
        [] op = "gt" -> x > y [] op = "le" -> x <= y [] op = "ge" -> x >= y

(* Division by zero, and the smallest integer by -1, trap. *)
Traps(op, a, b, u) ==
  /\ op \in {"div", "mod"}
  /\ b = 0 \/ (~u /\ a = MinInt /\ b = -1)

Compute(op, a, b, u) ==
  CASE op = "add" -> Wrap(a + b)
    [] op = "sub" -> Wrap(a - b)
    [] op = "mul" -> Wrap(a * b)
    [] op = "div" -> IF u THEN Wrap(Uns(a) \div Uns(b)) ELSE TDiv(a, b)
    [] op = "mod" -> IF u THEN Wrap(Uns(a) % Uns(b)) ELSE TMod(a, b)
    [] op = "band" -> Wrap(Uns(a) & Uns(b))
    [] op = "bor" -> Wrap(Uns(a) | Uns(b))
    [] op = "bxor" -> Wrap(Uns(a) ^^ Uns(b))
    [] op = "shl" -> Wrap(Uns(a) * 2 ^ (b % W))
    [] op = "shr" -> IF u THEN Wrap(Uns(a) \div 2 ^ (b % W)) ELSE a \div 2 ^ (b % W)

(* External functions: f adds one to the global g and returns its argument, *)
(* h only returns its argument plus one, k throws an argument above zero.   *)
CallResult(f, v) == IF f = "h" THEN Wrap(v + 1) ELSE v
CallCounts(f) == f = "f"
CallThrows(f, v) == f = "k" /\ v > 0
=============================================================================
