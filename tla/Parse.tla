-------------------------------- MODULE Parse --------------------------------
(***************************************************************************)
(* The parser (frontend/parser.cpp): recursive descent over the tokens of  *)
(* a file, with the places where it looks ahead, tries one reading and     *)
(* goes back, or splits a ">>" in the token list.  A token is a string; a  *)
(* tree is a tuple, its first member its kind.  Lines, columns and the     *)
(* limit of nesting (256) are left out.                                    *)
(***************************************************************************)
EXTENDS SequencesExt, Integers

CONSTANTS Names,                     \* the identifiers that mean nothing to the parser
          Ints, Strings, Chars,      \* the literals
          ValueOf                    \* the value of an integer or character

Contextual == {"list", "map", "Option", "Result", "func", "batch", "deterministic", "require", "ensure", "use", "get", "set", "supports", "on", "_"}
Ids == Names \cup Contextual

Numeric == {"int", "float", "double", "u8", "u16", "u32", "u64"}
LambdaPrims == (Numeric \cup {"bool", "char", "string", "void"})
Prims == LambdaPrims \cup {"ptr"}
Syncs == {"mutex", "semaphore", "event", "barrier"}
TypeWords == Prims \cup Syncs \cup {"task", "channel"}
Literals == Ints \cup Strings \cup Chars \cup {"true", "false", "null"}
Policies == {"stack", "heap", "arena", "pool", "shared", "threadlocal"}
Keywords == TypeWords \cup Policies \cup {"this", "new", "base", "class", "in", "out", "ref", "import", "enum"}

(***************************************************************************)
(* The state: the tokens k, the position p, the last tree t; tp holds the  *)
(* type parameters in scope, ct that "compiletime" waits for a function.   *)
(***************************************************************************)
Begin(tokens) == [k |-> Append(tokens, "eof"), p |-> 1, t |-> <<>>, ok |-> TRUE, tp |-> <<>>, ct |-> FALSE]
At(s, i) == IF s.p + i \in DOMAIN s.k THEN s.k[s.p + i] ELSE "eof"
Cur(s) == At(s, 0)
Peek(s) == At(s, 1)
Skip(s, n) == [s EXCEPT !.p = @ + n]
Tree(s, t) == [s EXCEPT !.t = t]
Reject(s) == [s EXCEPT !.ok = FALSE]
Back(s, old) == [s EXCEPT !.p = old.p]                \* the tokens stay as they are now
Expect(s, x) == IF ~s.ok THEN s ELSE IF Cur(s) = x THEN Skip(s, 1) ELSE Reject(s)
Take(s) == Tree(Skip(s, 1), Cur(s))
TakeIf(s, c) == IF ~s.ok THEN s ELSE IF c THEN Take(s) ELSE Reject(s)
SplitShr(s) == [s EXCEPT !.k = SubSeq(@, 1, s.p - 1) \o <<">", ">">> \o SubSeq(@, s.p + 1, Len(@)), !.p = @ + 1]
CloseGeneric(s) == IF s.ok /\ Cur(s) = ">>" THEN SplitShr(s) ELSE Expect(s, ">")
AtIdentAt(s, i) == At(s, i) \in Ids \cup {"pool"} \/ (At(s, i) = "base" /\ At(s, i + 1) # ".")
AtIdent(s) == AtIdentAt(s, 0)

(***************************************************************************)
(* Looking ahead.                                                          *)
(***************************************************************************)
RECURSIVE Dots(_, _), ClosesAt(_, _), GenericDecl(_, _, _), CallEnd(_, _, _), AngleEnd(_, _, _), ParamsEnd(_, _)
Dots(s, i) == IF At(s, i) \notin Ids THEN i ELSE IF At(s, i + 1) = "." THEN Dots(s, i + 2) ELSE i + 1
ClosesAt(s, i) == IF At(s, i) \in {"]", "eof"} THEN i ELSE ClosesAt(s, i + 1)
NamesArray(s, i) == At(s, ClosesAt(s, i) + 1) \in Ids
TypeStart(s) ==
  \/ Cur(s) \in TypeWords
  \/ /\ Cur(s) \in Ids
     /\ \/ AtIdentAt(s, 1) \/ Peek(s) = "<"
        \/ Peek(s) = "." /\ LET i == Dots(s, 2) IN At(s, i) \in Ids \/ (At(s, i) = "[" /\ NamesArray(s, i + 1))
        \/ Peek(s) = "[" /\ NamesArray(s, 2)

GenericDecl(s, i, depth) ==           \* identGenericDeclAhead
  CASE At(s, i) = "<" -> GenericDecl(s, i + 1, depth + 1)
    [] At(s, i) = ">" -> IF depth = 1 THEN At(s, i + 1) \in Ids ELSE GenericDecl(s, i + 1, depth - 1)
    [] At(s, i) = ">>" -> IF depth <= 2 THEN depth = 2 /\ At(s, i + 1) \in Ids ELSE GenericDecl(s, i + 1, depth - 2)
    [] At(s, i) \in Ids \cup Ints \cup (TypeWords \ {"double", "void"}) \cup {",", ".", "const"} -> GenericDecl(s, i + 1, depth)
    [] OTHER -> FALSE

(* The ">" that closes may be anywhere in the rest of the file.            *)
CallEnd(s, i, depth) ==
  CASE At(s, i) = "eof" -> i
    [] At(s, i) = "<" -> CallEnd(s, i + 1, depth + 1)
    [] At(s, i) = ">" -> IF depth = 1 THEN i + 1 ELSE CallEnd(s, i + 1, depth - 1)
    [] At(s, i) = ">>" -> IF depth <= 2 THEN i + 1 ELSE CallEnd(s, i + 1, depth - 2)
    [] OTHER -> CallEnd(s, i + 1, depth)
GenericCall(s) == At(s, CallEnd(s, 1, 1)) = "("

AngleEnd(s, i, depth) ==
  CASE At(s, i) = "eof" -> i
    [] At(s, i) = "<" -> AngleEnd(s, i + 1, depth + 1)
    [] At(s, i) = ">" -> IF depth = 1 THEN i + 1 ELSE AngleEnd(s, i + 1, depth - 1)
    [] At(s, i) = ">>" -> IF depth <= 2 THEN i + 1 ELSE AngleEnd(s, i + 1, depth - 2)
    [] OTHER -> AngleEnd(s, i + 1, depth)
ParamsEnd(s, i) ==                    \* after "[type] name, ...", 0 when it is not that
  LET j == CASE At(s, i) \in LambdaPrims -> i + 1
             [] At(s, i) \in Ids /\ At(s, i + 1) = "<" -> AngleEnd(s, i + 1, 0)
             [] At(s, i) \in Ids /\ At(s, i + 1) \in Ids -> i + 1
             [] OTHER -> i
  IN  IF At(s, j) \notin Ids THEN 0 ELSE IF At(s, j + 1) = "," THEN ParamsEnd(s, j + 2) ELSE j + 1
LambdaAhead(s) == LET i == IF Peek(s) = ")" THEN 1 ELSE ParamsEnd(s, 1)
                  IN  i # 0 /\ At(s, i) = ")" /\ At(s, i + 1) = "=>"
PrimaryStart(t) == t \in Ids \cup Literals \cup {"this", "new", "match", "Some", "None", "Ok", "Err", "spawn", "(", "{", "-", "!", "~"}

(***************************************************************************)
(* A production: symbols in a row; the trees of the nonterminals make the  *)
(* tuple.  P parses a nonterminal.                                         *)
(***************************************************************************)
NonTerminals == {"Name", "Ident", "AnyName", "Path", "Int", "Names", "Expr", "Unary", "Args", "Match", "Arms", "Pattern", "Type",
                 "Block", "Stmt", "Init", "Cond", "Step", "Else", "Cases", "Each", "Batch", "Returned", "Constraints"}
RECURSIVE P(_, _), Items(_, _, _), List(_, _, _), While(_, _, _, _), Postfix(_), Binary(_, _)
Items(s, syms, acc) ==
  IF ~s.ok \/ syms = <<>> THEN Tree(s, acc)
  ELSE IF Head(syms) \in NonTerminals
       THEN LET r == P(Head(syms), s) IN Items(r, Tail(syms), Append(acc, r.t))
       ELSE Items(Expect(s, Head(syms)), Tail(syms), acc)
Shape(s, tag, syms) == Items(s, syms, <<tag>>)
Only(s, syms) == LET r == Items(s, syms, <<>>) IN IF r.ok THEN Tree(r, r.t[1]) ELSE r
With(s, t, syms) == Items(s, syms, t)                 \* more members for the tuple t
List(s, nt, acc) ==                                   \* one or more, between commas
  LET r == P(nt, s)
      a == Append(acc, r.t)
  IN  IF r.ok /\ Cur(r) = "," THEN List(Skip(r, 1), nt, a) ELSE Tree(r, a)
While(s, stop, nt, acc) ==                            \* any number, until one of stop
  IF ~s.ok \/ Cur(s) \in stop THEN Tree(s, acc)
  ELSE LET r == P(nt, s) IN While(r, stop, nt, Append(acc, r.t))
RECURSIVE Loose(_, _, _, _)
Loose(s, stop, nt, acc) ==                            \* between commas, one after the last allowed
  IF ~s.ok \/ Cur(s) = stop THEN Tree(s, acc)
  ELSE LET r == P(nt, s)
           a == Append(acc, r.t)
       IN  IF r.ok /\ Cur(r) = "," THEN Loose(Skip(r, 1), stop, nt, a) ELSE Tree(r, a)

(***************************************************************************)
(* Types.                                                                  *)
(***************************************************************************)
RECURSIVE DottedName(_, _, _), Dimensions(_, _)
DottedName(s, nt, acc) == LET r == IF nt = "Name" THEN TakeIf(s, AtIdent(s)) ELSE TakeIf(s, AtIdent(s) \/ Cur(s) \in Keywords)
                              a == Append(acc, r.t)
                          IN  IF r.ok /\ Cur(r) = "." THEN DottedName(Skip(r, 1), nt, a) ELSE Tree(r, a)
Generic(s, tag) == LET r == List(Skip(s, 2), "Type", <<>>) IN CloseGeneric(Tree(r, <<tag, r.t>>))
Arity(n, s) == Len(s.t[2]) = n \/ ~s.ok
GenericN(s, tag, n) == LET r == Generic(s, tag) IN IF Arity(n, r) THEN r ELSE Reject(r)

TupleType(s) ==
  LET Elem(q) == LET r == P("Type", q) IN IF r.ok /\ AtIdent(r) THEN Skip(r, 1) ELSE r
      RECURSIVE Elems(_, _)
      Elems(q, acc) == LET r == Elem(q)
                           a == Append(acc, r.t)
                       IN  IF r.ok /\ Cur(r) = "," THEN Elems(Skip(r, 1), a) ELSE Tree(r, a)
      r == Elems(Skip(s, 1), <<>>)
  IN  Expect(Tree(r, <<"tuple", r.t>>), ")")
Named(s) == LET r == P("Dotted", s)
                v == r.ok /\ Len(r.t) = 1 /\ Contains(s.tp, r.t[1])
            IN  Tree(r, IF v THEN <<"typevar", r.t[1]>> ELSE <<"named", r.t, <<>>>>)
BaseType(s) ==
  CASE Cur(s) \in Prims \cup Syncs -> Tree(Skip(s, 1), <<"prim", Cur(s)>>)
    [] Cur(s) \in {"task", "channel"} -> IF Peek(s) = "<" THEN GenericN(s, Cur(s), 1) ELSE Reject(s)
    [] Cur(s) \in {"list", "Option"} /\ Peek(s) = "<" -> GenericN(s, Cur(s), 1)
    [] Cur(s) \in {"map", "Result"} /\ Peek(s) = "<" -> GenericN(s, Cur(s), 2)
    [] Cur(s) = "func" /\ Peek(s) = "<" -> Generic(s, "func")
    [] AtIdent(s) /\ ~(Peek(s) = "<" /\ Cur(s) \in {"list", "Option", "map", "Result", "func"}) -> Named(s)
    [] OTHER -> Reject(s)
GenericArg(s) == IF Cur(s) \in Ints THEN Tree(Skip(s, 1), <<"value", Cur(s)>>) ELSE P("Type", s)
RECURSIVE GenericArgs(_, _)
GenericArgs(s, acc) == LET r == GenericArg(s)
                           a == Append(acc, r.t)
                       IN  IF r.ok /\ Cur(r) = "," THEN GenericArgs(Skip(r, 1), a) ELSE Tree(r, a)
ClassArgs(s) == IF ~s.ok \/ s.t[1] # "named" \/ Cur(s) # "<" THEN s
                ELSE LET r == GenericArgs(Skip(s, 1), <<>>) IN CloseGeneric(Tree(r, <<"named", s.t[2], r.t>>))
Sized(s) ==                           \* int<32>, int<8, wrap>
  IF ~s.ok \/ Cur(s) # "<" THEN s
  ELSE LET n == TakeIf(Skip(s, 1), Peek(s) \in Ints)
           q == IF n.ok /\ Cur(n) = "," THEN TakeIf(Skip(n, 1), Peek(n) \in {"wrap", "checked", "saturate", "promote"}) ELSE Tree(n, "")
       IN  IF s.t[1] # "prim" \/ s.t[2] \notin Numeric \cup {"char", "bool", "string"} THEN Reject(s)
           ELSE Expect(Tree(q, <<"sized", s.t, n.t, q.t>>), ">")
Dimensions(s, acc) ==
  IF ~s.ok \/ Cur(s) # "[" THEN Tree(s, acc)
  ELSE LET n == TakeIf(Skip(s, 1), Peek(s) \in Ints \/ Contains(s.tp, Peek(s)))
       IN  Dimensions(Expect(n, "]"), Append(acc, n.t))
Arrayed(s) == LET r == Dimensions(s, <<>>)
              IN  IF ~r.ok \/ r.t = <<>> THEN Tree(r, s.t) ELSE Tree(r, FoldRight(LAMBDA n, t : <<"arrayof", t, n>>, r.t, s.t))
Optional(s) == IF s.ok /\ Cur(s) = "?" THEN Tree(Skip(s, 1), <<"Option", <<s.t>>>>) ELSE s
TypeOf(s) == IF Cur(s) = "(" THEN TupleType(s) ELSE Optional(Arrayed(Sized(ClassArgs(BaseType(s)))))

(***************************************************************************)
(* Expressions.                                                            *)
(***************************************************************************)
AssignOps == {"=", "+=", "-=", "*=", "/=", "%="}
Levels == <<{"||"}, {"&&"}, {"|"}, {"^"}, {"&"}, {"==", "!="}, {"<", ">", "<=", ">="}, {"<<", ">>"}, {"+", "-"}, {"*", "/", "%"}>>
PrefixOps == {"-", "!", "~", "++", "--"}
RECURSIVE BinaryRest(_, _), Coalesced(_), CoalesceRest(_), TernaryOf(_), PostfixRest(_)
BinaryRestRight(l, s) ==              \* mutant: the right operand takes the operators of the level
  IF ~s.ok \/ Cur(s) \notin Levels[l] THEN s
  ELSE LET r == Binary(l, Skip(s, 1)) IN Tree(r, <<"bin", Cur(s), s.t, r.t>>)
BinaryRest(l, s) ==
  IF ~s.ok \/ Cur(s) \notin Levels[l] THEN s
  ELSE LET r == Binary(l + 1, Skip(s, 1)) IN BinaryRest(l, Tree(r, <<"bin", Cur(s), s.t, r.t>>))
Binary(l, s) == IF l > Len(Levels) THEN P("Unary", s) ELSE BinaryRest(l, Binary(l + 1, s))
CoalesceRest(s) ==
  IF ~s.ok \/ Cur(s) # "??" THEN s
  ELSE LET r == Coalesced(Skip(s, 1)) IN CoalesceRest(Tree(r, <<"bin", "??", s.t, r.t>>))
Coalesced(s) == IF ~s.ok THEN s ELSE CoalesceRest(Binary(1, s))
TernaryOf(s) ==
  LET c == Coalesced(s)
      a == P("Expr", Skip(c, 1))
      b == TernaryOf(Expect(a, ":"))
  IN  IF ~c.ok \/ Cur(c) # "?" THEN c ELSE Tree(b, <<"tern", c.t, a.t, b.t>>)
AssignOf(s) ==
  LET l == TernaryOf(s)
      r == P("Expr", Skip(l, 1))
  IN  IF ~l.ok \/ Cur(l) \notin AssignOps THEN l ELSE Tree(r, <<"assign", Cur(l), l.t, r.t>>)
UnaryOf(s) ==
  IF ~s.ok THEN s
  ELSE IF Cur(s) \in PrefixOps \cup {"await"} THEN LET r == P("Unary", Skip(s, 1)) IN Tree(r, <<"un", Cur(s), r.t>>)
  ELSE Postfix(s)

(* Arguments: named ones and markers ref, out, in.                         *)
RECURSIVE Unmarked(_)
Unmarked(s) == IF Cur(s) \in {"ref", "out", "in"} THEN Unmarked(Skip(s, 1)) ELSE s
Argument(s, named) ==
  LET n == IF named /\ AtIdent(s) /\ Peek(s) = ":" THEN Cur(s) ELSE ""
      r == P("Expr", Unmarked(IF n = "" THEN s ELSE Skip(s, 2)))
  IN  Tree(r, <<n, r.t>>)
RECURSIVE Arguments(_, _, _)
Arguments(s, named, acc) ==           \* to the ")"
  IF ~s.ok \/ Cur(s) = ")" THEN Expect(Tree(s, acc), ")")
  ELSE LET r == Argument(s, named)
           a == Append(acc, r.t)
       IN  IF r.ok /\ Cur(r) = "," THEN Arguments(Skip(r, 1), named, a) ELSE Expect(Tree(r, a), ")")
CallOrNew(s, e, gargs) ==             \* s is after the "("
  LET new == e[1] = "id" /\ AtIdent(s) /\ Peek(s) = ":"
      r == Arguments(s, new, <<>>)
  IN  Tree(r, IF new THEN <<"new", <<e[2]>>, gargs, r.t>> ELSE <<"call", e, gargs, r.t>>)
CallGeneric(s) ==
  LET g == CloseGeneric(List(Skip(s, 1), "Type", <<>>))
      q == Expect(g, "(")
  IN  IF q.ok THEN CallOrNew(q, s.t, g.t) ELSE q

PostfixRest(s) ==
  CASE ~s.ok -> s
    [] Cur(s) \in {".", "?."} -> PostfixRest(With(Skip(s, 1), <<Cur(s), s.t>>, <<"AnyName">>))
    [] Cur(s) = "<" /\ s.t[1] = "id" -> IF GenericCall(s) THEN PostfixRest(CallGeneric(s)) ELSE s
    [] Cur(s) = "(" -> PostfixRest(CallOrNew(Skip(s, 1), s.t, <<>>))
    [] Cur(s) \in {"[", "?["} -> PostfixRest(With(Skip(s, 1), <<Cur(s), s.t>>, <<"Expr", "]">>))
    [] Cur(s) \in {"++", "--"} -> PostfixRest(Tree(Skip(s, 1), <<"post", Cur(s), s.t>>))
    [] Cur(s) = "?" /\ ~PrimaryStart(Peek(s)) -> PostfixRest(Tree(Skip(s, 1), <<"try", s.t>>))
    [] OTHER -> s

NewExpr(s) ==                         \* after "new"
  LET c == IF Cur(s) = "channel" \/ Cur(s) \in Prims \ {"ptr"} THEN Tree(Skip(s, 1), <<Cur(s)>>) ELSE P("Dotted", s)
      n == TakeIf(Skip(c, 1), Peek(c) \in Ints \/ AtIdentAt(c, 1))
      g == CloseGeneric(List(Skip(c, 1), "Type", <<>>))
      q == Expect(IF Cur(c) = "<" THEN g ELSE Tree(c, <<>>), "(")
      r == IF q.ok THEN Arguments(q, TRUE, <<>>) ELSE q
  IN  IF ~c.ok THEN c
      ELSE IF Cur(c) = "[" THEN Expect(Tree(n, <<"newarray", c.t, n.t>>), "]")
      ELSE Tree(r, <<"new", c.t, q.t, r.t>>)
CellExpr(s) ==                        \* Some, Ok, Err, with or without a value
  IF Peek(s) # "(" THEN Tree(Skip(s, 1), <<"cell", Cur(s), <<>>>>)
  ELSE IF At(s, 2) = ")" THEN Tree(Skip(s, 3), <<"cell", Cur(s), <<>>>>)
  ELSE LET r == Items(Skip(s, 2), <<"Expr", ")">>, <<>>) IN Tree(r, <<"cell", Cur(s), r.t>>)

LambdaParam(s) ==
  LET typed == Cur(s) \in LambdaPrims \/ (AtIdent(s) /\ (Peek(s) \in Ids \/ Peek(s) = "<"))
      ty == IF typed THEN P("Type", s) ELSE Tree(s, <<>>)
      n == P("Name", ty)
  IN  Tree(n, <<ty.t, n.t>>)
RECURSIVE LambdaParams(_, _)
LambdaParams(s, acc) == LET r == LambdaParam(s)
                            a == Append(acc, r.t)
                        IN  IF r.ok /\ Cur(r) = "," THEN LambdaParams(Skip(r, 1), a) ELSE Tree(r, a)
LambdaBody(ps, q) ==                  \* q is after the "=>"
  LET b == IF q.ok /\ Cur(q) = "{" THEN P("Block", q) ELSE P("Expr", q)
  IN  Tree(b, <<"lambda", ps, IF q.ok /\ Cur(q) = "{" THEN b.t ELSE <<"block", <<<<"return", b.t>>>>>>>>)
LambdaTo(ps) == LambdaBody(ps.t, Expect(Expect(ps, ")"), "=>"))
Lambda(s) == LambdaTo(IF Peek(s) = ")" THEN Tree(Skip(s, 1), <<>>) ELSE LambdaParams(Skip(s, 1), <<>>))

Parenthesised(s) ==                   \* a lambda, a cast or an expression
  LET q == Skip(s, 1)
      ty == P("Type", q)
      cast == P("Unary", Expect(ty, ")"))
  IN  IF LambdaAhead(s) THEN P("Lambda", s)
      ELSE IF ~TypeStart(q) THEN Only(q, <<"Expr", ")">>)
      ELSE IF ~ty.ok THEN ty
      ELSE IF Cur(ty) = ")" THEN Tree(cast, <<"cast", ty.t, cast.t>>)
      ELSE Only(Back(ty, q), <<"Expr", ")">>)

BaseExpr(s) == IF Peek(s) # "." THEN Tree(Skip(s, 1), <<"id", "base">>)
               ELSE Shape(Skip(s, 2), "basecall", <<"Name", "(", "Args">>)
NameExpr(s) == Tree(Skip(s, 1), <<"id", Cur(s)>>)
Primary(s) ==
  CASE Cur(s) \in Literals -> Tree(Skip(s, 1), <<"lit", Cur(s)>>)
    [] Cur(s) = "this" -> Tree(Skip(s, 1), <<"this">>)
    [] Cur(s) = "spawn" -> Shape(Skip(s, IF Peek(s) = "task" THEN 2 ELSE 1), "spawn", <<"Block">>)
    [] Cur(s) = "new" -> P("New", Skip(s, 1))
    [] Cur(s) = "{" -> (LET r == Loose(Skip(s, 1), "}", "Expr", <<>>) IN Expect(Tree(r, <<"array", r.t>>), "}"))
    [] Cur(s) = "match" -> P("Match", s)
    [] Cur(s) \in {"Some", "Ok", "Err"} -> CellExpr(s)
    [] Cur(s) = "None" -> Tree(Skip(s, 1), <<"cell", "None", <<>>>>)
    [] Cur(s) \in Ids \cup {"pool"} -> NameExpr(s)
    [] Cur(s) = "(" -> P("Parens", s)
    [] Cur(s) = "base" -> BaseExpr(s)
    [] OTHER -> Reject(s)
Postfix(s) == PostfixRest(Primary(s))

(***************************************************************************)
(* Patterns and the arms of a match.                                       *)
(***************************************************************************)
OptLost(s, set) == Tree(IF s.ok /\ Cur(s) \in set THEN Skip(s, 1) ELSE s, Append(s.t, ""))     \* mutant: consumed, not recorded
Opt(s, set) == IF s.ok /\ Cur(s) \in set THEN Tree(Skip(s, 1), Append(s.t, Cur(s))) ELSE Tree(s, Append(s.t, ""))
Ahead(s, x) == s.ok /\ Cur(s) = x
Closed(r, t, close) == Expect(Tree(r, t), close)
RECURSIVE ListPattern(_, _)
ListPattern(s, acc) ==                \* after "[" or a comma: [a, b, ..rest]
  LET rest(q, a) == With(Skip(q, 1), <<"plist", a>>, <<"Name", "]">>)
      r == P("Pattern", s)
      a == Append(acc, r.t)
  IN  CASE ~s.ok -> s
        [] Cur(s) = "]" -> Tree(Skip(s, 1), <<"plist", acc, "">>)
        [] Cur(s) = ".." -> rest(s, acc)
        [] Ahead(r, "..") -> rest(r, a)
        [] Ahead(r, ",") -> ListPattern(Skip(r, 1), a)
        [] OTHER -> Closed(r, <<"plist", a, "">>, "]")
PatternAtom(s) ==
  LET path == IF AtIdent(s) THEN P("Dotted", s) ELSE Tree(Skip(s, 1), <<Cur(s)>>)
      nt == IF AtIdent(s) /\ AtIdentAt(path, 1) /\ At(path, 2) = ":" THEN "Fields" ELSE "Patterns"
      q == Loose(Skip(path, 1), ")", IF nt = "Fields" THEN "Fields" ELSE "Pattern", <<>>)
  IN  CASE Cur(s) = "[" -> ListPattern(Skip(s, 1), <<>>)
        [] ~AtIdent(s) /\ Cur(s) \notin {"None", "Some", "Ok", "Err"} -> Reject(s)
        [] ~Ahead(path, "(") -> Tree(path, <<"pconst", path.t>>)
        [] OTHER -> Closed(q, <<IF nt = "Fields" THEN "pstruct" ELSE "pvariant", path.t, q.t>>, ")")
PatternOf(s, neg) ==                  \* the sign is dropped before a path
  CASE Cur(s) \in Ints \cup Chars -> Tree(Skip(s, 1), <<"pint", neg, Cur(s)>>)
    [] Cur(s) \in Strings \/ Cur(s) = "_" -> IF neg THEN Reject(s) ELSE Tree(Skip(s, 1), <<"plit", Cur(s)>>)
    [] AtIdent(s) /\ Cur(s) # "_" /\ Peek(s) \notin {".", "("} -> IF neg THEN Reject(s) ELSE Tree(Skip(s, 1), <<"pbind", Cur(s)>>)
    [] Cur(s) = "[" -> IF neg THEN Reject(s) ELSE PatternAtom(s)
    [] OTHER -> PatternAtom(s)
PatternRange(s) ==                    \* any constant may be its first end
  LET q == Skip(s, 1)
      neg == Cur(q) = "-"
      n == IF neg THEN Skip(q, 1) ELSE q
      value(sign, w) == IF sign THEN -ValueOf[w] ELSE ValueOf[w]
      lo == IF s.t[1] = "pint" THEN value(s.t[2], s.t[3]) ELSE 0
  IN  IF ~Ahead(s, "..") \/ s.t[1] \notin {"pint", "pconst"} THEN s
      ELSE IF Cur(n) \notin Ints \cup Chars \/ value(neg, Cur(n)) < lo THEN Reject(n)
      ELSE Tree(Skip(n, 1), <<"prange", lo, value(neg, Cur(n))>>)
Sep(s, set) == IF s.ok /\ Cur(s) \in set THEN Skip(s, 1) ELSE s
ArmBody(name, pat, g) ==
  LET arrow == Ahead(g, "=>")
      b == IF arrow THEN Skip(g, 1) ELSE g
      blk == ~arrow \/ Cur(b) = "{"
      r == IF ~g.ok THEN g ELSE IF blk THEN P("Block", b) ELSE P("Expr", b)
  IN  Sep(Tree(IF blk THEN r ELSE Sep(r, {";", ","}), <<"arm", name, pat, g.t, r.t>>), {","})
ArmGuard(name, pat) == ArmBody(name, pat.t, IF Ahead(pat, "when") THEN P("Expr", Skip(pat, 1)) ELSE Tree(pat, <<>>))
Arm(s) ==
  LET named == AtIdent(s) /\ Peek(s) = "@"
      q == IF named THEN Skip(s, 2) ELSE s
      pattern == IF Cur(q) = "-" THEN P("Negative", Skip(q, 1)) ELSE P("Pattern", q)
  IN  ArmGuard(IF named THEN Cur(s) ELSE "", PatternRange(pattern))

(***************************************************************************)
(* Statements.                                                             *)
(***************************************************************************)
RECURSIVE Attributes(_), AttributeNames(_, _), Declarators(_, _, _, _), CasesOf(_, _, _)
Attributed(s) == Cur(s) = "[" /\ Peek(s) = "["
AttributeNames(s, acc) ==
  LET q == IF Ahead(Skip(s, 1), "(") THEN Expect(Skip(s, IF At(s, 2) = ")" THEN 2 ELSE 3), ")") ELSE Skip(s, 1)
      a == Append(acc, Cur(s))
  IN  CASE ~s.ok \/ Cur(s) \in {"]", "eof"} -> Tree(s, acc)
        [] Ahead(q, ",") -> AttributeNames(Skip(q, 1), a)
        [] OTHER -> Tree(q, a)
Attributes(s) ==                      \* into the tree, which is a set of names
  IF ~s.ok \/ ~Attributed(s) THEN s
  ELSE LET r == AttributeNames(Skip(s, 2), <<>>)
       IN  Attributes(Expect(Expect(Tree(r, s.t \cup {<<"attr", r.t[i]>> : i \in DOMAIN r.t}), "]"), "]"))

Initialised(s, sync) ==               \* (n) of a semaphore or barrier, = e
  IF sync /\ Ahead(s, "(") THEN Items(Skip(s, 1), <<"Int", ")">>, Append(s.t, "("))
  ELSE IF Ahead(s, "=") THEN Items(Skip(s, 1), <<"Expr">>, s.t) ELSE s
Declarators(s, many, sync, acc) ==
  LET r == Initialised(Items(s, <<"Name">>, <<>>), sync)
      a == Append(acc, r.t)
  IN  IF many /\ Ahead(r, ",") THEN Declarators(Skip(r, 1), many, FALSE, a) ELSE Tree(r, a)
Declared(h, ty, many) ==
  LET ds == Declarators(ty, many, ty.t[1] = "prim" /\ ty.t[2] \in Syncs, <<>>)
  IN  IF ty.ok THEN Tree(ds, h.t \o <<ty.t, ds.t>>) ELSE ty
DeclaredType(h, infer) ==
  CASE infer /\ Cur(h) = "var" -> IF h.t[4] = "atomic" THEN Reject(h) ELSE Tree(Skip(h, 1), <<"var">>)
    [] Cur(h) # "var" /\ TypeStart(h) -> P("Type", h)
    [] OTHER -> Reject(h)
AfterQualifiers(h, many, infer) == Declared(h, DeclaredType(h, infer), many)
VarDecl(s, many, infer) ==
  AfterQualifiers(Opt(Opt(Opt(Tree(s, <<"var">>), {"const", "readonly", "volatile"}), Policies), {"atomic"}), many, infer)
Statement(s, nt, syms) == Shape(Skip(s, 1), nt, syms)
ExprStmt(s) == Shape(s, "expr", <<"Expr", ";">>)
PolicyGoesOn(t) == t \in {"var", "atomic"} \cup Ids \cup TypeWords
Destructure(s) == Shape(Skip(s, 2), "destructure", <<"Names", ")", "=", "Expr", ";">>)
DeclStmt(s) == IF Cur(s) = "var" /\ Peek(s) = "(" THEN Destructure(s) ELSE Expect(P("Vars", s), ";")
DeclAhead(s) ==
  /\ TypeStart(s)
  /\ \/ AtIdentAt(s, 1)
     \/ Peek(s) \in {"[", "."}
     \/ Peek(s) = "<" /\ (Cur(s) \in {"list", "map", "Option", "Result", "task", "channel"} \cup Numeric \/ GenericDecl(s, 1, 0))

Init(s) == CASE Cur(s) = ";" -> Tree(s, <<>>)
             [] TypeStart(s) \/ Cur(s) \in {"var", "const"} -> P("Vars", s)
             [] OTHER -> Shape(s, "expr", <<"Expr">>)
CasesOf(s, value, acc) ==             \* the statements after "default:" too
  CASE ~s.ok \/ Cur(s) \in {"}", "eof"} -> Tree(s, acc)
    [] Cur(s) = "case" -> (LET r == Items(Skip(s, 1), <<"Int", ":">>, <<>>) IN IF r.ok THEN CasesOf(r, r.t, Append(acc, <<r.t, <<>>>>)) ELSE r)
    [] Cur(s) = "default" -> CasesOf(Expect(Skip(s, 1), ":"), <<>>, acc)
    [] OTHER -> (LET r == P("Stmt", s)
                     i == IF value = <<>> THEN 1 ELSE Len(acc)
                 IN  IF r.ok THEN CasesOf(r, value, [acc EXCEPT ![i][2] = Append(@, r.t)]) ELSE r)
Each(s) == LET ty == CASE Cur(s) = "var" -> Tree(Skip(s, 1), <<"var">>)
                       [] TypeStart(s) -> P("Type", s)
                       [] AtIdent(s) /\ Peek(s) = "in" -> Tree(s, <<"var">>)
                       [] OTHER -> Reject(s)
           IN  Items(ty, <<"Name", "in", "Expr">>, <<ty.t>>)
Returned(s) ==                        \* a tuple is tried first
  LET ts == List(Skip(s, 1), "Expr", <<>>)
      q == Expect(ts, ")")
  IN  CASE Cur(s) = ";" -> Tree(s, <<>>)
        [] Cur(s) # "(" -> P("Expr", s)
        [] ~q.ok -> q
        [] Len(ts.t) >= 2 -> Tree(q, <<"tuplelit", ts.t>>)
        [] OTHER -> P("Expr", Back(q, s))
StatementOf(s) ==
  LET attrs == Attributes(Tree(s, {}))
      q == P("Stmt", attrs)
      w == Cur(s)
  IN CASE Attributed(s) -> IF q.ok /\ <<"attr", "suppress_deprecation">> \in attrs.t
                           THEN Tree(q, <<"quiet", IF q.t[1] = "block" THEN q.t ELSE <<"block", <<q.t>>>>>>) ELSE q
       [] w = "{" -> P("Block", s)
       [] w = "if" -> Statement(s, "if", <<"(", "Expr", ")", "Stmt", "Else">>)
       [] w = "for" -> Statement(s, "for", <<"(", "Init", ";", "Cond", ";", "Step", ")", "Stmt">>)
       [] w = "while" -> Statement(s, "while", <<"(", "Expr", ")", "Stmt">>)
       [] w = "do" -> Statement(s, "do", <<"Stmt", "while", "(", "Expr", ")", ";">>)
       [] w \in {"break", "continue"} -> Statement(s, w, <<";">>)
       [] w = "return" -> Statement(s, "return", <<"Returned", ";">>)
       [] w = "switch" -> Statement(s, "switch", <<"(", "Expr", ")", "{", "Cases", "}">>)
       [] w = "foreach" -> Statement(s, "foreach", <<"(", "Each", ")", "Stmt">>)
       [] w = "parallel" /\ Peek(s) = "foreach" -> Statement(Skip(s, 1), "pforeach", <<"(", "Each", ")", "Batch", "Stmt">>)
       [] w = "parallel" /\ Peek(s) # "foreach" ->
            (LET d == Opt(Tree(Skip(s, 1), <<"parallel">>), {"deterministic"})
                 r == With(d, d.t, <<"Block">>)
             IN  IF r.ok /\ r.t[3][2] = <<>> THEN Reject(r) ELSE r)
       [] w \in {"const", "readonly", "volatile", "pool"} -> IF PolicyGoesOn(Peek(s)) THEN DeclStmt(s) ELSE ExprStmt(s)
       [] w \in {"var", "atomic"} \cup (Policies \ {"pool"}) -> DeclStmt(s)
       [] w = "match" -> With(s, <<"expr">>, <<"Match">>)
       [] w \in {"panic", "assert"} -> Statement(s, w, <<"(", "Expr", ")", ";">>)
       [] w = "try" -> Statement(s, "trycatch", <<"Block", "catch", "(", "Type", "Ident", ")", "Block">>)
       [] w = "throw" -> Statement(s, "throw", <<"Expr", ";">>)
       [] w = "lock" -> Statement(s, "lock", <<"(", "Expr", ")", "Block">>)
       [] w = "spawn" -> Shape(Skip(s, IF Peek(s) = "task" THEN 2 ELSE 1), "spawnstmt", <<"Block">>)
       [] w \in Ids \cup TypeWords -> IF DeclAhead(s) THEN DeclStmt(s) ELSE ExprStmt(s)
       [] OTHER -> ExprStmt(s)

(***************************************************************************)
(* Functions, classes and the other declarations.                          *)
(***************************************************************************)
Capability == {"+", "-", "*", "/", "%", "==", "!=", "<", ">", "<=", ">="}
RECURSIVE WheresOf(_, _, _), ContractsOf(_, _), BasesOf(_, _), MembersOf(_, _, _), AccessorsOf(_, _), Derived(_)
Constraint(s) ==
  LET q == P("Dotted", s)
      g == CloseGeneric(List(Skip(q, 1), "Constraint", <<>>))
  IN  CASE Cur(s) \in {"class", "struct"} -> Tree(Skip(s, 1), <<Cur(s)>>)
        [] Cur(s) = "new" -> Tree(Expect(Expect(Skip(s, 1), "("), ")"), <<"new", "(", ")">>)
        [] Cur(s) = "supports" -> IF Peek(s) \in Capability THEN Tree(Skip(s, 2), <<"supports", Peek(s)>>) ELSE Reject(s)
        [] OTHER -> IF Ahead(q, "<") THEN Tree(g, <<q.t, g.t>>) ELSE q
TypeParam(s) ==
  LET c == IF Cur(s) = "const" THEN Skip(s, 1) ELSE s
      v == Opt(Opt(Tree(c, <<>>), Numeric), {"out", "in"})
      n == Items(v, <<"Name">>, v.t)
  IN  IF Ahead(n, "where") THEN Items(Expect(Skip(n, 1), ":"), <<"Constraints">>, n.t) ELSE Tree(n, Append(n.t, <<>>))
TypeParams(s) == IF Ahead(s, "<") THEN CloseGeneric(List(Skip(s, 1), "TypeParam", <<>>)) ELSE Tree(s, <<>>)
Scope(params) == [i \in 1..Len(params) |-> params[i][3]]
WheresOf(s, params, acc) ==           \* only a declared parameter can be constrained
  LET r == Items(Skip(s, 1), <<"Name", ":", "Constraints">>, <<>>)
  IN  IF ~Ahead(s, "where") THEN Tree(s, acc)
      ELSE IF r.ok /\ ~Contains(Scope(params), r.t[1]) THEN Reject(r)
      ELSE WheresOf(r, params, Append(acc, r.t))
ContractsOf(s, acc) ==
  LET r == P("Expr", Skip(s, 1))
  IN  IF s.ok /\ Cur(s) \in {"require", "ensure"} THEN ContractsOf(r, Append(acc, <<Cur(s), r.t>>)) ELSE Tree(s, acc)
Param(s) ==
  LET h == Opt(Tree(s, <<>>), {"ref", "out", "in"})
      r == Items(h, <<"Type", "Name">>, h.t)
  IN  IF Ahead(r, "=") THEN Items(Skip(r, 1), <<"Expr">>, r.t) ELSE r
LeaveKept(s, old) == s                \* mutant: the parameters stay in scope
Leave(s, old) == [s EXCEPT !.tp = old.tp]
FunctionBody(s, tps, ps, ws, cs) ==
  LET sig == s.t[4] /\ Ahead(cs, ";")
      b == IF sig THEN IF cs.t = <<>> THEN Tree(Skip(cs, 1), <<>>) ELSE Reject(cs) ELSE P("Block", cs)
      flags == s.t[1] \cup IF s.ct THEN {<<"flag", "compiletime">>} ELSE {}
  IN  IF ~b.ok \/ (Cur(s) = s.t[3] /\ tps # <<>>) THEN Reject(b)
      ELSE Leave(Tree(b, <<"function", flags, s.t[2], Cur(s), tps, ps, ws, cs.t, b.t>>), s)
AfterWheres(s, tps, ps, ws) == FunctionBody(s, tps, ps, ws.t, ContractsOf(ws, <<>>))
AfterParams(s, tps, ps) == AfterWheres(s, tps, ps.t, WheresOf(ps, tps, <<>>))
AfterTypeParams(s, tps) ==
  LET scoped == [tps EXCEPT !.tp = @ \o Scope(tps.t), !.ct = FALSE]
  IN  AfterParams(s, tps.t, Expect(Loose(Expect(scoped, "("), ")", "Param", <<>>), ")"))
Function(s) == AfterTypeParams(s, TypeParams(TakeIf(s, AtIdent(s))))   \* s.t: modifiers, type, owner, may have no body

Access == {"public", "private", "internal", "protected"}
RECURSIVE Flags(_, _)
Flags(s, set) == IF s.ok /\ Cur(s) \in set THEN Flags(Tree(Skip(s, 1), s.t \cup {<<"flag", Cur(s)>>}), set) ELSE s
AccessOf(s) == IF s.ok /\ Cur(s) \in Access THEN Tree(Skip(s, 1), s.t \cup {<<"flag", Cur(s)>>}) ELSE s
AttributesLate(s) == IF \E a \in s.t : a[1] = "attr" THEN s ELSE Attributes(s)
Async(s) == IF Ahead(s, "async") THEN Tree(Skip(s, 1), s.t \cup {<<"flag", "async">>}) ELSE s
Field(s) == Expect(P("Field", s), ";")
AccessorsOf(s, acc) ==
  LET r == P("Block", Skip(s, 1))
  IN  CASE ~s.ok -> s
        [] Cur(s) = "}" -> IF acc = <<>> THEN Reject(s) ELSE Tree(Skip(s, 1), acc)
        [] Cur(s) \in {"get", "set"} -> IF \E i \in DOMAIN acc : acc[i][1] = Cur(s) THEN Reject(s) ELSE AccessorsOf(r, Append(acc, <<Cur(s), r.t>>))
        [] OTHER -> Reject(s)
MemberOf(h, ty, owner, bodyless) ==   \* h is after the modifiers, ty after the type
  LET typed == ty.ok /\ AtIdent(ty)
      ps == AccessorsOf(Skip(ty, 2), <<>>)
      field == LET f == Field(h) IN Tree(f, <<"field", h.t, f.t>>)
  IN  CASE ~h.ok -> h
        [] Cur(h) = "atomic" -> field
        [] Cur(h) # "atomic" /\ TypeStart(h) /\ ~ty.ok -> ty
        [] Cur(h) # "atomic" /\ TypeStart(h) /\ typed ->
             (CASE Peek(ty) = "(" -> P("Function", Tree(ty, <<h.t, ty.t, owner, bodyless>>))
                [] Peek(ty) = "{" -> Tree(ps, <<"property", h.t, ty.t, Cur(ty), ps.t>>)
                [] OTHER -> field)
        [] OTHER -> IF AtIdent(h) /\ Peek(h) = "(" THEN P("Function", Tree(h, <<h.t, <<>>, owner, bodyless>>)) ELSE Reject(h)
Modified(s) == Async(AttributesLate(Flags(AttributesLate(AccessOf(Attributes(Tree(s, {})))), {"static", "inline"})))
AfterModifiers(h, owner, bodyless) == MemberOf(h, P("Type", h), owner, bodyless)
Member(s, owner, bodyless) == AfterModifiers(Modified(s), owner, bodyless)
Payload(s) == IF Ahead(s, "(") THEN Expect(Loose(Skip(s, 1), ")", "Typed", <<>>), ")") ELSE Tree(s, <<>>)
Entry(s) ==
  LET n == TakeIf(s, AtIdent(s))
      ps == Payload(n)
      v == TakeIf(Skip(ps, 1), Peek(ps) \in Ints)
  IN  IF Ahead(ps, "=") THEN Tree(v, <<n.t, ps.t, v.t>>) ELSE Tree(ps, <<n.t, ps.t, "">>)
EnumOf(s) ==                          \* after "enum"
  LET n == TakeIf(s, AtIdent(s))
      b == IF Ahead(n, ":") THEN TakeIf(Skip(n, 1), Peek(n) \in Prims) ELSE Tree(n, "")
      es == Loose(Expect(b, "{"), "}", "Entry", <<>>)
  IN  Closed(es, <<"enum", n.t, b.t, es.t>>, "}")
MembersOf(s, owner, bodyless) ==      \* to the "}", s.t the members so far
  LET r == IF Cur(s) = "enum" THEN EnumOf(Skip(s, 1)) ELSE P("Member", Tree(s, <<owner, bodyless>>))
  IN  IF ~s.ok \/ Cur(s) \in {"}", "eof"} THEN Expect(s, "}")
      ELSE MembersOf(Tree(r, Append(s.t, r.t)), owner, bodyless)
BasesOf(s, acc) ==
  LET n == TakeIf(s, AtIdent(s))
      g == IF Ahead(n, "<") THEN CloseGeneric(List(Skip(n, 1), "Type", <<>>)) ELSE Tree(n, <<>>)
      a == Append(acc, <<n.t, g.t>>)
  IN  IF ~s.ok \/ Cur(s) \in {"{", "eof"} THEN Tree(s, acc) ELSE IF Ahead(g, ",") THEN BasesOf(Skip(g, 1), a) ELSE Tree(g, a)
ClassBody(s, kind, derives, tps, ws, bs) ==                            \* the parameters are in scope from the "{" on
  LET open == [Tree(Expect(bs, "{"), <<>>) EXCEPT !.tp = @ \o Scope(tps)]
      ms == MembersOf(open, Cur(s), kind = "interface")
  IN  IF ~ms.ok THEN ms ELSE Leave(Tree(ms, <<kind, derives, Cur(s), tps, ws, bs.t, ms.t>>), s)
ClassBases(s, kind, derives, tps, ws) ==
  ClassBody(s, kind, derives, tps, ws.t, IF Ahead(ws, ":") THEN BasesOf(Skip(ws, 1), <<>>) ELSE Tree(ws, <<>>))
ClassWheres(s, kind, derives, tps) ==
  ClassBases(s, kind, derives, tps.t, IF tps.t = <<>> THEN tps ELSE WheresOf(tps, tps.t, <<>>))
ClassOf(s, kind, derives) == ClassWheres(s, kind, derives, TypeParams(TakeIf(s, AtIdent(s))))

Derived(s) ==                         \* derive A, B   derive (A, B)   derive A derive B
  LET one == Loose(Skip(s, 2), ")", "Name", <<>>)
      RECURSIVE Open(_, _)
      Open(q, acc) == LET n == TakeIf(q, AtIdent(q))
                          a == Append(acc, n.t)
                      IN  IF ~Ahead(n, ",") THEN Tree(n, a)
                          ELSE IF AtIdentAt(n, 1) THEN Open(Skip(n, 1), a) ELSE Tree(Skip(n, 1), a)
      r == IF Peek(s) = "(" THEN Expect(one, ")") ELSE Open(Skip(s, 1), <<>>)
  IN  IF Ahead(s, "derive") THEN Derived(Tree(r, s.t \o r.t)) ELSE s
Import(s) == LET n == IF Cur(s) \in Strings THEN Take(s) ELSE P("Path", s)
                 a == IF Ahead(n, "as") THEN P("AnyName", Skip(n, 1)) ELSE Tree(n, "")
             IN  Closed(a, <<"import", n.t, a.t>>, ";")
Reexport(s) == LET n == P("Dotted", s)
               IN  IF n.ok /\ Len(n.t) = 1 THEN Reject(n) ELSE Closed(n, <<"use", n.t>>, ";")
Extern(s, mods) ==                    \* extern ["lib"] [type] name(...);
  LET q == IF Cur(s) \in Strings THEN Skip(s, 1) ELSE s
      ty == P("Type", q)
      typed == ty.ok /\ AtIdent(ty) /\ Peek(ty) \in {"(", "<"}
      f == IF TypeStart(q) /\ typed THEN P("Function", Tree(ty, <<mods, ty.t, "", TRUE>>)) ELSE P("Function", Tree(q, <<mods, <<>>, "", TRUE>>))
  IN  IF TypeStart(q) /\ ~ty.ok THEN ty ELSE IF f.ok /\ f.t[9] # <<>> THEN Reject(f) ELSE f
TopFunction(s, mods, force) ==        \* force: what begins with a type is a function
  LET ty == P("Type", s)
      typed == AtIdent(ty) /\ Peek(ty) \in {"(", "<"}
  IN  CASE ~TypeStart(s) -> P("Function", Tree(s, <<mods, <<>>, "", FALSE>>))
        [] ~ty.ok -> ty
        [] OTHER -> IF force \/ typed THEN P("Function", Tree(ty, <<mods, ty.t, "", FALSE>>)) ELSE P("Function", Tree(Back(ty, s), <<mods, <<>>, "", FALSE>>))
GlobalEmpty(s) ==                     \* mutant: a lone ";" is nothing, and stays
  IF Cur(s) = ";" THEN s ELSE Expect(P("Globals", s), ";")
Global(s) == Expect(P("Globals", s), ";")
Bare(s, mods) ==                      \* a function or global variables
  LET ty == P("Type", s)
      fun == P("Function", Tree(ty, <<mods, ty.t, "", FALSE>>))
      named == AtIdent(ty) /\ Peek(ty) \in IF Cur(s) = "(" THEN {"("} ELSE {"(", "<"}
      global(q) == LET g == Global(q) IN Tree(g, <<"global", mods, g.t>>)
  IN  IF Cur(s) = "(" \/ TypeStart(s) THEN IF ~ty.ok THEN ty ELSE IF named THEN fun ELSE global(Back(ty, s))
      ELSE IF AtIdent(s) /\ Peek(s) = "(" THEN P("Function", Tree(s, <<mods, <<>>, "", FALSE>>)) ELSE global(s)
RECURSIVE Compiletime(_), DeclsOf(_, _)
Compiletime(s) == IF Ahead(s, "compiletime") THEN Compiletime([Skip(s, 1) EXCEPT !.ct = TRUE]) ELSE s

Declaration(q, derives, derived) ==   \* derived: "derive" came first
  LET n == Skip(q, 1)
      w == Cur(q)
      f == Flags(IF w = "async" THEN Async(q) ELSE q, {"static", "inline"})
  IN  CASE ~q.ok -> q
        [] w = "use" -> Reexport(n)
        [] w = "specialize" -> Shape(n, "specialize", <<"Type", ";">>)
        [] w = "reflect" -> (LET r == P("Dotted", n) IN Closed(r, <<"reflect", r.t>>, ";"))
        [] w \in {"class", "struct", "actor", "interface"} -> ClassOf(n, w, derives)
        [] w = "enum" -> (LET r == EnumOf(n) IN Tree(r, Append(r.t, derives)))
        [] w \notin {"use", "specialize", "reflect", "class", "struct", "actor", "interface", "enum"} /\ derived -> Reject(q)
        [] w \in {"static", "inline", "async"} -> TopFunction(f, f.t, w # "async")
        [] OTHER -> Bare(q, q.t)
Accessed(a, derives, acc) ==
  CASE ~acc.ok -> acc
    [] Ahead(acc, "extern") -> Extern(Skip(acc, 1), acc.t)
    [] OTHER -> Declaration(AttributesLate(Compiletime(acc)), derives, Cur(a) = "derive")
AfterDerived(a, d) == Accessed(a, d.t, AttributesLate(AccessOf(Tree(d, a.t))))
AfterAttributes(a) ==
  CASE ~a.ok -> a
    [] Cur(a) = "import" -> Import(Skip(a, 1))
    [] Cur(a) = "using" -> Shape(Skip(a, 1), "using", <<"Name", "=", "Type", ";">>)
    [] OTHER -> AfterDerived(a, Derived(Tree(a, <<>>)))
TopLevel(s) == AfterAttributes(Attributes(Tree(s, {})))
DeclsOf(s, acc) == LET r == P("TopLevel", s)
                   IN  IF ~s.ok \/ Cur(s) \in {"}", "eof"} THEN Tree(s, acc) ELSE DeclsOf(r, Append(acc, r.t))
Module(s) ==                          \* after "module"
  LET n == P("Path", s)
      ds == IF Ahead(n, "depends") THEN List(Expect(Skip(n, 1), "on"), "Path", <<>>) ELSE Tree(n, <<>>)
      b == DeclsOf(Expect(ds, "{"), <<>>)
  IN  IF Ahead(ds, ";") THEN Tree(Skip(ds, 1), <<"module", n.t, ds.t, <<>>>>) ELSE Closed(b, <<"module", n.t, ds.t, b.t>>, "}")
Parsed(s) == P(IF Cur(s) = "module" THEN "Module" ELSE "TopLevel", s)

If(c, s, nt) == IF c THEN P(nt, s) ELSE Tree(s, <<>>)
P(nt, s) ==
  CASE ~s.ok -> s
    [] nt = "Name" -> TakeIf(s, AtIdent(s))
    [] nt = "Ident" -> TakeIf(s, Cur(s) \in Ids)
    [] nt = "AnyName" -> TakeIf(s, AtIdent(s) \/ Cur(s) \in Keywords)
    [] nt = "Dotted" -> DottedName(s, "Name", <<>>)
    [] nt = "Path" -> DottedName(s, "AnyName", <<>>)
    [] nt = "Int" -> TakeIf(s, Cur(s) \in Ints)
    [] nt = "Names" -> List(s, "Name", <<>>)
    [] nt = "Expr" -> AssignOf(s)
    [] nt = "Unary" -> UnaryOf(s)
    [] nt = "New" -> NewExpr(s)
    [] nt = "Lambda" -> Lambda(s)
    [] nt = "Parens" -> Parenthesised(s)
    [] nt = "Args" -> Arguments(s, FALSE, <<>>)
    [] nt = "Match" -> Shape(Skip(s, 1), "match", <<"(", "Expr", ")", "{", "Arms">>)
    [] nt = "Arms" -> (LET r == While(s, {"}", "eof"}, "Arm", <<>>) IN Expect(r, "}"))
    [] nt = "Arm" -> Arm(s)
    [] nt = "Pattern" -> PatternOf(s, FALSE)
    [] nt = "Negative" -> PatternOf(s, TRUE)
    [] nt = "Fields" -> Items(s, <<"Name", ":", "Pattern">>, <<>>)
    [] nt = "Type" -> TypeOf(s)
    [] nt = "Typed" -> Items(s, <<"Type", "Name">>, <<>>)
    [] nt = "Block" -> (LET r == While(Expect(s, "{"), {"}", "eof"}, "Stmt", <<>>) IN Closed(r, <<"block", r.t>>, "}"))
    [] nt = "Stmt" -> StatementOf(s)
    [] nt = "Init" -> Init(s)
    [] nt = "Field" -> VarDecl(s, FALSE, TRUE)
    [] nt = "Vars" -> VarDecl(s, TRUE, TRUE)
    [] nt = "Globals" -> VarDecl(s, TRUE, FALSE)
    [] nt = "Cond" -> If(Cur(s) # ";", s, "Expr")
    [] nt = "Step" -> If(Cur(s) # ")", s, "Expr")
    [] nt = "Else" -> If(Cur(s) = "else", IF Cur(s) = "else" THEN Skip(s, 1) ELSE s, "Stmt")
    [] nt = "Cases" -> CasesOf(s, <<>>, <<<<"default", <<>>>>>>)
    [] nt = "Each" -> Each(s)
    [] nt = "Batch" -> (LET r == Items(Skip(s, 1), <<":", "Int">>, <<>>) IN IF Cur(s) # "batch" THEN Tree(s, <<>>) ELSE IF r.ok /\ ValueOf[r.t[1]] < 1 THEN Reject(r) ELSE r)
    [] nt = "Returned" -> Returned(s)
    [] nt = "TypeParam" -> TypeParam(s)
    [] nt = "Constraint" -> Constraint(s)
    [] nt = "Constraints" -> List(s, "Constraint", <<>>)
    [] nt = "Param" -> Param(s)
    [] nt = "Function" -> Function(s)
    [] nt = "Member" -> Member(s, s.t[1], s.t[2])
    [] nt = "Entry" -> Entry(s)
    [] nt = "TopLevel" -> TopLevel(s)
    [] nt = "Module" -> Module(Skip(s, 1))
====
