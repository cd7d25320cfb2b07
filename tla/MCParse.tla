-------------------------------- MODULE MCParse --------------------------------
(***************************************************************************)
(* The parser over source files: trees put in tokens by the grammar that   *)
(* the language documents, pairs of them in one file, and what one wrong,  *)
(* missing or added token makes of each.  The grammar is the reference the *)
(* parser (Parse) is held against; it sets parentheses where the binding   *)
(* of the operators asks for them and nowhere else.                        *)
(***************************************************************************)
EXTENDS Parse

CONSTANT Odd                          \* readings of the parser that are not the grammar's, allowed in a file

VARIABLES file, meant, s, decls
vars == <<file, meant, s, decls>>

-----------------------------------------------------------------------------
(* The tokens of a tree. *)
Ranks == [op \in UNION {Levels[l] : l \in DOMAIN Levels} |-> 3 + CHOOSE l \in DOMAIN Levels : op \in Levels[l]]
Rank(e) ==                            \* how tightly the expression holds together
  CASE e[1] \in {"assign", "lambda"} -> 1
    [] e[1] = "tern" -> 2
    [] e[1] = "bin" -> IF e[2] = "??" THEN 3 ELSE Ranks[e[2]]
    [] e[1] \in {"un", "cast"} -> 14
    [] e[1] \in {".", "?.", "[", "?[", "call", "post", "try"} -> 15
    [] OTHER -> 16

RECURSIVE Text(_), Joined(_, _), ArrayText(_)
Cat(parts) == FlattenSeq(parts)
Joined(ts, sep) ==
  IF ts = <<>> THEN <<>> ELSE IF Len(ts) = 1 THEN Text(ts[1]) ELSE Text(ts[1]) \o <<sep>> \o Joined(Tail(ts), sep)
All(ts) == Cat([i \in DOMAIN ts |-> Text(ts[i])])
AtLeast(rank, e) == IF Rank(e) < rank THEN <<"(">> \o Text(e) \o <<")">> ELSE Text(e)
Words(ws, sep) == Cat([i \in DOMAIN ws |-> IF i = 1 THEN <<ws[i]>> ELSE <<sep, ws[i]>>])
May(c, text) == IF c THEN text ELSE <<>>
Word(w) == May(w # "", <<w>>)
Tree1(t) == May(t # <<>>, Text(t))
Angle(ts) == May(ts # <<>>, <<"<">> \o Joined(ts, ",") \o <<">">>)
ArgText(as) == <<"(">> \o Cat([i \in DOMAIN as |-> May(i > 1, <<",">>) \o May(as[i][1] # "", <<as[i][1], ":">>) \o Text(as[i][2])]) \o <<")">>
ArrayText(t) == IF t[1] = "arrayof" THEN ArrayText(t[2]) ELSE Text(t)
RECURSIVE Dims(_)
Dims(t) == IF t[1] = "arrayof" THEN <<"[", t[3], "]">> \o Dims(t[2]) ELSE <<>>
LambdaText(ps) == <<"(">> \o Cat([i \in DOMAIN ps |-> May(i > 1, <<",">>) \o Tree1(ps[i][1]) \o <<ps[i][2]>>]) \o <<")", "=>">>
SignedText(neg) == May(neg, <<"-">>)

TypeText(t) ==
  CASE t[1] \in {"prim", "typevar"} -> <<t[2]>>
    [] t[1] = "sized" -> Text(t[2]) \o <<"<", t[3]>> \o May(t[4] # "", <<",", t[4]>>) \o <<">">>
    [] t[1] = "named" -> Words(t[2], ".") \o Angle(t[3])
    [] t[1] = "value" -> <<t[2]>>
    [] t[1] = "tuple" -> <<"(">> \o Joined(t[2], ",") \o <<")">>
    [] t[1] = "arrayof" -> ArrayText(t) \o Dims(t)
    [] t[1] = "Option" -> Text(t[2][1]) \o <<"?">>
    [] OTHER -> <<t[1]>> \o Angle(t[2])
ExprText(e) ==
  CASE e[1] \in {"lit", "id"} -> <<e[2]>>
    [] e[1] = "this" -> <<"this">>
    [] e[1] = "bin" -> IF e[2] = "??" THEN AtLeast(4, e[3]) \o <<"??">> \o AtLeast(3, e[4])
                       ELSE AtLeast(Rank(e), e[3]) \o <<e[2]>> \o AtLeast(Rank(e) + 1, e[4])
    [] e[1] = "tern" -> AtLeast(3, e[2]) \o <<"?">> \o Text(e[3]) \o <<":">> \o AtLeast(2, e[4])
    [] e[1] = "assign" -> AtLeast(2, e[3]) \o <<e[2]>> \o Text(e[4])
    [] e[1] = "un" -> <<e[2]>> \o AtLeast(14, e[3])
    [] e[1] = "cast" -> <<"(">> \o Text(e[2]) \o <<")">> \o AtLeast(14, e[3])
    [] e[1] \in {".", "?."} -> AtLeast(15, e[2]) \o <<e[1], e[3]>>
    [] e[1] \in {"[", "?["} -> AtLeast(15, e[2]) \o <<e[1]>> \o Text(e[3]) \o <<"]">>
    [] e[1] = "post" -> AtLeast(15, e[3]) \o <<e[2]>>
    [] e[1] = "try" -> AtLeast(15, e[2]) \o <<"?">>
    [] e[1] = "call" -> AtLeast(15, e[2]) \o Angle(e[3]) \o ArgText(e[4])
    [] e[1] = "basecall" -> <<"base", ".", e[2]>> \o ArgText(e[3])
    [] e[1] = "new" -> <<"new">> \o Words(e[2], ".") \o Angle(e[3]) \o ArgText(e[4])
    [] e[1] = "newarray" -> <<"new">> \o Words(e[2], ".") \o <<"[", e[3], "]">>
    [] e[1] = "array" -> <<"{">> \o Joined(e[2], ",") \o <<"}">>
    [] e[1] = "tuplelit" -> <<"(">> \o Joined(e[2], ",") \o <<")">>
    [] e[1] = "cell" -> <<e[2]>> \o May(e[3] # <<>>, <<"(">> \o All(e[3]) \o <<")">>)
    [] e[1] = "spawn" -> <<"spawn">> \o Text(e[2])
    [] e[1] = "lambda" -> LambdaText(e[2]) \o (IF Len(e[3][2]) = 1 /\ e[3][2][1][1] = "return" THEN AtLeast(1, e[3][2][1][2]) ELSE Text(e[3]))
PatternText(p) ==
  CASE p[1] = "pint" -> SignedText(p[2]) \o <<p[3]>>
    [] p[1] \in {"plit", "pbind"} -> <<p[2]>>
    [] p[1] = "pconst" -> Words(p[2], ".")
    [] p[1] = "pvariant" -> Words(p[2], ".") \o <<"(">> \o Joined(p[3], ",") \o <<")">>
    [] p[1] = "pstruct" -> Words(p[2], ".") \o <<"(">> \o Cat([i \in DOMAIN p[3] |-> May(i > 1, <<",">>) \o <<p[3][i][1], ":">> \o Text(p[3][i][2])]) \o <<")">>
    [] p[1] = "plist" -> <<"[">> \o Joined(p[2], ",") \o May(p[3] # "", <<"..", p[3]>>) \o <<"]">>
VarText(v) == Word(v[2]) \o Word(v[3]) \o Word(v[4]) \o (IF v[5] = <<"var">> THEN <<"var">> ELSE Text(v[5]))
              \o Cat([i \in DOMAIN v[6] |-> May(i > 1, <<",">>) \o <<v[6][i][1]>> \o
                   May(Len(v[6][i]) > 1, IF Len(v[6][i]) = 3 THEN <<"(", v[6][i][3], ")">> ELSE <<"=">> \o Text(v[6][i][2]))])
EachText(x) == (IF x[1] = <<"var">> THEN <<"var">> ELSE Text(x[1])) \o <<x[2], "in">> \o Text(x[3])
ArmText(a) == May(a[2] # "", <<a[2], "@">>) \o Text(a[3]) \o May(a[4] # <<>>, <<"when">> \o Tree1(a[4])) \o <<"=>">> \o Text(a[5]) \o May(a[5][1] # "block", <<",">>)
StmtText(t) ==
  CASE t[1] = "block" -> <<"{">> \o All(t[2]) \o <<"}">>
    [] t[1] = "expr" -> Text(t[2]) \o May(t[2][1] # "match", <<";">>)
    [] t[1] = "var" -> VarText(t) \o <<";">>
    [] t[1] = "destructure" -> <<"var", "(">> \o Words(t[2], ",") \o <<")", "=">> \o Text(t[3]) \o <<";">>
    [] t[1] = "if" -> <<"if", "(">> \o Text(t[2]) \o <<")">> \o Text(t[3]) \o May(t[4] # <<>>, <<"else">> \o Tree1(t[4]))
    [] t[1] = "for" -> <<"for", "(">> \o May(t[2] # <<>>, IF t[2] # <<>> /\ t[2][1] = "var" THEN VarText(t[2]) ELSE Text(t[2][2])) \o <<";">>
                       \o Tree1(t[3]) \o <<";">> \o Tree1(t[4]) \o <<")">> \o Text(t[5])
    [] t[1] = "while" -> <<"while", "(">> \o Text(t[2]) \o <<")">> \o Text(t[3])
    [] t[1] = "do" -> <<"do">> \o Text(t[2]) \o <<"while", "(">> \o Text(t[3]) \o <<")", ";">>
    [] t[1] \in {"break", "continue"} -> <<t[1], ";">>
    [] t[1] = "return" -> <<"return">> \o Tree1(t[2]) \o <<";">>
    [] t[1] = "switch" -> <<"switch", "(">> \o Text(t[2]) \o <<")", "{", "default", ":">> \o
         Cat([i \in DOMAIN t[3] |-> May(i > 1, <<"case", t[3][i][1][1], ":">>) \o All(t[3][i][2])]) \o <<"}">>
    [] t[1] = "foreach" -> <<"foreach", "(">> \o EachText(t[2]) \o <<")">> \o Text(t[3])
    [] t[1] = "pforeach" -> <<"parallel", "foreach", "(">> \o EachText(t[2]) \o <<")">> \o May(t[3] # <<>>, <<"batch", ":">> \o t[3]) \o Text(t[4])
    [] t[1] = "parallel" -> <<"parallel">> \o Word(t[2]) \o Text(t[3])
    [] t[1] \in {"panic", "assert"} -> <<t[1], "(">> \o Text(t[2]) \o <<")", ";">>
    [] t[1] = "throw" -> <<"throw">> \o Text(t[2]) \o <<";">>
    [] t[1] = "lock" -> <<"lock", "(">> \o Text(t[2]) \o <<")">> \o Text(t[3])
    [] t[1] = "trycatch" -> <<"try">> \o Text(t[2]) \o <<"catch", "(">> \o Text(t[3]) \o <<t[4], ")">> \o Text(t[5])
    [] t[1] = "spawnstmt" -> <<"spawn">> \o Text(t[2])
    [] t[1] = "match" -> <<"match", "(">> \o Text(t[2]) \o <<")", "{">> \o All(t[3]) \o <<"}">>
Flag(flags) == SetToSeq({f[2] : f \in flags})
ParamText(ps) == <<"(">> \o Cat([i \in DOMAIN ps |-> May(i > 1, <<",">>) \o Word(ps[i][1]) \o Text(ps[i][2]) \o <<ps[i][3]>> \o May(Len(ps[i]) > 3, <<"=">> \o All(SubSeq(ps[i], 4, 4)))]) \o <<")">>
ScopeText(ps) == May(ps # <<>>, <<"<">> \o Cat([i \in DOMAIN ps |-> May(i > 1, <<",">>) \o Word(ps[i][1]) \o Word(ps[i][2]) \o <<ps[i][3]>>]) \o <<">">>)
WhereText(ws) == Cat([i \in DOMAIN ws |-> <<"where", ws[i][1], ":">> \o Cat([j \in DOMAIN ws[i][2] |-> May(j > 1, <<",">>) \o (IF ws[i][2][j][1] \in {"new", "supports"} THEN ws[i][2][j] ELSE Words(ws[i][2][j], "."))])])
ContractText(cs) == Cat([i \in DOMAIN cs |-> <<cs[i][1]>> \o Text(cs[i][2])])
DeclText(t) ==
  CASE t[1] = "function" -> Flag(t[2]) \o Tree1(t[3]) \o <<t[4]>> \o ScopeText(t[5]) \o ParamText(t[6]) \o WhereText(t[7]) \o ContractText(t[8]) \o Tree1(t[9])
    [] t[1] = "global" -> VarText(t[3]) \o <<";">>
    [] t[1] = "field" -> Flag(t[2]) \o VarText(t[3]) \o <<";">>
    [] t[1] = "property" -> Flag(t[2]) \o Text(t[3]) \o <<t[4], "{">> \o Cat([i \in DOMAIN t[5] |-> <<t[5][i][1]>> \o Text(t[5][i][2])]) \o <<"}">>
    [] t[1] \in {"class", "struct", "actor", "interface"} -> May(t[2] # <<>>, <<"derive">> \o Words(t[2], ",")) \o <<t[1], t[3]>> \o ScopeText(t[4])
         \o May(t[6] # <<>>, <<":">> \o Cat([i \in DOMAIN t[6] |-> May(i > 1, <<",">>) \o <<t[6][i][1]>> \o Angle(t[6][i][2])])) \o <<"{">> \o All(t[7]) \o <<"}">>
    [] t[1] = "enum" -> <<"enum", t[2]>> \o May(t[3] # "", <<":", t[3]>>) \o <<"{">> \o
         Cat([i \in DOMAIN t[4] |-> May(i > 1, <<",">>) \o <<t[4][i][1]>> \o May(t[4][i][2] # <<>>, ParamText([j \in DOMAIN t[4][i][2] |-> <<"">> \o t[4][i][2][j]])) \o May(t[4][i][3] # "", <<"=", t[4][i][3]>>)]) \o <<"}">>
    [] t[1] = "using" -> <<"using", t[2], "=">> \o Text(t[3]) \o <<";">>

Types == {"prim", "typevar", "sized", "named", "value", "tuple", "arrayof", "list", "map", "Option", "Result", "task", "channel", "func"}
Exprs == {"lit", "id", "this", "bin", "tern", "assign", "un", "cast", ".", "?.", "[", "?[", "post", "try", "call", "basecall", "new", "newarray", "array", "tuplelit", "cell", "spawn", "lambda"}
Patterns == {"pint", "plit", "pbind", "pconst", "pvariant", "pstruct", "plist", "prange"}
Declarations == {"function", "global", "field", "property", "class", "struct", "actor", "interface", "enum", "using"}
Text(t) == CASE t[1] \in Types -> TypeText(t)
             [] t[1] \in Exprs -> ExprText(t)
             [] t[1] \in Patterns -> PatternText(t)
             [] t[1] = "arm" -> ArmText(t)
             [] t[1] \in Declarations -> DeclText(t)
             [] OTHER -> StmtText(t)

-----------------------------------------------------------------------------
(* The files. *)
MCValue == [w \in {"0", "1", "2", "'c'"} |-> CASE w = "0" -> 0 [] w = "1" -> 1 [] w = "2" -> 2 [] OTHER -> 99]

Id(x) == <<"id", x>>
A == Id("a")
B == Id("b")
One == <<"lit", "1">>
Bin(op, l, r) == <<"bin", op, l, r>>
Un(op, e) == <<"un", op, e>>
IntT == <<"prim", "int">>
Cls(n) == <<"named", <<n>>, <<>>>>
Anon(es) == [i \in DOMAIN es |-> <<"", es[i]>>]
Call(f, es) == <<"call", f, <<>>, Anon(es)>>
Block(ss) == <<"block", ss>>
Say(e) == <<"expr", e>>
Var(ty, n, init) == <<"var", "", "", "", ty, <<<<n>> \o init>>>>
Fun(name, ss) == <<"function", {}, <<"prim", "void">>, name, <<>>, <<>>, <<>>, <<>>, Block(ss)>>

Ops == {"||", "&&", "|", "^", "==", "<", "<<", "+", "-", "*", "??"}
Shallow == {Bin(op, A, B) : op \in Ops} \cup {Un("-", A), Un("++", A), Un("await", A)} \cup
  { <<"tern", A, B, One>>, <<"assign", "=", A, B>>, <<"assign", "+=", A, B>>, <<".", A, "b">>, <<"?.", A, "b">>, <<"[", A, B>>, <<"?[", A, One>>,
    <<"post", "++", A>>, Call(A, <<B>>), Call(A, <<>>), <<"cast", IntT, A>>, <<"lambda", <<<<<<>>, "a">>>>, Block(<<<<"return", B>>>>)>> }
Deep == {Bin(op, l, r) : op \in Ops, l \in Shallow, r \in {x \in Shallow : x[1] \in {"bin", "un"}}}
        \cup {<<"tern", c, x, y>> : c \in {A, Bin("??", A, B)}, x \in Shallow \ {Un("++", A), Un("await", A)}, y \in Shallow}
        \cup {Un(op, e) : op \in {"-", "!"}, e \in Shallow} \cup {<<".", e, "b">> : e \in Shallow} \cup {<<"assign", "=", A, e>> : e \in Shallow}
        \cup {<<"cast", IntT, e>> : e \in Shallow} \cup {Call(e, <<A, B>>) : e \in Shallow}
Other == { <<"try", A>>, <<"assign", "=", A, <<"array", <<A, B>>>>>>, <<"cell", "Some", <<A>>>>, <<"cell", "None", <<>>>>, <<"new", <<"T">>, <<>>, Anon(<<A, B>>)>>,
           <<"new", <<"T">>, <<IntT>>, <<<<"a", One>>, <<"b", B>>>>>>, <<"newarray", <<"int">>, "2">>, <<"call", A, <<IntT, Cls("T")>>, Anon(<<B>>)>>,
           <<"assign", "=", A, <<"spawn", Block(<<Say(A)>>)>>>>, <<"lambda", <<<<IntT, "a">>, <<Cls("T"), "b">>>>, Block(<<Say(A), Say(B)>>)>>,
           <<"match", A, <<<<"arm", "", <<"pint", TRUE, "1">>, <<>>, One>>, <<"arm", "a", <<"pvariant", <<"T", "b">>, <<<<"pbind", "a">>, <<"plit", "_">>>>>>, A, B>>>>>>,
           <<"match", A, <<<<"arm", "", <<"plist", <<<<"pbind", "a">>>>, "b">>, <<>>, Block(<<Say(A)>>)>>, <<"arm", "", <<"pstruct", <<"T">>, <<<<"a", <<"pbind", "b">>>>>>>>, <<>>, A>>>>>> }

Statements ==
  { Block(<<Say(A)>>), Var(IntT, "a", <<>>), Var(Cls("T"), "b", <<A>>), Var(<<"var">>, "a", <<One>>),
    Var(<<"named", <<"T">>, <<IntT, <<"named", <<"T">>, <<Cls("T")>>>>>>>>, "a", <<>>), Var(<<"map", <<IntT, <<"list", <<Cls("T")>>>>>>>>, "a", <<A>>),
    Var(<<"arrayof", <<"arrayof", IntT, "2">>, "1">>, "a", <<>>), <<"var", "const", "", "", IntT, <<<<"a", One>>, <<"b", A>>>>>>,
    <<"var", "", "heap", "atomic", IntT, <<<<"a">>>>>>, <<"var", "", "pool", "", Cls("T"), <<<<"a">>>>>>, Say(<<"assign", "=", Id("pool"), One>>),
    <<"var", "", "", "", <<"prim", "semaphore">>, <<<<"a", "(", "2">>>>>>, <<"destructure", <<"a", "b">>, Call(A, <<>>)>>,
    <<"if", A, Say(B), <<>>>>, <<"if", A, Block(<<>>), Say(B)>>, <<"if", A, <<"if", B, <<"break">>, <<"continue">>>>, <<>>>>,
    <<"for", Var(IntT, "a", <<One>>), Bin("<", A, B), <<"post", "++", A>>, Say(B)>>, <<"for", <<>>, <<>>, <<>>, <<"break">>>>,
    <<"for", Say(<<"assign", "=", A, One>>), <<>>, <<>>, Block(<<>>)>>, <<"while", A, <<"continue">>>>, <<"do", Say(A), B>>,
    <<"return", <<>>>>, <<"return", Bin("+", A, B)>>, <<"return", <<"tuplelit", <<A, B>>>>>>,
    <<"switch", A, <<<<"default", <<Say(A)>>>>, <<<<"1">>, <<Say(B), <<"break">>>>>>, <<<<"2">>, <<>>>>>>>>,
    <<"foreach", <<IntT, "a", B>>, Say(A)>>, <<"foreach", <<<<"var">>, "a", B>>, Block(<<>>)>>, <<"pforeach", <<<<"var">>, "a", B>>, <<"2">>, Block(<<Say(A)>>)>>,
    <<"parallel", "deterministic", Block(<<Say(A), Say(B)>>)>>, <<"parallel", "", Block(<<Say(A)>>)>>, <<"panic", A>>, <<"assert", Bin("==", A, B)>>, <<"throw", A>>,
    <<"lock", A, Block(<<Say(B)>>)>>, <<"trycatch", Block(<<Say(A)>>), Cls("T"), "a", Block(<<>>)>>, <<"spawnstmt", Block(<<Say(A)>>)>>,
    Say(Bin("<", A, B)), <<"return", Bin("*", Bin("+", A, B), One)>> }

(* What the grammar says and the parser reads otherwise, by name; Deep     *)
(* leaves out what is like inc (an await after the question mark) and      *)
(* paren (Cast).                                                           *)
Late == Say(Bin(">", A, <<"tern", A, B, One>>))
OddOnes == [ scan |-> Late,            \* a call with type arguments from the last a < b to here
             cast |-> <<"return", <<"cast", IntT, A>>>>, arrow |-> <<"return", <<"lambda", <<>>, Block(<<<<"return", A>>>>)>>>>,
             policy |-> <<"var", "const", "heap", "", IntT, <<<<"a", One>>>>>>, try |-> Say(Bin("-", <<"try", A>>, B)),
             inc |-> Say(<<"tern", A, Un("++", B), One>>), paren |-> Say(Bin("*", Bin("<", A, B), One)) ]
Sentences == Statements \cup {OddOnes[n] : n \in Odd \cap DOMAIN OddOnes}
Cast(w) == \E i \in 1..Len(w) - 2 : w[i] = "(" /\ w[i + 1] \in Ids /\ w[i + 2] = "<"

T == <<"", "", "T", <<>>>>
Method(name, ret, ps) == <<"function", {}, ret, name, <<>>, ps, <<>>, <<>>, Block(<<>>)>>
Whole ==
  { <<"global", {}, Var(IntT, "a", <<One>>)>>, <<"global", {}, <<"var", "const", "", "", Cls("T"), <<<<"a", B>>, <<"b">>>>>>>>,
    <<"function", {<<"flag", "static">>}, Cls("T"), "F", <<>>, <<<<"ref", IntT, "a">>, <<"", IntT, "b", One>>>>, <<>>, <<>>, Block(<<<<"return", A>>>>)>>,
    <<"function", {<<"flag", "async">>}, IntT, "F", <<T, <<"int", "", "N", <<>>>>>>, <<<<"", <<"typevar", "T">>, "a">>>>, <<>>, <<>>, Block(<<Var(<<"typevar", "T">>, "b", <<>>)>>)>>,
    <<"function", {<<"flag", "compiletime">>}, IntT, "F", <<T>>, <<>>, <<<<"T", <<<<"A">>, <<"new", "(", ")">>, <<"supports", "+">>>>>>>>, <<<<"require", A>>, <<"ensure", Bin(">", B, One)>>>>, Block(<<>>)>>,
    <<"function", {}, <<"tuple", <<IntT, Cls("T")>>>>, "F", <<>>, <<>>, <<>>, <<>>, Block(<<<<"return", <<"tuplelit", <<A, B>>>>>>>>)>>,
    <<"class", <<"A", "B">>, "C", <<T>>, <<>>, <<<<"A", <<>>>>, <<"B", <<IntT>>>>>>,
      << <<"field", {}, Var(<<"typevar", "T">>, "a", <<>>)>>, Method("C", <<>>, <<>>), Method("F", IntT, <<<<"", <<"typevar", "T">>, "a">>>>),
         <<"property", {<<"flag", "private">>}, IntT, "b", <<<<"get", Block(<<<<"return", A>>>>)>>, <<"set", Block(<<>>)>>>>>>,
         <<"enum", "E", "", <<<<"A", <<>>, "">>>>>> >>>>,
    <<"interface", <<>>, "C", <<>>, <<>>, <<>>, <<Method("F", IntT, <<>>)>>>>, <<"struct", <<>>, "C", <<>>, <<>>, <<>>, <<<<"field", {}, Var(IntT, "a", <<One>>)>>>>>>,
    <<"enum", "E", "int", <<<<"A", <<>>, "1">>, <<"B", <<<<IntT, "a">>, <<Cls("T"), "b">>>>, "">>>>, <<>>>>, <<"using", "T", <<"list", <<IntT>>>>>> }

Exprs2 == Shallow \cup {e \in Deep : ~Cast(Text(e))} \cup Other
Single == {<<Fun("F", <<Say(e)>>)>> : e \in Exprs2} \cup {<<Fun("F", <<x>>)>> : x \in Sentences \cup {Late}} \cup {<<d>> : d \in Whole}
Pairs == {<<Fun("F", <<x, y>>)>> : x, y \in Sentences} \cup {<<x, y>> : x, y \in Whole}

(* A word with one token replaced, added or taken away; of no function     *)
(* that returns a tuple, since the parser drops the names of its elements, *)
(* which are documentation (parseType).                                    *)
Slips == {"a", "1", "(", ")", "<", ">", "-", "?", ",", ";", "{", "}", "int", "volatile", "pool", "=", "."}
Near(w) == {[w EXCEPT ![i] = x] : i \in DOMAIN w, x \in Slips} \cup {InsertAt(w, i, x) : i \in DOMAIN w, x \in Slips} \cup {RemoveAt(w, i) : i \in DOMAIN w}
Slipped == UNION {Near(All(f)) : f \in {<<Fun("F", <<Say(e)>>)>> : e \in Shallow \cup Other} \cup {<<Fun("F", <<x>>)>> : x \in Statements} \cup {<<d>> : d \in {x \in Whole : x[1] # "function" \/ x[3][1] # "tuple"}}}
Signed(w) == \E i \in 2..Len(w) - 1 : w[i] = "-" /\ w[i - 1] \in {"@", ",", "}"} /\ w[i + 1] \in Ids
Pending == {<<"compiletime">> \o Text(d) : d \in {x \in Whole : x[1] \in {"global", "struct", "using"}}}

Init0(f, w) == /\ meant = f
               /\ file = w
               /\ s = Begin(w)
               /\ decls = <<>>
MCInit == \/ \E f \in Single \cup Pairs : Init0(f, All(f))
          \/ \E w \in Slipped : (Signed(w) => "sign" \in Odd) /\ Init0(<<>>, w)
          \/ "pending" \in Odd /\ \E w \in Pending : Init0(<<>>, w)
(* One turn of the loop of parseProgram.                                   *)
ParseDecl == /\ s.ok /\ Cur(s) # "eof"
             /\ s' = Parsed(s)
             /\ decls' = IF s'.ok THEN Append(decls, s'.t) ELSE decls
             /\ UNCHANGED <<file, meant>>
MCSpec == MCInit /\ [][ParseDecl]_vars

(* What the grammar puts in tokens the parser reads back as it was: the    *)
(* binding of the operators, the look-ahead and the readings tried first   *)
(* do not change with what stands beside or after (parser.cpp).            *)
ParsesBack == meant # <<>> =>
  /\ s'.ok /\ decls' = SubSeq(meant, 1, Len(decls'))
  /\ (Cur(s') = "eof" => Len(decls') = Len(meant))
(* In a file that is accepted with a slip in it, no token that matters is  *)
(* consumed without a trace in the tree.                                   *)
Punctuation == {"(", ")", ",", ";", "default", ":", "new", "var", "=>"}
Matter(w) == SelectSeq(w, LAMBDA x : x \notin Punctuation)
LostNothing == s'.ok /\ Cur(s') = "eof" => Matter(All(decls')) = Matter(file)
(* Nothing of a declaration waits for the next: no type parameter stays in *)
(* scope and no "compiletime" waits for a function.                        *)
NothingPending == s'.ok /\ Cur(s') = "eof" => s'.tp = <<>> /\ ~s'.ct
=============================================================================
