------------------------------- MODULE MCSugar -------------------------------
(* Functions over parameters x, y, an object o, cells p (Option) and r      *)
(* (Result) and a list l, each of which may be null or empty.               *)
EXTENDS Sugar

x == Var("x", "int")
y == Var("y", "int")
o == Var("o", "ref")
p == Var("p", "opt")
r == Var("r", "res")
l == Var("l", "list")
F(e) == Call("f", e)
Less(a, b) == Bin("lt", a, b, "bool")
Add(a, b) == Bin("add", a, b, "int")

Heap == <<<<3, 2>>, <<5, 0>>, <<1, 4>>, <<0, 0>>, <<0, 7>>, <<1, 8>>, <<4, 5, 6>>, <<>>, <<1, 3>>>>
Env(vx, vy, vo, vp, vr, vl) == [n \in {"x", "y", "o", "p", "r", "l"} |->
  CASE n = "x" -> vx [] n = "y" -> vy [] n = "o" -> vo [] n = "p" -> vp [] n = "r" -> vr [] n = "l" -> vl]
Envs == {Env(1, 2, 1, 3, 5, 7), Env(2, 0, 0, 4, 6, 8), Env(0, 1, 2, 3, 6, 7), Env(3, 3, 0, 4, 5, 7)}

(* The cell at 9 is Some of the cell at 3, itself Some(4).                 *)
Deep == Variant(1, <<Variant(1, <<Bind("z")>>)>>)
IntArms == {<<Arm(Const(1, FALSE), NoExpr, <<>>, F(x)), Arm(Between(2, 3), Less(y, x), <<>>, F(y)),
              Arm(Bind("z"), NoExpr, <<>>, Add(Var("z", "int"), Lit(1)))>>,
            <<Arm(Between(0, 1), NoExpr, <<>>, Lit(4)), Arm(Const(2, FALSE), NoExpr, <<>>, F(y))>>,
            <<[Arm(Between(1, 3), Less(Var("w", "int"), y), <<>>, Var("w", "int")) EXCEPT !.n = "w"],
              Arm(Wildcard, NoExpr, <<>>, F(Lit(2)))>>}
CellArms == {<<Arm(Variant(1, <<Bind("z")>>), Less(x, Var("z", "int")), <<>>, F(Var("z", "int"))),
               Arm(Const(0, TRUE), NoExpr, <<>>, F(x)), Arm(Wildcard, NoExpr, <<>>, Lit(6))>>,
             <<Arm(Variant(1, <<Const(4, FALSE)>>), NoExpr, <<>>, Lit(1)),
               Arm(Variant(0, <<Between(6, 9)>>), NoExpr, <<>>, Lit(2)), Arm(Wildcard, NoExpr, <<>>, Lit(3))>>}
ListArms == {<<Arm(ListOf(<<>>, ""), NoExpr, <<>>, Lit(1)),
               Arm(ListOf(<<Bind("z")>>, "q"), Less(Lit(1), x), <<>>,
                   Coalesce(OptIndex(Var("q", "list"), Lit(0)), Var("z", "int"))),
               Arm(ListOf(<<Const(4, FALSE), Bind("z"), Bind("w")>>, ""), NoExpr, <<>>, Var("w", "int"))>>,
             <<Arm(ListOf(<<>>, "q"), Less(x, Lit(2)), <<>>, Coalesce(OptIndex(Var("q", "list"), x), F(x))),
               Arm(ListOf(<<Between(4, 5)>>, "q"), NoExpr, <<>>, F(y)), Arm(Wildcard, NoExpr, <<>>, Lit(0))>>}
Matches == {Match(x, a) : a \in IntArms} \cup {Match(F(y), a) : a \in IntArms}
           \cup {Match(e, a) : e \in {p, Cell("Ok", x, "res"), r}, a \in CellArms}
           \cup {Match(l, a) : a \in ListArms}
           \cup {Match(o, <<Arm(Struct(<<Const(3, FALSE), Variant(5, <<Bind("z")>>)>>), NoExpr, <<>>, Lit(4)),
                            Arm(Struct(<<Bind("z"), Wildcard>>), NoExpr, <<>>, Var("z", "int"))>>),
                 Match(Cell("Some", p, "opt"), <<Arm(Deep, NoExpr, <<>>, Var("z", "int")),
                            Arm(Variant(1, <<Variant(0, <<>>)>>), NoExpr, <<>>, F(x))>>)}

Some(e) == Cell("Some", e, "opt")
Simple == {Tern(Less(x, y), F(x), y), Tern(F(x), F(y), F(Lit(0))), Coalesce(p, F(y)), Coalesce(r, x),
           Coalesce(Some(F(x)), y), Propagate(p), Propagate(r), Coalesce(OptField(o, 0, "opt"), x),
           Coalesce(OptIndex(l, x), F(y)), Coalesce(OptIndex(l, Bin("sub", x, y, "int")), Lit(9)),
           Coalesce(OptCall(o, "f", x, "opt"), y), Coalesce(OptField(OptField(o, 1, "ref"), 0, "opt"), F(Lit(1)))}
Sugars == Simple \cup Matches
Nested == {Tern(Less(Coalesce(p, x), y), s, F(s)) : s \in Simple} \cup {Coalesce(p, s) : s \in Simple}
          \cup {Coalesce(OptIndex(l, s), F(x)) : s \in Simple} \cup {Coalesce(OptCall(o, "f", s, "opt"), s) : s \in Simple}
          \cup {Match(s, a) : s \in Simple, a \in IntArms}
Wraps(s) == {Item(l, s), Item(NewList(<<s, x>>), Lit(0)), Add(Unwrap(r, "Ok"), y), Bin("or", Is(p, "None"), Less(s, x), "bool"),
             s, F(s), Add(s, F(x)), Add(F(x), s), Add(x, s), Add(Lit(1), s), Add(s, s), Un("neg", s), Asg("set", y, s),
             Asg("add", y, s), Asg("set", Field(o, 0, "int"), s), Asg("add", Field(o, 0, "int"), s),
             Asg("set", Field(OptField(o, 1, "ref"), 0, "int"), Lit(2)),
             Bin("and", Less(x, y), s, "bool"), Bin("and", BoolLit(FALSE), s, "bool"), Bin("or", s, Less(x, F(y)), "bool")}
Returns == {Fn(<<>>, <<>>, "int", <<Return(Field(Coalesce(o, o), 0, "int"))>>)}
           \cup {Fn(<<>>, <<>>, "int", <<Return(e)>>) : e \in UNION {Wraps(s) : s \in Sugars} \cup Nested}
           \cup {Fn(<<>>, <<>>, "opt", <<Decl("t", "int", Propagate(p)), Return(Some(Add(s, Var("t", "int"))))>>) : s \in Simple}
           \cup {Fn(<<>>, <<>>, "res", <<Ex(F(Propagate(r))), Return(Cell("Ok", s, "res"))>>) : s \in Simple}

t == Var("t", "int")
i == Var("i", "int")
Exits == {Break, Continue, Return(x), Ex(F(Lit(3))), Throw(x)}
Case(v, ss) == [v |-> v, ss |-> ss]
Switches == {Switch(e, <<Case(1, <<Ex(F(x)), q>>), Case(2, <<If(Less(y, x), Block(<<q>>), NoStmt), Ex(F(y))>>)>>, d) :
               e \in {x, F(x), Coalesce(p, x)}, q \in Exits, d \in {<<>>, <<Ex(F(Lit(9)))>>, <<Break>>}}
Inside == {Switch(x, <<Case(1, <<While(Less(y, Lit(5)), Block(<<Ex(Asg("add", y, Lit(1))), q>>)), Ex(F(y))>>)>>, <<>>) : q \in Exits}
Each3 == {Foreach("i", l, Block(<<Ex(F(i)), If(Less(i, Lit(5)), Block(<<q>>), NoStmt), Ex(Asg("add", x, s))>>)) :
            q \in Exits \cup {Ex(Add1(l, i))}, s \in {i, Tern(Less(i, y), F(i), x), Propagate(p)}}
Loops == {While(c, Block(<<Ex(Asg("add", x, Lit(1))), b>>)) : c \in {Less(x, Lit(3)), Less(x, Coalesce(p, y))},
            b \in Each3 \cup Switches \cup Inside \cup {If(Less(y, x), Block(<<q>>), NoStmt) : q \in Exits}}
         \cup {DoWhile(c, Block(<<Ex(Asg("add", x, Lit(1))), b>>)) : c \in {Less(x, Lit(3)), Propagate(p)},
            b \in Exits}
         \cup {For(Decl("i", "int", s), Less(i, c), q, Block(<<Ex(F(i)), b>>)) :
            s \in {Lit(1), Tern(Less(x, y), x, y)}, c \in {Lit(3), Tern(Less(x, y), Lit(3), Lit(2))},
            q \in {Un("postinc", i), Asg("add", i, Tern(Less(i, x), Lit(1), Lit(2)))},
            b \in Exits \cup {Ex(Match(i, <<Arm(Const(1, FALSE), NoExpr, <<e>>, NoExpr), Arm(Wildcard, NoExpr, <<Ex(F(x))>>, NoExpr)>>)) : e \in Exits}}
Bodies == {Fn(<<>>, <<>>, "int", <<s, Return(Add(x, y))>>) : s \in Switches \cup Inside \cup Each3 \cup Loops}
          \cup {Fn(<<>>, <<>>, "int", <<Try(Block(<<s>>), "t", Block(<<Ex(F(t))>>)), Lock(Block(<<Ex(Asg("set", y, e))>>)), Return(y)>>) :
                  s \in Switches, e \in {Coalesce(p, x), x}}
          \cup {Fn(<<>>, <<>>, "int", <<Destructure(<<"t", "i">>, Tuple(a, b)), If(c, Block(<<Decl("x", "int", t)>>), Block(<<Ex(F(x))>>)),
                  Return(Add(t, Bin("mul", x, i, "int")))>>) : a \in {x, F(x), Coalesce(p, x)}, b \in {y, Propagate(r)}, c \in {Less(x, y), Coalesce(p, Lit(0))}}
          \cup {Fn(<<>>, <<>>, "int", <<Decl("t", "int", Lit(2)), Block(<<Decl("t", "int", e), Ex(F(t))>>), AssertThat(Less(Lit(0), e)), Return(t)>>) :
                  e \in {x, t, Tern(Less(x, y), t, x), Coalesce(p, x)}}

result == Var("result", "int")
Contracts == {Fn(<<q>>, <<e>>, ty, ss) :
    q \in {Less(Lit(0), x), Less(Lit(0), Coalesce(p, F(x)))},
    e \in {Less(result, Lit(4)), Less(result, Coalesce(p, Lit(3))), Tern(Less(y, Lit(2)), BoolLit(FALSE), BoolLit(TRUE)),
          Tern(Less(result, Lit(2)), BoolLit(FALSE), BoolLit(TRUE))},
    ty \in {"int"}, ss \in {<<If(Less(x, y), Block(<<Return(e2)>>), NoStmt), Return(y)>> : e2 \in {x, F(Lit(5)), Coalesce(p, x), Propagate(r)}}
       \cup {<<Decl("result", "int", x), Return(Add(result, y))>>}}
  \cup {Fn(<<>>, <<e>>, "void", <<If(Less(x, y), Block(<<s>>), NoStmt), Ex(F(x))>>) :
    e \in {Less(x, Lit(3)), Less(x, Coalesce(p, Lit(2)))}, s \in {Return(NoExpr), Ex(F(y)), Panic}}

AllFns == Returns \cup Bodies \cup Contracts
NoQuirks == {}
AnyQuirk == {"hoist", "short", "nullref", "loopcond", "forinit", "switchbreak", "selfinit", "ensure", "tryensure"}
=============================================================================
