------------------------------ MODULE MCCompile ------------------------------
(* The bodies compiled: expressions of two operators inside each kind of    *)
(* statement, over parameters x and y, locals t and i, a global g, a        *)
(* property p, a fixed array a and a list l.                                *)
EXTENDS Compile

x == Var("x", "int")
y == Var("y", "int")
g == Var("g", "int")
t(ty) == Var("t", ty)
i == Var("i", "int")
p == Var("p", "int")

Atoms == {Lit(0), Lit(2), x, y, g, Call("f", x)}
Ops == {"add", "sub", "div", "mod"}
One == {Bin(op, l, r, "int") : op \in Ops, l \in Atoms, r \in Atoms}
Inner == {Bin("mod", y, Lit(2), "int"), Bin("sub", Lit(3), x, "int"), Bin("div", y, x, "int"),
          Call("f", y), Asg("set", x, Lit(1)), Un("preinc", y), p, Index("a", Lit(1)),
          Index("l", y), Un("neg", Call("h", y)), Asg("add", g, x), Lit(-8),
          Bin("shr", y, Lit(1), "int"), Cast(Call("f", y), "int")}
Two == {Bin(op, l, r, "int") : op \in {"sub", "mod"}, l \in Atoms, r \in Inner}
       \cup {Bin(op, l, r, "int") : op \in {"sub", "div"}, l \in Inner, r \in Atoms}
Three == {Bin("sub", l, Bin("add", m, r, "int"), "int") : l \in Inner, m \in Inner, r \in {x, y}}
Tests == {Bin(op, l, r, "bool") : op \in {"lt", "eq"}, l \in {x, g}, r \in {Lit(2), y, Call("f", y)}}
Conds == Tests \cup {BoolLit(TRUE), BoolLit(FALSE), Bin("lt", Lit(1), Lit(2), "bool"),
                     Un("not", BoolLit(TRUE)), Cast(Lit(2), "bool"), Bin("and", Bin("lt", x, y, "bool"), Bin("lt", g, Lit(2), "bool"), "bool"),
                     Bin("or", Bin("eq", x, y, "bool"), Bin("lt", g, Call("f", y), "bool"), "bool"),
                     Bin(DerivedEq, x, y, "bool"), Bin(DerivedEq, Call("f", x), y, "bool"),
                     Cast(x, "bool"), Bin("and", Bin("lt", x, y, "bool"), Bin("lt", Call("f", y), x, "bool"), "bool"),
                     Un("not", Bin("lt", y, x, "bool"))}

Uint == {Cast(x, "uint"), Var("u", "uint"), ULit(3), ULit(-2)}
Unsigneds == {Block(<<Decl("u", "uint", Cast(y, "uint")), Return(Bin(op, l, r, "uint"))>>) :
                op \in {"add", "div", "mod", "lt", "shr", "band"}, l \in Uint, r \in Uint}
             \cup {Block(<<Decl("u", "uint", Cast(x, "uint")), Return(Asg(op, Var("u", "uint"), r))>>) :
                op \in {"div", "sub"}, r \in Uint}
Returns == {Block(<<Return(e)>>) : e \in One \cup Two \cup Three \cup
              {Index("a", y), Index("l", x), Tuple(Call("f", x), p), Asg("add", p, x),
               Asg("sub", x, Asg("set", x, y)), Asg("add", g, Call("f", x))}}

Policies == {"wrap", "check", "sat", "uwrap", "usat"}
Narrow == {Block(<<Decl("t", ty, Lit(3)), Ex(Asg(op, t(ty), e)), Return(t(ty))>>) :
             ty \in Policies, op \in {"add", "sub", "mul"}, e \in {x, y, Call("f", y), Lit(-2)}}
          \cup {Block(<<Decl("t", ty, x), Return(Bin("add", Un(op, t(ty)), y, "int"))>>) :
             ty \in Policies \cup {"int"}, op \in IncDec \cup {"neg", "bnot"}}

Exits == {Break, Continue, Return(x), Panic, Ex(Asg("add", g, Lit(1)))}
Branches == {Block(<<If(c, Block(<<s>>), IF e THEN Block(<<Ex(Asg("set", x, Lit(5)))>>) ELSE NoStmt),
                     Return(Bin("add", x, g, "int"))>>) :
               c \in Conds, s \in {Return(y), Panic, Ex(Asg("sub", x, y)), AssertThat(Bin("lt", x, y, "bool"))},
               e \in BOOLEAN}
Step == Ex(Asg("add", x, Lit(1)))
Loops == {Block(<<loop, Return(Bin("sub", x, g, "int"))>>) :
            loop \in UNION {{While(c, Block(<<Step, If(d, Block(<<s>>), NoStmt), Step>>)),
                             DoWhile(c, Block(<<Step, If(d, Block(<<s>>), NoStmt), Step>>))} :
                      c \in {Bin("lt", x, Lit(3), "bool"), BoolLit(FALSE), BoolLit(TRUE)},
                      d \in {Bin("lt", x, y, "bool"), BoolLit(TRUE), BoolLit(FALSE)}, s \in Exits}}
Fors == {Block(<<Decl("t", "int", Lit(0)),
                 For(Decl("i", "int", Lit(0)), c, Un("postinc", i), Block(<<Ex(s), If(d, Block(<<q>>), NoStmt)>>)),
                 Return(Bin("add", Index("a", Lit(1)), t("int"), "int"))>>) :
           c \in {Bin("lt", i, Lit(2), "bool"), Bin("le", i, Lit(1), "bool"), BoolLit(FALSE)},
           s \in {Asg("set", Index("a", i), y), Asg("add", t("int"), Index("a", i)),
                  Asg("add", Index("a", i), Call("h", y)), Asg("add", Index("l", Call("f", i)), Lit(1)),
                  Asg("set", Index("l", y), x), Asg("set", p, i), Asg("add", i, Lit(1))},
           d \in {Bin("lt", y, i, "bool"), BoolLit(FALSE)}, q \in {Break, Continue, Return(i)}}
        \cup {Block(<<For(Decl("i", "int", Lit(0)), Bin("lt", i, Lit(2), "bool"), Un("postinc", i),
                 Block(<<Ex(s), Ex(Asg("set", Index("a", i), y))>>)), Return(Index("a", Lit(0)))>>) :
                s \in {Asg("add", i, Lit(2)), Asg("add", x, i)}}
Bump(w) == Ex(Asg("add", w, Lit(1)))
Sums == {Block(<<Decl("t", "int", Lit(0)),
                 For(Decl("i", "int", Lit(0)), Bin("lt", i, Lit(3), "bool"), Asg("add", i, Lit(1)),
                     Block(<<If(d, Block(<<q>>), e), inner, Bump(t("int"))>>)),
                 Return(Bin("sub", t("int"), Bin("mul", x, i, "int"), "int"))>>) :
            d \in {Bin("lt", y, i, "bool"), Bin("eq", i, Lit(1), "bool")},
            q \in {Break, Continue, Return(i), Ex(Asg("set", x, i))},
            e \in {NoStmt, Block(<<Ex(Asg("set", x, t("int")))>>)},
            inner \in {Bump(x), While(Bin("lt", x, i, "bool"), Block(<<Bump(x), If(Bin("lt", y, x, "bool"), Block(<<Break>>), NoStmt)>>))}}
Deep(b) == Block(<<If(BoolLit(TRUE), b, NoStmt)>>)
Nested == {Deep(Deep(Deep(b))) : b \in {Deep(Deep(Deep(Block(<<Return(x)>>)))), Block(<<Return(x)>>)}}
Tails == {Block(<<If(Bin("le", x, Lit(0), "bool"), Block(<<Return(y)>>), NoStmt),
                  Ex(Call("f", x)), Return(Self(l, r))>>) :
            l \in {Bin("sub", x, Lit(1), "int"), Bin("div", x, Lit(2), "int")},
            r \in {y, x, Bin("add", y, x, "int"), Call("f", y)}}
Unused == {Block(<<Decl("t", "int", e), Decl("u", "int", Lit(1)),
                   If(c, Block(<<If(BoolLit(TRUE), Block(<<If(c, Block(<<Ex(Asg("set", Var("u", "int"), x))>>),
                                                            NoStmt)>>), NoStmt)>>), NoStmt),
                   Return(Bin("add", v, Lit(0), "int"))>>) :
             e \in {Lit(1), Bin("div", Lit(1), x, "int"), Call("f", y), Bin("add", x, y, "int")},
             c \in {BoolLit(TRUE), Bin("lt", Lit(2), Lit(1), "bool"), Bin("lt", x, y, "bool")},
             v \in {x, t("int"), Var("u", "int")}}
Throwing == {Throw(x), Ex(Call("k", y)), Ex(Asg("add", g, Call("k", x))), Ex(Asg("add", g, Lit(1))),
             Return(x), Lock(Block(<<Ex(Call("f", x))>>)), Lock(Block(<<Ex(Call("k", x))>>)),
             Try(Block(<<Ex(Call("k", y)), Throw(Lit(3))>>), "i", Block(<<Throw(Bin("add", i, Lit(1), "int"))>>))}
Tries == {Block(<<Try(Block(<<q, If(c, Block(<<r>>), NoStmt), s>>), "t", Block(<<h>>)),
                  Ex(Call("k", Bin("sub", x, Lit(1), "int"))), Return(Bin("add", t("int"), g, "int"))>>) :
            q \in Throwing, r \in Throwing, s \in Throwing,
            c \in {Bin("lt", x, y, "bool"), BoolLit(TRUE)}, h \in {Ex(Asg("add", g, t("int"))), Throw(t("int"))}}
         \cup {Block(<<Lock(Block(<<q>>)), r, Return(x)>>) : q \in Throwing, r \in Throwing}
         \cup {Block(<<While(Bin("lt", x, Lit(3), "bool"), Block(<<Step, Try(Block(<<q>>), "t", Block(<<r>>)),
                  Ex(Asg("add", y, x))>>)), Return(Bin("sub", y, t("int"), "int"))>>) :
                q \in Throwing, r \in Throwing \cup Exits}

Tuples == {Block(<<Decl("t", "int", Bin("add", x, y, "int"))>> \o ss \o <<Return(Tuple(l, r))>>) :
            ss \in {<<>>, <<Ex(Asg("add", g, t("int")))>>}, l \in {x, t("int")}, r \in {Call("f", y), t("int")}}

AllBodies == Tuples \cup Nested \cup Tries \cup Returns \cup Unsigneds \cup Narrow \cup Branches \cup Loops \cup Fors \cup Sums \cup Tails \cup Unused

Env(vx, vy) == [n \in {"x", "y", "g", "p", "t", "u", "i", "a", "l"} |->
  CASE n = "x" -> vx [] n = "y" -> vy [] n = "g" -> 1 [] n = "p" -> 4
    [] n = "a" -> [j \in 0..1 |-> 2 + j] [] n = "l" -> [j \in 0..2 |-> j] [] OTHER -> 0]
AllEnvs == {Env(-4, 2), Env(3, 0), Env(0, 7)}
Registers == {"x"}
=============================================================================
