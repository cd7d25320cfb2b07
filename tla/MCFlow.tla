-------------------------------- MODULE MCFlow --------------------------------
(***************************************************************************)
(* Flow against FlowRun: functions of a few statements over the names one  *)
(* analysis is about, what the checker says of them, and what their paths  *)
(* do.                                                                     *)
(***************************************************************************)
EXTENDS Flow

R == INSTANCE FlowRun

CONSTANT FlowOdd    \* features on which checker and runs are known to differ
CONSTANT Fns        \* the programs: families of sequences of functions
VARIABLES prog, verdict

Lit == [k |-> "lit"]
Call == [k |-> "call", es |-> <<>>]
Id(x) == [k |-> "id", x |-> x]
Get(x) == [k |-> "expr", e |-> [k |-> "get", x |-> x]]
Set(x, e) == [k |-> "expr", e |-> [k |-> "set", x |-> x, e |-> e]]
SetF(x, e) == [k |-> "expr", e |-> [k |-> "setf", x |-> x, e |-> e]]
Use(x) == [k |-> "expr", e |-> Id(x)]
Out(x) == [k |-> "expr", e |-> [k |-> "call", es |-> <<[k |-> "out", x |-> x]>>]]
New == [k |-> "new", es |-> <<>>]
Nil == [k |-> "null"]
Ret(e) == [k |-> "return", v |-> <<e>>]
Local(pol, ref) == [kind |-> "local", pol |-> pol, ref |-> ref]
Dec(x, pol, e) == [k |-> "decl", x |-> x, d |-> Local(pol, TRUE), v |-> <<e>>, var |-> FALSE]
DecLit(x) == [k |-> "decl", x |-> x, d |-> Local("stack", FALSE), v |-> <<Lit>>, var |-> TRUE]
Fn(params, body) == [params |-> params, req |-> <<>>, ens |-> <<>>, result |-> FALSE, body |-> body]
IfThen(c, t, e) == [k |-> "if", c |-> c, t |-> t, e |-> e]
Leaf(S) == {<<s>> : s \in S}

InLock(x, b) == [k |-> "lock", o |-> Id(x), b |-> b]

\* The statements that hold others, over the bodies B.
Odd(f, S) == IF f \in FlowOdd THEN S ELSE {}
Exits == {IfThen(Call, <<[k |-> "break"]>>, <<>>), IfThen(Call, <<[k |-> "continue"]>>, <<>>),
          IfThen(Call, <<Ret(Lit)>>, <<>>)}
Nested(B, C) ==
    {IfThen(c, t, e) : c \in C, t \in B, e \in B \cup {<<>>}}
    \cup {[k |-> "while", c |-> Call, b |-> b] : b \in B \cup {<<x>> \o b1 : x \in Exits, b1 \in B}}
    \cup {[k |-> "do", c |-> Call, b |-> b] : b \in B \cup Odd("dobreak", {<<x>> \o b1 : x \in Exits, b1 \in B})}
    \cup {[k |-> "for", i |-> <<DecLit("i")>>,
           c |-> <<Call>>, s |-> <<[k |-> "inc", x |-> "i"]>>, b |-> b] : b \in B}
    \cup {[k |-> "foreach", c |-> Id("o"), x |-> "i", ref |-> FALSE, par |-> FALSE, b |-> b] : b \in B}
    \cup {[k |-> "trycatch", b |-> <<Call>> \o b \o <<Call>>, x |-> "e", h |-> h] : b \in B, h \in B}
    \cup {[k |-> "trycatch", b |-> <<Call>> \o b \o <<Call>>, x |-> "", h |-> <<>>] : b \in B}
    \cup {[k |-> "block", b |-> b] : b \in B}
    \cup {InLock("o", b) : b \in B \cup Odd("propagate", {<<[k |-> "try", e |-> Lit]>> \o b1 : b1 \in B})}
Branches(B) ==
    {[k |-> "switch", c |-> Lit, cases |-> <<b1, b2>>, d |-> d] : b1, b2 \in B, d \in B \cup {<<>>}}
Tasks(B) ==
    {[k |-> "spawn", b |-> b] : b \in B}
    \cup {[k |-> "parallel", ps |-> <<b1, b2>>] : b1, b2 \in B}

\* What holds bodies and is an expression, a task without captures, and ends.
Valued(B) ==
    {[k |-> "expr", e |-> [k |-> "lambda", xs |-> <<"z">>, b |-> b]] : b \in B \cup {b1 \o <<Ret(Id("z"))>> : b1 \in B}}
    \cup {[k |-> "decl", x |-> "t1", d |-> Local("stack", FALSE), v |-> <<[k |-> "spawned", b |-> b]>>, var |-> FALSE] :
             b \in B \cup {b1 \o <<Ret(Lit)>> : b1 \in B}}
    \cup {[k |-> "match", c |-> Lit, arms |-> <<b1, <<Call>> \o b2>>] : b1, b2 \in B}
Rest(B) ==
    {[k |-> "foreach", c |-> Id("o"), x |-> "i", ref |-> FALSE, par |-> TRUE, b |-> b] : b \in B \cup {<<Use("i")>>}}
    \cup {IfThen(Call, b \o <<[k |-> "panic", e |-> Lit]>>, <<>>) : b \in B}
    \cup {[k |-> "assert", e |-> Call], [k |-> "names", xs |-> <<"i", "j">>, e |-> Call],
           [k |-> "await", e |-> [k |-> "spawned", b |-> <<[k |-> "this"], Ret(Lit)>>]]}

Whole(B) == Nested(B, {Call}) \cup Branches(B) \cup Tasks(B) \cup Valued(B) \cup Rest(B)

\* Functions of one family: declarations, a statement, a nest, a statement.
Family(params, decls, simple, nests) ==
    {<<[params |-> params, req |-> <<>>, ens |-> <<>>, result |-> FALSE,
        body |-> decls \o <<s1>> \o <<n>> \o <<s2>>]>> : s1, s2 \in simple, n \in nests}

Obj == [kind |-> "param", pol |-> "stack", ref |-> TRUE]
P(x, d) == [y \in {x, "o"} |-> IF y = x THEN d ELSE Obj]

MoveStmts == {Set("b", Id("a")), Set("a", Id("b")), Get("a"), Use("b"), SetF("a", Id("b"))} \cup Odd("restore", {Set("a", New)})
Owners == <<Dec("a", "heap", New), Dec("b", "heap", New)>>
TaskStmts == MoveStmts \cup Odd("spawnnull", {Set("b", Nil)})
Moves == Family(P("o", Obj), Owners, MoveStmts,
           Nested(Leaf(MoveStmts), {Call}) \cup Branches(Leaf({Get("a"), Use("b")})) \cup Odd("switchmove", Branches(Leaf(MoveStmts)))
           \cup Valued(Leaf({Get("a"), Use("b")})) \cup Rest(Leaf(MoveStmts)) \cup Odd("valuedmove", Valued(Leaf(MoveStmts))))
Shared == Family(P("o", Obj), Owners, TaskStmts, Tasks(Leaf(TaskStmts)))
NullStmts == {Set("s", Nil), Set("s", New), Set("t", Id("s")), Get("s"), Set("s", [k |-> "opt", x |-> "o"])}
Nulls == Family(P("o", Obj), <<Dec("s", "auto", New), Dec("t", "auto", New)>>, NullStmts \cup {Get("t")},
           Nested(Leaf(NullStmts), {[k |-> "isnull", x |-> "s"], [k |-> "nonnull", x |-> "s"], Call})
           \cup Valued(Leaf({Get("s")})) \cup Rest(Leaf(NullStmts)) \cup Odd("switchmove", Branches(Leaf(NullStmts)))
           \cup Odd("spawnnull", Tasks(Leaf(NullStmts))) \cup Odd("valuedmove", Valued(Leaf(NullStmts))))
OutStmts == {Set("r", Lit), Out("r"), Use("r"), Set("q", Lit),
             [k |-> "expr", e |-> [k |-> "add", x |-> "q", e |-> Id("r")]]}
            \cup Odd("readset", {[k |-> "expr", e |-> [k |-> "set", x |-> "r", e |-> Id("r")]]})
OutRef == [kind |-> "out", pol |-> "stack", ref |-> FALSE]
Outs == Family(P("r", OutRef),
           <<DecLit("q")>>, OutStmts,
           {n \in Nested(Leaf(OutStmts), {Call} \cup Odd("andout", {[k |-> "op", es |-> <<Call, Out("r").e>>]})) :
               n.k # "lock" \/ "lockout" \in FlowOdd \/ n.b[Len(n.b)] \in {Use("r"), Use("q"), Set("q", Lit)}}
           \cup {n \in Branches(Leaf(OutStmts)) : n.d \in {<<>>, <<Use("q")>>}} \cup {n \in Tasks(Leaf(OutStmts)) : n.k = "spawn"}
           \cup {[k |-> "parallel", ps |-> <<<<s1>>, <<Use("q")>>>>] : s1 \in OutStmts}
           \cup {n \in Valued(Leaf({Use("r"), Set("r", Lit), Out("r")})) : n.k # "match"}
           \cup Valued(Leaf({Use("r"), Use("q")})) \cup Rest(Leaf(OutStmts))
           \cup Odd("matchout", Valued(Leaf(OutStmts)))
           \cup Odd("switchall", Branches(Leaf({Set("r", Lit)}))) \cup Odd("partsout", Tasks(Leaf(OutStmts))))
Reset == [k |-> "expr", e |-> [k |-> "reset"]]
ArenaStmts == {Get("a"), Get("h"), Dec("n", "arena", New)} \cup Odd("renew", {Set("a", New)})
Arenas == Family(P("o", Obj), <<Dec("a", "arena", New), Dec("h", "heap", New)>>,
            ArenaStmts \cup {Reset} \cup Odd("alias", {Set("h", Id("a"))}),
            Whole(Leaf(ArenaStmts))
            \cup {IfThen(Call, <<Ret(Id(x))>>, <<>>) : x \in {"a", "h"}}
            \cup {IfThen(Call, <<Reset>>, <<>>), [k |-> "while", c |-> Call, b |-> <<Reset>>]}
            \cup Odd("elsereset", Whole(Leaf(ArenaStmts \cup {Reset}))))
LockStmts == {Get("o"), Get("p"), SetF("o", Lit)}
PLock == InLock("p", <<Get("p")>>)
Locks == Family([x \in {"o", "p"} |-> Obj], <<>>, LockStmts \cup {PLock},
           Whole(Leaf(LockStmts))
           \cup {[k |-> "expr", e |-> [k |-> "lambda", xs |-> <<>>, b |-> <<PLock>>]]}
           \cup Odd("valuedlock", Valued({<<InLock("o", <<Ret(Lit)>>)>>}))
           \cup {IfThen(Call, <<PLock>>, <<>>), [k |-> "while", c |-> Call, b |-> <<PLock>>],
                 InLock("o", <<PLock>>), InLock("o", <<Get("o"), PLock>>)}
           \cup Odd("stalebranch", Whole(Leaf(LockStmts \cup {PLock})))
           \cup Odd("lockthrow", {InLock("o", <<[k |-> "expr", e |-> Call]>>)})
           \cup Odd("nestedlock", {InLock("o", <<InLock("p", <<Get("o")>>)>>)})
           \cup {InLock("o", <<x>>) : x \in {Ret(Lit), [k |-> "while", c |-> Call, b |-> <<[k |-> "break"]>>]}})

Contracts ==
    {<<[params |-> P("r", OutRef), req |-> <<Use("o")>>, ens |-> e, result |-> r, body |-> <<s, Ret(Lit)>>]>> :
        s \in {Set("r", Lit), Use("r")}, r \in BOOLEAN,
        e \in {<<>>, <<Use("o")>>, <<Use("result")>>} \cup Odd("ensureout", {<<Use("r")>>})}

AllFns == {
    Moves, Shared, Nulls, Outs, Arenas, Locks, Contracts,
    Odd("two", {<<f[1], Fn(f[1].params, <<Get("p")>>)>> : f \in Locks}),
    Odd("shadow", {<<Fn(P("o", Obj), <<Dec("a", "heap", New),
        [k |-> "block", b |-> <<Dec("a", "heap", New), Dec("b", "heap", New), Set("b", Id("a"))>>], Get("a")>>)>>})}

FlowInit == (\E family \in Fns : prog \in family) /\ verdict = <<"none">>
FlowNext == verdict = <<"none">> /\ verdict' = Verdict(prog) /\ UNCHANGED prog
flowVars == <<prog, verdict>>
FlowSpec == FlowInit /\ [][FlowNext]_flowVars

AllPaths(f) == UNION {R!Paths(prog[i], f) : i \in DOMAIN prog}
Kinds == {"MOVE", "NULL", "OUT", "FREED", "TOCTOU"}
NoAccepted(kinds) == \A p \in AllPaths(TRUE) : \A e \in p : e[1] \notin kinds

\* What the checker complains of happens on some path through the function.
AlarmsAreReal ==
    verdict' # NoErr /\ verdict'[1] \in Kinds =>
      \E p \in AllPaths(FALSE) : verdict' \in p

\* A function that goes wrong on every path, its tests for null believed, is
\* refused.
CertainFaultRefused ==
    (\A p \in AllPaths(FALSE) : p # {}) => verdict' # NoErr

\* A function that is accepted reads no out parameter before it is set.
OutsAssigned == verdict' = NoErr => NoAccepted({"OUT"})

\* A function that is accepted leaves no lock without giving it back.
LocksLeft == verdict' = NoErr => NoAccepted({"HELD"})

\* ... and no object of its arena leaves it, by return or in a task.
ArenaStays == verdict' = NoErr => NoAccepted({"ESCAPE", "FRAME"})
=============================================================================
