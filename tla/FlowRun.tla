------------------------------- MODULE FlowRun -------------------------------
(***************************************************************************)
(* What the functions of Flow do when they run: the paths through a body,  *)
(* each with the faults met on it.  A variable holds "obj" (an object),    *)
(* "ar" (an object in the arena of the function), "freed" (one whose arena *)
(* was reset), "null", "moved", "unset" (an out parameter nobody wrote) or *)
(* "lit" (a plain value).                                                  *)
(***************************************************************************)
EXTENDS Integers, Sequences, FiniteSets

Go(st, v) == [how |-> "go", st |-> st, v |-> v]
Leave(how, st) == [how |-> how, st |-> st, v |-> "lit"]
Then(outs, F(_)) == UNION {IF o.how = "go" THEN F(o) ELSE {o} : o \in outs}
Fault(st, holds, f) == IF holds THEN [st EXCEPT !.faults = @ \cup {f}] ELSE st

Where(st, x) == {i \in 1 .. Len(st.sc) : x \in DOMAIN st.sc[i]}
At(st, x) == CHOOSE i \in Where(st, x) : \A j \in Where(st, x) : j <= i
Cell(st, x) == st.sc[At(st, x)][x]
Store(st, x, v) ==
    IF Where(st, x) = {} THEN st
    ELSE [st EXCEPT !.sc[At(st, x)][x].v =
              IF v # "new" THEN v ELSE IF Cell(st, x).pol = "arena" THEN "ar" ELSE "obj"]
Owner(st, x) ==
    Where(st, x) # {} /\ Cell(st, x).kind = "local" /\ Cell(st, x).ref /\ Cell(st, x).pol \in {"heap", "arena", "pool", "shared"}

Value(st, x) ==
    IF Where(st, x) = {} THEN "lit"
    ELSE CASE Cell(st, x).v = "moved" -> "obj"
           [] Cell(st, x).v = "unset" -> "lit"
           [] OTHER -> Cell(st, x).v
Read(st, x) ==
    IF Where(st, x) = {} THEN Fault(st, TRUE, <<"UNKNOWN", x>>)
    ELSE LET c == Cell(st, x).v IN
         Fault(Fault(Fault(st, c = "moved", <<"MOVE", x>>), c = "unset", <<"OUT", x>>),
               st.base > 0 /\ At(st, x) <= st.base /\ c = "ar", <<"FRAME", x>>)

\* x.f
Holding(st, x) == {i \in 1 .. Len(st.held) : st.held[i].x = x}
Field(st, x) ==
    LET v == Value(st, x)
        n == Fault(Fault(st, v = "null", <<"NULL", x>>), v = "freed", <<"FREED", x>>)
    IN  IF Holding(st, x) # {} THEN [n EXCEPT !.held[CHOOSE i \in Holding(st, x) : TRUE].read = TRUE]
        ELSE Fault(n, st.held = <<>> /\ x \in st.stale, <<"TOCTOU", x>>)

True(o) == o.v # "false"
False(o) == o.v # "true"
\* With f, a test of what is null goes one way; without, it goes both ways and
\* is believed.
Test(st, x, k, f) ==
    LET null == IF k = "isnull" THEN "true" ELSE "false"
        other == IF k = "isnull" THEN "false" ELSE "true"
        isNull == Value(st, x) = "null"
    IN  (IF f /\ isNull THEN {} ELSE {Go(IF isNull THEN Store(st, x, "obj") ELSE st, other)})
        \cup {Go(st, null)}

Reset(st) ==
    [st EXCEPT !.sc = [i \in DOMAIN @ |-> [x \in DOMAIN @[i] |->
        IF @[i][x].v = "ar" THEN [@[i][x] EXCEPT !.v = "freed"] ELSE @[i][x]]]]

Assigned(st, x, e, v) ==
    LET m == e.k = "id" /\ e.x # x /\ Owner(st, x) /\ Owner(st, e.x)
    IN  Store(IF m THEN Store(st, e.x, "moved") ELSE st, x, v)

\* What a call writes into its out arguments.
RECURSIVE Written(_, _)
Written(st, es) ==
    IF es = <<>> THEN st
    ELSE Written(IF es[1].k = "out" THEN Store(st, es[1].x, "lit") ELSE st, Tail(es))

RECURSIVE Eval(_, _, _), Evals(_, _, _), Run(_, _, _), Runs(_, _, _), Loop(_, _, _, _, _, _)
Evals(es, st, f) ==
    IF es = <<>> THEN {Go(st, "lit")}
    ELSE Then(Eval(Head(es), st, f), LAMBDA o : IF Len(es) = 1 THEN {o} ELSE Evals(Tail(es), o.st, f))

Open(st) == [st EXCEPT !.sc = Append(@, <<>>)]
Close(outs, n) == {[o EXCEPT !.st.sc = SubSeq(@, 1, n)] : o \in outs}
Local(st, x, d, v) ==
    LET top == st.sc[Len(st.sc)]
        c == [v |-> IF v # "new" THEN v ELSE IF d.pol = "arena" THEN "ar" ELSE "obj",
              kind |-> d.kind, pol |-> d.pol, ref |-> d.ref]
    IN  [st EXCEPT !.sc[Len(st.sc)] = [y \in DOMAIN top \cup {x} |-> IF y = x THEN c ELSE top[y]]]
FlatLocal == [kind |-> "local", pol |-> "stack", ref |-> FALSE]
RECURSIVE Locals(_, _)
Locals(st, xs) == IF xs = <<>> THEN st ELSE Locals(Local(st, Head(xs), FlatLocal, "lit"), Tail(xs))

Runs(ss, st, f) ==
    IF ss = <<>> THEN {Go(st, "lit")}
    ELSE Then(Run(Head(ss), st, f), LAMBDA o : Runs(Tail(ss), o.st, f))
In(ss, st, f) == Close(Runs(ss, Open(st), f), Len(st.sc))

\* A task has copies of what it reads.  So has a lambda, which is called at
\* once or never.
Task(ss, st, f) ==
    {[st EXCEPT !.faults = o.st.faults] : o \in In(ss, [st EXCEPT !.base = Len(st.sc)], f)}
Called(e, st, f) ==
    {[st EXCEPT !.faults = o.st.faults, !.stale = o.st.stale] : o \in In(e.b, Locals(Open(st), e.xs), f)}

Eval(e, st, f) ==
    CASE e.k = "lit" -> {Go(st, "lit")}
      [] e.k = "this" -> {Go(st, "obj")}
      [] e.k = "null" -> {Go(st, "null")}
      [] e.k = "new" -> Then(Evals(e.es, st, f), LAMBDA o : {Go(o.st, "new")})
      [] e.k = "call" -> Then(Evals(e.es, st, f), LAMBDA o :
             {Go(Written(o.st, e.es), "lit"), Leave("throw", o.st)})
      [] e.k = "tuple" -> Evals(e.es, st, f)
      [] e.k = "try" -> Then(Eval(e.e, st, f), LAMBDA o : {Go(o.st, "lit"), Leave("ret", o.st)})
      [] e.k = "await" -> Eval(e.e, st, f)
      [] e.k = "match" -> Then(Eval(e.c, st, f), LAMBDA o : UNION {In(e.arms[i], o.st, f) : i \in DOMAIN e.arms})
      [] e.k = "spawned" -> {Go(t, "lit") : t \in Task(e.b, st, f)}
      [] e.k = "lambda" -> {Go(t, "lit") : t \in {st} \cup Called(e, st, f)}
      [] e.k = "id" -> {Go(Read(st, e.x), Value(st, e.x))}
      [] e.k = "opt" -> {Go(Read(st, e.x), "null"), Go(Read(st, e.x), "obj")}
      [] e.k \in {"isnull", "nonnull"} -> Test(Read(st, e.x), e.x, e.k, f)
      [] e.k = "get" -> {Go(Field(Read(st, e.x), e.x), "lit")}
      [] e.k = "set" -> Then(Eval(e.e, st, f), LAMBDA o : {Go(Assigned(o.st, e.x, e.e, o.v), o.v)})
      [] e.k = "add" -> Then(Eval(e.e, Read(st, e.x), f), LAMBDA o : {Go(Store(o.st, e.x, "lit"), "lit")})
      [] e.k = "setf" -> Eval(e.e, Field(st, e.x), f)
      [] e.k = "inc" -> {Go(Store(Read(st, e.x), e.x, "lit"), "lit")}
      [] e.k = "out" -> {Go(st, "lit")}
      [] e.k = "reset" -> {Go(Reset(st), "lit")}
      [] e.k = "op" -> Then(Eval(e.es[1], st, f), LAMBDA o :
             (IF True(o) THEN Eval(e.es[2], o.st, f) ELSE {})
             \cup IF False(o) THEN {Go(o.st, "false")} ELSE {})
      [] e.k = "tern" -> Then(Eval(e.c, st, f), LAMBDA o :
             (IF True(o) THEN Eval(e.t, o.st, f) ELSE {})
             \cup IF False(o) THEN Eval(e.e, o.st, f) ELSE {})

-----------------------------------------------------------------------------
\* How a body ends the loop around it and what is around that.
Ends == {"ret", "throw", "halt"}

\* All that a loop comes to, from the states at its test.
Loop(c, b, step, new, seen, f) ==
    IF new = {} THEN {}
    ELSE LET tests == UNION {Eval(c, st, f) : st \in new}
             outs == Then({o \in tests : o.how = "go" /\ True(o)}, LAMBDA o : In(b, o.st, f))
             stepped == UNION {Eval(step, o.st, f) : o \in {p \in outs : p.how \in {"go", "cont"}}}
             next == {o.st : o \in {p \in stepped : p.how = "go"}}
         IN  {o \in tests \cup stepped : o.how # "go"}
             \cup {o \in outs : o.how \in Ends}
             \cup {Go(o.st, "lit") : o \in {p \in outs : p.how = "brk"}}
             \cup {Go(o.st, "lit") : o \in {p \in tests : p.how = "go" /\ False(p)}}
             \cup Loop(c, b, step, next \ seen, seen \cup next, f)
Lit == [k |-> "lit"]
LoopOver(b, sts, f) == Loop(Lit, b, Lit, sts, sts, f)

\* A do loop runs its body before its test: body, then a while.
Do(s, st, f) ==
    LET once == In(s.b, st, f)
        tested == {o.st : o \in {p \in once : p.how \in {"go", "cont"}}}
    IN  {o \in once : o.how \in Ends}
        \cup {Go(o.st, "lit") : o \in {p \in once : p.how = "brk"}}
        \cup Loop(s.c, s.b, Lit, tested, tested, f)

Caught(s, st, f) ==
    LET outs == In(s.b, st, f)
        caught == {o.st : o \in {p \in outs : p.how = "throw"}}
        Handled(t) == Close(In(s.h, Local(Open(t), s.x, FlatLocal, "lit"), f), Len(st.sc))
    IN  IF s.x = "" THEN {IF o.how = "throw" THEN Go(o.st, "lit") ELSE o : o \in outs}
        ELSE {o \in outs : o.how # "throw"} \cup UNION {Handled(t) : t \in caught}

\* A lock is given back at the end of its body and nowhere else: what jumps out of
\* the body, an exception too, keeps it.
LockRun(s, st, f) ==
    LET n == Len(st.held) + 1
        x == IF s.o.k = "id" THEN s.o.x ELSE ""
        Hold(t) == [t EXCEPT !.held = Append(@, [x |-> x, read |-> FALSE]), !.stale = @ \ {x}]
        Free(t) == [t EXCEPT !.held = SubSeq(@, 1, n - 1) \o SubSeq(@, n + 1, Len(@)),
                             !.stale = IF t.held[n].read THEN @ \cup {x} ELSE @]
        Left(o) == CASE o.how = "go" -> [o EXCEPT !.st = Free(@)]
                     [] o.how = "halt" -> o
                     [] OTHER -> [o EXCEPT !.st = Fault(@, TRUE, <<"HELD", o.how>>)]
    IN  Then(Eval(s.o, st, f), LAMBDA o : {Left(p) : p \in In(s.b, Hold(o.st), f)})

RECURSIVE Tasks(_, _, _)
Tasks(ps, sts, f) ==
    IF ps = <<>> THEN sts ELSE Tasks(Tail(ps), UNION {Task(Head(ps), t, f) : t \in sts}, f)

\* The body of a foreach, for one item after another or all at once.
Each(s, sts, f) ==
    LET item == [k |-> "decl", x |-> s.x, v |-> <<Lit>>, d |-> FlatLocal]
    IN  IF s.par THEN UNION {{Go(t, "lit"), Go(u, "lit")} : t \in sts,
                              u \in UNION {Task(<<item>> \o s.b, t, f) : t \in sts}}
        ELSE LoopOver(<<item, [k |-> "block", b |-> s.b]>>, sts, f)

Run(s, st, f) ==
    CASE s.k = "expr" -> Eval(s.e, st, f)
      [] s.k = "decl" -> Then(Evals(s.v, st, f), LAMBDA o :
             {Go(Local(o.st, s.x, s.d, IF s.v = <<>> THEN "new" ELSE o.v), "lit")})
      [] s.k = "names" -> Then(Eval(s.e, st, f), LAMBDA o : {Go(Locals(o.st, s.xs), "lit")})
      [] s.k = "block" -> In(s.b, st, f)
      [] s.k = "if" -> Then(Eval(s.c, st, f), LAMBDA o :
             (IF True(o) THEN In(s.t, o.st, f) ELSE {}) \cup IF False(o) THEN In(s.e, o.st, f) ELSE {})
      [] s.k = "while" -> Loop(s.c, s.b, Lit, {st}, {st}, f)
      [] s.k = "do" -> Do(s, st, f)
      [] s.k = "for" -> Close(Then(Runs(s.i, Open(st), f), LAMBDA o :
             Loop(s.c[1], s.b, s.s[1], {o.st}, {o.st}, f)), Len(st.sc))
      [] s.k = "foreach" -> Then(Eval(s.c, st, f), LAMBDA o : Each(s, {o.st}, f))
      [] s.k = "switch" -> Then(Eval(s.c, st, f), LAMBDA o :
             UNION {In(b, o.st, f) : b \in {s.cases[i] : i \in DOMAIN s.cases} \cup {s.d}})
      [] s.k = "trycatch" -> Caught(s, st, f)
      [] s.k = "throw" -> Then(Eval(s.e, st, f), LAMBDA o : {Leave("throw", o.st)})
      [] s.k = "panic" -> Then(Eval(s.e, st, f), LAMBDA o : {Leave("halt", o.st)})
      [] s.k = "assert" -> Then(Eval(s.e, st, f), LAMBDA o :
             (IF True(o) THEN {Go(o.st, "lit")} ELSE {}) \cup IF False(o) THEN {Leave("halt", o.st)} ELSE {})
      [] s.k = "break" -> {Leave("brk", st)}
      [] s.k = "continue" -> {Leave("cont", st)}
      [] s.k = "return" -> Then(Evals(s.v, st, f), LAMBDA o :
             {Leave("ret", Fault(o.st, o.v = "ar", <<"ESCAPE", s.k>>))})
      [] s.k = "lock" -> LockRun(s, st, f)
      [] s.k = "spawn" -> {Go(t, "lit") : t \in Task(s.b, st, f)}
      [] s.k = "parallel" -> {Go(t, "lit") : t \in Tasks(s.ps, {st}, f)}
      [] OTHER -> Eval(s, st, f)

\* The faults of every path through a function; its postconditions are tried
\* where it returns.
Start(fn) ==
    [sc |-> <<[x \in DOMAIN fn.params |->
                 [v |-> IF fn.params[x].kind = "out" THEN "unset" ELSE IF fn.params[x].ref THEN "obj" ELSE "lit",
                  kind |-> fn.params[x].kind, pol |-> fn.params[x].pol, ref |-> fn.params[x].ref]]>>,
     held |-> <<>>, stale |-> {}, base |-> 0, faults |-> {}]
Paths(fn, f) ==
    LET outs == Then(Runs(fn.req, Start(fn), f), LAMBDA o : In(fn.body, o.st, f))
        Left(o) == IF o.how \in {"throw", "halt"} THEN {o}
                   ELSE Runs(fn.ens, IF fn.result THEN Local(Open(o.st), "result", FlatLocal, "lit") ELSE o.st, f)
    IN  {o.st.faults : o \in UNION {Left(p) : p \in outs}}
=============================================================================
