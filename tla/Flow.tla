-------------------------------- MODULE Flow --------------------------------
(***************************************************************************)
(* What the semantic checker (semantic/semantic.cpp) concludes from the    *)
(* order of the statements of a function: which out parameters are set,    *)
(* which locals were moved, may be null or live in an arena that was       *)
(* reset, what was read under a lock that has ended, and what may leave a  *)
(* function, a task or a lock.  The checker goes over the body once and    *)
(* stops at the first error.                                               *)
(*                                                                         *)
(* A statement or an expression is a record with its kind in k; what may   *)
(* be absent is a sequence.  A name is declared as [kind, pol, ref]: a     *)
(* "local", a "param" or an "out" parameter, its storage policy, and       *)
(* whether it refers to an object.  Types agree, objects may be sent to    *)
(* tasks; arrays, strings, globals and fields without this are left out.   *)
(***************************************************************************)
EXTENDS Integers, Sequences, FiniteSets

NoErr == <<>>

\* The members of Semantic that change while a body is checked: scopes_,
\* outAssigned_, movedVars_, maybeNull_, arenaLocals_, arenaFreed_;
\* staleAfterLock_, inLockDepth_, lockObjName_, lockBodyRead_; inSpawnDepth_,
\* spawnBaseScope_, whether there is a spawnCaptureSink_, inSpawnExpr_,
\* spawnPayloadSet_; inLambdaDepth_, lambdaReturnSet_; inAssignLhs_,
\* outWriteName_.
Fresh(params, stale) ==
    [sc |-> <<params>>, out |-> {}, moved |-> {}, null |-> {}, arena |-> {}, freed |-> {},
     stale |-> stale, locks |-> 0, obj |-> "", read |-> FALSE,
     tasks |-> 0, base |-> 0, sink |-> FALSE, valued |-> 0, payload |-> FALSE,
     lambdas |-> 0, returned |-> FALSE, lhs |-> FALSE, write |-> "", err |-> NoErr]

\* Semantic::error throws: the first error is the only one.
Demand(a, holds, e) ==
    IF holds \/ a.err # NoErr THEN a ELSE [a EXCEPT !.err = e]

Push(a) == [a EXCEPT !.sc = Append(@, <<>>)]
Pop(a) == [a EXCEPT !.sc = SubSeq(@, 1, Len(@) - 1)]

\* Semantic::lookup: the innermost scope that declares x.
Bound(a, x) == {i \in 1 .. Len(a.sc) : x \in DOMAIN a.sc[i]}
Depth(a, x) == CHOOSE i \in Bound(a, x) : \A j \in Bound(a, x) : j <= i
Decl(a, x) == a.sc[Depth(a, x)][x]
IsOut(a, x) == Bound(a, x) # {} /\ Decl(a, x).kind = "out"

Declare(a, x, d) ==
    LET top == a.sc[Len(a.sc)] IN
    [Demand(a, x \notin DOMAIN top, <<"TWICE", x>>) EXCEPT
        !.sc[Len(a.sc)] = [y \in DOMAIN top \cup {x} |-> IF y = x THEN d ELSE top[y]]]

OnStack(ref) == [kind |-> "local", pol |-> "stack", ref |-> ref]

\* isRefPolicyLocal: what an assignment moves.
Owns(a, x) ==
    /\ Bound(a, x) # {}
    /\ Decl(a, x).kind = "local" /\ Decl(a, x).ref
    /\ Decl(a, x).pol \in {"heap", "arena", "pool", "shared"}

-----------------------------------------------------------------------------
(* Expressions *)

\* A local of the function that a task reads is copied into the task; the body
\* of a parallel foreach has no copies.
CapturedDeeper(a, x) == a.tasks > 0 /\ Depth(a, x) < a.base   \* a mutation
Captured(a, x) == a.tasks > 0 /\ Depth(a, x) <= a.base

Ident(a, x) ==
    IF Bound(a, x) = {} THEN Demand(a, FALSE, <<"UNKNOWN", x>>)
    ELSE LET d == Decl(a, x)
             s == Demand(a, Captured(a, x) => a.sink, <<"CAPTURE", x>>)
             b == Demand(s, ~(Captured(a, x) /\ d.pol \in {"arena", "pool"}), <<"FRAME", x>>)
             c == Demand(b, d.kind # "out" \/ x = a.write \/ x \in a.out, <<"OUT", x>>)
         IN  Demand(c, a.lhs \/ d.kind # "local" \/ x \notin a.moved, <<"MOVE", x>>)

\* noteLockAccess
Locked(a, x) ==
    IF a.locks > 0 /\ x = a.obj THEN [a EXCEPT !.read = TRUE]
    ELSE Demand(a, a.locks > 0 \/ x \notin a.stale, <<"TOCTOU", x>>)

\* x.f and x.f(): checkNullDeref, checkArenaUaf, noteLockAccess.  They look at
\* the name a chain begins with, so that x.f.g is x.f here.
Access(a, x) ==
    LET b == Demand(Ident(a, x), x \notin a.null, <<"NULL", x>>)
        c == Demand(b, x \notin a.freed, <<"FREED", x>>)
    IN  Locked(c, x)

\* nullNoteAssign, by the shape of the value
MayBeNullLiteral(a, e) == e.k = "null"                        \* a mutation
MayBeNull(a, e) ==
    \/ e.k \in {"null", "opt"}
    \/ e.k = "id" /\ e.x \in a.null
NoteNull(a, x, ref, v) ==
    IF ~ref THEN a
    ELSE IF \E i \in DOMAIN v : MayBeNull(a, v[i]) THEN [a EXCEPT !.null = @ \cup {x}]
    ELSE [a EXCEPT !.null = @ \ {x}]

MarkOut(a, x) == IF IsOut(a, x) THEN [a EXCEPT !.out = @ \cup {x}] ELSE a

\* b = a moves between two owners, after the value was checked.
MoveOnly(a, x, e) ==                                          \* a mutation
    IF e.k = "id" /\ e.x # x /\ Owns(a, x) /\ Owns(a, e.x)
    THEN [a EXCEPT !.moved = @ \cup {e.x}] ELSE a
Move(a, x, e) ==
    IF e.k = "id" /\ e.x # x /\ Owns(a, x) /\ Owns(a, e.x)
    THEN [a EXCEPT !.moved = (@ \cup {e.x}) \ {x}] ELSE a

\* x == null and x != null tell the two branches apart where x may be null.
Null(a, c, branch) ==
    IF c.k \in {"isnull", "nonnull"} /\ c.x \in a.null
    THEN IF (c.k = "isnull") = branch THEN a.null \cup {c.x} ELSE a.null \ {c.x}
    ELSE a.null

RECURSIVE Check(_, _), Block(_, _)     \* a node, and a sequence of them

Block(ss, a) == IF ss = <<>> THEN a ELSE Block(Tail(ss), Check(Head(ss), a))
Scoped(ss, a) == Pop(Block(ss, Push(a)))

\* outDirectName
OutName(a, x) == IF IsOut(a, x) THEN x ELSE ""

\* The target is checked, and marked, before the value.
Assign(a, e) ==
    LET plain == e.k = "set"
        t == Ident([a EXCEPT !.lhs = TRUE, !.write = IF plain THEN OutName(a, e.x) ELSE ""], e.x)
        b == Check(e.e, MarkOut([t EXCEPT !.lhs = FALSE, !.write = ""], e.x))
    IN  IF plain THEN NoteNull(Move(b, e.x, e.e), e.x, Bound(b, e.x) # {} /\ Decl(b, e.x).ref, <<e.e>>)
        ELSE b
AssignField(a, e) ==
    Check(e.e, [Access([a EXCEPT !.lhs = TRUE], e.x) EXCEPT !.lhs = FALSE])

\* An out argument is written, not read.
PassOut(a, e) ==
    MarkOut([Ident([a EXCEPT !.write = OutName(a, e.x)], e.x) EXCEPT !.write = ""], e.x)

\* arena_reset() is for functions with something in their arena.
ArenaReset(a) == [Demand(a, a.arena # {}, <<"RESET", "">>) EXCEPT !.freed = a.arena]

Ternary(a, e) ==
    LET c == Check(e.c, a)
        t == Check(e.t, [c EXCEPT !.null = Null(c, e.c, TRUE)])
        f == Check(e.e, [t EXCEPT !.null = Null(c, e.c, FALSE)])
    IN  [f EXCEPT !.null = t.null \cap f.null]

\* The arms of a match, each its pattern's guard and its body: one after the
\* other, as if all of them ran.
RECURSIVE Arms(_, _)
Arms(cs, a) == IF cs = <<>> THEN a ELSE Arms(Tail(cs), Scoped(Head(cs), a))
Match(a, e) == Arms(e.arms, Check(e.c, a))

\* spawn as an expression: its returns give the payload.  What it moved stays
\* moved.
SpawnExpr(a, e) ==
    LET b == Block(e.b, [a EXCEPT !.tasks = @ + 1, !.base = Len(a.sc), !.sink = TRUE,
                                  !.valued = @ + 1, !.payload = FALSE])
    IN  Demand([b EXCEPT !.out = a.out, !.tasks = a.tasks, !.sink = a.sink,
                         !.valued = a.valued, !.payload = a.payload], b.payload, <<"PAYLOAD", "">>)

\* checkLambda
RECURSIVE Params(_, _)
Params(a, xs) ==
    IF xs = <<>> THEN a ELSE Params(Declare(a, Head(xs), [OnStack(FALSE) EXCEPT !.kind = "param"]), Tail(xs))
Lambda(a, e) ==
    LET b == Block(e.b, [Params(Push(a), e.xs) EXCEPT !.lambdas = @ + 1, !.returned = FALSE])
    IN  [Pop(b) EXCEPT !.out = a.out, !.lambdas = a.lambdas, !.returned = a.returned]

-----------------------------------------------------------------------------
(* Statements *)

\* What holds after an if holds at the end of both branches.
JoinUnion(b, t, e, a) ==                                      \* a mutation
    [e EXCEPT !.out = t.out \cup b, !.moved = t.moved \cap e.moved, !.null = t.null \cap e.null]
Join(b, t, e, a) ==
    [e EXCEPT !.out = t.out \cap b, !.moved = t.moved \cap e.moved, !.null = t.null \cap e.null]

If(s, a) ==
    LET c == Check(s.c, a)
        t == Scoped(s.t, [c EXCEPT !.null = Null(c, s.c, TRUE)])
        e == Scoped(s.e, [t EXCEPT !.out = c.out, !.moved = c.moved, !.null = Null(c, s.c, FALSE)])
    IN  Join(e.out, t, e, a)

\* The body may run no time: only the out parameters go back.  A body is a
\* block in a scope of the loop's own: one scope here.
WhileLeaves(a, b) == [b EXCEPT !.out = a.out]
While(s, a) == LET c == Check(s.c, a) IN WhileLeaves(c, Scoped(s.b, c))
For(s, a) ==
    LET i == Block(s.i, Push(a))
        b == Block(s.s, Scoped(s.b, Block(s.c, i)))
    IN  Pop([b EXCEPT !.out = i.out])
DoWhile(s, a) == Check(s.c, Scoped(s.b, a))

\* A parallel foreach walks a named list, its body is a task without captures.
Foreach(s, a) ==
    LET c == Check(s.c, a)
        p == IF ~s.par THEN c
             ELSE [Demand(c, s.c.k = "id", <<"SUBJECT", "">>) EXCEPT
                     !.tasks = @ + 1, !.base = Len(c.sc), !.sink = FALSE]
        b == Scoped(s.b, Declare(Push(p), s.x, OnStack(s.ref)))
    IN  [Pop(b) EXCEPT !.out = c.out, !.tasks = c.tasks, !.sink = c.sink]

\* Each case starts with the outs of the start, and with all else as it is.
RECURSIVE Cases(_, _, _, _)
Cases(cs, a, start, after) ==
    IF cs = <<>> THEN <<a, after>>
    ELSE LET b == Scoped(Head(cs), [a EXCEPT !.out = start])
         IN  Cases(Tail(cs), b, start, after \cap b.out)
Switch(s, a) ==
    LET c == Check(s.c, a)
        r == Cases(s.cases, c, c.out, c.out)
        d == Scoped(s.d, [r[1] EXCEPT !.out = c.out])
    IN  [d EXCEPT !.out = r[2] \cap d.out]

\* Without a catch nothing of the body counts as assigned.
Try(s, a) ==
    LET t == Scoped(s.b, Demand(a, a.tasks = 0, <<"LEAVE", s.k>>))
        c == Declare(Push([t EXCEPT !.out = a.out]), s.x, OnStack(FALSE))
        h == Pop(Scoped(s.h, c))
    IN  IF s.x = "" THEN [t EXCEPT !.out = a.out]
        ELSE [h EXCEPT !.out = t.out \cap h.out]
Throw(s, a) == Check(s.e, Demand(a, a.tasks = 0, <<"LEAVE", s.k>>))

\* What break and continue may not leave; a return in the body of a function
\* neither, and there no lambda is around it.
MayLeaveAnyLock(a) == a.tasks = 0 /\ a.lambdas = 0            \* a mutation
MayLeave(a) == a.locks = 0 /\ a.tasks = 0 /\ a.lambdas = 0

Jump(s, a) == Demand(a, MayLeave(a), <<"LEAVE", s.k>>)

\* An object of an arena or a pool does not leave the function.
Escapes(a, e) ==
    e.k \in {"id", "get"} /\ Bound(a, e.x) # {} /\ Decl(a, e.x).pol \in {"arena", "pool"}

\* A return of a lambda or of a spawn with a value is tried for a value only.
Return(s, a) ==
    IF a.lambdas > 0
    THEN [Demand(Block(s.v, a), s.v # <<>> \/ ~a.returned, <<"VALUE", s.k>>)
            EXCEPT !.returned = @ \/ s.v # <<>>]
    ELSE IF a.valued > 0
    THEN [Demand(Block(s.v, a), s.v # <<>>, <<"VALUE", s.k>>) EXCEPT !.payload = TRUE]
    ELSE LET v == Block(s.v, Jump(s, a))
         IN  Demand(v, \A i \in DOMAIN s.v : ~Escapes(v, s.v[i]), <<"ESCAPE", s.k>>)

\* Only a lock on a name is followed.  The body has no scope of its own.
Lock(s, a) ==
    LET c == Check(s.o, a)
        x == IF s.o.k = "id" THEN s.o.x ELSE ""
        b == Block(s.b, [c EXCEPT !.stale = @ \ {x}, !.obj = x, !.read = FALSE, !.locks = @ + 1])
    IN  [b EXCEPT !.out = c.out, !.locks = c.locks, !.obj = c.obj, !.read = c.read,
                  !.stale = IF x # "" /\ b.read THEN @ \cup {x} ELSE @]

\* The body of a spawn has no scope of its own, that of a part has.  Neither
\* gives back the base.
Spawn(s, a) ==
    LET b == Block(s.b, [a EXCEPT !.tasks = @ + 1, !.base = Len(a.sc), !.sink = TRUE])
    IN  [b EXCEPT !.moved = a.moved, !.out = a.out, !.tasks = a.tasks, !.sink = a.sink]

RECURSIVE Parts(_, _, _)
Parts(ps, a, moved) ==
    IF ps = <<>> THEN a
    ELSE Parts(Tail(ps), [Scoped(Head(ps), a) EXCEPT !.moved = moved], moved)
Parallel(s, a) ==
    LET b == Parts(s.ps, [a EXCEPT !.tasks = @ + 1, !.base = Len(a.sc), !.sink = TRUE], a.moved)
    IN  [b EXCEPT !.out = a.out, !.tasks = a.tasks, !.sink = a.sink]

\* A declaration: the value, what it tells of null, the arena, the name.  var
\* has its value checked twice; a lambda with a type may call itself.
VarDecl(s, a) ==
    LET own == ~s.var /\ s.v # <<>> /\ s.v[1].k = "lambda"
        t == IF s.var THEN Block(s.v, Demand(a, s.v # <<>>, <<"VALUE", s.k>>)) ELSE a
        v == Block(s.v, IF own THEN Declare(t, s.x, s.d) ELSE t)
        n == NoteNull(v, s.x, s.d.ref, s.v)
        r == IF s.d.pol # "arena" THEN n
             ELSE [n EXCEPT !.arena = @ \cup {s.x}, !.freed = @ \ {s.x}]
        p == Demand(r, ~(s.d.ref /\ s.d.pol = "stack"), <<"POLICY", s.x>>)
    IN  IF own THEN p ELSE Declare(p, s.x, s.d)

\* var (a, b) = e: the names count as assigned.
RECURSIVE Names(_, _)
Names(xs, a) ==
    IF xs = <<>> THEN a
    ELSE Names(Tail(xs), [Declare(a, Head(xs), OnStack(FALSE)) EXCEPT !.out = @ \cup {Head(xs)}])
Destructure(s, a) == Names(s.xs, Check(s.e, a))

\* checkStatement and checkExpr
Check(e, a) ==
    IF a.err # NoErr THEN a
    ELSE CASE e.k \in {"lit", "null"} -> a
           [] e.k \in {"id", "opt", "isnull", "nonnull"} -> Ident(a, e.x)
           [] e.k = "this" -> Demand(a, a.tasks = 0, <<"THIS", "">>)
           [] e.k = "get" -> Access(a, e.x)
           [] e.k \in {"set", "add"} -> Assign(a, e)
           [] e.k = "setf" -> AssignField(a, e)
           [] e.k = "inc" -> MarkOut(Ident(a, e.x), e.x)
           [] e.k = "out" -> PassOut(a, e)
           [] e.k \in {"new", "call", "op", "tuple"} -> Block(e.es, a)
           [] e.k = "reset" -> ArenaReset(a)
           [] e.k \in {"await", "try", "expr", "panic", "assert"} -> Check(e.e, a)
           [] e.k = "tern" -> Ternary(a, e)
           [] e.k = "match" -> Match(a, e)
           [] e.k = "spawned" -> SpawnExpr(a, e)
           [] e.k = "lambda" -> Lambda(a, e)
           [] e.k = "decl" -> VarDecl(e, a)
           [] e.k = "names" -> Destructure(e, a)
           [] e.k = "block" -> Scoped(e.b, a)
           [] e.k = "if" -> If(e, a)
           [] e.k = "while" -> While(e, a)
           [] e.k = "do" -> DoWhile(e, a)
           [] e.k = "for" -> For(e, a)
           [] e.k = "foreach" -> Foreach(e, a)
           [] e.k = "switch" -> Switch(e, a)
           [] e.k = "trycatch" -> Try(e, a)
           [] e.k = "throw" -> Throw(e, a)
           [] e.k \in {"break", "continue"} -> Jump(e, a)
           [] e.k = "return" -> Return(e, a)
           [] e.k = "lock" -> Lock(e, a)
           [] e.k = "spawn" -> Spawn(e, a)
           [] e.k = "parallel" -> Parallel(e, a)

\* checkFunction: the preconditions, the postconditions with the result, the
\* body.  The stale locks are not forgotten between functions.
Ensures(fn, a) ==
    IF fn.result THEN Pop(Block(fn.ens, Declare(Push(a), "result", OnStack(FALSE))))
    ELSE Block(fn.ens, a)
Function(fn, stale) ==
    Scoped(fn.body, Ensures(fn, Block(fn.req, Fresh(fn.params, stale))))

\* checkFunctions: the first error ends it all.
RECURSIVE Functions(_, _)
Functions(fns, stale) ==
    LET a == Function(Head(fns), stale)
    IN  IF a.err # NoErr \/ Tail(fns) = <<>> THEN a.err ELSE Functions(Tail(fns), a.stale)
Verdict(fns) == Functions(fns, {})
=============================================================================
