------------------------------- MODULE Session -------------------------------
(***************************************************************************)
(* A debug session: a client's requests, the adapter (dap/loop.inc and its *)
(* handlers) and the program, which reads commands only while it is        *)
(* stopped (runtime/debug/debug.c).  A command has no number: the adapter  *)
(* takes the next line as the answer.  The threads that fill the queues of *)
(* lines and requests only move them, so they are not modelled; a stop     *)
(* with its frames is one line.  How several threads stop is in Debugger.  *)
(***************************************************************************)
EXTENDS Integers, SequencesExt, FiniteSets

CONSTANTS
    Line,
    Cond,       \* lines whose breakpoint has a condition
    True,       \* stops at which the condition holds
    Counted,    \* lines whose breakpoint has a hit count, of two
    MaxStops, MaxAsked,     \* bounds: stops of a run, requests of a client,
    Sets,                   \* and the sets of breakpoints it asks for
    Odd,        \* what the client does that the session does not bear
    None

SessionAssumption ==
    /\ IsFiniteSet(Line) /\ Cond \cup Counted \subseteq Line /\ Sets \subseteq SUBSET Line
    /\ MaxStops \in Nat /\ MaxAsked \in Nat
    /\ Odd \subseteq {"late", "threads", "blind"} /\ None \notin Line
    /\ None \notin [op : {"read", "threads"}, id : Nat, set : {{}}]

VARIABLES
    prog,       \* the program: "start" (handshake), "run", "stop" or "gone"
    stop, here, \* the number of stops so far, the line of the last
    armed,      \* lines with a breakpoint in the runtime
    stepping,
    cmds,       \* from the adapter to the program
    lines,      \* lines_
    reqs,       \* reqs_
    pc,         \* "events", "requests", "reply" or "cond"
    job,        \* the request a handler answers
    frames,     \* pausedFrames_: the stop they are of, or 0
    bps,        \* bps_: breakpoints with their hits
    pauseRequested, stepRequested, quit,
    view,       \* the client's: "start", "running" or a stop with its reason
    edited,     \* the client has set breakpoints since the stop it sees
    asked, done,            \* not in the code: the number of requests, the
    wanted, ever,           \* answered ones, the breakpoints last asked for, all
    visits                  \* that ever were, and how often the program has
                            \* stopped at a line since they were last asked for

program == <<prog, stop, here, armed, stepping>>
adapter == <<job, frames, bps, pauseRequested, stepRequested, quit>>
client == <<view, edited, asked, wanted, ever, visits>>
vars == <<program, cmds, lines, reqs, pc, adapter, client, done>>

Init ==
    /\ prog = "start" /\ stop = 0 /\ here = None /\ armed = {} /\ stepping = FALSE
    /\ cmds = <<>> /\ lines = <<>> /\ reqs = <<>>
    /\ pc = "events" /\ job = None /\ frames = 0 /\ bps = <<>>
    /\ pauseRequested = FALSE /\ stepRequested = FALSE /\ quit = FALSE
    /\ view = [what |-> "start"] /\ edited = FALSE /\ asked = 0 /\ done = {}
    /\ wanted = {} /\ ever = {} /\ visits = [l \in Line |-> 0]

-----------------------------------------------------------------------------
(* The client *)

Sees == view.what = "stop"
Calm == ~edited \/ "late" \in Odd

Ask(op, set) ==
    /\ asked < MaxAsked /\ ~quit
    /\ asked' = asked + 1
    /\ reqs' = Append(reqs, [op |-> op, id |-> asked', set |-> set])
    /\ UNCHANGED <<program, cmds, lines, pc, adapter, done>>

AskResume ==
    /\ view.what # "running"
    /\ \E op \in {"continue", "step"} : Ask(op, {})
    /\ view' = [what |-> "running"] /\ edited' = FALSE
    /\ UNCHANGED <<wanted, ever, visits>>

\* variables, evaluate; also while the program runs, unless stops may be passed over
AskRead ==
    /\ \/ Sees
       \/ view.what = "running" /\ (ever \cap (Cond \cup Counted) = {} \/ "blind" \in Odd)
    /\ Calm
    /\ Ask("read", {})
    /\ UNCHANGED <<view, edited, wanted, ever, visits>>

AskThreads ==
    /\ (Sees \/ "threads" \in Odd) /\ Calm
    /\ Ask("threads", {})
    /\ UNCHANGED <<view, edited, wanted, ever, visits>>

AskBreakpoints ==
    /\ view.what # "running" \/ "late" \in Odd
    /\ \E set \in Sets :
          Ask("breakpoints", set) /\ wanted' = set /\ ever' = ever \cup set
    /\ edited' = TRUE /\ visits' = [l \in Line |-> 0]
    /\ UNCHANGED view

AskPause ==
    /\ view.what = "running"
    /\ Ask("pause", {})
    /\ UNCHANGED <<view, edited, wanted, ever, visits>>

AskEnd == Ask("disconnect", {}) /\ UNCHANGED <<view, edited, wanted, ever, visits>>

Client == AskResume \/ AskRead \/ AskThreads \/ AskBreakpoints \/ AskPause \/ AskEnd

-----------------------------------------------------------------------------
(* The program: traps and hphl_dbg_cmd_loop *)

\* A trap at line l stops at a breakpoint and at the end of a step.
Stop(l) ==
    /\ prog = "run" /\ stop < MaxStops
    /\ stepping \/ l \in armed
    /\ prog' = "stop" /\ stop' = stop + 1 /\ here' = l /\ stepping' = FALSE
    /\ lines' = Append(lines, [op |-> "paused", id |-> 0, stop |-> stop', line |-> l])
    /\ visits' = [visits EXCEPT ![l] = @ + 1]
    /\ UNCHANGED <<armed, cmds, reqs, pc, adapter, view, edited, asked, wanted, ever, done>>

Exit ==
    /\ prog = "run"
    /\ prog' = "gone" /\ cmds' = <<>>
    /\ UNCHANGED <<stop, here, armed, stepping, lines, reqs, pc, adapter, client, done>>

Resume(c) ==
    /\ c.op \in {"continue", "step"}
    /\ prog' = "run" /\ stepping' = (c.op = "step")
    /\ UNCHANGED <<stop, here, armed, lines>>

\* bpx confirms, read and threads answer.
Serve(c) ==
    /\ c.op \in {"bpx", "read", "threads"}
    /\ armed' = IF c.op # "bpx" THEN armed
                ELSE IF c.on THEN armed \cup {c.line} ELSE armed \ {c.line}
    /\ lines' = Append(lines, [op |-> IF c.op = "bpx" THEN "ok" ELSE c.op,
                               id |-> c.id, stop |-> stop, line |-> None])
    /\ UNCHANGED <<prog, stop, here, stepping>>

\* It is stopped already.
IgnoreAnswers(c) ==                                           \* a mutation
    /\ c.op = "pause" /\ UNCHANGED program
    /\ lines' = Append(lines, [op |-> "ok", id |-> c.id, stop |-> stop, line |-> None])
Ignore(c) == c.op = "pause" /\ UNCHANGED <<program, lines>>

ReadCommand ==
    /\ prog \in {"start", "stop"} /\ cmds # <<>>
    /\ cmds' = Tail(cmds)
    /\ Resume(Head(cmds)) \/ Serve(Head(cmds)) \/ Ignore(Head(cmds))
    /\ UNCHANGED <<reqs, pc, adapter, client, done>>

-----------------------------------------------------------------------------
(* The adapter: run, first the lines of the program *)

Sends == prog # "gone"                      \* sendLine succeeds
Command(op) == [op |-> op, id |-> 0, line |-> None, on |-> FALSE]
Send(new) == cmds' = IF Sends THEN cmds \o new ELSE cmds

BreakpointAt(l) == {i \in DOMAIN bps : bps[i].line = l}
DueAtOnce(i) == TRUE                                          \* a mutation
Due(i) == bps[i].line \in Counted => bps[i].hits + 1 >= 2

\* The stop is shown, or passed over without a word: paused_ and the frames stay.
Show(why, n, l) ==
    /\ view' = [what |-> "stop", stop |-> n, why |-> why, line |-> l]
    /\ edited' = FALSE
    /\ UNCHANGED <<cmds, asked, wanted, ever, visits>>
PassOverTwice ==                                              \* a mutation
    Send(<<Command("continue"), Command("continue")>>) /\ UNCHANGED client
PassOverSilent == UNCHANGED <<cmds, client>>                  \* a mutation
PassOver == Send(<<Command("continue")>>) /\ UNCHANGED client

CountedHits(l) ==
    [i \in DOMAIN bps |-> IF i \in BreakpointAt(l) /\ bps[i].line \in Counted
                          THEN [bps[i] EXCEPT !.hits = @ + 1] ELSE bps[i]]

\* A stop after a pause or a step is not compared with the breakpoints.
Asked == pauseRequested \/ stepRequested
Stopped(e) ==
    LET hit == BreakpointAt(e.line)
        due == \A i \in hit : Due(i)
        test == ~Asked /\ hit # {} /\ due /\ e.line \in Cond
    IN  /\ frames' = e.stop
        /\ bps' = IF Asked THEN bps ELSE CountedHits(e.line)
        /\ pauseRequested' = FALSE /\ stepRequested' = FALSE
        /\ \/ /\ test /\ Sends
              /\ Send(<<Command("read")>>) /\ pc' = "cond"
              /\ UNCHANGED client
           \/ /\ ~Asked /\ ~due /\ PassOver /\ UNCHANGED pc
           \/ /\ (Asked \/ due) /\ ~(test /\ Sends) /\ UNCHANGED pc
              /\ Show(IF pauseRequested THEN "pause" ELSE IF stepRequested THEN "step"
                      ELSE IF test THEN "error" ELSE "breakpoint", e.stop, e.line)

\* Lines that are no stop are dropped.
Event ==
    /\ pc = "events" /\ ~quit /\ lines # <<>>
    /\ lines' = Tail(lines)
    /\ IF Head(lines).op = "paused" THEN Stopped(Head(lines))
       ELSE UNCHANGED <<cmds, pc, frames, bps, pauseRequested, stepRequested, client>>
    /\ UNCHANGED <<program, reqs, job, quit, done>>

EventsDone ==
    /\ pc = "events" /\ ~quit /\ lines = <<>>
    /\ pc' = "requests"
    /\ UNCHANGED <<program, cmds, lines, reqs, adapter, client, done>>

\* evalCondition: anything but a value is an error, which is shown.
HoldsAlways(r) == TRUE                                        \* a mutation
Holds(r) == r.stop \in True
Judge ==
    /\ pc = "cond" /\ (lines # <<>> \/ ~Sends)
    /\ lines' = IF lines # <<>> THEN Tail(lines) ELSE lines
    /\ IF lines # <<>> /\ Head(lines).op = "read" /\ ~Holds(Head(lines)) THEN PassOver
       ELSE Show(IF lines # <<>> /\ Head(lines).op = "read" THEN "breakpoint" ELSE "error",
                 frames, here)
    /\ pc' = "events"
    /\ UNCHANGED <<program, reqs, adapter, done>>

-----------------------------------------------------------------------------
(* Then the requests, which go first when both wait *)

\* onContinue, onStep: the frames are forgotten.
ForgottenNot == frames                                        \* a mutation
Forgotten == IF Sends THEN 0 ELSE frames
OnResume(r) ==
    /\ r.op \in {"continue", "step"}
    /\ Send(<<[Command(r.op) EXCEPT !.id = r.id]>>)
    /\ frames' = Forgotten
    /\ stepRequested' = (stepRequested \/ (Sends /\ r.op = "step"))
    /\ pauseRequested' = (pauseRequested /\ ~(Sends /\ r.op = "step"))
    /\ UNCHANGED <<bps, quit, prog>>

OnPause(r) ==
    /\ r.op = "pause"
    /\ Send(<<[Command("pause") EXCEPT !.id = r.id]>>)
    /\ pauseRequested' = (pauseRequested \/ Sends)
    /\ stepRequested' = (stepRequested /\ ~Sends)
    /\ UNCHANGED <<bps, frames, quit, prog>>

SwitchOffNone(v) == [kept |-> v, lines |-> <<>>]              \* a mutation

\* sendBp takes a line, which is in bps_ once, out of the places in use; what was
\* last in a place that is no longer in use stays there.
Erased(s, l) ==
    IF \A k \in 1 .. s.len : s.at[k].line # l THEN s
    ELSE LET k == CHOOSE k \in 1 .. s.len : s.at[k].line = l
         IN  [at |-> SubSeq(s.at, 1, k - 1) \o SubSeq(s.at, k + 1, s.len)
                     \o SubSeq(s.at, s.len, Len(s.at)),
              len |-> s.len - 1]

\* bps_ is cleared by a loop over itself: the i-th round reads what the i-th
\* place holds by then.
SwitchOff(v) ==
    LET n == Len(v)
        Round[i \in 0 .. n] ==
            IF i = 0 THEN [at |-> v, len |-> n]
            ELSE LET before == Round[i - 1] IN Erased(before, before.at[i].line)
        last == Round[n]
    IN  [kept |-> SubSeq(last.at, 1, last.len),
         lines |-> [i \in 1 .. n |-> Round[i - 1].at[i].line]]

Bpx(id, l, on) == [op |-> "bpx", id |-> id, line |-> l, on |-> on]
AddedWithHits(kept, set) ==                                   \* a mutation
    LET new == SetToSeq(set \ {kept[i].line : i \in DOMAIN kept})
    IN  kept \o [i \in DOMAIN new |-> [line |-> new[i], hits |-> 0]]
Added(kept, set) ==
    LET new == {l \in set : \A i \in DOMAIN kept : kept[i].line # l}
        reset == [i \in DOMAIN kept |->
                  IF kept[i].line \in set THEN [kept[i] EXCEPT !.hits = 0] ELSE kept[i]]
        order == SetToSeq(new)
    IN  reset \o [i \in 1 .. Cardinality(new) |-> [line |-> order[i], hits |-> 0]]

OnBreakpoints(r) ==
    /\ r.op = "breakpoints"
    /\ \E off \in {SwitchOff(bps)}, on \in {SetToSeq(r.set)} :
           /\ Send([i \in DOMAIN off.lines |-> Bpx(r.id, off.lines[i], FALSE)]
                   \o [i \in DOMAIN on |-> Bpx(r.id, on[i], TRUE)])
           /\ bps' = IF Sends THEN Added(off.kept, r.set) ELSE bps
    /\ UNCHANGED <<frames, pauseRequested, stepRequested, quit, prog>>

\* A read without frames, and one that cannot be sent, are answered at once.
BlindNever(r) == FALSE                                        \* a mutation
Blind(r) == r.op = "read" /\ frames = 0
OnNothing(r) ==
    /\ Blind(r) \/ (r.op \in {"read", "threads"} /\ ~Sends)
    /\ UNCHANGED <<cmds, frames, bps, pauseRequested, stepRequested, quit, prog>>

\* closeRuntime ends the program.
OnDisconnect(r) ==
    /\ r.op = "disconnect"
    /\ quit' = TRUE /\ prog' = "gone" /\ cmds' = <<>>
    /\ UNCHANGED <<frames, bps, pauseRequested, stepRequested>>

Request ==
    /\ pc = "requests" /\ ~quit /\ reqs # <<>>
    /\ reqs' = Tail(reqs)
    /\ LET r == Head(reqs) IN
          /\ OnResume(r) \/ OnPause(r) \/ OnBreakpoints(r) \/ OnNothing(r) \/ OnDisconnect(r)
          /\ done' = done \cup {r.id}
    /\ pc' = "events"
    /\ UNCHANGED <<stop, here, armed, stepping, lines, job, client>>

Query ==
    /\ pc = "requests" /\ ~quit /\ reqs # <<>> /\ Sends
    /\ LET r == Head(reqs) IN
          /\ r.op \in {"read", "threads"} /\ ~Blind(r)
          /\ Send(<<[Command(r.op) EXCEPT !.id = r.id]>>)
          /\ job' = r
    /\ reqs' = Tail(reqs) /\ pc' = "reply"
    /\ UNCHANGED <<program, lines, frames, bps, pauseRequested, stepRequested, quit,
                   client, done>>

\* waitRuntimeLine: the next line, whatever it is, or nothing at the end.
Reply ==
    /\ pc = "reply" /\ (lines # <<>> \/ ~Sends)
    /\ lines' = IF lines # <<>> THEN Tail(lines) ELSE lines
    /\ done' = done \cup {job.id} /\ job' = None
    /\ pc' = "events"
    /\ UNCHANGED <<program, cmds, reqs, frames, bps, pauseRequested, stepRequested, quit,
                   client>>

BackToEvents ==
    /\ pc = "requests" /\ ~quit /\ reqs = <<>> /\ lines # <<>>
    /\ pc' = "events"
    /\ UNCHANGED <<program, cmds, lines, reqs, adapter, client, done>>

-----------------------------------------------------------------------------
Adapter == Event \/ EventsDone \/ Judge \/ Request \/ Query \/ Reply \/ BackToEvents

Next == Client \/ (\E l \in Line : Stop(l)) \/ Exit \/ ReadCommand \/ Adapter

\* The adapter and a stopped program go on; nobody makes the client ask or the
\* program reach a line.
Spec == Init /\ [][Next]_vars /\ WF_vars(Adapter) /\ WF_vars(ReadCommand)

-----------------------------------------------------------------------------
\* Types of the session.
TypeOK ==
    /\ prog \in {"start", "run", "stop", "gone"} /\ stop \in 0 .. MaxStops
    /\ here \in Line \cup {None} /\ armed \subseteq Line
    /\ {stepping, pauseRequested, stepRequested, quit, edited} \subseteq BOOLEAN
    /\ pc \in {"events", "requests", "reply", "cond"} /\ frames \in 0 .. MaxStops
    /\ \A i \in DOMAIN bps : bps[i].line \in Line /\ bps[i].hits \in 0 .. MaxStops
    /\ \A i, j \in DOMAIN bps : bps[i].line = bps[j].line => i = j
    /\ done \subseteq 1 .. asked /\ (pc = "reply" <=> job # None)

\* A handler that waits for the answer to its command is given that answer and
\* no other line: not the late "ok" of a breakpoint, not a stop.
RepliesMatch ==
    /\ pc = "reply" /\ lines # <<>> =>
          Head(lines).op = job.op /\ Head(lines).id = job.id
    /\ pc = "cond" /\ lines # <<>> => Head(lines).op = "read" /\ Head(lines).id = 0

\* A client that was told of a stop and has not resumed since sees a program
\* that is stopped there.
ShownTrue ==
    Sees /\ prog # "gone" => prog = "stop" /\ stop = view.stop

\* A command that needs a stopped program finds it stopped, where the adapter
\* has its frames from.
ReadsAtStop ==
    \A i \in DOMAIN cmds : cmds[i].op = "read" => prog = "stop" /\ stop = frames

\* A stop shown as a breakpoint is at a line the client once asked for, one whose
\* condition held, and for a hit count the program has stopped there often enough
\* since the client asked.
ShownIsMeant ==
    Sees /\ view.why = "breakpoint" =>
        /\ view.line \in ever
        /\ view.line \in Cond => view.stop \in True
        /\ view.line \in Counted \cap wanted /\ ~edited => visits[view.line] >= 2

\* What the client is shown is so, and what it reads is of the stop it sees.
ShownIsTrue == TypeOK /\ ShownTrue /\ ReadsAtStop /\ ShownIsMeant

\* When nothing is under way the program and the adapter have the same breakpoints,
\* all of the last setBreakpoints among them, and no others as long as there were
\* never more than two lines: with three, the loop that clears them leaves some.
BreakpointsAsAsked ==
    (\A i \in DOMAIN cmds : cmds[i].op # "bpx") /\ prog # "gone"
        /\ (\A i \in DOMAIN reqs : reqs[i].op # "breakpoints")
    => /\ armed = {bps[i].line : i \in DOMAIN bps}
       /\ wanted \subseteq armed /\ armed \subseteq ever
       /\ Cardinality(ever) <= 2 => armed = wanted

\* A stop is shown or passed over, none hangs.
StopsReach == []<>(prog = "stop" => (Sees /\ view.stop = stop) \/ quit)

\* Every request is answered while the session lasts.
Answered == []<>(done = 1 .. asked \/ quit)

\* Neither a stop nor a request hangs.
AllEnds == StopsReach /\ Answered
=============================================================================
