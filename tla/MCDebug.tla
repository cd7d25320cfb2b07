------------------------------- MODULE MCDebug -------------------------------
(***************************************************************************)
(* The two sides of a debug session in one run: the threads of a program   *)
(* with the commands an adapter sends (Debugger, extended), and the        *)
(* client, the adapter and a program of one thread (Session, S).           *)
(***************************************************************************)
EXTENDS Debugger

CONSTANTS Line, Cond, True, Counted, MaxStops, MaxAsked, Sets, Odd

VARIABLES part, prog, stop, here, armed, sStepping, cmds, lines, reqs, sPc, job,
          frames, bps, pauseRequested, stepRequested, quit, view, edited,
          asked, done, wanted, ever, visits

S == INSTANCE Session WITH pc <- sPc, stepping <- sStepping

session == <<prog, stop, here, armed, sStepping, cmds, lines, reqs, sPc, job,
             frames, bps, pauseRequested, stepRequested, quit, view, edited,
             asked, done, wanted, ever, visits>>
debugVars == <<part, vars, session>>

DebugInit == part \in {"session", "threads"} /\ Init /\ S!Init

SessionStep(A) == part = "session" /\ A /\ UNCHANGED <<part, vars>>

DebugNext ==
    \/ SessionStep(S!Next)
    \/ part = "threads" /\ Next /\ UNCHANGED <<part, session>>

DebugSpec ==
    /\ DebugInit /\ [][DebugNext]_debugVars
    /\ WF_debugVars(SessionStep(S!Adapter)) /\ WF_debugVars(SessionStep(S!ReadCommand))

ASSUME SessionAssumption == S!SessionAssumption

\* A command's handler gets the answer to its command, whatever lines of the
\* program are on their way (waitRuntimeLine, dap/runtime.inc 223).
RepliesMatch == S!RepliesMatch

\* What the client is shown is so: the program stands at the stop it sees, what it
\* reads is of that stop, and a breakpoint's stop is one the client asked for, whose
\* condition held and whose hits were enough (dap/loop.inc 80-125).
ShownIsTrue == S!ShownIsTrue

\* When nothing is under way the program and the adapter have the same breakpoints,
\* those last asked for among them, and no others while at most two lines were ever
\* asked for: with three the loop that clears them leaves some (onSetBreakpoints,
\* dap/handlers.inc 69-141).
BreakpointsAsAsked == S!BreakpointsAsAsked

\* Every stop is shown or passed over and every request is answered, while the
\* session lasts (DapServer::run).
AllEnds == S!AllEnds
=============================================================================
