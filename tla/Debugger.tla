------------------------------ MODULE Debugger ------------------------------
(***************************************************************************)
(* Stopping and resuming the threads of a debugged program: the traps of   *)
(* runtime/debug/debug.c and the commands an adapter writes to the pipe.   *)
(*                                                                         *)
(* A thread that stops takes a slot with an auto-reset event.  The first   *)
(* one claims hphl_dbg_loop_tid, reports the stop and reads commands; the  *)
(* others sleep on their events.  Every critical section and interlocked   *)
(* operation is a step.  Whether a line has a breakpoint or ends a step is *)
(* a free choice, so the three kinds of step are one.                      *)
(***************************************************************************)
EXTENDS Integers, SequencesExt, FiniteSets

CONSTANTS
    Main, Worker,
    None,
    Hits,           \* threads whose code has breakpoints
    MaxStopped,     \* HPHL_DBG_MAX_STOPPED: slots for stopped threads
    MaxCmds         \* bound: unread commands in the pipe

Thread == Worker \cup {Main}
Slot == 1 .. MaxStopped

ASSUME DebuggerAssumption ==
    /\ Main \notin Worker /\ None \notin Thread /\ Hits \subseteq Thread
    /\ MaxStopped \in Nat \ {0} /\ MaxCmds \in Nat

VARIABLES
    pc,         \* per thread, where it is in a trap
    slotOf,     \* the local variable slot of hphl_dbg_do_pause; 0: none
    owner,      \* per slot, its thread while active, else None
    event,      \* per slot, whether its event is signalled
    loopTid,    \* hphl_dbg_loop_tid
    active,     \* hphl_dbg_active
    pauseReq, pauseTid,
    stepping,   \* threads whose hphl_dbg_step_mode is set
    inbox,      \* commands in the pipe
    shown,      \* the stop the adapter may answer: a thread or None
    closed,     \* the adapter has closed the pipe
    granted     \* not in the code: threads a command read since they stopped
                \* has resumed

vars == <<pc, slotOf, owner, event, loopTid, active, pauseReq, pauseTid,
          stepping, inbox, shown, closed, granted>>
stops == <<slotOf, owner, event>>

\* Main has connected in its first trap, sent "ready" and waits for the first
\* command, without a slot; there are no other threads yet.
Init ==
    /\ pc = [t \in Thread |-> IF t = Main THEN "loop" ELSE "unborn"]
    /\ slotOf = [t \in Thread |-> 0]
    /\ owner = [s \in Slot |-> None]
    /\ event = [s \in Slot |-> FALSE]
    /\ loopTid = Main /\ shown = Main
    /\ active = TRUE /\ closed = FALSE
    /\ pauseReq = FALSE /\ pauseTid = None
    /\ stepping = {}
    /\ inbox = <<>>
    /\ granted = {}

GoTo(t, place) == pc' = [pc EXCEPT ![t] = place]

StartPool ==
    /\ pc[Main] = "run" /\ \E w \in Worker : pc[w] = "unborn"
    /\ pc' = [t \in Thread |-> "run"]
    /\ UNCHANGED <<stops, loopTid, active, pauseReq, pauseTid, stepping, inbox,
                   shown, closed, granted>>

-----------------------------------------------------------------------------
(* A thread stops: hphl_dbg_trap_impl and hphl_dbg_do_pause *)

\* A pause for this thread, the end of a step (over, in or out), or a
\* breakpoint or watchpoint, which a step mode hides.
MayStop(t) ==
    \/ pauseReq /\ pauseTid = t
    \/ t \in stepping
    \/ t \in Hits

FreeSlot(s) == owner[s] = None

\* The lowest free slot is taken; its event keeps the state it had.  With all
\* slots taken the thread does not stop.
Trap(t) ==
    /\ pc[t] = "run" /\ active /\ MayStop(t)
    /\ \E s \in Slot :
          /\ FreeSlot(s) /\ \A r \in 1 .. s - 1 : ~FreeSlot(r)
          /\ owner' = [owner EXCEPT ![s] = t]
          /\ slotOf' = [slotOf EXCEPT ![t] = s]
    /\ GoTo(t, "claim")
    /\ UNCHANGED <<event, loopTid, active, pauseReq, pauseTid, stepping, inbox,
                   shown, closed, granted>>

ClaimableAlways == TRUE                                       \* a mutation
Claimable == loopTid = None

\* The compare-and-swap on hphl_dbg_loop_tid.  The winner forgets the pause
\* that was asked for, whoever it was for, and reports its stop.
Claim(t) ==
    /\ pc[t] = "claim" /\ Claimable
    /\ loopTid' = t
    /\ pauseReq' = FALSE
    /\ shown' = IF closed THEN None ELSE t
    /\ GoTo(t, "loop")
    /\ UNCHANGED <<stops, active, pauseTid, stepping, inbox, closed, granted>>

Sleep(t) ==
    /\ pc[t] = "claim" /\ ~Claimable
    /\ GoTo(t, "sleep")
    /\ UNCHANGED <<stops, loopTid, active, pauseReq, pauseTid, stepping, inbox,
                   shown, closed, granted>>

\* WaitForSingleObject resets the event.
Wake(t) ==
    /\ pc[t] = "sleep" /\ event[slotOf[t]]
    /\ event' = [event EXCEPT ![slotOf[t]] = FALSE]
    /\ GoTo(t, "leave")
    /\ UNCHANGED <<slotOf, owner, loopTid, active, pauseReq, pauseTid, stepping,
                   inbox, shown, closed, granted>>

LeavingKept(t) == owner                                       \* a mutation
Leaving(t) == [owner EXCEPT ![slotOf[t]] = None]

Leave(t) ==
    /\ pc[t] = "leave"
    /\ owner' = Leaving(t)
    /\ slotOf' = [slotOf EXCEPT ![t] = 0]
    /\ granted' = granted \ {t}
    /\ GoTo(t, "run")
    /\ UNCHANGED <<event, loopTid, active, pauseReq, pauseTid, stepping, inbox,
                   shown, closed>>

-----------------------------------------------------------------------------
(* hphl_dbg_cmd_loop: one command of the thread that reads the pipe *)

Command(op, arg, for) == [op |-> op, arg |-> arg, for |-> for]

Reads(t, ops) ==
    /\ pc[t] = "loop" /\ inbox # <<>>
    /\ Head(inbox).op \in ops
    /\ inbox' = Tail(inbox)

\* The command is for the thread that reads it (or names none).
Mine(t) == Head(inbox).arg \in {None, t}

StoppedOthers(t) == {u \in Thread : \E s \in Slot : owner[s] = u}

\* SetEvent on the slots of the threads in S.
SetAsleep(S) ==                                               \* a mutation
    [s \in Slot |-> event[s] \/ (owner[s] \in S /\ pc[owner[s]] = "sleep")]
Set(S) == [s \in Slot |-> event[s] \/ owner[s] \in S]

\* continue, and continue <tid> of the reader or of a thread that has no slot:
\* every active slot is signalled, the one of the reader too.
ContinueAll(t) ==
    /\ Reads(t, {"continue"})
    /\ Mine(t) \/ Head(inbox).arg \notin StoppedOthers(t)
    /\ event' = Set(StoppedOthers(t))
    /\ granted' = granted \cup StoppedOthers(t)
    /\ stepping' = stepping \ {t}
    /\ GoTo(t, "return")
    /\ UNCHANGED <<slotOf, owner, loopTid, active, pauseReq, pauseTid, shown,
                   closed>>

ContinueOne(t) ==
    /\ Reads(t, {"continue"})
    /\ ~Mine(t) /\ Head(inbox).arg \in StoppedOthers(t)
    /\ event' = Set({Head(inbox).arg})
    /\ granted' = granted \cup {Head(inbox).arg}
    /\ UNCHANGED <<pc, slotOf, owner, loopTid, active, pauseReq, pauseTid,
                   stepping, shown, closed>>

\* The other stopped threads go on sleeping.
StepCommand(t) ==
    /\ Reads(t, {"step"}) /\ Mine(t)
    /\ stepping' = stepping \cup {t}
    /\ GoTo(t, "return")
    /\ UNCHANGED <<stops, loopTid, active, pauseReq, pauseTid, shown, closed,
                   granted>>

\* A pause without a thread, or for the reader, is already granted.
PauseCommand(t) ==
    /\ Reads(t, {"pause"})
    /\ pauseReq' = (pauseReq \/ ~Mine(t))
    /\ pauseTid' = IF Mine(t) THEN pauseTid ELSE Head(inbox).arg
    /\ UNCHANGED <<pc, stops, loopTid, active, stepping, shown, closed, granted>>

ReadClosed(t) ==
    /\ pc[t] = "loop" /\ inbox = <<>> /\ closed
    /\ active' = FALSE
    /\ GoTo(t, "return")
    /\ UNCHANGED <<stops, loopTid, pauseReq, pauseTid, stepping, inbox, shown,
                   closed, granted>>

\* After hphl_dbg_cmd_loop: the claim is given up, then the slot, if any.
AfterLoopAtOnce(t) == "run"                                   \* a mutation
AfterLoop(t) == IF slotOf[t] = 0 THEN "run" ELSE "leave"

Return(t) ==
    /\ pc[t] = "return"
    /\ loopTid' = None
    /\ GoTo(t, AfterLoop(t))
    /\ UNCHANGED <<stops, active, pauseReq, pauseTid, stepping, inbox, shown,
                   closed, granted>>

-----------------------------------------------------------------------------
(* The adapter: dap/handlers.inc *)

Send(cmd) ==
    /\ ~closed /\ Len(inbox) < MaxCmds
    /\ inbox' = Append(inbox, cmd)
    /\ UNCHANGED <<pc, stops, loopTid, active, pauseReq, pauseTid, stepping,
                   closed, granted>>

ShownAlways == shown                                          \* a mutation
ShownAfterResume == None

\* onContinue, onStep; tests also continue other threads by name.  What was
\* shown is forgotten.
SendContinue ==
    /\ shown # None
    /\ \E u \in Thread \cup {None} : Send(Command("continue", u, shown))
    /\ shown' = ShownAfterResume

SendStep ==
    /\ shown # None
    /\ \E u \in {None, shown} : Send(Command("step", u, shown))
    /\ shown' = ShownAfterResume

SendPause ==
    /\ \E u \in Thread \cup {None} : Send(Command("pause", u, None))
    /\ UNCHANGED shown

\* The adapter goes away without a word.
Vanish ==
    /\ ~closed
    /\ closed' = TRUE /\ shown' = None
    /\ UNCHANGED <<pc, stops, loopTid, active, pauseReq, pauseTid, stepping,
                   inbox, granted>>

-----------------------------------------------------------------------------
Step(t) ==
    \/ Trap(t) \/ Claim(t) \/ Sleep(t) \/ Wake(t) \/ Leave(t)
    \/ ContinueAll(t) \/ ContinueOne(t) \/ StepCommand(t) \/ PauseCommand(t)
    \/ ReadClosed(t) \/ Return(t)

Adapter == SendContinue \/ SendStep \/ SendPause \/ Vanish

Next == StartPool \/ Adapter \/ \E t \in Thread : Step(t)

Spec == Init /\ [][Next]_vars

-----------------------------------------------------------------------------
(* Properties *)

\* The types; a thread that runs the program has no slot.
TypeOK ==
    /\ pc \in [Thread -> {"unborn", "run", "claim", "loop", "return", "sleep",
                          "leave"}]
    /\ slotOf \in [Thread -> Slot \cup {0}]
    /\ owner \in [Slot -> Thread \cup {None}]
    /\ event \in [Slot -> BOOLEAN]
    /\ loopTid \in Thread \cup {None} /\ shown \in Thread \cup {None}
    /\ pauseTid \in Thread \cup {None}
    /\ {active, closed, pauseReq} \subseteq BOOLEAN
    /\ stepping \subseteq Thread
    /\ inbox \in Seq([op : {"continue", "step", "pause"},
                      arg : Thread \cup {None}, for : Thread \cup {None}])
    /\ granted \subseteq Thread
    /\ \A t \in Thread : pc[t] \in {"unborn", "run"} => slotOf[t] = 0

\* Only the thread named by hphl_dbg_loop_tid reads the pipe and may answer on
\* it: "the ONLY thread in the cmd_loop" (debug.c:95).
SoleReader ==
    \A t \in Thread : pc[t] \in {"loop", "return"} => loopTid = t

\* Between its stop and its departure a thread has one slot and no other thread
\* has that slot, so an event is always meant for one sleeper; a slot is never
\* left behind (hphl_dbg_do_pause).
SlotsExact ==
    /\ \A s \in Slot : owner[s] # None => slotOf[owner[s]] = s
    /\ \A t \in Thread : slotOf[t] # 0 => owner[slotOf[t]] = t
    /\ \A t \in Thread : pc[t] \in {"claim", "sleep", "leave"} => slotOf[t] # 0

\* A command that resumes a thread is not lost on one that has stopped but is
\* not asleep yet: until it leaves, its event stays signalled.
GrantsArrive ==
    \A t \in granted : pc[t] \in {"claim", "sleep"} => event[slotOf[t]]

\* A resume command in the pipe can only be read by the thread whose stop the
\* adapter was showing when it was sent.
Addressed ==
    \A i \in 1 .. Len(inbox) :
        inbox[i].op # "pause" => loopTid = inbox[i].for

\* A stop, its slot, its event and the command that ends it belong together.
StopsExact == TypeOK /\ SlotsExact /\ GrantsArrive /\ Addressed

-----------------------------------------------------------------------------
(* What the comments say, for runs that are violated *)

\* The stopped threads that wait are "woken only when a command resumes them"
\* (debug.c:96-97).
OnlyCommandsResume ==
    [][\A t \in Thread : Wake(t) => t \in granted]_vars

\* A thread stopped asleep can be resumed: some thread reads the pipe or is
\* about to, or its event is signalled; once the adapter is gone the program
\* "goes on without debugging" (debug.c:958).
NobodyStranded ==
    \A t \in Thread : pc[t] = "sleep" => event[slotOf[t]] \/ loopTid # None
=============================================================================
