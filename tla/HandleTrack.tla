---------------------------- MODULE HandleTrack ----------------------------
(***************************************************************************)
(* The table of open semaphores, events and barriers that                  *)
(* runtime/concurrency/concurrency.c keeps to close them at exit.          *)
(*                                                                         *)
(* Creating a primitive and entering it in the table are two steps, and so *)
(* are leaving the table and closing it; the table itself changes under    *)
(* hphl_handle_cs.  The system gives a closed handle value out again.      *)
(***************************************************************************)
EXTENDS Integers, SequencesExt, FiniteSets

CONSTANTS
    Thread,
    Handle,     \* values of handles, reused once closed
    Cap,        \* HPHL_HANDLE_TRACK_CAP
    None

HandleAssumption == Cap \in Nat \ {0} /\ None \notin Handle

VARIABLES
    live,       \* open handles, in the order of their creation
    table,      \* hphl_handle_track up to hphl_handle_count
    skipped,    \* handles that found the table full
    pc,         \* per thread: "idle", "add", "remove", "close"
    hand,       \* per thread: the handle of the call under way
    exiting,    \* hphl_handle_atexit has begun
    badClose    \* a value was closed that was not open

vars == <<live, table, skipped, pc, hand, exiting, badClose>>

Init ==
    /\ live = <<>> /\ table = <<>> /\ skipped = {}
    /\ pc = [t \in Thread |-> "idle"]
    /\ hand = [t \in Thread |-> None]
    /\ exiting = FALSE /\ badClose = FALSE

Goto(t, l, h) ==
    /\ pc' = [pc EXCEPT ![t] = l]
    /\ hand' = [hand EXCEPT ![t] = h]

CloseHandle(h) ==
    /\ badClose' = (badClose \/ h \notin Range(live))
    /\ \/ h \notin Range(live) /\ UNCHANGED live
       \/ \E i \in DOMAIN live : live[i] = h /\ live' = RemoveAt(live, i)

\* hphl_semaphore_new, hphl_event_new, hphl_barrier_new
New(t) ==
    /\ pc[t] = "idle" /\ ~exiting
    /\ \E h \in Handle \ Range(live) :
          /\ live' = Append(live, h)
          /\ Goto(t, "add", h)
    /\ UNCHANGED <<table, skipped, exiting, badClose>>

FullOffByOne == Len(table) > Cap                              \* a mutation
Full == Len(table) >= Cap

\* hphl_track_add
TrackAdd(t) ==
    /\ pc[t] = "add"
    /\ IF Full
       THEN skipped' = skipped \cup {hand[t]} /\ UNCHANGED table
       ELSE table' = Append(table, hand[t]) /\ UNCHANGED skipped
    /\ Goto(t, "idle", None)
    /\ UNCHANGED <<live, exiting, badClose>>

\* The calls of hphl_*_destroy: the program owns the handle and nobody else
\* is working on it.
AfterDestroyCloses == "close"                                 \* a mutation
AfterDestroy == "remove"

Destroy(t) ==
    /\ pc[t] = "idle" /\ ~exiting
    /\ \E h \in Range(live) \ Range(hand) : Goto(t, AfterDestroy, h)
    /\ UNCHANGED <<live, table, skipped, exiting, badClose>>

\* The last entry takes the place of the one removed.
WithoutShift(i) ==                                            \* a mutation
    Front(table)
Without(i) == Front([table EXCEPT ![i] = Last(table)])

\* hphl_track_remove
TrackRemove(t) ==
    /\ pc[t] = "remove"
    /\ \/ hand[t] \notin Range(table) /\ UNCHANGED table
       \/ \E i \in DOMAIN table : table[i] = hand[t] /\ table' = Without(i)
    /\ skipped' = skipped \ {hand[t]}
    /\ Goto(t, "close", hand[t])
    /\ UNCHANGED <<live, exiting, badClose>>

Close(t) ==
    /\ pc[t] = "close"
    /\ CloseHandle(hand[t])
    /\ Goto(t, "idle", None)
    /\ UNCHANGED <<table, skipped, exiting>>

\* hphl_handle_atexit, when Main has joined the tasks and ends: from the last
\* entry to the first.
Exit ==
    /\ ~exiting
    /\ \A t \in Thread : pc[t] = "idle"
    /\ exiting' = TRUE
    /\ UNCHANGED <<live, table, skipped, pc, hand, badClose>>

CloseLast ==
    /\ exiting /\ table # <<>>
    /\ CloseHandle(Last(table))
    /\ table' = Front(table)
    /\ UNCHANGED <<skipped, pc, hand, exiting>>

Next ==
    \/ \E t \in Thread :
          New(t) \/ TrackAdd(t) \/ Destroy(t) \/ TrackRemove(t) \/ Close(t)
    \/ Exit \/ CloseLast

Spec == Init /\ [][Next]_vars

-----------------------------------------------------------------------------
(* Properties *)

TypeOK ==
    /\ live \in Seq(Handle)
    /\ table \in Seq(Handle) /\ Len(table) <= Cap
    /\ skipped \subseteq Handle
    /\ pc \in [Thread -> {"idle", "add", "remove", "close"}]
    /\ hand \in [Thread -> Handle \cup {None}]
    /\ exiting \in BOOLEAN /\ badClose \in BOOLEAN

\* The handles in the hand of a thread between two of its steps.
InHand(l) == {hand[t] : t \in {u \in Thread : pc[u] = l}}

\* The table is exactly the open handles that were entered and not taken out,
\* each once, and never one whose value has been closed and given out again
\* (hphl_track_add, hphl_track_remove).
TableExact ==
    /\ IsInjective(table)
    /\ Range(table) =
          Range(live) \ (skipped \cup InHand("add") \cup InHand("close"))

\* Nothing is closed twice, and what is open when the exit is over is what did
\* not fit in the table (hphl_handle_atexit).
ClosedOnce ==
    /\ ~badClose
    /\ exiting /\ table = <<>> => Range(live) = skipped

\* What the exit closes is what is open, each handle once.
HandlesExact == TypeOK /\ TableExact /\ ClosedOnce

\* At exit the handles are closed in the inverse order of their creation
\* (concurrency.c:915-916).
ExitInReverse ==
    [][exiting /\ table # <<>> => Last(table) = Last(live)]_vars
=============================================================================
