--------------------------- MODULE SyncProofs ---------------------------
(***************************************************************************)
(* Proofs about the parts MCSync checks together, for every value of their *)
(* constants.  The barrier: for any number of threads and any Need the     *)
(* counter is exact, no wake-up is lost, and it implements BarrierRounds.  *)
(* The table of open handles: it holds exactly the handles that are open   *)
(* and were not skipped.  The ring of the task queue: it implements the    *)
(* FIFO queue as long as it is not asked to grow.  The ring of a channel:  *)
(* with one sender it implements the FIFO channel, growth included.  The   *)
(* table of a map: it implements a function.                               *)
(***************************************************************************)
EXTENDS MCSync, SeqLemmas, FiniteSetTheorems

\* No call is ahead of the barrier.
Behind == \A t \in Thread : pc[t] # "out" => gen[t] <= generation

IInv == TypeOK /\ NoLostWakeup /\ Behind

LEMMA HereFinite == IsFiniteSet(Here)
BY BarrierAssumption, FS_Subset DEF Here

\* The initial state satisfies the invariant.
LEMMA InitIInv == Init => IInv
<1> SUFFICES ASSUME Init PROVE IInv
  OBVIOUS
<1>1. Here = {}
  BY DEF Init, Here
<1>2. Cardinality(Here) = 0
  BY <1>1, FS_EmptySet
<1>3. TypeOK
  BY BarrierAssumption DEF Init, TypeOK
<1>4. NoLostWakeup
  BY <1>2 DEF Init, NoLostWakeup
<1> QED
  BY <1>3, <1>4 DEF Init, IInv, Behind

\* A thread that does not complete the group joins it.
LEMMA ArriveIInv ==
    ASSUME IInv, NEW t \in Thread, Arrive(t)
    PROVE  IInv' /\ Here' = Here \cup {t} /\ t \notin Here
           /\ Released' = Released /\ t \notin Released
<1> USE DEF IInv, TypeOK, Arrive
<1>1. t \notin Here /\ t \notin Released
  BY DEF Here, Released
<1>2. Here' = Here \cup {t} /\ Released' = Released
  BY DEF Here, Released
<1>3. Cardinality(Here') = Cardinality(Here) + 1
  BY <1>1, <1>2, HereFinite, FS_AddElement
<1>4. TypeOK'
  BY BarrierAssumption
<1>5. NoLostWakeup'
  BY <1>3 DEF NoLostWakeup
<1>6. Behind'
  BY DEF Behind
<1> QED
  BY <1>1, <1>2, <1>4, <1>5, <1>6

\* The last of a group releases all of it.
LEMMA CompleteIInv ==
    ASSUME IInv, NEW t \in Thread, Complete(t)
    PROVE  IInv' /\ Here' = {} /\ Released' = Released \cup Here
           /\ t \notin Here \cup Released
<1> USE DEF IInv, TypeOK, Complete, WakeAll
<1>1. t \notin Here \cup Released
  BY DEF Here, Released
<1>2. Here' = {}
  BY DEF Here, Behind
<1>3. Released' = Released \cup Here
  BY DEF Here, Released, Behind
<1>4. Cardinality(Here') = 0
  BY <1>2, FS_EmptySet
<1>5. TypeOK'
  BY BarrierAssumption
<1>6. NoLostWakeup'
  BY <1>4 DEF NoLostWakeup
<1>7. Behind'
  BY DEF Behind
<1> QED
  BY <1>1, <1>2, <1>3, <1>5, <1>6, <1>7

\* Only a released thread returns.
LEMMA ReturnIInv ==
    ASSUME IInv, NEW t \in Thread, Return(t)
    PROVE  IInv' /\ Here' = Here /\ Released' = Released \ {t}
           /\ t \in Released
<1> USE DEF IInv, TypeOK, Return, Open
<1>1. t \in Released
  BY DEF Released
<1>2. Here' = Here
  BY DEF Here
<1>3. Released' = Released \ {t}
  BY DEF Released
<1>4. TypeOK'
  OBVIOUS
<1>5. NoLostWakeup'
  BY <1>2 DEF NoLostWakeup
<1>6. Behind'
  BY DEF Behind
<1> QED
  BY <1>1, <1>2, <1>3, <1>4, <1>5, <1>6

\* Going back to sleep and waking for no reason change neither group.
LEMMA StayIInv ==
    ASSUME IInv, NEW t \in Thread, SleepAgain(t) \/ Spurious(t)
    PROVE  IInv' /\ UNCHANGED <<Here, Released>>
<1> USE DEF IInv, TypeOK, SleepAgain, Spurious, Open
<1>1. Here' = Here /\ Released' = Released
  BY DEF Here, Released
<1>2. TypeOK'
  OBVIOUS
<1>3. NoLostWakeup'
  BY <1>1 DEF NoLostWakeup
<1>4. Behind'
  BY DEF Behind
<1> QED
  BY <1>1, <1>2, <1>3, <1>4

LEMMA StutterIInv ==
    ASSUME IInv, UNCHANGED vars
    PROVE  IInv' /\ UNCHANGED <<Here, Released>>
BY DEF IInv, TypeOK, NoLostWakeup, Behind, Here, Released, vars

LEMMA NextIInv == IInv /\ [Next]_vars => IInv'
<1> SUFFICES ASSUME IInv, [Next]_vars PROVE IInv'
  OBVIOUS
<1>1. ASSUME NEW t \in Thread, Arrive(t) PROVE IInv'
  BY <1>1, ArriveIInv
<1>2. ASSUME NEW t \in Thread, Complete(t) PROVE IInv'
  BY <1>2, CompleteIInv
<1>3. ASSUME NEW t \in Thread, Return(t) PROVE IInv'
  BY <1>3, ReturnIInv
<1>4. ASSUME NEW t \in Thread, SleepAgain(t) \/ Spurious(t) PROVE IInv'
  BY <1>4, StayIInv
<1>5. CASE UNCHANGED vars
  BY <1>5, StutterIInv
<1> QED
  BY <1>1, <1>2, <1>3, <1>4, <1>5 DEF Next, Call

\* The invariant holds in every reachable state.
THEOREM BarrierInvariance == Spec => []IInv
BY InitIInv, NextIInv, PTL DEF Spec

\* No thread sleeps through the completion of its group, and the counter is
\* the number of threads that wait (hphl_barrier_wait).
THEOREM BarrierWakes == Spec => []NoLostWakeup
<1>1. IInv => NoLostWakeup
  BY DEF IInv
<1> QED
  BY <1>1, BarrierInvariance, PTL

\* A step of the barrier is a step of BarrierRounds or leaves it unchanged.
LEMMA StepRefines ==
    IInv /\ [Next]_vars => [Groups!Next]_<<Here, Released>>
<1> SUFFICES ASSUME IInv, [Next]_vars
             PROVE  Groups!Next \/ UNCHANGED <<Here, Released>>
  OBVIOUS
<1> USE DEF IInv, TypeOK, NoLostWakeup
<1>0. Groups!Cardinality(Here) = Cardinality(Here)
  BY DEF Groups!Cardinality, Cardinality
<1>1. ASSUME NEW t \in Thread, Arrive(t) PROVE Groups!Arrive(t)
  <2>1. Cardinality(Here) + 1 < Need
    BY <1>1, BarrierAssumption DEF Arrive
  <2> QED
    BY <1>0, <1>1, <2>1, ArriveIInv DEF Groups!Arrive
<1>2. ASSUME NEW t \in Thread, Complete(t) PROVE Groups!Complete(t)
  <2>1. Cardinality(Here) + 1 = Need
    BY <1>2 DEF Complete
  <2> QED
    BY <1>0, <1>2, <2>1, CompleteIInv DEF Groups!Complete
<1>3. ASSUME NEW t \in Thread, Return(t) PROVE Groups!Leave(t)
  BY <1>3, ReturnIInv DEF Groups!Leave
<1>4. ASSUME NEW t \in Thread, SleepAgain(t) \/ Spurious(t)
      PROVE  UNCHANGED <<Here, Released>>
  BY <1>4, StayIInv
<1>5. CASE UNCHANGED vars
  BY <1>5, StutterIInv
<1> QED
  BY <1>1, <1>2, <1>3, <1>4, <1>5 DEF Next, Call, Groups!Next

\* Threads leave the barrier in groups of Need, each after its whole group has
\* arrived (hphl_barrier_wait).
THEOREM BarrierRefines == Spec => ImplementsRounds
<1>1. Init => Groups!Init
  BY DEF Init, Groups!Init, Here, Released
<1> QED
  BY <1>1, StepRefines, BarrierInvariance, PTL
     DEF Spec, ImplementsRounds, Groups!Spec

-----------------------------------------------------------------------------
(* The table of open handles *)

\* A step of the run is a step of the handles or leaves them as they are.
LEMMA HandlesStep == SyncInit /\ [][SyncNext]_syncVars => H!Init /\ [][H!Next]_handles
<1>1. SyncInit => H!Init
  BY DEF SyncInit
<1>2. [SyncNext]_syncVars => [H!Next]_handles
  BY DEF SyncNext, BarrierStep, ChannelStep, syncVars, handles
<1> QED  BY <1>1, <1>2, PTL

\* The handles open, entered in the table, and in the hand of a thread at one
\* of the places of ls.
Alive == Range(live)
Entered == Range(table)
Held(ls) == {hand[t] : t \in {u \in Opener : hPc[u] \in ls}}
Places == {"idle", "add", "remove", "close"}

HandlesType ==
    /\ live \in Seq(Handle) /\ Distinct(live)
    /\ table \in Seq(Handle) /\ Distinct(table) /\ Len(table) <= TrackCap
    /\ hPc \in [Opener -> Places]
    /\ hand \in [Opener -> Handle \cup {None}]
    /\ exiting \in BOOLEAN /\ badClose = FALSE

\* A call works on one open handle, which no other call works on.
HandsOpen ==
    /\ \A t \in Opener : hPc[t] = "idle" <=> hand[t] = None
    /\ \A t \in Opener : hPc[t] # "idle" => hand[t] \in Alive
    /\ \A t, u \in Opener : hPc[t] # "idle" /\ hand[t] = hand[u] => t = u
    /\ exiting => \A t \in Opener : hPc[t] = "idle"

\* Every open handle is in the table, was skipped, or is on its way in or out.
Kept ==
    /\ Entered = Alive \ (skipped \cup Held({"add", "close"}))
    /\ skipped \subseteq Alive \ Held({"add", "close"})

HInv == HandlesType /\ HandsOpen /\ Kept

LEMMA InitHInv == H!Init => HInv
<1> SUFFICES ASSUME H!Init PROVE HInv
  OBVIOUS
<1> USE DEF H!Init
<1>1. <<>> \in Seq(Handle) /\ Len(<<>>) = 0 /\ DOMAIN <<>> = {}
  BY EmptySeq
<1>a. Distinct(live) /\ Distinct(table)
  BY <1>1 DEF Distinct
<1>b. Len(table) <= TrackCap
  BY <1>1, PartsAssumption DEF H!HandleAssumption
<1>2. HandlesType
  BY <1>1, <1>a, <1>b DEF HandlesType, Places
<1>3. Alive = {} /\ Entered = {}
  BY <1>1 DEF Alive, Entered, Range
<1>4. HandsOpen
  BY DEF HandsOpen
<1>5. Kept
  BY <1>3 DEF Kept
<1> QED  BY <1>2, <1>4, <1>5 DEF HInv

\* A call that creates a handle.
LEMMA NewHInv == ASSUME HInv, NEW t \in Opener, H!New(t) PROVE HInv'
<1> USE DEF HInv
<1>1. PICK h \in Handle \ Alive :
        live' = Append(live, h) /\ hPc' = [hPc EXCEPT ![t] = "add"] /\ hand' = [hand EXCEPT ![t] = h]
  BY DEF H!New, H!Goto, H!Range, Alive, Range
<1>2. /\ hPc[t] = "idle" /\ ~exiting /\ UNCHANGED <<table, skipped, exiting, badClose>>
  BY DEF H!New
<1>3. live' \in Seq(Handle) /\ Distinct(live') /\ Alive' = Alive \cup {h}
  <2>1. \A i \in 1 .. Len(live) : live[i] # h
    BY <1>1, LenProperties DEF Alive, Range, HandlesType
  <2> QED  BY <1>1, <2>1, AppendFacts, DistinctAppend, RangeAppend DEF HandlesType, Alive
<1>4. HandlesType'
  BY <1>1, <1>2, <1>3 DEF HandlesType, Places
<1>5. Entered' = Entered
  BY <1>2 DEF Entered
<1>6. Held({"add", "close"})' = Held({"add", "close"}) \cup {h}
  BY <1>1, <1>2 DEF Held, HandlesType
<1>7. HandsOpen'
  BY <1>1, <1>2, <1>3, PartsAssumption DEF HandsOpen, HandlesType, H!HandleAssumption
<1>8. Kept'
  BY <1>1, <1>2, <1>3, <1>5, <1>6 DEF Kept, HandsOpen
<1> QED  BY <1>4, <1>7, <1>8

\* hphl_track_add: the handle is entered, or skipped when the table is full.
LEMMA TrackAddHInv == ASSUME HInv, NEW t \in Opener, H!TrackAdd(t) PROVE HInv'
<1> USE DEF HInv
<1>1. /\ hPc[t] = "add" /\ UNCHANGED <<live, exiting, badClose>>
      /\ hPc' = [hPc EXCEPT ![t] = "idle"] /\ hand' = [hand EXCEPT ![t] = None]
  BY DEF H!TrackAdd, H!Goto
<1>2. /\ Alive' = Alive /\ hand[t] \in Handle /\ hand[t] \in Alive /\ hand[t] \notin Entered \cup skipped
      /\ None \notin Handle /\ Alive \subseteq Handle
  BY <1>1, PartsAssumption DEF Alive, HandsOpen, HandlesType, Kept, Held, H!HandleAssumption, Range, Places
<1>3. Held({"add", "close"})' = Held({"add", "close"}) \ {hand[t]}
  BY <1>1, <1>2 DEF Held, HandlesType, HandsOpen, Places
<1>4. HandsOpen'
  BY <1>1, <1>2 DEF HandsOpen, HandlesType, Places
<1>5. CASE skipped' = skipped \cup {hand[t]} /\ UNCHANGED table
  <2>1. HandlesType'
    BY <1>1, <1>5 DEF HandlesType, Places
  <2>2. Entered' = Entered
    BY <1>5 DEF Entered
  <2>3. Kept'
    BY <1>2, <1>3, <1>5, <2>2 DEF Kept
  <2> QED  BY <1>4, <2>1, <2>3
<1>6. CASE ~H!Full /\ table' = Append(table, hand[t]) /\ UNCHANGED skipped
  <2>1. \A i \in 1 .. Len(table) : table[i] # hand[t]
    BY <1>2, LenProperties DEF Entered, Range, HandlesType
  <2>a. table \in Seq(Handle) /\ Distinct(table) /\ Len(table) \in Nat
    BY LenProperties DEF HandlesType
  <2>2. /\ table' \in Seq(Handle) /\ Distinct(table') /\ Entered' = Entered \cup {hand[t]}
    BY <1>2, <1>6, <2>1, <2>a, AppendFacts, DistinctAppend, RangeAppend DEF Entered
  <2>b. Len(table') <= TrackCap
    <3>1. Len(table') = Len(table) + 1
      BY <1>2, <1>6, <2>a, AppendFacts
    <3> QED  BY <1>6, <2>a, <3>1, PartsAssumption DEF H!Full, H!HandleAssumption
  <2>3. HandlesType'
    BY <1>1, <2>2, <2>b DEF HandlesType, Places
  <2>4. Kept'
    BY <1>2, <1>3, <1>6, <2>2 DEF Kept
  <2> QED  BY <1>4, <2>3, <2>4
<1> QED  BY <1>5, <1>6 DEF H!TrackAdd

\* A call that destroys a handle begins.
LEMMA DestroyHInv == ASSUME HInv, NEW t \in Opener, H!Destroy(t) PROVE HInv'
<1> USE DEF HInv
<1>1. PICK h \in Alive :
        /\ \A u \in Opener : hand[u] # h
        /\ hPc' = [hPc EXCEPT ![t] = "remove"] /\ hand' = [hand EXCEPT ![t] = h]
  <2>1. PICK h \in H!Range(live) \ H!Range(hand) : H!Goto(t, "remove", h)
    BY DEF H!Destroy, H!AfterDestroy
  <2>2. h \in Alive
    BY DEF H!Range, Alive, Range
  <2>3. \A u \in Opener : hand[u] # h
    BY <2>1 DEF H!Range, HandlesType
  <2> QED  BY <2>1, <2>2, <2>3 DEF H!Goto
<1>2. /\ hPc[t] = "idle" /\ ~exiting /\ UNCHANGED <<live, table, skipped, exiting, badClose>>
  BY DEF H!Destroy
<1>3. h \in Handle
  BY DEF Alive, Range, HandlesType
<1>4. HandlesType'
  BY <1>1, <1>2, <1>3 DEF HandlesType, Places
<1>5. Alive' = Alive /\ Entered' = Entered
  BY <1>2 DEF Alive, Entered
<1>6. Held({"add", "close"})' = Held({"add", "close"})
  BY <1>1, <1>2 DEF Held, HandlesType
<1>7. HandsOpen'
  BY <1>1, <1>2, <1>3, <1>5, PartsAssumption DEF HandsOpen, HandlesType, H!HandleAssumption
<1>8. Kept'
  BY <1>2, <1>5, <1>6 DEF Kept
<1> QED  BY <1>4, <1>7, <1>8

\* hphl_track_remove: the last entry takes the place of the one removed.
LEMMA TrackRemoveHInv == ASSUME HInv, NEW t \in Opener, H!TrackRemove(t) PROVE HInv'
<1> USE DEF HInv
<1>1. /\ hPc[t] = "remove" /\ UNCHANGED <<live, exiting, badClose, hand>>
      /\ hPc' = [hPc EXCEPT ![t] = "close"] /\ skipped' = skipped \ {hand[t]}
  BY DEF H!TrackRemove, H!Goto, HandlesType
<1>2. /\ Alive' = Alive /\ hand[t] \in Alive
  BY <1>1 DEF Alive, HandsOpen
<1>3. Held({"add", "close"})' = Held({"add", "close"}) \cup {hand[t]}
  BY <1>1 DEF Held, HandlesType, Places
<1>4. HandsOpen'
  BY <1>1, <1>2 DEF HandsOpen, HandlesType, Places
<1>5. /\ table' \in Seq(Handle) /\ Distinct(table') /\ Len(table') <= TrackCap
      /\ Entered' = Entered \ {hand[t]}
  <2>a. table \in Seq(Handle) /\ Distinct(table) /\ Len(table) \in Nat /\ Len(table) <= TrackCap /\ TrackCap \in Nat
    BY LenProperties, PartsAssumption DEF HandlesType, H!HandleAssumption
  <2>1. CASE hand[t] \notin Entered /\ UNCHANGED table
    BY <2>a, <2>1 DEF Entered
  <2>2. ASSUME NEW i \in DOMAIN table, table[i] = hand[t], table' = H!Without(i)
        PROVE  /\ table' \in Seq(Handle) /\ Distinct(table') /\ Len(table') = Len(table) - 1
               /\ Entered' = Entered \ {hand[t]}
    <3>1. i \in 1 .. Len(table)
      BY <2>a, <2>2, LenProperties
    <3>2. table' = Front(ReplaceAt(table, i, Last(table)))
      BY <2>2 DEF H!Without, H!Front, H!Last, Front, Last, ReplaceAt
    <3> DEFINE r == Front(ReplaceAt(table, i, Last(table)))
    <3>3. /\ r \in Seq(Handle) /\ Distinct(r) /\ Len(r) = Len(table) - 1
          /\ Range(r) = Range(table) \ {table[i]}
      BY <2>a, <3>1, LastInPlaceFacts
    <3>4. Range(r) = Range(table) \ {hand[t]}
      BY <2>2, <3>3
    <3>5. table' = r
      BY <3>2
    <3> HIDE DEF r
    <3> QED  BY <3>3, <3>4, <3>5 DEF Entered
  <2>3. \/ hand[t] \notin Entered /\ UNCHANGED table
        \/ \E i \in DOMAIN table : table[i] = hand[t] /\ table' = H!Without(i)
    BY DEF H!TrackRemove, H!Range, Entered, Range
  <2> QED  BY <2>a, <2>1, <2>2, <2>3
<1>6. HandlesType'
  BY <1>1, <1>5 DEF HandlesType, Places
<1>7. Kept'
  BY <1>1, <1>2, <1>3, <1>5 DEF Kept
<1> QED  BY <1>4, <1>6, <1>7

\* Closing a handle that is open takes it out of the open ones.
LEMMA CloseHandleFacts ==
    ASSUME HandlesType, NEW h \in Alive, H!CloseHandle(h)
    PROVE  /\ badClose' = FALSE /\ live' \in Seq(Handle) /\ Distinct(live')
           /\ Alive' = Alive \ {h}
<1>1. PICK i \in DOMAIN live : live[i] = h /\ live' = RemoveAt(live, i)
  BY DEF H!CloseHandle, H!Range, H!RemoveAt, RemoveAt, Alive, Range
<1>2. live \in Seq(Handle) /\ Distinct(live) /\ i \in 1 .. Len(live)
  BY LenProperties DEF HandlesType
<1>3. badClose' = FALSE
  BY DEF H!CloseHandle, H!Range, Alive, Range, HandlesType
<1> QED  BY <1>1, <1>2, <1>3, RemoveAtFacts, DistinctRemoveAt, RangeRemoveAt DEF Alive

\* The end of a call that destroys a handle.
LEMMA CloseHInv == ASSUME HInv, NEW t \in Opener, H!Close(t) PROVE HInv'
<1> USE DEF HInv
<1>1. /\ hPc[t] = "close" /\ UNCHANGED <<table, skipped, exiting>>
      /\ hPc' = [hPc EXCEPT ![t] = "idle"] /\ hand' = [hand EXCEPT ![t] = None]
      /\ H!CloseHandle(hand[t])
  BY DEF H!Close, H!Goto
<1>2. hand[t] \in Alive /\ hand[t] \notin Entered \cup skipped /\ None \notin Alive
  BY <1>1, PartsAssumption DEF Alive, HandsOpen, HandlesType, Kept, Held, H!HandleAssumption, Range, Places
<1>3. /\ badClose' = FALSE /\ live' \in Seq(Handle) /\ Distinct(live')
      /\ Alive' = Alive \ {hand[t]} /\ Entered' = Entered
  BY <1>1, <1>2, CloseHandleFacts DEF Entered
<1>4. Held({"add", "close"})' = Held({"add", "close"}) \ {hand[t]}
  BY <1>1, <1>2 DEF Held, HandlesType, HandsOpen, Places
<1>5. HandlesType'
  BY <1>1, <1>3 DEF HandlesType, Places
<1>6. HandsOpen'
  BY <1>1, <1>2, <1>3 DEF HandsOpen, HandlesType, Places
<1>7. Kept'
  BY <1>1, <1>2, <1>3, <1>4 DEF Kept
<1> QED  BY <1>5, <1>6, <1>7

LEMMA ExitHInv == ASSUME HInv, H!Exit PROVE HInv'
BY DEF HInv, HandlesType, HandsOpen, Kept, Alive, Entered, Held, H!Exit

\* hphl_handle_atexit closes the last entry.
LEMMA CloseLastHInv == ASSUME HInv, H!CloseLast PROVE HInv'
<1> USE DEF HInv
<1>1. /\ exiting /\ table # <<>> /\ UNCHANGED <<skipped, hPc, hand, exiting>>
      /\ H!CloseHandle(Last(table)) /\ table' = Front(table)
  BY DEF H!CloseLast, H!Last, H!Front, Last, Front
<1>2. /\ table' \in Seq(Handle) /\ Distinct(table') /\ Len(table') = Len(table) - 1
      /\ Last(table) \in Entered /\ Entered' = Entered \ {Last(table)}
  BY <1>1, FrontFacts, RangeFront DEF HandlesType, Entered
<1>3. Last(table) \in Alive \ skipped
  BY <1>2 DEF Kept
<1>4. /\ badClose' = FALSE /\ live' \in Seq(Handle) /\ Distinct(live')
      /\ Alive' = Alive \ {Last(table)}
  BY <1>1, <1>3, CloseHandleFacts
<1>5. Len(table') <= TrackCap
  <2>1. Len(table) \in Nat /\ Len(table) <= TrackCap /\ TrackCap \in Nat
    BY LenProperties, PartsAssumption DEF HandlesType, H!HandleAssumption
  <2> QED  BY <1>2, <2>1
<1>6. HandlesType'
  BY <1>1, <1>2, <1>4, <1>5 DEF HandlesType
<1>7. Held({"add", "close"})' = Held({"add", "close"}) /\ Held({"add", "close"}) = {}
  BY <1>1 DEF Held, HandsOpen
<1>8. HandsOpen'
  BY <1>1, <1>4 DEF HandsOpen
<1>9. Kept'
  BY <1>1, <1>2, <1>3, <1>4, <1>7 DEF Kept
<1> QED  BY <1>6, <1>8, <1>9

LEMMA NextHInv == HInv /\ [H!Next]_handles => HInv'
<1> SUFFICES ASSUME HInv, [H!Next]_handles PROVE HInv'
  OBVIOUS
<1>1. CASE UNCHANGED handles
  BY <1>1 DEF HInv, HandlesType, HandsOpen, Kept, Alive, Entered, Held, handles
<1> QED  BY <1>1, NewHInv, TrackAddHInv, DestroyHInv, TrackRemoveHInv, CloseHInv, ExitHInv, CloseLastHInv
            DEF H!Next

\* The table of open handles is exact and every handle is closed once, for any
\* number of threads and handles and any size of the table.
THEOREM HandlesKept == SyncSpec => []HandlesExact
<1>1. HInv => HandlesExact
  <2> SUFFICES ASSUME HInv PROVE HandlesExact
    OBVIOUS
  <2> USE DEF HInv
  <2>1. Alive \subseteq Handle
    BY DEF Alive, Range, HandlesType
  <2>2. H!TypeOK
    BY <2>1 DEF H!TypeOK, HandlesType, Kept, Places
  <2>3. H!Range(live) = Alive /\ H!Range(table) = Entered
    BY DEF H!Range, Alive, Entered, Range
  <2>4. H!InHand("add") \cup H!InHand("close") = Held({"add", "close"})
    BY DEF H!InHand, Held
  <2>5. H!TableExact
    <3>1. H!IsInjective(table)
      BY LenProperties DEF H!IsInjective, HandlesType, Distinct
    <3> QED  BY <2>3, <2>4, <3>1 DEF H!TableExact, Kept
  <2>6. H!ClosedOnce
    <3>1. ASSUME exiting, table = <<>> PROVE Alive = skipped
      <4>1. Held({"add", "close"}) = {}
        BY <3>1 DEF Held, HandsOpen
      <4>2. Entered = {}
        BY <3>1, EmptySeq DEF Entered, Range
      <4> QED  BY <4>1, <4>2 DEF Kept
    <3> QED  BY <2>3, <3>1 DEF H!ClosedOnce, HandlesType
  <2> QED  BY <2>2, <2>5, <2>6 DEF HandlesExact, H!HandlesExact
<1> QED  BY <1>1, InitHInv, NextHInv, HandlesStep, PTL DEF SyncSpec

-----------------------------------------------------------------------------
(* The ring of the task queue *)

\* The place j steps after h in a ring of c slots.
Turn(h, j, c) == (h + j) % c

LEMMA TurnFacts ==
    ASSUME NEW c \in Nat \ {0}, NEW h \in 0 .. c - 1, NEW j \in 0 .. c
    PROVE  /\ Turn(h, j, c) \in 0 .. c - 1
           /\ h + j < c => Turn(h, j, c) = h + j
           /\ h + j >= c => Turn(h, j, c) = h + j - c
<1>1. CASE h + j < c
  <2>1. h + j \in Nat /\ (h + j) % c = h + j
    BY <1>1
  <2> QED  BY <1>1, <2>1 DEF Turn
<1>2. CASE h + j >= c
  <2>1. h + j \in c .. 2 * c - 1 /\ (h + j) % c = h + j - c
    BY <1>2
  <2> QED  BY <1>2, <2>1 DEF Turn
<1> QED  BY <1>1, <1>2

\* Two steps of a walk, and the step back.
LEMMA TurnTwice ==
    ASSUME NEW c \in Nat \ {0}, NEW h \in 0 .. c - 1, NEW j \in 0 .. c - 1
    PROVE  /\ Turn(Turn(h, 1, c), j, c) = Turn(h, j + 1, c)
           /\ Turn(Turn(h, j, c), 1, c) = Turn(h, j + 1, c)
           /\ (Turn(h, j + 1, c) - 1 + c) % c = Turn(h, j, c)
<1>1. 1 \in 0 .. c /\ j \in 0 .. c /\ j + 1 \in 0 .. c
  OBVIOUS
<1> DEFINE a == Turn(h, 1, c)
           b == Turn(h, j, c)
           d == Turn(h, j + 1, c)
<1>2. /\ a \in 0 .. c - 1
      /\ h + 1 < c => a = h + 1
      /\ h + 1 >= c => a = h + 1 - c
  BY <1>1, TurnFacts
<1>3. /\ b \in 0 .. c - 1
      /\ h + j < c => b = h + j
      /\ h + j >= c => b = h + j - c
  BY <1>1, TurnFacts
<1>4. /\ d \in 0 .. c - 1
      /\ h + (j + 1) < c => d = h + (j + 1)
      /\ h + (j + 1) >= c => d = h + (j + 1) - c
  BY <1>1, TurnFacts
<1> HIDE DEF a, b, d
<1>5. /\ a + j < c => Turn(a, j, c) = a + j
      /\ a + j >= c => Turn(a, j, c) = a + j - c
  BY <1>1, <1>2, TurnFacts
<1>6. /\ b + 1 < c => Turn(b, 1, c) = b + 1
      /\ b + 1 >= c => Turn(b, 1, c) = b + 1 - c
  BY <1>1, <1>3, TurnFacts
<1>7. Turn(a, j, c) = d
  BY <1>2, <1>4, <1>5
<1>8. Turn(b, 1, c) = d
  BY <1>3, <1>4, <1>6
<1>9. (d - 1 + c) % c = b
  <2>1. CASE d = 0
    <3>1. b = c - 1 /\ d - 1 + c = c - 1
      BY <1>3, <1>4, <2>1
    <3>2. (c - 1) % c = c - 1
      OBVIOUS
    <3> QED  BY <3>1, <3>2
  <2>2. CASE d > 0
    <3>1. b = d - 1 /\ d - 1 + c \in c .. 2 * c - 1
      BY <1>3, <1>4, <2>2
    <3>2. \A n \in c .. 2 * c - 1 : n % c = n - c
      OBVIOUS
    <3> QED  BY <1>4, <3>1, <3>2
  <2> QED  BY <1>4, <2>1, <2>2
<1> QED  BY <1>7, <1>8, <1>9 DEF a, b, d

\* No place comes twice in one round.
LEMMA TurnOnce ==
    ASSUME NEW c \in Nat \ {0}, NEW h \in 0 .. c - 1,
           NEW i \in 0 .. c - 1, NEW j \in 0 .. c - 1
    PROVE  Turn(h, i, c) = Turn(h, j, c) => i = j
<1>1. /\ Turn(h, i, c) \in 0 .. c - 1
      /\ h + i < c => Turn(h, i, c) = h + i
      /\ h + i >= c => Turn(h, i, c) = h + i - c
  BY TurnFacts
<1>2. /\ Turn(h, j, c) \in 0 .. c - 1
      /\ h + j < c => Turn(h, j, c) = h + j
      /\ h + j >= c => Turn(h, j, c) = h + j - c
  BY TurnFacts
<1> QED  BY <1>1, <1>2

\* Without more pending tasks than the first ring has slots it never grows.
RingFits == MaxLive <= RingCap

RInv ==
    /\ cap = RingCap /\ slots \in [0 .. cap - 1 -> Task \cup {NoTask}]
    /\ rHead \in 0 .. cap - 1 /\ rCount \in 0 .. cap /\ rTail = Turn(rHead, rCount, cap)
    /\ \A j \in 0 .. rCount - 1 : slots[Turn(rHead, j, cap)] \in Task

\* The queue is a sequence of tasks.
WindowIs ==
    /\ cap \in Nat \ {0} /\ rCount \in Nat
    /\ R!Window \in Seq(Task) /\ Len(R!Window) = rCount
    /\ \A i \in 1 .. rCount : R!Window[i] = slots[Turn(rHead, i - 1, cap)]

LEMMA WindowFacts == RInv => WindowIs
<1> SUFFICES ASSUME RInv PROVE WindowIs
  OBVIOUS
<1>1. cap \in Nat \ {0} /\ rCount \in Nat
  BY PartsAssumption DEF RInv, R!RingAssumption
<1>2. \A i \in 1 .. rCount : slots[Turn(rHead, i - 1, cap)] \in Task
  <2> SUFFICES ASSUME NEW i \in 1 .. rCount PROVE slots[Turn(rHead, i - 1, cap)] \in Task
    OBVIOUS
  <2>1. i - 1 \in 0 .. rCount - 1
    BY <1>1
  <2> QED  BY <2>1 DEF RInv
<1>3. R!Window = [i \in 1 .. rCount |-> slots[Turn(rHead, i - 1, cap)]]
  BY DEF R!Window, R!At, Turn
<1>4. R!Window \in [1 .. rCount -> Task]
  BY <1>2, <1>3
<1>5. R!Window \in Seq(Task) /\ Len(R!Window) = rCount
  BY <1>1, <1>4, SeqDef, LenProperties
<1> QED  BY <1>1, <1>3, <1>5 DEF WindowIs

LEMMA WindowFactsNext == RInv' => WindowIs'
BY WindowFacts, PTL

\* hphl_ensure_pool
LEMMA InitRInv == R!Init => RInv /\ R!Fifo!Init
<1> SUFFICES ASSUME R!Init PROVE RInv /\ R!Fifo!Init
  OBVIOUS
<1> USE DEF R!Init
<1>1. RingCap \in Nat \ {0} /\ NoTask \notin Task
  BY PartsAssumption DEF R!RingAssumption
<1>2. Turn(0, 0, RingCap) = 0
  BY <1>1, TurnFacts
<1>3. RInv
  BY <1>1, <1>2 DEF RInv
<1>4. R!Window = <<>>
  BY <1>3, WindowFacts, EmptySeq DEF WindowIs
<1> QED  BY <1>1, <1>3, <1>4 DEF R!Fifo!Init

\* A worker takes the oldest task.
LEMMA PopRInv == ASSUME RInv, R!Pop PROVE RInv' /\ R!Fifo!Dequeue
<1> DEFINE h == Turn(rHead, 1, cap)
<1>1. /\ cap \in Nat \ {0} /\ rCount \in Nat /\ rCount > 0 /\ rCount <= cap
      /\ rHead \in 0 .. cap - 1 /\ rTail = Turn(rHead, rCount, cap)
  BY WindowFacts DEF R!Pop, RInv, WindowIs
<1>2. /\ UNCHANGED <<slots, cap, rTail>> /\ taken' = slots[rHead]
      /\ rHead' = h /\ rCount' = rCount - 1
  BY DEF R!Pop, Turn
<1>3. h \in 0 .. cap - 1 /\ Turn(rHead, 0, cap) = rHead
  <2>1. 0 \in 0 .. cap /\ 1 \in 0 .. cap /\ rHead + 0 < cap /\ rHead + 0 = rHead
    BY <1>1
  <2> QED  BY <1>1, <2>1, TurnFacts
<1>4. \A j \in 0 .. cap - 1 : Turn(h, j, cap) = Turn(rHead, j + 1, cap)
  BY <1>1, TurnTwice
<1> HIDE DEF h
<1>5. rTail' = Turn(rHead', rCount', cap')
  <2>1. rCount - 1 \in 0 .. cap - 1 /\ rCount - 1 + 1 = rCount
    BY <1>1
  <2> QED  BY <1>1, <1>2, <1>4, <2>1
<1>6. \A j \in 0 .. rCount - 2 : slots[Turn(h, j, cap)] \in Task
  <2> SUFFICES ASSUME NEW j \in 0 .. rCount - 2 PROVE slots[Turn(h, j, cap)] \in Task
    OBVIOUS
  <2>1. j \in 0 .. cap - 1 /\ j + 1 \in 0 .. rCount - 1
    BY <1>1
  <2> QED  BY <1>4, <2>1 DEF RInv
<1>7. RInv'
  <2>1. rCount' \in 0 .. cap' /\ rCount' - 1 = rCount - 2
    BY <1>1, <1>2
  <2> QED  BY <1>1, <1>2, <1>3, <1>5, <1>6, <2>1 DEF RInv
<1>8. R!Window' = Tail(R!Window) /\ R!Window # <<>> /\ taken' = Head(R!Window)
  <2>1. /\ R!Window \in Seq(Task) /\ Len(R!Window) = rCount
        /\ \A i \in 1 .. rCount : R!Window[i] = slots[Turn(rHead, i - 1, cap)]
    BY WindowFacts DEF WindowIs
  <2>2. /\ R!Window' \in Seq(Task) /\ Len(R!Window') = rCount - 1
        /\ \A i \in 1 .. rCount - 1 : R!Window'[i] = slots[Turn(h, i - 1, cap)]
    BY <1>2, <1>7, WindowFactsNext DEF WindowIs
  <2>3. R!Window # <<>>
    BY <1>1, <2>1, EmptySeq
  <2>4. /\ Tail(R!Window) \in Seq(Task) /\ Len(Tail(R!Window)) = rCount - 1
        /\ Head(R!Window) = R!Window[1]
        /\ \A i \in 1 .. rCount - 1 : Tail(R!Window)[i] = R!Window[i + 1]
    BY <2>1, <2>3, TailFacts
  <2>5. \A i \in 1 .. rCount - 1 : R!Window'[i] = Tail(R!Window)[i]
    <3> SUFFICES ASSUME NEW i \in 1 .. rCount - 1 PROVE R!Window'[i] = Tail(R!Window)[i]
      OBVIOUS
    <3>1. i - 1 \in 0 .. cap - 1 /\ i - 1 + 1 = i /\ i + 1 \in 1 .. rCount /\ i + 1 - 1 = i
      BY <1>1
    <3>2. R!Window'[i] = slots[Turn(rHead, i, cap)]
      BY <1>4, <2>2, <3>1
    <3>3. R!Window[i + 1] = slots[Turn(rHead, i, cap)]
      BY <2>1, <3>1
    <3> QED  BY <2>4, <3>2, <3>3
  <2>6. R!Window' = Tail(R!Window)
    BY <2>2, <2>4, <2>5, SeqEqual
  <2>7. R!Window[1] = slots[rHead]
    <3>1. 1 \in 1 .. rCount /\ 1 - 1 = 0
      BY <1>1
    <3> QED  BY <1>3, <2>1, <3>1
  <2> QED  BY <1>2, <2>3, <2>4, <2>6, <2>7
<1> QED  BY <1>7, <1>8 DEF R!Fifo!Dequeue

\* A spawn puts a task at the end.
LEMMA PushRInv == ASSUME RingFits, RInv, NEW t \in Task, R!Push(t) PROVE RInv' /\ R!Fifo!Enqueue(t)
<1>1. /\ cap \in Nat \ {0} /\ rCount \in Nat /\ rCount < cap
      /\ rHead \in 0 .. cap - 1 /\ rTail = Turn(rHead, rCount, cap)
  BY WindowFacts, PartsAssumption DEF WindowIs, R!Push, RInv, RingFits, R!RingAssumption
<1>2. /\ UNCHANGED <<cap, rHead, taken>> /\ rCount' = rCount + 1
      /\ slots' = [slots EXCEPT ![rTail] = t] /\ rTail' = Turn(rTail, 1, cap)
  <2>1. ~(rCount >= cap)
    BY <1>1
  <2> QED  BY <2>1 DEF R!Push, Turn
<1>3. rTail' = Turn(rHead', rCount', cap')
  <2>1. rCount \in 0 .. cap - 1
    BY <1>1
  <2>2. Turn(Turn(rHead, rCount, cap), 1, cap) = Turn(rHead, rCount + 1, cap)
    BY <1>1, <2>1, TurnTwice
  <2> QED  BY <1>1, <1>2, <2>2
<1>4. rTail \in 0 .. cap - 1 /\ slots \in [0 .. cap - 1 -> Task \cup {NoTask}]
  <2>1. rCount \in 0 .. cap
    BY <1>1
  <2> QED  BY <1>1, <2>1, TurnFacts DEF RInv
<1>5. ASSUME NEW j \in 0 .. rCount - 1
      PROVE  Turn(rHead, j, cap) \in 0 .. cap - 1 /\ Turn(rHead, j, cap) # rTail
  <2>1. j \in 0 .. cap - 1 /\ j \in 0 .. cap /\ rCount \in 0 .. cap - 1 /\ j # rCount
    BY <1>1
  <2> QED  BY <1>1, <2>1, TurnFacts, TurnOnce
<1>6. /\ slots' \in [0 .. cap - 1 -> Task \cup {NoTask}] /\ slots'[rTail] = t
      /\ \A j \in 0 .. rCount - 1 : slots'[Turn(rHead, j, cap)] = slots[Turn(rHead, j, cap)]
  BY <1>2, <1>4, <1>5
<1>7. RInv'
  <2>1. \A j \in 0 .. rCount : slots'[Turn(rHead, j, cap)] \in Task
    <3> SUFFICES ASSUME NEW j \in 0 .. rCount PROVE slots'[Turn(rHead, j, cap)] \in Task
      OBVIOUS
    <3>1. CASE j < rCount
      <4>1. j \in 0 .. rCount - 1
        BY <1>1, <3>1
      <4> QED  BY <1>6, <4>1 DEF RInv
    <3>2. CASE ~(j < rCount)
      <4>1. j = rCount
        BY <1>1, <3>2
      <4> QED  BY <1>1, <1>6, <4>1
    <3> QED  BY <3>1, <3>2
  <2>2. rCount' \in 0 .. cap' /\ rCount' - 1 = rCount
    BY <1>1, <1>2
  <2>3. cap' = RingCap
    BY <1>2 DEF RInv
  <2> QED  BY <1>1, <1>2, <1>3, <1>6, <2>1, <2>2, <2>3 DEF RInv
<1>8. R!Window' = Append(R!Window, t)
  <2>1. /\ R!Window \in Seq(Task) /\ Len(R!Window) = rCount
        /\ \A i \in 1 .. rCount : R!Window[i] = slots[Turn(rHead, i - 1, cap)]
    BY WindowFacts DEF WindowIs
  <2>2. /\ R!Window' \in Seq(Task) /\ Len(R!Window') = rCount + 1
        /\ \A i \in 1 .. rCount + 1 : R!Window'[i] = slots'[Turn(rHead, i - 1, cap)]
    BY <1>2, <1>7, WindowFactsNext DEF WindowIs
  <2>3. /\ Append(R!Window, t) \in Seq(Task) /\ Len(Append(R!Window, t)) = rCount + 1
        /\ \A i \in 1 .. rCount : Append(R!Window, t)[i] = R!Window[i]
        /\ Append(R!Window, t)[rCount + 1] = t
    BY <2>1, AppendFacts
  <2>4. \A i \in 1 .. rCount + 1 : R!Window'[i] = Append(R!Window, t)[i]
    <3> SUFFICES ASSUME NEW i \in 1 .. rCount + 1 PROVE R!Window'[i] = Append(R!Window, t)[i]
      OBVIOUS
    <3>1. CASE i <= rCount
      <4>1. i \in 1 .. rCount /\ i - 1 \in 0 .. rCount - 1
        BY <1>1, <3>1
      <4> QED  BY <1>6, <2>1, <2>2, <2>3, <4>1
    <3>2. CASE ~(i <= rCount)
      <4>1. i = rCount + 1 /\ i - 1 = rCount
        BY <1>1, <3>2
      <4> QED  BY <1>1, <1>6, <2>2, <2>3, <4>1
    <3> QED  BY <3>1, <3>2
  <2> QED  BY <2>2, <2>3, <2>4, SeqEqual
<1>9. t \notin R!Fifo!Queued
  BY DEF R!Push, R!Pending, R!Fifo!Queued, R!ToSet, R!Fifo!ToSet
<1> QED  BY <1>2, <1>7, <1>8, <1>9 DEF R!Fifo!Enqueue

\* hphl_wait_task takes a task out of the middle.
LEMMA TakeRInv == ASSUME RInv, NEW t \in Task, R!Take(t) PROVE RInv' /\ R!Fifo!Withdraw(t)
<1> DEFINE at(j) == Turn(rHead, j, cap)
           last == at(rCount - 1)
<1>1. /\ cap \in Nat \ {0} /\ rCount \in Nat /\ rCount <= cap /\ rHead \in 0 .. cap - 1
      /\ rTail = at(rCount) /\ slots \in [0 .. cap - 1 -> Task \cup {NoTask}]
  BY WindowFacts DEF WindowIs, RInv
<1>2. PICK i \in 0 .. rCount - 1 :
        /\ slots[at(i)] = t
        /\ slots' = [k \in 0 .. cap - 1 |->
                       CASE k = R!Back -> NoTask
                         [] k # R!Back /\ k \in R!Shifted(i) -> slots[Turn(k, 1, cap)]
                         [] OTHER -> slots[k]]
  BY DEF R!Take, R!At, Turn
<1>3. /\ UNCHANGED <<cap, rHead>> /\ rTail' = R!Back /\ taken' = t /\ rCount' = rCount - 1
  BY DEF R!Take
<1>4. rCount - 1 \in 0 .. cap - 1 /\ rCount - 1 + 1 = rCount
  BY <1>1, <1>2
<1>5. R!Back = last
  BY <1>1, <1>4, TurnTwice DEF R!Back
<1>6. \A j \in 0 .. rCount - 1 : at(j) \in 0 .. cap - 1
  <2> SUFFICES ASSUME NEW j \in 0 .. rCount - 1 PROVE at(j) \in 0 .. cap - 1
    OBVIOUS
  <2>1. j \in 0 .. cap
    BY <1>1
  <2> QED  BY <1>1, <2>1, TurnFacts
<1>7. \A j, k \in 0 .. rCount - 1 : at(j) = at(k) => j = k
  <2> SUFFICES ASSUME NEW j \in 0 .. rCount - 1, NEW k \in 0 .. rCount - 1
               PROVE  at(j) = at(k) => j = k
    OBVIOUS
  <2>1. j \in 0 .. cap - 1 /\ k \in 0 .. cap - 1
    BY <1>1
  <2> QED  BY <1>1, <2>1, TurnOnce
<1>8. \A j \in 0 .. rCount - 2 : Turn(at(j), 1, cap) = at(j + 1)
  <2> SUFFICES ASSUME NEW j \in 0 .. rCount - 2 PROVE Turn(at(j), 1, cap) = at(j + 1)
    OBVIOUS
  <2>1. j \in 0 .. cap - 1
    BY <1>1
  <2> QED  BY <1>1, <2>1, TurnTwice
<1>9. R!Shifted(i) = {at(j) : j \in i .. rCount - 2}
  BY DEF R!Shifted, R!At, Turn
<1> HIDE DEF at
<1>10. ASSUME NEW j \in 0 .. rCount - 2, j < i PROVE slots'[at(j)] = slots[at(j)]
  <2>1. j \in 0 .. rCount - 1 /\ rCount - 1 \in 0 .. rCount - 1 /\ j # rCount - 1
    BY <1>1
  <2>2. at(j) # last
    BY <1>7, <2>1
  <2>3. at(j) \notin R!Shifted(i)
    <3> SUFFICES ASSUME NEW k \in i .. rCount - 2 PROVE at(j) # at(k)
      BY <1>9
    <3>1. k \in 0 .. rCount - 1 /\ j # k
      BY <1>1, <1>2, <1>10
    <3> QED  BY <1>7, <2>1, <3>1
  <2>4. at(j) \in 0 .. cap - 1
    BY <1>6, <2>1
  <2> QED  BY <1>2, <1>5, <2>2, <2>3, <2>4
<1>11. ASSUME NEW j \in 0 .. rCount - 2, ~(j < i) PROVE slots'[at(j)] = slots[at(j + 1)]
  <2>1. j \in 0 .. rCount - 1 /\ rCount - 1 \in 0 .. rCount - 1 /\ j # rCount - 1 /\ j \in i .. rCount - 2
    BY <1>1, <1>2, <1>11
  <2>2. at(j) # last
    BY <1>7, <2>1
  <2>3. at(j) \in R!Shifted(i)
    BY <1>9, <2>1
  <2>4. at(j) \in 0 .. cap - 1
    BY <1>6, <2>1
  <2>5. slots'[at(j)] = slots[Turn(at(j), 1, cap)]
    BY <1>2, <1>5, <2>2, <2>3, <2>4
  <2> QED  BY <1>8, <2>5
<1>12. slots' \in [0 .. cap - 1 -> Task \cup {NoTask}]
  <2>1. ASSUME NEW k \in 0 .. cap - 1 PROVE slots'[k] \in Task \cup {NoTask}
    <3>1. Turn(k, 1, cap) \in 0 .. cap - 1
      <4>1. 1 \in 0 .. cap
        BY <1>1
      <4> QED  BY <1>1, <4>1, TurnFacts
    <3>2. slots[k] \in Task \cup {NoTask} /\ slots[Turn(k, 1, cap)] \in Task \cup {NoTask}
      BY <1>1, <3>1
    <3> QED  BY <1>2, <3>2
  <2> QED  BY <1>2, <2>1
<1>13. RInv'
  <2>1. \A j \in 0 .. rCount - 2 : slots'[at(j)] \in Task
    <3> SUFFICES ASSUME NEW j \in 0 .. rCount - 2 PROVE slots'[at(j)] \in Task
      OBVIOUS
    <3>1. j \in 0 .. rCount - 1 /\ j + 1 \in 0 .. rCount - 1
      BY <1>1
    <3>2. slots[at(j)] \in Task /\ slots[at(j + 1)] \in Task
      BY <3>1 DEF RInv, at
    <3> QED  BY <1>10, <1>11, <3>2
  <2>2. last \in 0 .. cap - 1 /\ rCount' \in 0 .. cap' /\ rCount' - 1 = rCount - 2 /\ rCount - 1 \in 0 .. rCount - 1
    BY <1>1, <1>3, <1>4, <1>6
  <2>3. rTail' = Turn(rHead', rCount', cap')
    BY <1>3, <1>5 DEF at
  <2>4. \A j \in 0 .. rCount' - 1 : slots'[Turn(rHead', j, cap')] \in Task
    BY <1>3, <2>1, <2>2 DEF at
  <2>5. cap' = RingCap
    BY <1>3 DEF RInv
  <2> QED  BY <1>1, <1>3, <1>12, <2>2, <2>3, <2>4, <2>5 DEF RInv
<1>14. R!Window[i + 1] = t /\ R!Window' = RemoveAt(R!Window, i + 1)
  <2>1. /\ R!Window \in Seq(Task) /\ Len(R!Window) = rCount
        /\ \A k \in 1 .. rCount : R!Window[k] = slots[at(k - 1)]
    BY WindowFacts DEF WindowIs, at
  <2>2. /\ R!Window' \in Seq(Task) /\ Len(R!Window') = rCount - 1
        /\ \A k \in 1 .. rCount - 1 : R!Window'[k] = slots'[at(k - 1)]
    BY <1>3, <1>13, WindowFactsNext DEF WindowIs, at
  <2>3. i + 1 \in 1 .. rCount /\ i + 1 - 1 = i
    BY <1>1, <1>2
  <2>4. /\ RemoveAt(R!Window, i + 1) \in Seq(Task) /\ Len(RemoveAt(R!Window, i + 1)) = rCount - 1
        /\ \A k \in 1 .. rCount - 1 :
             RemoveAt(R!Window, i + 1)[k] = IF k < i + 1 THEN R!Window[k] ELSE R!Window[k + 1]
    BY <2>1, <2>3, RemoveAtFacts
  <2>5. \A k \in 1 .. rCount - 1 : R!Window'[k] = RemoveAt(R!Window, i + 1)[k]
    <3> SUFFICES ASSUME NEW k \in 1 .. rCount - 1 PROVE R!Window'[k] = RemoveAt(R!Window, i + 1)[k]
      OBVIOUS
    <3>1. k - 1 \in 0 .. rCount - 2 /\ k \in 1 .. rCount /\ k + 1 \in 1 .. rCount /\ k + 1 - 1 = k - 1 + 1
      BY <1>1
    <3>2. CASE k < i + 1
      <4>1. k - 1 < i
        BY <1>2, <3>2
      <4>2. slots'[at(k - 1)] = slots[at(k - 1)]
        BY <1>10, <3>1, <4>1
      <4> QED  BY <2>1, <2>2, <2>4, <3>1, <3>2, <4>2
    <3>3. CASE ~(k < i + 1)
      <4>1. ~(k - 1 < i)
        BY <1>2, <3>3
      <4>2. slots'[at(k - 1)] = slots[at(k - 1 + 1)]
        BY <1>11, <3>1, <4>1
      <4>3. R!Window[k + 1] = slots[at(k - 1 + 1)]
        BY <2>1, <3>1
      <4> QED  BY <2>2, <2>4, <3>3, <4>2, <4>3
    <3> QED  BY <3>2, <3>3
  <2>6. R!Window' = RemoveAt(R!Window, i + 1)
    BY <2>2, <2>4, <2>5, SeqEqual
  <2>7. R!Window[i + 1] = t
    BY <1>2, <2>1, <2>3
  <2> QED  BY <2>6, <2>7
<1>15. i + 1 \in 1 .. Len(R!Window)
  BY <1>1, <1>2, WindowFacts DEF WindowIs
<1> QED  BY <1>3, <1>13, <1>14, <1>15 DEF R!Fifo!Withdraw, R!Fifo!RemoveAt, RemoveAt

\* The barrier at the end of Main finds the ring empty.
LEMMA ResetRInv == ASSUME RInv, R!Reset PROVE RInv' /\ UNCHANGED <<R!Window, taken>>
<1>1. rCount = 0 /\ rCount' = 0 /\ rHead' = 0 /\ rTail' = 0 /\ UNCHANGED <<slots, cap, taken>>
  BY DEF R!Reset
<1>2. cap \in Nat \ {0} /\ Turn(0, 0, cap) = 0
  <2>1. cap \in Nat \ {0}
    BY WindowFacts DEF WindowIs
  <2>2. 0 \in 0 .. cap - 1 /\ 0 \in 0 .. cap /\ 0 + 0 < cap /\ 0 + 0 = 0
    BY <2>1
  <2> QED  BY <2>1, <2>2, TurnFacts
<1>3. RInv'
  BY <1>1, <1>2 DEF RInv
<1>4. R!Window = <<>> /\ R!Window' = <<>>
  BY <1>1, <1>3, WindowFacts, WindowFactsNext, EmptySeq DEF WindowIs
<1> QED  BY <1>1, <1>3, <1>4

LEMMA NextRInv ==
    RingFits /\ RInv /\ [R!Next]_ring => RInv' /\ [R!Fifo!Next]_<<R!Window, taken>>
<1> SUFFICES ASSUME RingFits, RInv, [R!Next]_ring
             PROVE  RInv' /\ (R!Fifo!Next \/ UNCHANGED <<R!Window, taken>>)
  OBVIOUS
<1>1. CASE UNCHANGED ring
  BY <1>1 DEF ring, RInv, R!Window, R!At
<1>2. CASE R!Pop
  BY <1>2, PopRInv DEF R!Fifo!Next
<1>3. CASE R!Reset
  BY <1>3, ResetRInv
<1>4. ASSUME NEW t \in Task, R!Push(t) PROVE RInv' /\ R!Fifo!Next
  BY <1>4, PushRInv DEF R!Fifo!Next
<1>5. ASSUME NEW t \in Task, R!Take(t) PROVE RInv' /\ R!Fifo!Next
  BY <1>5, TakeRInv DEF R!Fifo!Next
<1> QED  BY <1>1, <1>2, <1>3, <1>4, <1>5 DEF R!Next

LEMMA RingStep == SyncInit /\ [][SyncNext]_syncVars => R!Init /\ [][R!Next]_ring
<1>1. SyncInit => R!Init
  BY DEF SyncInit
<1>2. [SyncNext]_syncVars => [R!Next]_ring
  BY DEF SyncNext, BarrierStep, ChannelStep, syncVars, ring
<1> QED  BY <1>1, <1>2, PTL

\* The ring of the task queue is the queue, for any tasks and any number of
\* slots: taking the oldest, putting at the end and taking out of the middle,
\* wherever the window lies (hphl_worker_proc, hphl_spawn_task_ex,
\* hphl_wait_task), as long as no spawn finds it full.
THEOREM RingRefines == RingFits /\ SyncSpec => RingIsFifo
<1> SUFFICES ASSUME RingFits PROVE SyncSpec => RingIsFifo
  OBVIOUS
<1>1. RInv /\ [R!Next]_ring => RInv' /\ [R!Fifo!Next]_<<R!Window, taken>>
  BY NextRInv
<1>2. R!Init /\ [][R!Next]_ring => R!Fifo!Init /\ [][R!Fifo!Next]_<<R!Window, taken>>
  BY <1>1, InitRInv, PTL
<1> QED  BY <1>2, RingStep, PTL DEF SyncSpec, RingIsFifo, R!RingIsFifo, R!Fifo!Spec

-----------------------------------------------------------------------------
(* The ring of a channel *)

\* One thread sends.
OneSender == \A s, u \in Sender : s = u

CRing ==
    /\ capacity \in Nat \ {0} /\ buf \in [0 .. capacity - 1 -> C!Message \cup {Zero}]
    /\ cHead \in 0 .. capacity - 1 /\ cCount \in 0 .. capacity
    /\ cTail = Turn(cHead, cCount, capacity)
    /\ \A j \in 0 .. cCount - 1 : buf[Turn(cHead, j, capacity)] \in C!Message

CPcs ==
    [Sender \cup Receiver -> {"idle", "size", "enter", "woken", "notFull", "notEmpty"}]

\* A ring a sender brings into the critical section is larger than the
\* channel's, and a sender that sleeps has none.
CSend ==
    /\ cPc \in CPcs /\ newCap \in [Sender -> Nat] /\ sent \in [Sender -> 0 .. PerSender]
    /\ \A s \in Sender :
          /\ cPc[s] \notin {"idle", "notEmpty"} => sent[s] \in 1 .. PerSender
          /\ cPc[s] = "enter" => newCap[s] = 0 \/ newCap[s] > capacity
          /\ cPc[s] \in {"woken", "notFull"} => newCap[s] = 0

CInv == CRing /\ CSend

CWindowIs ==
    /\ cCount \in Nat
    /\ C!Window \in Seq(C!Message) /\ Len(C!Window) = cCount
    /\ \A i \in 1 .. cCount : C!Window[i] = buf[Turn(cHead, i - 1, capacity)]

LEMMA CWindowFacts == CRing => CWindowIs
<1> SUFFICES ASSUME CRing PROVE CWindowIs
  OBVIOUS
<1>1. capacity \in Nat \ {0} /\ cCount \in Nat /\ cHead \in Nat
  BY DEF CRing
<1>2. \A i \in 1 .. cCount : buf[Turn(cHead, i - 1, capacity)] \in C!Message
  <2> SUFFICES ASSUME NEW i \in 1 .. cCount
               PROVE  buf[Turn(cHead, i - 1, capacity)] \in C!Message
    OBVIOUS
  <2>1. i - 1 \in 0 .. cCount - 1
    BY <1>1
  <2> QED  BY <2>1 DEF CRing
<1>3. C!Window = [i \in 1 .. cCount |-> buf[Turn(cHead, i - 1, capacity)]]
  <2>1. \A i \in 1 .. cCount : cHead + i - 1 = cHead + (i - 1)
    BY <1>1
  <2> QED  BY <2>1 DEF C!Window, Turn
<1>4. C!Window \in [1 .. cCount -> C!Message]
  BY <1>2, <1>3
<1>5. C!Window \in Seq(C!Message) /\ Len(C!Window) = cCount
  BY <1>1, <1>4, SeqDef, LenProperties
<1> QED  BY <1>1, <1>3, <1>5 DEF CWindowIs

LEMMA CWindowFactsNext == CRing' => CWindowIs'
BY CWindowFacts, PTL

LEMMA InitCInv == C!Init => CInv /\ C!Fifo!Init
<1> SUFFICES ASSUME C!Init PROVE CInv /\ C!Fifo!Init
  OBVIOUS
<1>1. ChannelCap \in Nat \ {0} /\ PerSender \in Nat
  BY PartsAssumption DEF C!ChannelAssumption
<1>2. Turn(0, 0, ChannelCap) = 0
  BY <1>1, TurnFacts
<1>3. CRing
  BY <1>1, <1>2 DEF C!Init, CRing
<1>4. CSend
  BY <1>1 DEF C!Init, CSend, CPcs
<1>5. C!Window = <<>>
  BY <1>3, CWindowFacts, EmptySeq DEF CWindowIs, C!Init
<1> QED  BY <1>3, <1>4, <1>5 DEF CInv, C!Init, C!Fifo!Init

\* The steps of a sender outside the ring.
LEMMA OutsideCInv ==
    ASSUME OneSender, CInv, NEW s \in Sender,
           C!Look(s) \/ C!Allocate(s) \/ C!SendSleep(s)
    PROVE  CInv' /\ UNCHANGED <<C!Window, received>>
<1>1. UNCHANGED <<buf, capacity, cHead, cTail, cCount, received>>
  BY DEF C!Look, C!Allocate, C!SendSleep
<1>2. CRing' /\ C!Window' = C!Window
  BY <1>1 DEF CInv, CRing, C!Window
<1>3. /\ PerSender \in Nat /\ capacity \in Nat /\ capacity > 0
      /\ cPc \in CPcs /\ newCap \in [Sender -> Nat] /\ sent \in [Sender -> 0 .. PerSender]
      /\ \A u \in Sender : u = s
  BY PartsAssumption DEF C!ChannelAssumption, CInv, CRing, CSend, OneSender
<1>4. CASE C!Look(s)
  <2>1. /\ cPc' \in CPcs /\ cPc'[s] \in {"size", "enter"}
        /\ newCap' \in [Sender -> Nat] /\ newCap'[s] = 0
    BY <1>3, <1>4 DEF C!Look, CPcs
  <2>2. sent' \in [Sender -> 0 .. PerSender] /\ sent'[s] \in 1 .. PerSender
    BY <1>3, <1>4 DEF C!Look
  <2>3. CSend'
    BY <1>3, <2>1, <2>2 DEF CSend, CPcs
  <2> QED  BY <1>1, <1>2, <2>3 DEF CInv
<1>5. CASE C!Allocate(s)
  <2>1. PICK n \in {0, 2 * capacity} : newCap' = [newCap EXCEPT ![s] = n]
    BY <1>5 DEF C!Allocate
  <2>2. n \in Nat /\ (n = 0 \/ n > capacity)
    BY <1>3, <2>1
  <2>3. /\ cPc[s] = "size" /\ cPc' \in CPcs /\ cPc'[s] = "enter" /\ sent' = sent
        /\ newCap' \in [Sender -> Nat] /\ newCap'[s] = n
    BY <1>3, <1>5, <2>1, <2>2 DEF C!Allocate, CPcs
  <2>4. sent[s] \in 1 .. PerSender
    BY <2>3 DEF CInv, CSend
  <2>5. CSend'
    BY <1>1, <1>3, <2>2, <2>3, <2>4 DEF CSend, CPcs
  <2> QED  BY <1>1, <1>2, <2>5 DEF CInv
<1>6. CASE C!SendSleep(s)
  <2>1. /\ cPc[s] \in {"enter", "woken"} /\ newCap[s] = 0 /\ UNCHANGED <<newCap, sent>>
        /\ cPc' \in CPcs /\ cPc'[s] = "notFull"
    BY <1>3, <1>6 DEF C!SendSleep, C!Waits, CPcs
  <2>2. sent[s] \in 1 .. PerSender
    BY <2>1 DEF CInv, CSend
  <2>3. CSend'
    BY <1>1, <1>3, <2>1, <2>2 DEF CSend, CPcs
  <2> QED  BY <1>1, <1>2, <2>3 DEF CInv
<1> QED  BY <1>4, <1>5, <1>6

\* The ring a sender writes into: the channel's, or its own with the messages
\* folded out; it has room.
LEMMA Room ==
    ASSUME CInv, NEW s \in Sender, C!Put(s)
    PROVE  \E b, c, h :
             /\ c \in Nat /\ c > 0 /\ cCount < c /\ h \in 0 .. c - 1
             /\ b \in [0 .. c - 1 -> C!Message \cup {Zero}]
             /\ \A j \in 0 .. cCount - 1 : b[Turn(h, j, c)] = buf[Turn(cHead, j, capacity)]
             /\ buf' = [b EXCEPT ![Turn(h, cCount, c)] = <<s, sent[s]>>]
             /\ capacity' = c /\ cHead' = h /\ cTail' = Turn(Turn(h, cCount, c), 1, c)
<1>1. /\ capacity \in Nat /\ capacity > 0 /\ cCount \in Nat /\ cCount <= capacity
      /\ cHead \in 0 .. capacity - 1 /\ cTail = Turn(cHead, cCount, capacity)
      /\ buf \in [0 .. capacity - 1 -> C!Message \cup {Zero}]
      /\ \A j \in 0 .. cCount - 1 : buf[Turn(cHead, j, capacity)] \in C!Message
  BY DEF CInv, CRing
<1>2. newCap[s] \in Nat
  BY DEF CInv, CSend
<1>3. CASE C!Grows(s)
  <2> DEFINE c == newCap[s]
             b == C!GrownRing(s)
  <2>1. c \in Nat /\ c > 0 /\ cCount < c /\ 0 \in 0 .. c - 1
    BY <1>1, <1>2, <1>3 DEF C!Grows
  <2> HIDE DEF c
  <2>2. ASSUME NEW j \in 0 .. cCount PROVE Turn(0, j, c) = j
    <3>1. c \in Nat \ {0} /\ j \in 0 .. c /\ 0 + j < c /\ 0 + j = j
      BY <1>1, <2>1
    <3> QED  BY <2>1, <3>1, TurnFacts
  <2>3. b = [i \in 0 .. c - 1 |-> IF i < cCount THEN buf[Turn(cHead, i, capacity)] ELSE Zero]
    BY DEF C!GrownRing, c, Turn
  <2> HIDE DEF b
  <2>4. b \in [0 .. c - 1 -> C!Message \cup {Zero}]
    <3>1. ASSUME NEW i \in 0 .. c - 1, i < cCount
          PROVE  buf[Turn(cHead, i, capacity)] \in C!Message
      <4>1. i \in 0 .. cCount - 1
        BY <1>1, <2>1, <3>1
      <4> QED  BY <1>1, <4>1
    <3> QED  BY <2>3, <3>1
  <2>5. \A j \in 0 .. cCount - 1 : b[Turn(0, j, c)] = buf[Turn(cHead, j, capacity)]
    <3> SUFFICES ASSUME NEW j \in 0 .. cCount - 1
                 PROVE  b[Turn(0, j, c)] = buf[Turn(cHead, j, capacity)]
      OBVIOUS
    <3>1. j \in 0 .. cCount /\ j \in 0 .. c - 1 /\ j < cCount
      BY <1>1, <2>1
    <3> QED  BY <2>2, <2>3, <3>1
  <2>6. Turn(0, cCount, c) = cCount
    BY <1>1, <2>2
  <2>7. /\ buf' = [b EXCEPT ![cCount] = <<s, sent[s]>>]
        /\ capacity' = c /\ cHead' = 0 /\ cTail' = Turn(cCount, 1, c)
    BY <1>3 DEF C!Put, C!NextSlot, Turn, b, c
  <2> QED  BY <2>1, <2>4, <2>5, <2>6, <2>7
<1>4. CASE ~C!Grows(s)
  <2>1. cCount < capacity
    <3>1. cPc[s] \in {"enter", "woken"} /\ ~(newCap[s] = 0 /\ cCount = capacity)
      BY DEF C!Put, C!Waits
    <3>2. newCap[s] = 0
      BY <1>4, <3>1 DEF C!Grows, CInv, CSend
    <3> QED  BY <1>1, <3>1, <3>2
  <2>2. /\ buf' = [buf EXCEPT ![cTail] = <<s, sent[s]>>]
        /\ capacity' = capacity /\ cHead' = cHead /\ cTail' = Turn(cTail, 1, capacity)
    BY <1>4 DEF C!Put, C!NextSlot, Turn
  <2>3. \A j \in 0 .. cCount - 1 : buf[Turn(cHead, j, capacity)] = buf[Turn(cHead, j, capacity)]
    OBVIOUS
  <2> QED  BY <1>1, <2>1, <2>2, <2>3
<1> QED  BY <1>3, <1>4

LEMMA PutCInv ==
    ASSUME OneSender, CInv, NEW s \in Sender, C!Put(s)
    PROVE  CInv' /\ C!Fifo!Next
<1> DEFINE m == <<s, sent[s]>>
<1>1. cCount \in Nat /\ cCount' = cCount + 1 /\ UNCHANGED <<newCap, sent, received>>
  BY DEF CInv, CRing, C!Put
<1>2. cPc[s] \in {"enter", "woken"}
  BY DEF C!Put
<1>3. sent[s] \in 1 .. PerSender /\ m \in C!Message
  BY <1>2 DEF CInv, CSend, C!Message
<1> HIDE DEF m
<1>4. PICK b, c, h :
        /\ c \in Nat /\ c > 0 /\ cCount < c /\ h \in 0 .. c - 1
        /\ b \in [0 .. c - 1 -> C!Message \cup {Zero}]
        /\ \A j \in 0 .. cCount - 1 : b[Turn(h, j, c)] = buf[Turn(cHead, j, capacity)]
        /\ buf' = [b EXCEPT ![Turn(h, cCount, c)] = m]
        /\ capacity' = c /\ cHead' = h /\ cTail' = Turn(Turn(h, cCount, c), 1, c)
  BY Room, Zenon DEF m
<1>5. /\ c \in Nat \ {0} /\ cCount \in 0 .. c - 1 /\ cCount \in 0 .. c
      /\ cTail' = Turn(h, cCount + 1, c) /\ Turn(h, cCount, c) \in 0 .. c - 1
  <2>1. c \in Nat \ {0} /\ cCount \in 0 .. c - 1 /\ cCount \in 0 .. c
    BY <1>1, <1>4
  <2> QED  BY <1>4, <2>1, TurnFacts, TurnTwice
<1>6. ASSUME NEW j \in 0 .. cCount - 1
      PROVE  Turn(h, j, c) \in 0 .. c - 1 /\ Turn(h, j, c) # Turn(h, cCount, c)
  <2>1. j \in 0 .. c - 1 /\ j \in 0 .. c /\ ~(j = cCount)
    BY <1>1, <1>4
  <2>2. Turn(h, j, c) \in 0 .. c - 1
    BY <1>4, <1>5, <2>1, TurnFacts
  <2>3. Turn(h, j, c) = Turn(h, cCount, c) => j = cCount
    BY <1>4, <1>5, <2>1, TurnOnce
  <2> QED  BY <2>1, <2>2, <2>3
<1>7. /\ buf' \in [0 .. c - 1 -> C!Message \cup {Zero}] /\ buf'[Turn(h, cCount, c)] = m
      /\ \A j \in 0 .. cCount - 1 : buf'[Turn(h, j, c)] = buf[Turn(cHead, j, capacity)]
  BY <1>3, <1>4, <1>5, <1>6
<1>8. CRing'
  <2>1. \A j \in 0 .. cCount : buf'[Turn(h, j, c)] \in C!Message
    <3> SUFFICES ASSUME NEW j \in 0 .. cCount PROVE buf'[Turn(h, j, c)] \in C!Message
      OBVIOUS
    <3>1. CASE j < cCount
      <4>1. j \in 0 .. cCount - 1
        BY <1>1, <3>1
      <4> QED  BY <1>7, <4>1 DEF CInv, CRing
    <3>2. CASE ~(j < cCount)
      <4>1. j = cCount
        BY <1>1, <3>2
      <4> QED  BY <1>3, <1>7, <4>1
    <3> QED  BY <3>1, <3>2
  <2>2. cCount' \in 0 .. capacity' /\ cCount' - 1 = cCount
    BY <1>1, <1>4
  <2>3. \A j \in 0 .. cCount' - 1 : buf'[Turn(cHead', j, capacity')] \in C!Message
    BY <1>4, <2>1, <2>2
  <2>4. cTail' = Turn(cHead', cCount', capacity')
    BY <1>1, <1>4, <1>5
  <2>5. capacity' \in Nat \ {0} /\ cHead' \in 0 .. capacity' - 1
        /\ buf' \in [0 .. capacity' - 1 -> C!Message \cup {Zero}]
    BY <1>4, <1>5, <1>7
  <2> QED  BY <2>2, <2>3, <2>4, <2>5 DEF CRing
<1>9. CSend'
  <2>1. cPc \in CPcs /\ newCap \in [Sender -> Nat] /\ sent \in [Sender -> 0 .. PerSender]
    BY DEF CInv, CSend
  <2>2. cPc' \in CPcs /\ cPc'[s] = "idle"
    BY <2>1 DEF C!Put, C!Awake, CPcs
  <2>3. \A u \in Sender : u = s
    BY DEF OneSender
  <2> QED  BY <1>1, <2>1, <2>2, <2>3 DEF CSend
<1>10. C!Window' = Append(C!Window, m)
  <2>1. /\ C!Window \in Seq(C!Message) /\ Len(C!Window) = cCount
        /\ \A i \in 1 .. cCount : C!Window[i] = buf[Turn(cHead, i - 1, capacity)]
    BY CWindowFacts DEF CInv, CWindowIs
  <2>2. /\ C!Window' \in Seq(C!Message) /\ Len(C!Window') = cCount + 1
        /\ \A i \in 1 .. cCount + 1 : C!Window'[i] = buf'[Turn(h, i - 1, c)]
    BY <1>1, <1>4, <1>8, CWindowFactsNext DEF CWindowIs
  <2>3. /\ Append(C!Window, m) \in Seq(C!Message) /\ Len(Append(C!Window, m)) = cCount + 1
        /\ \A i \in 1 .. cCount : Append(C!Window, m)[i] = C!Window[i]
        /\ Append(C!Window, m)[cCount + 1] = m
    BY <1>3, <2>1, AppendFacts
  <2>4. \A i \in 1 .. cCount + 1 : C!Window'[i] = Append(C!Window, m)[i]
    <3> SUFFICES ASSUME NEW i \in 1 .. cCount + 1 PROVE C!Window'[i] = Append(C!Window, m)[i]
      OBVIOUS
    <3>1. CASE i <= cCount
      <4>1. i \in 1 .. cCount /\ i - 1 \in 0 .. cCount - 1
        BY <1>1, <3>1
      <4> QED  BY <1>7, <2>1, <2>2, <2>3, <4>1
    <3>2. CASE ~(i <= cCount)
      <4>1. i = cCount + 1 /\ i - 1 = cCount
        BY <1>1, <3>2
      <4> QED  BY <1>7, <2>2, <2>3, <4>1
    <3> QED  BY <3>1, <3>2
  <2> QED  BY <2>2, <2>3, <2>4, SeqEqual
<1> QED  BY <1>1, <1>3, <1>8, <1>9, <1>10 DEF CInv, C!Fifo!Next, C!Fifo!Send

LEMMA ReceiveCInv ==
    ASSUME CInv, NEW r \in Receiver, C!Receive(r)
    PROVE  CInv' /\ C!Fifo!Next
<1> DEFINE h == Turn(cHead, 1, capacity)
<1>1. /\ capacity \in Nat \ {0} /\ cCount \in Nat /\ cCount > 0 /\ cCount <= capacity
      /\ cHead \in 0 .. capacity - 1 /\ cTail = Turn(cHead, cCount, capacity)
      /\ \A j \in 0 .. cCount - 1 : buf[Turn(cHead, j, capacity)] \in C!Message
  BY DEF C!Receive, CInv, CRing
<1>2. /\ UNCHANGED <<buf, capacity, cTail, newCap, sent>>
      /\ received' = Append(received, buf[cHead])
      /\ cHead' = h /\ cCount' = cCount - 1
  BY DEF C!Receive, C!NextSlot, Turn
<1>3. h \in 0 .. capacity - 1 /\ Turn(cHead, 0, capacity) = cHead
  <2>1. 0 \in 0 .. capacity /\ 1 \in 0 .. capacity /\ cHead + 0 < capacity /\ cHead + 0 = cHead
    BY <1>1
  <2> QED  BY <1>1, <2>1, TurnFacts
<1>4. \A j \in 0 .. capacity - 1 : Turn(h, j, capacity) = Turn(cHead, j + 1, capacity)
  BY <1>1, TurnTwice
<1> HIDE DEF h
<1>5. cTail' = Turn(cHead', cCount', capacity')
  <2>1. cCount - 1 \in 0 .. capacity - 1 /\ cCount - 1 + 1 = cCount
    BY <1>1
  <2> QED  BY <1>1, <1>2, <1>4, <2>1
<1>6. \A j \in 0 .. cCount - 2 : buf[Turn(h, j, capacity)] \in C!Message
  <2> SUFFICES ASSUME NEW j \in 0 .. cCount - 2 PROVE buf[Turn(h, j, capacity)] \in C!Message
    OBVIOUS
  <2>1. j \in 0 .. capacity - 1 /\ j + 1 \in 0 .. cCount - 1
    BY <1>1
  <2> QED  BY <1>1, <1>4, <2>1
<1>7. CRing'
  <2>1. cCount' \in 0 .. capacity' /\ cCount' - 1 = cCount - 2
    BY <1>1, <1>2
  <2> QED  BY <1>1, <1>2, <1>3, <1>5, <1>6, <2>1 DEF CInv, CRing
<1>8. CSend'
  <2>1. /\ cPc \in CPcs /\ newCap \in [Sender -> Nat] /\ sent \in [Sender -> 0 .. PerSender]
        /\ cPc' = [t \in Sender \cup Receiver |-> IF cPc[t] = "notFull" THEN "woken" ELSE cPc[t]]
    BY DEF CInv, CSend, C!Receive, C!ReceiveWakes, C!Awake
  <2>2. cPc' \in CPcs
    BY <2>1 DEF CPcs
  <2>3. ASSUME NEW s \in Sender
        PROVE  /\ cPc'[s] \notin {"idle", "notEmpty"} => sent[s] \in 1 .. PerSender
               /\ cPc'[s] = "enter" => newCap[s] = 0 \/ newCap[s] > capacity
               /\ cPc'[s] \in {"woken", "notFull"} => newCap[s] = 0
    <3>1. cPc'[s] = IF cPc[s] = "notFull" THEN "woken" ELSE cPc[s]
      BY <2>1
    <3> QED  BY <3>1 DEF CInv, CSend
  <2> QED  BY <1>2, <2>1, <2>2, <2>3 DEF CSend
<1>9. C!Window' = Tail(C!Window) /\ C!Window # <<>> /\ buf[cHead] = Head(C!Window)
  <2>1. /\ C!Window \in Seq(C!Message) /\ Len(C!Window) = cCount
        /\ \A i \in 1 .. cCount : C!Window[i] = buf[Turn(cHead, i - 1, capacity)]
    BY CWindowFacts DEF CInv, CWindowIs
  <2>2. /\ C!Window' \in Seq(C!Message) /\ Len(C!Window') = cCount - 1
        /\ \A i \in 1 .. cCount - 1 : C!Window'[i] = buf[Turn(h, i - 1, capacity)]
    BY <1>2, <1>7, CWindowFactsNext DEF CWindowIs
  <2>3. C!Window # <<>>
    BY <1>1, <2>1, EmptySeq
  <2>4. /\ Tail(C!Window) \in Seq(C!Message) /\ Len(Tail(C!Window)) = cCount - 1
        /\ Head(C!Window) = C!Window[1]
        /\ \A i \in 1 .. cCount - 1 : Tail(C!Window)[i] = C!Window[i + 1]
    BY <2>1, <2>3, TailFacts
  <2>5. \A i \in 1 .. cCount - 1 : C!Window'[i] = Tail(C!Window)[i]
    <3> SUFFICES ASSUME NEW i \in 1 .. cCount - 1 PROVE C!Window'[i] = Tail(C!Window)[i]
      OBVIOUS
    <3>1. i - 1 \in 0 .. capacity - 1 /\ i - 1 + 1 = i /\ i + 1 \in 1 .. cCount /\ i + 1 - 1 = i
      BY <1>1
    <3>2. C!Window'[i] = buf[Turn(cHead, i, capacity)]
      BY <1>4, <2>2, <3>1
    <3>3. C!Window[i + 1] = buf[Turn(cHead, i, capacity)]
      BY <2>1, <3>1
    <3> QED  BY <2>4, <3>2, <3>3
  <2>6. C!Window' = Tail(C!Window)
    BY <2>2, <2>4, <2>5, SeqEqual
  <2>7. C!Window[1] = buf[cHead]
    <3>1. 1 \in 1 .. cCount /\ 1 - 1 = 0
      BY <1>1
    <3> QED  BY <1>3, <2>1, <3>1
  <2> QED  BY <2>3, <2>4, <2>6, <2>7
<1> QED  BY <1>2, <1>7, <1>8, <1>9 DEF CInv, C!Fifo!Next, C!Fifo!Receive

LEMMA NextCInv ==
    OneSender /\ CInv /\ [C!Next]_channel => CInv' /\ [C!Fifo!Next]_<<C!Window, received>>
<1> SUFFICES ASSUME OneSender, CInv, [C!Next]_channel
             PROVE  CInv' /\ (C!Fifo!Next \/ UNCHANGED <<C!Window, received>>)
  OBVIOUS
<1>1. CASE UNCHANGED channel
  BY <1>1 DEF channel, CInv, CRing, CSend, CPcs, C!Window
<1>2. ASSUME NEW s \in Sender, C!SendStep(s)
      PROVE  CInv' /\ (C!Fifo!Next \/ UNCHANGED <<C!Window, received>>)
  BY <1>2, OutsideCInv, PutCInv DEF C!SendStep
<1>3. ASSUME NEW r \in Receiver, C!Receive(r) PROVE CInv' /\ C!Fifo!Next
  BY <1>3, ReceiveCInv
<1>4. ASSUME NEW r \in Receiver, C!ReceiveSleep(r)
      PROVE  CInv' /\ UNCHANGED <<C!Window, received>>
  <2>1. UNCHANGED <<buf, capacity, cHead, cTail, cCount, newCap, sent, received>>
    BY <1>4 DEF C!ReceiveSleep
  <2>2. CRing' /\ C!Window' = C!Window
    BY <2>1 DEF CInv, CRing, C!Window
  <2>3. \A s \in Sender : s # r
    BY PartsAssumption DEF C!ChannelAssumption
  <2>4. cPc' \in CPcs /\ \A s \in Sender : cPc'[s] = cPc[s]
    BY <1>4, <2>3 DEF C!ReceiveSleep, CInv, CSend, CPcs
  <2>5. CSend'
    BY <2>1, <2>4 DEF CInv, CSend
  <2> QED  BY <2>1, <2>2, <2>5 DEF CInv
<1> QED  BY <1>1, <1>2, <1>3, <1>4 DEF C!Next, C!ReceiveStep

LEMMA ChannelStepIs == SyncInit /\ [][SyncNext]_syncVars => C!Init /\ [][C!Next]_channel
<1>1. SyncInit => C!Init
  BY DEF SyncInit
<1>2. [SyncNext]_syncVars => [C!Next]_channel
  BY DEF SyncNext, BarrierStep, ChannelStep, syncVars, channel
<1> QED  BY <1>1, <1>2, PTL

\* A channel is a FIFO for any capacity, any number of messages and of
\* receivers, across wrap-around, growth and failed allocations, as long as one
\* thread sends (hphl_channel_send, hphl_channel_receive).
THEOREM ChannelRefines == OneSender /\ SyncSpec => ChannelIsFifo
<1> SUFFICES ASSUME OneSender PROVE SyncSpec => ChannelIsFifo
  OBVIOUS
<1>1. CInv /\ [C!Next]_channel => CInv' /\ [C!Fifo!Next]_<<C!Window, received>>
  BY NextCInv
<1>2. C!Init /\ [][C!Next]_channel => C!Fifo!Init /\ [][C!Fifo!Next]_<<C!Window, received>>
  BY <1>1, InitCInv, PTL
<1> QED  BY <1>2, ChannelStepIs, PTL DEF SyncSpec, ChannelIsFifo, C!ChannelIsFifo, C!Fifo!Spec

(***************************************************************************)
(* The table of a map is a function, for any keys, hashes and capacity: a  *)
(* search finds what is in, past tombstones and growth.  That growing      *)
(* moves every entry is an induction over the slots.                       *)
(***************************************************************************)
Pair == Key \X Value

Shape(t, n) == n \in Nat \ {0} /\ t \in [0 .. n - 1 -> Pair \cup {Empty, Tomb}]

\* No key is in two slots.
OneSlot(t) ==
    \A i, j \in DOMAIN t : M!Full(t, i) /\ M!Full(t, j) /\ t[i][1] = t[j][1] => i = j

\* The search for a key that is in gets to its slot before an empty one.
Reached(t) ==
    \A i \in DOMAIN t :
        M!Full(t, i) => \E j \in M!Looks(t, t[i][1]) : M!Probe(t, t[i][1], j) = i

Sound(t) == (\E n \in Nat \ {0} : Shape(t, n)) /\ OneSlot(t) /\ Reached(t)

\* What a table holds.
Pairs(t) == {t[i] : i \in {x \in DOMAIN t : M!Full(t, x)}}

\* Nobody has the key k; a free slot, the j-th the search for k comes to.
KeyFree(t, k) == \A i \in DOMAIN t : M!Full(t, i) => t[i][1] # k
FreeSlot(t, k, j) == j \in M!Looks(t, k) /\ ~M!Full(t, M!Probe(t, k, j))

\* u is t with e in the slot s.
Changed(t, s, e, u) == u = [t EXCEPT ![s] = e]

NoTombs(t) == \A i \in DOMAIN t : t[i] # Tomb
HasEmpty(t) == \E i \in DOMAIN t : t[i] = Empty

\* The invariant of the map.
MInv == Sound(mTable)

LEMMA SameCardinality == \A S : M!Cardinality(S) = Cardinality(S)
  BY DEF M!Cardinality, Cardinality

LEMMA ShapeFacts ==
    ASSUME NEW t, NEW n, Shape(t, n)
    PROVE  /\ n \in Nat \ {0} /\ DOMAIN t = 0 .. n - 1 /\ M!Capacity(t) = n
           /\ \A i \in 0 .. n - 1 : t[i] \in Pair \cup {Empty, Tomb}
           /\ \A i \in DOMAIN t : M!Full(t, i) <=> t[i] \in Pair
           /\ Empty # Tomb /\ Empty \notin Pair /\ Tomb \notin Pair
<1>1. n \in Nat \ {0} /\ DOMAIN t = 0 .. n - 1
  BY DEF Shape
<1>2. Cardinality(0 .. n - 1) = n
  BY <1>1, FS_Interval
<1>3. Empty # Tomb /\ Empty \notin Pair /\ Tomb \notin Pair
  BY PartsAssumption DEF M!OpenMapAssumption, Pair
<1>4. \A i \in 0 .. n - 1 : t[i] \in Pair \cup {Empty, Tomb}
  BY DEF Shape
<1>5. \A i \in DOMAIN t : M!Full(t, i) <=> t[i] \in Pair
  BY <1>1, <1>3, <1>4 DEF M!Full
<1>6. M!Capacity(t) = n
  BY <1>1, <1>2, SameCardinality DEF M!Capacity
<1> QED  BY <1>1, <1>3, <1>4, <1>5, <1>6

\* A probe stays in the table, and a round of probes looks at every slot.
LEMMA ProbeFacts ==
    ASSUME NEW t, NEW n, Shape(t, n), NEW k \in Key
    PROVE  /\ \A j \in 0 .. n - 1 : M!Probe(t, k, j) \in 0 .. n - 1
           /\ \A s \in 0 .. n - 1 : \E j \in 0 .. n - 1 : M!Probe(t, k, j) = s
<1> DEFINE h == Hash[k]
           q == h \div n
           r == h % n
<1>1. n \in Nat \ {0} /\ M!Capacity(t) = n
  BY ShapeFacts
<1>2. h \in Nat
  BY PartsAssumption DEF M!OpenMapAssumption
<1>3. q \in Nat /\ r \in 0 .. n - 1 /\ h = (n * q) + r
  <2> HIDE DEF h
  <2>1. h \div n \in Nat /\ h % n \in 0 .. n - 1
    BY <1>1, <1>2
  <2>2. h = (n * (h \div n)) + (h % n)
    BY <1>1, <1>2
  <2> QED  BY <2>1, <2>2
<1>4. \A j : M!Probe(t, k, j) = (h + j) % n
  BY <1>1 DEF M!Probe
<1> HIDE DEF h, q, r
<1>5. ASSUME NEW j \in 0 .. n - 1 PROVE M!Probe(t, k, j) \in 0 .. n - 1
  <2>1. h + j \in Nat
    BY <1>1, <1>2
  <2>2. (h + j) % n \in 0 .. n - 1
    BY <1>1, <2>1
  <2> QED  BY <1>4, <2>2
<1>6. ASSUME NEW s \in 0 .. n - 1 PROVE \E j \in 0 .. n - 1 : M!Probe(t, k, j) = s
  <2>1. CASE s >= r
    <3>1. s - r \in 0 .. n - 1 /\ h + (s - r) = (n * q) + s
      BY <1>1, <1>3, <2>1
    <3>2. ((n * q) + s) % n = s
      BY <1>1, <1>3
    <3> QED  BY <1>4, <3>1, <3>2
  <2>2. CASE s < r
    <3>1. (s - r) + n \in 0 .. n - 1
      BY <1>1, <1>3, <2>2
    <3>2. h + ((s - r) + n) = (n * (q + 1)) + s
      BY <1>1, <1>3
    <3>3. q + 1 \in Nat
      BY <1>3
    <3>4. ((n * (q + 1)) + s) % n = s
      <4> DEFINE p == q + 1
      <4>1. p \in Nat
        BY <3>3
      <4> HIDE DEF p
      <4>2. ((n * p) + s) % n = s
        BY <1>1, <4>1
      <4> QED  BY <4>2 DEF p
    <3> QED  BY <1>4, <3>1, <3>2, <3>4
  <2> QED  BY <1>1, <1>3, <2>1, <2>2
<1> QED  BY <1>5, <1>6

\* Where takes the first of a set of probes.
LEMMA WhereFacts ==
    ASSUME NEW t, NEW S, S \subseteq Nat, S # {}, NEW k
    PROVE  \E j \in S : /\ M!Where(t, S, k) = M!Probe(t, k, j)
                        /\ \A i \in S : j <= i
<1> DEFINE first == CHOOSE j \in S : \A i \in S : j <= i
<1>1. \E j \in S : \A i \in S : j <= i
  BY Least
<1>2. first \in S /\ \A i \in S : first <= i
  BY <1>1
<1> QED  BY <1>2 DEF M!Where

LEMMA LooksFacts ==
    ASSUME NEW t, NEW n, Shape(t, n), NEW k
    PROVE  /\ M!Looks(t, k) \subseteq 0 .. n - 1
           /\ \A j \in 0 .. n - 1 :
                 j \in M!Looks(t, k)
                    <=> \A i \in 0 .. j - 1 : t[M!Probe(t, k, i)] # Empty
  BY ShapeFacts DEF M!Looks

\* A search finds the slot of a key that is in, and no other.
LEMMA FoundFacts ==
    ASSUME NEW t, Sound(t), NEW k \in Key
    PROVE  /\ M!Found(t, k) # {} <=> \E i \in DOMAIN t : M!Full(t, i) /\ t[i][1] = k
           /\ \A i \in DOMAIN t :
                 M!Full(t, i) /\ t[i][1] = k => M!Where(t, M!Found(t, k), k) = i
<1>1. PICK n \in Nat \ {0} : Shape(t, n)
  BY DEF Sound
<1>2. DOMAIN t = 0 .. n - 1
  BY <1>1, ShapeFacts
<1>3. \A j \in M!Found(t, k) : /\ j \in 0 .. n - 1 /\ M!Probe(t, k, j) \in DOMAIN t
                               /\ M!Full(t, M!Probe(t, k, j)) /\ t[M!Probe(t, k, j)][1] = k
  BY <1>1, <1>2, LooksFacts, ProbeFacts DEF M!Found, M!Has
<1>4. ASSUME NEW i \in DOMAIN t, M!Full(t, i), t[i][1] = k
      PROVE  M!Found(t, k) # {} /\ M!Where(t, M!Found(t, k), k) = i
  <2>1. PICK j \in M!Looks(t, k) : M!Probe(t, k, j) = i
    BY <1>4 DEF Sound, Reached
  <2>2. M!Found(t, k) # {}
    BY <1>4, <2>1 DEF M!Found, M!Has
  <2>3. M!Found(t, k) \subseteq Nat
    BY <1>1, <1>3
  <2>4. PICK f \in M!Found(t, k) : M!Where(t, M!Found(t, k), k) = M!Probe(t, k, f)
    BY <2>2, <2>3, WhereFacts
  <2>5. M!Probe(t, k, f) = i
    BY <1>3, <1>4 DEF Sound, OneSlot
  <2> QED  BY <2>2, <2>4, <2>5
<1> QED  BY <1>3, <1>4

-----------------------------------------------------------------------------
(* The changes of one slot *)

\* A new key goes to a slot its search comes to.
LEMMA FillSound ==
    ASSUME NEW t, Sound(t), NEW k \in Key, NEW v \in Value,
           KeyFree(t, k), NEW j, FreeSlot(t, k, j),
           NEW u, Changed(t, M!Probe(t, k, j), <<k, v>>, u)
    PROVE  /\ Sound(u) /\ DOMAIN u = DOMAIN t
           /\ Pairs(u) = Pairs(t) \cup {<<k, v>>}
<1> DEFINE s == M!Probe(t, k, j)
<1>1. PICK n \in Nat \ {0} : Shape(t, n)
  BY DEF Sound
<1>0. j \in M!Looks(t, k) /\ ~M!Full(t, s)
  BY DEF FreeSlot
<1>2. /\ DOMAIN t = 0 .. n - 1 /\ s \in DOMAIN t /\ <<k, v>> \in Pair
      /\ j \in 0 .. n - 1
  BY <1>0, <1>1, ShapeFacts, ProbeFacts, LooksFacts DEF Pair
<1>3. /\ Shape(u, n) /\ DOMAIN u = DOMAIN t /\ u[s] = <<k, v>>
      /\ \A i \in DOMAIN t : i # s => u[i] = t[i]
  BY <1>1, <1>2 DEF Shape, Changed
<1>4. /\ \A i \in DOMAIN t : i # s => (M!Full(u, i) <=> M!Full(t, i))
      /\ M!Full(u, s) /\ ~M!Full(t, s)
  BY <1>0, <1>1, <1>2, <1>3, ShapeFacts
<1>5. \A l, i : M!Probe(u, l, i) = M!Probe(t, l, i)
  BY <1>1, <1>3, ShapeFacts DEF M!Probe
<1> HIDE DEF s
<1>6. \A l \in Key : M!Looks(t, l) \subseteq M!Looks(u, l)
  <2> SUFFICES ASSUME NEW l \in Key, NEW x \in M!Looks(t, l) PROVE x \in M!Looks(u, l)
    OBVIOUS
  <2>1. /\ x \in 0 .. n - 1
        /\ \A i \in 0 .. x - 1 : t[M!Probe(t, l, i)] # Empty
    BY <1>1, LooksFacts
  <2>2. \A i \in 0 .. x - 1 : i \in 0 .. n - 1
    BY <1>1, <2>1
  <2>3. \A i \in 0 .. x - 1 : M!Probe(t, l, i) \in DOMAIN t
    BY <1>1, <1>2, <2>2, ProbeFacts
  <2>4. u[s] # Empty
    BY <1>1, <1>2, <1>3, ShapeFacts
  <2>5. \A i \in 0 .. x - 1 : u[M!Probe(u, l, i)] # Empty
    BY <1>3, <1>5, <2>1, <2>3, <2>4
  <2> QED  BY <1>3, <2>1, <2>5, LooksFacts
<1>7. OneSlot(u)
  BY <1>2, <1>3, <1>4 DEF Sound, OneSlot, KeyFree
<1>8. Reached(u)
  <2> SUFFICES ASSUME NEW i \in DOMAIN u, M!Full(u, i)
               PROVE  \E x \in M!Looks(u, u[i][1]) : M!Probe(u, u[i][1], x) = i
    BY DEF Reached
  <2>1. CASE i = s
    BY <1>0, <1>3, <1>5, <1>6, <2>1 DEF s
  <2>2. CASE i # s
    <3>1. M!Full(t, i) /\ u[i] = t[i] /\ i \in DOMAIN t
      BY <1>3, <1>4, <2>2
    <3>2. PICK x \in M!Looks(t, t[i][1]) : M!Probe(t, t[i][1], x) = i
      BY <3>1 DEF Sound, Reached
    <3>3. t[i][1] \in Key
      BY <1>1, <3>1, ShapeFacts DEF Pair
    <3> QED  BY <1>5, <1>6, <3>1, <3>2, <3>3
  <2> QED  BY <2>1, <2>2
<1>9. Pairs(u) = Pairs(t) \cup {<<k, v>>}
  BY <1>2, <1>3, <1>4 DEF Pairs
<1> QED  BY <1>1, <1>3, <1>7, <1>8, <1>9 DEF Sound, s

\* A key that is in gets another value, or its slot a tombstone.
LEMMA ChangeSound ==
    ASSUME NEW t, Sound(t), NEW s \in DOMAIN t, M!Full(t, s), NEW k \in Key, t[s][1] = k,
           NEW e \in Pair \cup {Tomb}, e \in Pair => e[1] = k,
           NEW u, Changed(t, s, e, u)
    PROVE  /\ Sound(u) /\ DOMAIN u = DOMAIN t
           /\ Pairs(u) = {p \in Pairs(t) : p[1] # k} \cup ({e} \cap Pair)
<1>1. PICK n \in Nat \ {0} : Shape(t, n)
  BY DEF Sound
<1>2. /\ Shape(u, n) /\ DOMAIN u = DOMAIN t /\ u[s] = e
      /\ \A i \in DOMAIN t : i # s => u[i] = t[i]
  BY <1>1 DEF Shape, Changed
<1>3. /\ \A i \in DOMAIN t : i # s => (M!Full(u, i) <=> M!Full(t, i))
      /\ M!Full(u, s) <=> e \in Pair
  BY <1>1, <1>2, ShapeFacts
<1>4. \A l, i : M!Probe(u, l, i) = M!Probe(t, l, i)
  BY <1>1, <1>2, ShapeFacts DEF M!Probe
<1>5. u[s] # Empty /\ t[s] # Empty
  BY <1>1, <1>2, ShapeFacts
<1>6. \A l \in Key : M!Looks(t, l) \subseteq M!Looks(u, l)
  <2> SUFFICES ASSUME NEW l \in Key, NEW x \in M!Looks(t, l) PROVE x \in M!Looks(u, l)
    OBVIOUS
  <2>1. /\ x \in 0 .. n - 1
        /\ \A i \in 0 .. x - 1 : t[M!Probe(t, l, i)] # Empty
    BY <1>1, LooksFacts
  <2>2. \A i \in 0 .. x - 1 : i \in 0 .. n - 1
    BY <1>1, <2>1
  <2>3. \A i \in 0 .. x - 1 : M!Probe(t, l, i) \in DOMAIN t
    <3>1. DOMAIN t = 0 .. n - 1
      BY <1>1, ShapeFacts
    <3> QED  BY <1>1, <2>2, <3>1, ProbeFacts
  <2>4. \A i \in 0 .. x - 1 : u[M!Probe(u, l, i)] # Empty
    BY <1>2, <1>4, <1>5, <2>1, <2>3
  <2> QED  BY <1>2, <2>1, <2>4, LooksFacts
<1>7. OneSlot(u)
  BY <1>2, <1>3 DEF Sound, OneSlot
<1>8. Reached(u)
  <2> SUFFICES ASSUME NEW i \in DOMAIN u, M!Full(u, i)
               PROVE  \E x \in M!Looks(u, u[i][1]) : M!Probe(u, u[i][1], x) = i
    BY DEF Reached
  <2>1. M!Full(t, i) /\ u[i][1] = t[i][1] /\ i \in DOMAIN t
    BY <1>2, <1>3
  <2>2. PICK x \in M!Looks(t, t[i][1]) : M!Probe(t, t[i][1], x) = i
    BY <2>1 DEF Sound, Reached
  <2>3. t[i][1] \in Key
    BY <1>1, <2>1, ShapeFacts DEF Pair
  <2> QED  BY <1>4, <1>6, <2>1, <2>2, <2>3
<1>9. Pairs(u) = {p \in Pairs(t) : p[1] # k} \cup ({e} \cap Pair)
  <2>1. \A i \in DOMAIN t : M!Full(t, i) /\ t[i][1] = k => i = s
    BY DEF Sound, OneSlot
  <2>2. ASSUME NEW p \in Pairs(u) PROVE p \in {x \in Pairs(t) : x[1] # k} \cup ({e} \cap Pair)
    <3>1. PICK i \in DOMAIN u : M!Full(u, i) /\ p = u[i]
      BY DEF Pairs
    <3>2. CASE i = s
      BY <1>2, <1>3, <3>1, <3>2
    <3>3. CASE i # s
      BY <1>2, <1>3, <2>1, <3>1, <3>3 DEF Pairs
    <3> QED  BY <3>2, <3>3
  <2>3. ASSUME NEW p \in Pairs(t), p[1] # k PROVE p \in Pairs(u)
    <3>1. PICK i \in DOMAIN t : M!Full(t, i) /\ p = t[i]
      BY DEF Pairs
    <3>2. i # s
      BY <2>3, <3>1
    <3> QED  BY <1>2, <1>3, <3>1, <3>2 DEF Pairs
  <2>4. e \in Pair => e \in Pairs(u)
    BY <1>2, <1>3 DEF Pairs
  <2> QED  BY <2>2, <2>3, <2>4
<1> QED  BY <1>1, <1>2, <1>7, <1>8, <1>9 DEF Sound

LEMMA NoSlotsSound ==
    ASSUME NEW n \in Nat \ {0}
    PROVE  /\ Sound(M!NoSlots(n)) /\ Pairs(M!NoSlots(n)) = {}
           /\ Shape(M!NoSlots(n), n) /\ \A i \in 0 .. n - 1 : M!NoSlots(n)[i] = Empty
<1> DEFINE t == M!NoSlots(n)
<1>1. Shape(t, n) /\ DOMAIN t = 0 .. n - 1 /\ \A i \in 0 .. n - 1 : t[i] = Empty
  BY DEF M!NoSlots, Shape
<1>2. \A i \in DOMAIN t : ~M!Full(t, i)
  BY <1>1 DEF M!Full
<1> HIDE DEF t
<1>3. Sound(t) /\ Pairs(t) = {}
  BY <1>1, <1>2 DEF Sound, OneSlot, Reached, Pairs
<1> QED  BY <1>1, <1>3 DEF t

-----------------------------------------------------------------------------
(* Growing *)

FullSlots(t) == {i \in DOMAIN t : M!Full(t, i)}

\* The first empty slot the search for k comes to, in a table with fewer keys
\* than slots.
LEMMA RoomLeft ==
    ASSUME NEW u, NEW c, Shape(u, c), NoTombs(u), Cardinality(FullSlots(u)) < c
    PROVE  HasEmpty(u)
<1> SUFFICES ASSUME ~HasEmpty(u) PROVE FALSE
  OBVIOUS
<1>1. FullSlots(u) = 0 .. c - 1
  BY ShapeFacts DEF FullSlots, NoTombs, HasEmpty
<1>2. Cardinality(0 .. c - 1) = c /\ c \in Nat \ {0}
  BY ShapeFacts, FS_Interval
<1> QED  BY <1>1, <1>2

LEMMA FirstEmpty ==
    ASSUME NEW u, NEW c, Shape(u, c), NEW k \in Key, HasEmpty(u)
    PROVE  \E j \in M!Looks(u, k) :
              /\ u[M!Probe(u, k, j)] = Empty
              /\ M!Where(u, {x \in DOMAIN u : u[M!Probe(u, k, x)] = Empty}, k)
                    = M!Probe(u, k, j)
<1> DEFINE S == {x \in DOMAIN u : u[M!Probe(u, k, x)] = Empty}
<1>1. c \in Nat \ {0} /\ DOMAIN u = 0 .. c - 1
  BY ShapeFacts
<1>2. S # {} /\ S \subseteq Nat
  <2>1. PICK i \in 0 .. c - 1 : u[i] = Empty
    BY <1>1 DEF HasEmpty
  <2>2. PICK j \in 0 .. c - 1 : M!Probe(u, k, j) = i
    BY <1>1, ProbeFacts
  <2>3. j \in S
    BY <1>1, <2>1, <2>2
  <2> QED  BY <1>1, <2>3
<1>3. PICK j \in S : M!Where(u, S, k) = M!Probe(u, k, j) /\ \A x \in S : j <= x
  BY <1>2, WhereFacts
<1>4. j \in 0 .. c - 1 /\ u[M!Probe(u, k, j)] = Empty
  BY <1>1
<1>5. \A x \in 0 .. j - 1 : x \notin S /\ x \in DOMAIN u
  BY <1>1, <1>3, <1>4
<1>6. j \in M!Looks(u, k)
  BY <1>4, <1>5, LooksFacts
<1> QED  BY <1>3, <1>4, <1>6

\* An entry is moved to a table in which its key is not.
LEMMA PlacedSound ==
    ASSUME NEW u, NEW c, Shape(u, c), Sound(u), NoTombs(u), HasEmpty(u),
           NEW e \in Pair, KeyFree(u, e[1])
    PROVE  /\ Sound(M!Placed(u, e)) /\ Shape(M!Placed(u, e), c)
           /\ NoTombs(M!Placed(u, e))
           /\ Pairs(M!Placed(u, e)) = Pairs(u) \cup {e}
           /\ \E s : FullSlots(M!Placed(u, e)) = FullSlots(u) \cup {s}
<1> DEFINE k == e[1]
           w == M!Placed(u, e)
<1>1. k \in Key /\ e[2] \in Value /\ e = <<k, e[2]>>
  BY DEF Pair
<1>2. PICK j \in M!Looks(u, k) :
              /\ u[M!Probe(u, k, j)] = Empty
              /\ M!Where(u, {x \in DOMAIN u : u[M!Probe(u, k, x)] = Empty}, k)
                    = M!Probe(u, k, j)
  BY <1>1, FirstEmpty
<1> DEFINE s == M!Probe(u, k, j)
<1>3. w = [u EXCEPT ![s] = e]
  BY <1>2 DEF M!Placed
<1>4. ~M!Full(u, s) /\ DOMAIN u = 0 .. c - 1 /\ s \in 0 .. c - 1
  <2>1. j \in 0 .. c - 1
    BY <1>1, LooksFacts
  <2> QED  BY <1>1, <1>2, <2>1, ShapeFacts, ProbeFacts DEF M!Full
<1>5. KeyFree(u, k) /\ FreeSlot(u, k, j)
  BY <1>4 DEF FreeSlot
<1> HIDE DEF k, w
<1>6. Sound(w) /\ DOMAIN w = DOMAIN u /\ Pairs(w) = Pairs(u) \cup {e}
  <2> DEFINE v == e[2]
  <2>1. v \in Value /\ e = <<k, v>> /\ Changed(u, M!Probe(u, k, j), <<k, v>>, w)
    BY <1>1, <1>3 DEF Changed
  <2> HIDE DEF v
  <2> QED  BY <1>1, <1>5, <2>1, FillSound
<1> HIDE DEF s
<1>7. /\ Shape(w, c) /\ w[s] = e
      /\ \A i \in 0 .. c - 1 : i # s => w[i] = u[i]
  BY <1>3, <1>4 DEF Shape
<1>8. NoTombs(w)
  BY <1>4, <1>6, <1>7, ShapeFacts DEF NoTombs
<1>9. FullSlots(w) = FullSlots(u) \cup {s}
  <2>1. /\ \A i \in DOMAIN u : M!Full(u, i) <=> u[i] \in Pair
        /\ \A i \in DOMAIN w : M!Full(w, i) <=> w[i] \in Pair
    BY <1>7, ShapeFacts
  <2> QED  BY <1>4, <1>6, <1>7, <2>1 DEF FullSlots
<1> QED  BY <1>6, <1>7, <1>8, <1>9 DEF w

\* The recursive function by which hphl_map_grow moves the slots, one after the other.
MoveStep(t, f, i) ==
    IF i = 0 THEN M!NoSlots(2 * M!Capacity(t))
    ELSE IF M!Full(t, i - 1) THEN M!Placed(f[i - 1], t[i - 1]) ELSE f[i - 1]

Moves(t, f, m) == f = [i \in 0 .. m |-> MoveStep(t, f, i)]

LEMMA MovesExist == ASSUME NEW t PROVE \A m \in Nat : \E f : Moves(t, f, m)
<1> DEFINE T == {m \in Nat : \E f : Moves(t, f, m)}
<1>1. 0 \in T
  <2> DEFINE f == [i \in 0 .. 0 |-> M!NoSlots(2 * M!Capacity(t))]
  <2>1. Moves(t, f, 0)
    BY DEF Moves, MoveStep
  <2> QED  BY <2>1
<1>2. ASSUME NEW m \in T PROVE m + 1 \in T
  <2>1. m \in Nat
    OBVIOUS
  <2>2. PICK f : Moves(t, f, m)
    OBVIOUS
  <2> DEFINE g == [i \in 0 .. m + 1 |-> IF i = m + 1 THEN MoveStep(t, f, i) ELSE f[i]]
  <2>3. ASSUME NEW i \in 0 .. m + 1 PROVE g[i] = MoveStep(t, g, i)
    <3>1. i # 0 => i - 1 \in 0 .. m /\ g[i - 1] = f[i - 1]
      BY <2>1
    <3>2. MoveStep(t, g, i) = MoveStep(t, f, i)
      <4> HIDE DEF g
      <4> QED  BY <3>1 DEF MoveStep
    <3>3. i # m + 1 => i \in 0 .. m /\ f[i] = MoveStep(t, f, i)
      BY <2>1, <2>2 DEF Moves
    <3> QED  BY <3>2, <3>3
  <2>4. g = [i \in 0 .. m + 1 |-> MoveStep(t, g, i)]
    <3>1. g = [i \in 0 .. m + 1 |-> g[i]]
      OBVIOUS
    <3> HIDE DEF g
    <3> QED  BY <2>3, <3>1
  <2>5. Moves(t, g, m + 1)
    BY <2>4 DEF Moves
  <2> QED  BY <2>1, <2>5
<1> HIDE DEF T
<1>3. T = Nat
  <2>1. T \subseteq Nat
    BY DEF T
  <2> QED  BY <1>1, <1>2, <2>1, SetInduction
<1> QED  BY <1>3 DEF T

LEMMA GrownIs == ASSUME NEW t, M!Capacity(t) \in Nat
                 PROVE  \E f : Moves(t, f, M!Capacity(t)) /\ M!Grown(t) = f[M!Capacity(t)]
<1> DEFINE n == M!Capacity(t)
           g == CHOOSE f : Moves(t, f, n)
<1>1. Moves(t, g, n)
  BY MovesExist
<1>2. M!Grown(t) = g[n]
  BY DEF M!Grown, Moves, MoveStep
<1> QED  BY <1>1, <1>2

\* What the first i slots of t held is in the table of c slots.
Moved(t, u, c, i) ==
    /\ Shape(u, c) /\ Sound(u) /\ NoTombs(u)
    /\ Pairs(u) = {t[x] : x \in {y \in 0 .. i - 1 : M!Full(t, y)}}
    /\ IsFiniteSet(FullSlots(u)) /\ Cardinality(FullSlots(u)) <= i

\* Growing keeps what is in, and leaves room.
LEMMA GrownSound ==
    ASSUME NEW t, Sound(t)
    PROVE  /\ Sound(M!Grown(t)) /\ Pairs(M!Grown(t)) = Pairs(t)
           /\ HasEmpty(M!Grown(t))
<1>1. PICK n \in Nat \ {0} : Shape(t, n)
  BY DEF Sound
<1>2. M!Capacity(t) = n /\ DOMAIN t = 0 .. n - 1
  BY <1>1, ShapeFacts
<1>3. PICK f : Moves(t, f, n) /\ M!Grown(t) = f[n]
  BY <1>2, GrownIs
<1> DEFINE c == 2 * n
           T == {i \in Nat : i <= n => Moved(t, f[i], c, i)}
<1>4. c \in Nat \ {0} /\ n < c
  OBVIOUS
<1> HIDE DEF c
<1>5. \A i \in 0 .. n : f[i] = MoveStep(t, f, i)
  BY <1>3 DEF Moves
<1>6. 0 \in T
  <2>1. f[0] = M!NoSlots(c)
    BY <1>2, <1>5 DEF MoveStep, c
  <2>2. /\ Sound(f[0]) /\ Pairs(f[0]) = {} /\ Shape(f[0], c)
        /\ \A i \in 0 .. c - 1 : f[0][i] = Empty
    BY <1>4, <2>1, NoSlotsSound
  <2>3. FullSlots(f[0]) = {}
    BY <2>2, ShapeFacts DEF FullSlots, M!Full
  <2>4. NoTombs(f[0])
    BY <2>2, ShapeFacts DEF NoTombs
  <2>5. {t[x] : x \in {y \in 0 .. 0 - 1 : M!Full(t, y)}} = {}
    OBVIOUS
  <2>6. Moved(t, f[0], c, 0)
    BY <2>2, <2>3, <2>4, <2>5, FS_EmptySet DEF Moved
  <2> QED  BY <2>6
<1>7. ASSUME NEW i \in T PROVE i + 1 \in T
  <2>1. i \in Nat
    OBVIOUS
  <2> SUFFICES ASSUME i + 1 <= n PROVE Moved(t, f[i + 1], c, i + 1)
    BY <2>1
  <2> DEFINE u == f[i]
             w == f[i + 1]
  <2>2. Moved(t, u, c, i) /\ i \in 0 .. n - 1 /\ i < c
    BY <1>4, <2>1
  <2>3. w = IF M!Full(t, i) THEN M!Placed(u, t[i]) ELSE u
    <3>1. w = MoveStep(t, f, i + 1) /\ i + 1 # 0 /\ (i + 1) - 1 = i
      BY <1>5, <2>1
    <3> QED  BY <3>1 DEF MoveStep
  <2> HIDE DEF u, w
  <2>4. {y \in 0 .. (i + 1) - 1 : M!Full(t, y)}
           = {y \in 0 .. i - 1 : M!Full(t, y)} \cup (IF M!Full(t, i) THEN {i} ELSE {})
    BY <2>1
  <2>5. Cardinality(FullSlots(u)) \in Nat
    BY <2>2, FS_CardinalityType DEF Moved
  <2>6. CASE ~M!Full(t, i)
    <3>1. w = u /\ {y \in 0 .. (i + 1) - 1 : M!Full(t, y)} = {y \in 0 .. i - 1 : M!Full(t, y)}
      BY <2>3, <2>4, <2>6
    <3>2. /\ Shape(w, c) /\ Sound(w) /\ NoTombs(w)
          /\ Pairs(w) = {t[x] : x \in {y \in 0 .. (i + 1) - 1 : M!Full(t, y)}}
          /\ IsFiniteSet(FullSlots(w)) /\ Cardinality(FullSlots(w)) <= i
      BY <2>2, <3>1 DEF Moved
    <3>3. Cardinality(FullSlots(w)) <= i + 1
      BY <2>1, <2>5, <3>1, <3>2
    <3> QED  BY <3>2, <3>3 DEF Moved, w
  <2>7. CASE M!Full(t, i)
    <3>1. t[i] \in Pair
      BY <1>1, <1>2, <2>2, <2>7, ShapeFacts
    <3>2. KeyFree(u, t[i][1])
      <4> SUFFICES ASSUME NEW x \in 0 .. i - 1, M!Full(t, x) PROVE t[x][1] # t[i][1]
        BY <2>2 DEF Moved, KeyFree, Pairs
      <4>1. x \in DOMAIN t /\ i \in DOMAIN t /\ x # i
        BY <1>2, <2>1, <2>2
      <4> QED  BY <2>7, <4>1 DEF Sound, OneSlot
    <3>3. HasEmpty(u)
      <4>1. Cardinality(FullSlots(u)) < c
        BY <1>4, <2>1, <2>2, <2>5 DEF Moved
      <4> QED  BY <2>2, <4>1, RoomLeft DEF Moved
    <3>4. /\ Sound(w) /\ Shape(w, c) /\ NoTombs(w)
          /\ Pairs(w) = Pairs(u) \cup {t[i]}
          /\ \E s : FullSlots(w) = FullSlots(u) \cup {s}
      <4>1. Shape(u, c) /\ Sound(u) /\ NoTombs(u)
        BY <2>2 DEF Moved
      <4>2. w = M!Placed(u, t[i])
        BY <2>3, <2>7
      <4> QED  BY <3>1, <3>2, <3>3, <4>1, <4>2, PlacedSound
    <3>5. IsFiniteSet(FullSlots(w)) /\ Cardinality(FullSlots(w)) <= i + 1
      <4>1. PICK s : FullSlots(w) = FullSlots(u) \cup {s}
        BY <3>4
      <4>2. IsFiniteSet(FullSlots(u)) /\ Cardinality(FullSlots(u)) <= i
        BY <2>2 DEF Moved
      <4>3. IsFiniteSet(FullSlots(w)) /\ Cardinality(FullSlots(w)) =
              IF s \in FullSlots(u) THEN Cardinality(FullSlots(u)) ELSE Cardinality(FullSlots(u)) + 1
        BY <4>1, <4>2, FS_AddElement
      <4> QED  BY <2>1, <2>5, <4>2, <4>3
    <3>6. Pairs(w) = {t[x] : x \in {y \in 0 .. (i + 1) - 1 : M!Full(t, y)}}
      BY <2>2, <2>4, <2>7, <3>4 DEF Moved
    <3> QED  BY <3>4, <3>5, <3>6 DEF Moved, w
  <2> QED  BY <2>6, <2>7 DEF w
<1>8. n \in T
  <2>1. T \subseteq Nat
    OBVIOUS
  <2> HIDE DEF T
  <2>2. T = Nat
    BY <1>6, <1>7, <2>1, SetInduction
  <2> QED  BY <2>2
<1>9. Moved(t, M!Grown(t), c, n)
  BY <1>3, <1>8
<1>10. Pairs(M!Grown(t)) = Pairs(t)
  BY <1>2, <1>9 DEF Moved, Pairs
<1>11. HasEmpty(M!Grown(t))
  <2>1. Cardinality(FullSlots(M!Grown(t))) \in Nat
    BY <1>9, FS_CardinalityType DEF Moved
  <2>2. Cardinality(FullSlots(M!Grown(t))) < c
    BY <1>4, <1>9, <2>1 DEF Moved
  <2> QED  BY <1>9, <2>2, RoomLeft DEF Moved
<1> QED  BY <1>9, <1>10, <1>11 DEF Moved

-----------------------------------------------------------------------------
(* Where a new key goes *)

LEMMA FreeFacts ==
    ASSUME NEW t, NEW n, Shape(t, n), NEW k \in Key, M!Free(t, k) # {}
    PROVE  \E j : FreeSlot(t, k, j) /\ M!Where(t, M!Free(t, k), k) = M!Probe(t, k, j)
<1>1. \A j \in M!Free(t, k) : /\ j \in M!Looks(t, k)
                              /\ t[M!Probe(t, k, j)] \in {Empty, Tomb}
  BY DEF M!Free
<1>2. M!Free(t, k) \subseteq Nat
  BY <1>1, LooksFacts, ShapeFacts
<1>3. PICK j \in M!Free(t, k) : M!Where(t, M!Free(t, k), k) = M!Probe(t, k, j)
  BY <1>2, WhereFacts
<1>4. FreeSlot(t, k, j)
  BY <1>1 DEF FreeSlot, M!Full
<1> QED  BY <1>3, <1>4

LEMMA EmptyIsFree ==
    ASSUME NEW t, NEW n, Shape(t, n), NEW k \in Key, HasEmpty(t)
    PROVE  M!Free(t, k) # {}
<1>1. PICK j \in M!Looks(t, k) : t[M!Probe(t, k, j)] = Empty
  BY FirstEmpty
<1> QED  BY <1>1 DEF M!Free

\* The entry takes the place of the key's, or a free one.
LEMMA PutSound ==
    ASSUME NEW t, Sound(t), NEW k \in Key, NEW v \in Value,
           M!Found(t, k) \cup M!Free(t, k) # {}, NEW u,
           Changed(t, M!Where(t, IF M!Found(t, k) # {} THEN M!Found(t, k) ELSE M!Free(t, k), k),
                   <<k, v>>, u)
    PROVE  Sound(u) /\ Pairs(u) = {p \in Pairs(t) : p[1] # k} \cup {<<k, v>>}
<1> DEFINE e == <<k, v>>
<1>1. e \in Pair /\ e[1] = k
  BY DEF Pair
<1>2. PICK n \in Nat \ {0} : Shape(t, n)
  BY DEF Sound
<1>3. CASE M!Found(t, k) # {}
  <2>1. PICK i \in DOMAIN t : M!Full(t, i) /\ t[i][1] = k
    BY <1>3, FoundFacts
  <2>2. Changed(t, i, e, u)
    BY <1>3, <2>1, FoundFacts
  <2> HIDE DEF e
  <2>3. Sound(u) /\ Pairs(u) = {p \in Pairs(t) : p[1] # k} \cup ({e} \cap Pair)
    BY <1>1, <2>1, <2>2, ChangeSound
  <2> QED  BY <1>1, <2>3 DEF e
<1>4. CASE M!Found(t, k) = {}
  <2>1. PICK j : FreeSlot(t, k, j) /\ M!Where(t, M!Free(t, k), k) = M!Probe(t, k, j)
    BY <1>2, <1>4, FreeFacts
  <2>2. KeyFree(t, k)
    BY <1>4, FoundFacts DEF KeyFree
  <2>3. Changed(t, M!Probe(t, k, j), <<k, v>>, u)
    BY <1>4, <2>1
  <2>4. Sound(u) /\ Pairs(u) = Pairs(t) \cup {<<k, v>>}
    BY <2>1, <2>2, <2>3, FillSound
  <2>5. \A p \in Pairs(t) : p[1] # k
    BY <2>2 DEF Pairs, KeyFree
  <2> QED  BY <2>4, <2>5
<1> QED  BY <1>3, <1>4

-----------------------------------------------------------------------------
(* The map that a table is *)

Functional(P) == P \subseteq Pair /\ \A p, q \in P : p[1] = q[1] => p = q
AsMap(P) == [k \in {p[1] : p \in P} |-> (CHOOSE p \in P : p[1] = k)[2]]

LEMMA AsMapFacts ==
    ASSUME NEW P, Functional(P)
    PROVE  /\ DOMAIN AsMap(P) = {p[1] : p \in P}
           /\ \A p \in P : AsMap(P)[p[1]] = p[2]
<1>1. DOMAIN AsMap(P) = {p[1] : p \in P}
  BY DEF AsMap
<1>2. ASSUME NEW p \in P PROVE AsMap(P)[p[1]] = p[2]
  <2>1. AsMap(P)[p[1]] = (CHOOSE q \in P : q[1] = p[1])[2]
    BY DEF AsMap
  <2>2. (CHOOSE q \in P : q[1] = p[1]) = p
    BY DEF Functional
  <2> QED  BY <2>1, <2>2
<1> QED  BY <1>1, <1>2

LEMMA PairsFunctional == ASSUME NEW t, Sound(t) PROVE Functional(Pairs(t))
<1>1. PICK n \in Nat \ {0} : Shape(t, n)
  BY DEF Sound
<1>2. Pairs(t) \subseteq Pair
  BY <1>1, ShapeFacts DEF Pairs
<1>3. \A p, q \in Pairs(t) : p[1] = q[1] => p = q
  BY DEF Pairs, Sound, OneSlot
<1> QED  BY <1>2, <1>3 DEF Functional

LEMMA ContentsIs == Sound(mTable) => M!Contents = AsMap(Pairs(mTable))
<1> SUFFICES ASSUME Sound(mTable) PROVE M!Contents = AsMap(Pairs(mTable))
  OBVIOUS
<1>1. Functional(Pairs(mTable))
  BY PairsFunctional
<1>2. M!Keys = {p[1] : p \in Pairs(mTable)}
  BY DEF M!Keys, M!In, Pairs
<1>3. ASSUME NEW k \in M!Keys
      PROVE  AsMap(Pairs(mTable))[k] = mTable[CHOOSE i \in M!In : mTable[i][1] = k][2]
  <2> DEFINE i == CHOOSE i \in M!In : mTable[i][1] = k
  <2>1. i \in M!In /\ mTable[i][1] = k
    BY DEF M!Keys
  <2> HIDE DEF i
  <2>2. mTable[i] \in Pairs(mTable)
    BY <2>1 DEF M!In, Pairs
  <2>3. AsMap(Pairs(mTable))[k] = mTable[i][2]
    BY <1>1, <2>1, <2>2, AsMapFacts
  <2> QED  BY <2>3 DEF i
<1>4. AsMap(Pairs(mTable)) = [k \in M!Keys |-> AsMap(Pairs(mTable))[k]]
  BY <1>2 DEF AsMap
<1> QED  BY <1>3, <1>4 DEF M!Contents

LEMMA ContentsNext == Sound(mTable') => M!Contents' = AsMap(Pairs(mTable'))
<1>1. Sound(mTable)' => (M!Contents = AsMap(Pairs(mTable)))'
  BY ContentsIs, PTL
<1> QED  BY <1>1

\* A pair put in, and the pair of a key taken out.
LEMMA PutMap ==
    ASSUME NEW P, Functional(P), NEW k \in Key, NEW v \in Value,
           NEW Q, Q = {p \in P : p[1] # k} \cup {<<k, v>>}
    PROVE  AsMap(Q) = [l \in DOMAIN AsMap(P) \cup {k} |-> IF l = k THEN v ELSE AsMap(P)[l]]
<1> DEFINE f == AsMap(P)
           g == AsMap(Q)
<1>1. Functional(Q)
  BY DEF Functional, Pair
<1>2. DOMAIN f = {p[1] : p \in P} /\ \A p \in P : f[p[1]] = p[2]
  BY AsMapFacts
<1>3. DOMAIN g = {p[1] : p \in Q} /\ \A p \in Q : g[p[1]] = p[2]
  BY <1>1, AsMapFacts
<1>4. g = [l \in DOMAIN g |-> g[l]]
  BY DEF AsMap
<1> HIDE DEF f, g
<1>5. <<k, v>> \in Q /\ <<k, v>>[1] = k /\ <<k, v>>[2] = v
  OBVIOUS
<1>6. DOMAIN g = DOMAIN f \cup {k}
  <2>1. ASSUME NEW l \in DOMAIN g PROVE l \in DOMAIN f \cup {k}
    <3>1. PICK q \in Q : l = q[1]
      BY <1>3
    <3>2. CASE q \in P
      BY <1>2, <3>1, <3>2
    <3>3. CASE q = <<k, v>>
      BY <1>5, <3>1, <3>3
    <3> QED  BY <3>2, <3>3
  <2>2. ASSUME NEW l \in DOMAIN f, l # k PROVE l \in DOMAIN g
    BY <1>2, <1>3, <2>2
  <2>3. k \in DOMAIN g
    BY <1>3, <1>5
  <2> QED  BY <2>1, <2>2, <2>3
<1>7. g[k] = v
  BY <1>3, <1>5
<1>8. ASSUME NEW l \in DOMAIN g, l # k PROVE g[l] = f[l]
  <2>1. PICK q \in Q : l = q[1]
    BY <1>3
  <2>2. q \in P /\ g[l] = q[2]
    BY <1>3, <1>5, <1>8, <2>1
  <2> QED  BY <1>2, <2>1, <2>2
<1>9. \A l \in DOMAIN g : g[l] = IF l = k THEN v ELSE f[l]
  BY <1>7, <1>8
<1>10. g = [l \in DOMAIN f \cup {k} |-> g[l]]
  BY <1>4, <1>6
<1>11. g = [l \in DOMAIN f \cup {k} |-> IF l = k THEN v ELSE f[l]]
  BY <1>6, <1>9, <1>10
<1> QED  BY <1>11 DEF f, g

LEMMA RemoveMap ==
    ASSUME NEW P, Functional(P), NEW k,
           NEW Q, Q = {p \in P : p[1] # k}
    PROVE  AsMap(Q) = [l \in DOMAIN AsMap(P) \ {k} |-> AsMap(P)[l]]
<1> DEFINE f == AsMap(P)
           g == AsMap(Q)
<1>1. Functional(Q)
  BY DEF Functional
<1>2. DOMAIN f = {p[1] : p \in P} /\ \A p \in P : f[p[1]] = p[2]
  BY AsMapFacts
<1>3. DOMAIN g = {p[1] : p \in Q} /\ \A p \in Q : g[p[1]] = p[2]
  BY <1>1, AsMapFacts
<1>4. g = [l \in DOMAIN g |-> g[l]]
  BY DEF AsMap
<1> HIDE DEF f, g
<1>5. DOMAIN g = DOMAIN f \ {k}
  BY <1>2, <1>3
<1>6. \A l \in DOMAIN g : g[l] = f[l]
  BY <1>2, <1>3
<1>7. g = [l \in DOMAIN f \ {k} |-> f[l]]
  BY <1>4, <1>5, <1>6
<1> QED  BY <1>7 DEF f, g

-----------------------------------------------------------------------------
(* The steps *)

LEMMA InitMInv == M!Init => MInv /\ M!A!Init
<1> SUFFICES ASSUME M!Init PROVE MInv /\ M!A!Init
  OBVIOUS
<1>1. mTable = M!NoSlots(MapCap) /\ mLast = <<"new">>
  BY DEF M!Init
<1>2. Sound(mTable) /\ Pairs(mTable) = {}
  BY <1>1, NoSlotsSound, PartsAssumption DEF M!OpenMapAssumption
<1>3. M!Contents = <<>>
  <2>1. M!Contents = AsMap({})
    BY <1>2, ContentsIs
  <2>2. AsMap({}) = <<>>
    BY DEF AsMap
  <2> QED  BY <2>1, <2>2
<1> QED  BY <1>1, <1>2, <1>3 DEF MInv, M!A!Init

LEMMA PutMInv ==
    ASSUME MInv, NEW k \in Key, NEW v \in Value, M!Put(k, v)
    PROVE  MInv' /\ M!A!Put(k, v)
<1> DEFINE first == IF M!Crowded THEN M!Grown(mTable) ELSE mTable
           t == IF M!Found(first, k) \cup M!Free(first, k) = {} THEN M!Grown(first) ELSE first
<1>1. Sound(first) /\ Pairs(first) = Pairs(mTable)
  BY GrownSound DEF MInv
<1> HIDE DEF first
<1>2. /\ Sound(t) /\ Pairs(t) = Pairs(mTable)
      /\ M!Found(t, k) \cup M!Free(t, k) # {}
  <2>1. CASE M!Found(first, k) \cup M!Free(first, k) # {}
    BY <1>1, <2>1
  <2>2. CASE M!Found(first, k) \cup M!Free(first, k) = {}
    <3>1. t = M!Grown(first)
      BY <2>2
    <3>2. Sound(t) /\ Pairs(t) = Pairs(first) /\ HasEmpty(t)
      BY <1>1, <3>1, GrownSound
    <3> HIDE DEF t
    <3>3. M!Free(t, k) # {}
      BY <3>2, EmptyIsFree DEF Sound
    <3> QED  BY <1>1, <3>2, <3>3
  <2> QED  BY <2>1, <2>2
<1>3. /\ Changed(t, M!Where(t, IF M!Found(t, k) # {} THEN M!Found(t, k) ELSE M!Free(t, k), k),
                 <<k, v>>, mTable')
      /\ mLast' = <<"put", k, v>>
  BY DEF M!Put, Changed, first
<1> HIDE DEF t
<1>4. Sound(mTable') /\ Pairs(mTable') = {p \in Pairs(mTable) : p[1] # k} \cup {<<k, v>>}
  BY <1>2, <1>3, PutSound
<1>5. M!Contents = AsMap(Pairs(mTable)) /\ M!Contents' = AsMap(Pairs(mTable'))
  BY <1>4, ContentsIs, ContentsNext DEF MInv
<1>6. Functional(Pairs(mTable))
  BY PairsFunctional DEF MInv
<1>7. M!Contents' = [l \in DOMAIN M!Contents \cup {k} |-> IF l = k THEN v ELSE M!Contents[l]]
  BY <1>4, <1>5, <1>6, PutMap
<1> QED  BY <1>3, <1>4, <1>7 DEF MInv, M!A!Put

\* What a search tells.
LEMMA SearchTells ==
    ASSUME MInv, NEW k \in Key
    PROVE  /\ M!Contains(k) <=> k \in DOMAIN M!Contents
           /\ M!Contains(k) =>
                 LET i == M!Where(mTable, M!Found(mTable, k), k)
                 IN  /\ i \in DOMAIN mTable /\ M!Full(mTable, i) /\ mTable[i][1] = k
                     /\ M!ValueOf(k) = M!Contents[k]
<1>1. M!Contents = AsMap(Pairs(mTable)) /\ Functional(Pairs(mTable)) /\ Sound(mTable)
  BY ContentsIs, PairsFunctional DEF MInv
<1>2. DOMAIN M!Contents = {p[1] : p \in Pairs(mTable)}
  BY <1>1, AsMapFacts
<1>3. M!Contains(k) <=> \E i \in DOMAIN mTable : M!Full(mTable, i) /\ mTable[i][1] = k
  BY <1>1, FoundFacts DEF M!Contains
<1>4. M!Contains(k) <=> k \in DOMAIN M!Contents
  BY <1>2, <1>3 DEF Pairs
<1>5. ASSUME M!Contains(k)
      PROVE  LET i == M!Where(mTable, M!Found(mTable, k), k)
             IN  /\ i \in DOMAIN mTable /\ M!Full(mTable, i) /\ mTable[i][1] = k
                 /\ M!ValueOf(k) = M!Contents[k]
  <2>1. PICK i \in DOMAIN mTable : M!Full(mTable, i) /\ mTable[i][1] = k
    BY <1>3, <1>5
  <2>2. M!Where(mTable, M!Found(mTable, k), k) = i
    BY <1>1, <2>1, FoundFacts
  <2>3. mTable[i] \in Pairs(mTable)
    BY <2>1 DEF Pairs
  <2>4. M!Contents[k] = mTable[i][2]
    BY <1>1, <2>1, <2>3, AsMapFacts
  <2> QED  BY <2>1, <2>2, <2>4 DEF M!ValueOf
<1> QED  BY <1>4, <1>5

LEMMA GetMInv ==
    ASSUME MInv, NEW k \in Key, M!Get(k)
    PROVE  MInv' /\ M!A!Get(k)
<1>1. M!Contains(k) /\ mTable' = mTable /\ mLast' = <<"get", k, M!ValueOf(k)>>
  BY DEF M!Get
<1>2. k \in DOMAIN M!Contents /\ M!ValueOf(k) = M!Contents[k]
  BY <1>1, SearchTells
<1>3. M!Contents' = M!Contents
  BY <1>1 DEF M!Contents, M!Keys, M!In
<1> QED  BY <1>1, <1>2, <1>3 DEF MInv, M!A!Get

LEMMA RemoveMInv ==
    ASSUME MInv, NEW k \in Key, M!Remove(k)
    PROVE  MInv' /\ M!A!Remove(k)
<1>1. mLast' = <<"remove", k, k \in DOMAIN M!Contents>>
  <2>1. M!Contains(k) = (k \in DOMAIN M!Contents)
    BY SearchTells DEF M!Contains
  <2> QED  BY <2>1 DEF M!Remove
<1>2. Sound(mTable') /\ Pairs(mTable') = {p \in Pairs(mTable) : p[1] # k}
  <2>1. CASE M!Contains(k)
    <3> DEFINE i == M!Where(mTable, M!Found(mTable, k), k)
    <3>1. i \in DOMAIN mTable /\ M!Full(mTable, i) /\ mTable[i][1] = k
      BY <2>1, SearchTells
    <3>2. Changed(mTable, i, Tomb, mTable')
      BY <2>1 DEF M!Remove, M!Removed, Changed
    <3> HIDE DEF i
    <3>3. Tomb \notin Pair
      BY PartsAssumption DEF M!OpenMapAssumption, Pair
    <3>4. /\ Sound(mTable')
          /\ Pairs(mTable') = {p \in Pairs(mTable) : p[1] # k} \cup ({Tomb} \cap Pair)
      BY <3>1, <3>2, <3>3, ChangeSound DEF MInv
    <3> QED  BY <3>3, <3>4
  <2>2. CASE ~M!Contains(k)
    <3>1. mTable' = mTable
      BY <2>2 DEF M!Remove
    <3>2. \A p \in Pairs(mTable) : p[1] # k
      <4>1. DOMAIN M!Contents = {p[1] : p \in Pairs(mTable)}
        BY ContentsIs, PairsFunctional, AsMapFacts DEF MInv
      <4> QED  BY <2>2, <4>1, SearchTells
    <3> QED  BY <3>1, <3>2 DEF MInv
  <2> QED  BY <2>1, <2>2
<1>3. M!Contents' = [l \in DOMAIN M!Contents \ {k} |-> M!Contents[l]]
  <2>1. M!Contents = AsMap(Pairs(mTable)) /\ M!Contents' = AsMap(Pairs(mTable'))
    BY <1>2, ContentsIs, ContentsNext DEF MInv
  <2>2. Functional(Pairs(mTable))
    BY PairsFunctional DEF MInv
  <2> DEFINE P == Pairs(mTable)
             Q == Pairs(mTable')
  <2>3. Q = {p \in P : p[1] # k} /\ Functional(P)
    BY <1>2, <2>2
  <2> HIDE DEF P, Q
  <2>4. AsMap(Q) = [l \in DOMAIN AsMap(P) \ {k} |-> AsMap(P)[l]]
    BY <2>3, RemoveMap
  <2> QED  BY <2>1, <2>4 DEF P, Q
<1> QED  BY <1>1, <1>2, <1>3 DEF MInv, M!A!Remove

LEMMA ClearMInv == ASSUME MInv, M!Clear PROVE MInv' /\ M!A!Clear
<1>1. PICK n \in Nat \ {0} : Shape(mTable, n)
  BY DEF MInv, Sound
<1>2. mTable' = M!NoSlots(n) /\ mLast' = <<"clear">>
  BY <1>1, ShapeFacts DEF M!Clear
<1>3. Sound(mTable') /\ Pairs(mTable') = {}
  BY <1>2, NoSlotsSound
<1>4. M!Contents' = <<>>
  <2>1. M!Contents' = AsMap({})
    BY <1>3, ContentsNext
  <2>2. AsMap({}) = <<>>
    BY DEF AsMap
  <2> QED  BY <2>1, <2>2
<1> QED  BY <1>2, <1>3, <1>4 DEF MInv, M!A!Clear

LEMMA NextMInv ==
    MInv /\ [M!Next]_map => MInv' /\ [M!A!Next]_<<M!Contents, mLast>>
<1> SUFFICES ASSUME MInv, [M!Next]_map PROVE MInv' /\ [M!A!Next]_<<M!Contents, mLast>>
  OBVIOUS
<1>1. ASSUME NEW k \in Key, NEW v \in Value, M!Put(k, v)
      PROVE  MInv' /\ [M!A!Next]_<<M!Contents, mLast>>
  BY <1>1, PutMInv DEF M!A!Next
<1>2. ASSUME NEW k \in Key, M!Remove(k)
      PROVE  MInv' /\ [M!A!Next]_<<M!Contents, mLast>>
  BY <1>2, RemoveMInv DEF M!A!Next
<1>3. ASSUME NEW k \in Key, M!Get(k)
      PROVE  MInv' /\ [M!A!Next]_<<M!Contents, mLast>>
  BY <1>3, GetMInv DEF M!A!Next
<1>4. ASSUME M!Clear PROVE MInv' /\ [M!A!Next]_<<M!Contents, mLast>>
  BY <1>4, ClearMInv DEF M!A!Next
<1>5. ASSUME UNCHANGED map PROVE MInv' /\ [M!A!Next]_<<M!Contents, mLast>>
  BY <1>5 DEF map, MInv, M!Contents, M!Keys, M!In
<1> QED  BY <1>1, <1>2, <1>3, <1>4, <1>5 DEF M!Next

LEMMA MapStep == SyncInit /\ [][SyncNext]_syncVars => M!Init /\ [][M!Next]_map
<1>1. SyncInit => M!Init
  BY DEF SyncInit
<1>2. [SyncNext]_syncVars => [M!Next]_map
  BY DEF SyncNext, syncVars, BarrierStep, ChannelStep
<1> QED  BY <1>1, <1>2, PTL

\* Every call on a map returns what a map's would, for any keys, hashes and
\* capacity: collisions, tombstones and growth lose nothing and find nothing that
\* is not there (hphl_map_put, hphl_map_get, hphl_map_remove, hphl_map_grow).
THEOREM MapRefines == SyncSpec => MapIsFunction
<1>1. MInv /\ [M!Next]_map => MInv' /\ [M!A!Next]_<<M!Contents, mLast>>
  BY NextMInv
<1> QED  BY <1>1, InitMInv, MapStep, PTL DEF SyncSpec, MapIsFunction, M!MapIsFunction, M!A!Spec
=============================================================================
