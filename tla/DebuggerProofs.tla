--------------------------- MODULE DebuggerProofs ---------------------------
(***************************************************************************)
(* Stops of the debugger for any number of threads, slots and commands in  *)
(* the pipe (Debugger), and a debug session for any lines, conditions, hit *)
(* counts, stops and requests (Session).                                   *)
(***************************************************************************)
EXTENDS MCDebug, SeqLemmas, FiniteSetTheorems

(* Stops: one reader, one slot per stop, no resume lost, and none read by  *)
(* another thread than the one it was meant for.                           *)

Resume(cmd) == cmd.op # "pause"

\* The pool starts as a whole.
Birth == (\E w \in Worker : pc[w] = "unborn") => \A w \in Worker : pc[w] = "unborn"

\* Only a stopped thread, one with a slot, is resumed.
GrantedStopped == \A t \in granted : slotOf[t] # 0

\* What the adapter shows is the stop of the thread that reads the pipe, and
\* nothing has been answered yet; an adapter that has gone shows nothing.
ShownReads ==
    shown # None => /\ ~closed
                    /\ shown \in Thread /\ loopTid = shown /\ pc[shown] = "loop"
                    /\ \A i \in 1 .. Len(inbox) : ~Resume(inbox[i])

\* At most one resume is in the pipe, for the thread that reads it now, whose
\* stop is shown no more.
OneResume ==
    /\ \A i \in 1 .. Len(inbox) :
          Resume(inbox[i]) => /\ shown = None /\ loopTid \in Thread
                              /\ loopTid = inbox[i].for /\ pc[loopTid] = "loop"
    /\ \A i, j \in 1 .. Len(inbox) :
          Resume(inbox[i]) /\ Resume(inbox[j]) => i = j

IInv ==
    /\ TypeOK /\ Birth
    /\ SoleReader
    /\ SlotsExact /\ GrantsArrive /\ GrantedStopped
    /\ ShownReads /\ OneResume

Cmd == [op : {"continue", "step", "pause"}, arg : Thread \cup {None},
        for : Thread \cup {None}]

-----------------------------------------------------------------------------

\* The first trap of Main, before there are other threads.
LEMMA InitIInv == Init => IInv
<1> SUFFICES ASSUME Init PROVE IInv
  OBVIOUS
<1> USE DebuggerAssumption DEF DebuggerAssumption, Init, Thread, Slot
<1>1. inbox \in Seq(Cmd) /\ Len(inbox) = 0
  BY EmptySeq, LenProperties
<1>2. TypeOK
  BY <1>1 DEF TypeOK, Cmd
<1>3. Birth /\ SoleReader /\ GrantsArrive /\ GrantedStopped
  BY DEF Birth, SoleReader, GrantsArrive, GrantedStopped
<1>4. SlotsExact
  BY DEF SlotsExact
<1>5. ShownReads /\ OneResume
  BY <1>1 DEF ShownReads, OneResume
<1> QED
  BY <1>2, <1>3, <1>4, <1>5 DEF IInv

\* Every step of every thread and of the adapter keeps it.
LEMMA NextIInv == IInv /\ [Next]_vars => IInv'
<1> SUFFICES ASSUME IInv, [Next]_vars PROVE IInv'
  OBVIOUS
<1> USE DebuggerAssumption DEF IInv
<1>len. Len(inbox) \in Nat
  BY LenProperties DEF TypeOK
\* A pipe that lost its first command, or none.
<1>tail. ASSUME inbox # <<>>, inbox' = Tail(inbox)
         PROVE  /\ inbox' \in Seq(Cmd) /\ Len(inbox') = Len(inbox) - 1
                /\ \A i \in 1 .. Len(inbox') : inbox'[i] = inbox[i + 1]
                /\ Head(inbox) = inbox[1] /\ Head(inbox) \in Cmd
                /\ Len(inbox) >= 1
  <2>1. inbox \in Seq(Cmd)
    BY DEF TypeOK, Cmd
  <2>2. Len(inbox) # 0
    BY <1>tail, <2>1, EmptySeq
  <2> QED
    BY <1>tail, <2>1, <2>2, <1>len, TailFacts
<1>1. CASE StartPool
  <2> USE <1>1 DEF StartPool, stops
  <2>1. \A t \in Thread : pc[t] \in {"unborn", "run"}
    BY DEF Birth, Thread
  <2>2. TypeOK'
    BY <2>1 DEF TypeOK
  <2>3. Birth' /\ SoleReader' /\ GrantsArrive' /\ GrantedStopped'
    BY DEF Birth, SoleReader, GrantsArrive, GrantedStopped, TypeOK, Thread
  <2>4. SlotsExact'
    BY DEF SlotsExact
  <2>5. ShownReads' /\ OneResume'
    BY <2>1 DEF ShownReads, OneResume
  <2> QED
    BY <2>2, <2>3, <2>4, <2>5
<1>2. ASSUME NEW t \in Thread, Trap(t) PROVE IInv'
  <2> USE <1>2 DEF Trap, GoTo
  <2>1. PICK s \in Slot : /\ owner[s] = None
                          /\ owner' = [owner EXCEPT ![s] = t]
                          /\ slotOf' = [slotOf EXCEPT ![t] = s]
    BY DEF FreeSlot
  <2>2. slotOf[t] = 0 /\ t # None /\ s # 0
    BY DEF TypeOK, DebuggerAssumption, Slot
  <2>3. TypeOK'
    BY <2>1 DEF TypeOK
  <2>4. Birth' /\ SoleReader' /\ GrantedStopped'
    BY <2>1, <2>2 DEF Birth, SoleReader, GrantedStopped, TypeOK, Thread
  <2>5. SlotsExact'
    <3>1. \A r \in Slot : owner[r] # None => slotOf[owner[r]] = r /\ owner[r] # t /\ owner[r] \in Thread
      BY <2>2 DEF SlotsExact, TypeOK, Slot
    <3>2. \A r \in Slot : owner'[r] # None => slotOf'[owner'[r]] = r
      BY <2>1, <3>1 DEF TypeOK
    <3>3. \A u \in Thread : slotOf[u] # 0 => slotOf[u] \in Slot /\ slotOf[u] # s
      BY <2>1, <2>2 DEF SlotsExact, TypeOK, DebuggerAssumption
    <3>4. \A u \in Thread : slotOf'[u] # 0 => owner'[slotOf'[u]] = u
      BY <2>1, <3>3 DEF SlotsExact, TypeOK
    <3>5. \A u \in Thread : pc'[u] \in {"claim", "sleep", "leave"} => slotOf'[u] # 0
      BY <2>1, <2>2 DEF SlotsExact, TypeOK
    <3> QED
      BY <3>2, <3>4, <3>5 DEF SlotsExact
  <2>6. GrantsArrive'
    BY <2>1, <2>2 DEF GrantsArrive, GrantedStopped, TypeOK
  <2>7. ShownReads' /\ OneResume'
    BY DEF ShownReads, OneResume, TypeOK
  <2> QED
    BY <2>3, <2>4, <2>5, <2>6, <2>7
<1>3. ASSUME NEW t \in Thread, Claim(t) PROVE IInv'
  <2> USE <1>3 DEF Claim, GoTo, Claimable, stops
  <2>1. t # None /\ loopTid = None /\ shown = None
        /\ \A i \in 1 .. Len(inbox) : ~Resume(inbox[i])
    BY DEF DebuggerAssumption, ShownReads, OneResume
  <2>2. TypeOK'
    BY DEF TypeOK
  <2>3. Birth' /\ SoleReader'
    BY <2>1 DEF Birth, SoleReader, TypeOK, Thread, DebuggerAssumption
  <2>4. SlotsExact' /\ GrantsArrive' /\ GrantedStopped'
    BY DEF SlotsExact, GrantsArrive, GrantedStopped, TypeOK
  <2>5. ShownReads' /\ OneResume'
    BY <2>1 DEF ShownReads, OneResume, TypeOK
  <2> QED
    BY <2>2, <2>3, <2>4, <2>5
<1>4. ASSUME NEW t \in Thread, Sleep(t) PROVE IInv'
  <2> USE <1>4 DEF Sleep, GoTo, stops
  <2>1. TypeOK'
    BY DEF TypeOK
  <2>2. Birth' /\ SoleReader'
    BY DEF Birth, SoleReader, TypeOK, Thread
  <2>3. SlotsExact' /\ GrantsArrive' /\ GrantedStopped'
    BY DEF SlotsExact, GrantsArrive, GrantedStopped, TypeOK
  <2>4. ShownReads' /\ OneResume'
    BY DEF ShownReads, OneResume, TypeOK
  <2> QED
    BY <2>1, <2>2, <2>3, <2>4
<1>5. ASSUME NEW t \in Thread, Wake(t) PROVE IInv'
  <2> USE <1>5 DEF Wake, GoTo
  <2>0. slotOf[t] \in Slot /\ \A u \in Thread : u # t => slotOf[u] # slotOf[t]
    BY DEF SlotsExact, TypeOK
  <2>1. TypeOK'
    BY <2>0 DEF TypeOK
  <2>2. Birth' /\ SoleReader'
    BY DEF Birth, SoleReader, TypeOK, Thread
  <2>3. SlotsExact' /\ GrantedStopped'
    BY DEF SlotsExact, GrantedStopped, TypeOK
  <2>4. GrantsArrive'
    BY <2>0 DEF GrantsArrive, GrantedStopped, TypeOK
  <2>5. ShownReads' /\ OneResume'
    BY DEF ShownReads, OneResume, TypeOK
  <2> QED
    BY <2>1, <2>2, <2>3, <2>4, <2>5
<1>6. ASSUME NEW t \in Thread, Leave(t) PROVE IInv'
  <2> USE <1>6 DEF Leave, Leaving, GoTo
  <2>0. slotOf[t] \in Slot /\ slotOf[t] # 0
        /\ \A u \in Thread : u # t => slotOf[u] # slotOf[t]
    BY DEF SlotsExact, TypeOK, Slot
  <2>1. TypeOK'
    BY <2>0 DEF TypeOK
  <2>2. Birth' /\ SoleReader'
    BY DEF Birth, SoleReader, TypeOK, Thread
  <2>3. SlotsExact'
    BY <2>0 DEF SlotsExact, TypeOK, DebuggerAssumption
  <2>4. GrantsArrive' /\ GrantedStopped'
    BY <2>0 DEF GrantsArrive, GrantedStopped, TypeOK
  <2>5. ShownReads' /\ OneResume'
    BY DEF ShownReads, OneResume, TypeOK
  <2> QED
    BY <2>1, <2>2, <2>3, <2>4, <2>5
\* The reader's commands: it is the only one, and holds the claim.
<1>reads. ASSUME NEW t \in Thread, pc[t] = "loop"
          PROVE  loopTid = t /\ \A u \in Thread : pc[u] \in {"loop", "return"} => u = t
  BY <1>reads DEF SoleReader
<1>7. ASSUME NEW t \in Thread, ContinueAll(t) PROVE IInv'
  <2> USE <1>7 DEF ContinueAll, Reads, GoTo
  <2>0. inbox # <<>> /\ inbox' = Tail(inbox) /\ Head(inbox).op = "continue" /\ pc[t] = "loop"
    OBVIOUS
  <2>1. \A i \in 1 .. Len(inbox') : ~Resume(inbox'[i])
    <3>1. Resume(inbox[1])
      BY <2>0, <1>tail DEF Resume
    <3> QED
      BY <2>0, <1>tail, <3>1, <1>len DEF OneResume
  <2>2. shown = None
    BY <2>0, <1>tail, <1>len DEF OneResume, Resume
  <2>3. StoppedOthers(t) \subseteq Thread /\ \A u \in StoppedOthers(t) : slotOf[u] # 0 /\ owner[slotOf[u]] = u
    BY DEF StoppedOthers, SlotsExact, DebuggerAssumption, TypeOK, Slot
  <2>4. event' \in [Slot -> BOOLEAN] /\ \A s \in Slot : event'[s] = (event[s] \/ owner[s] \in StoppedOthers(t))
    BY DEF Set, TypeOK
  <2>5. TypeOK'
    BY <2>0, <2>3, <2>4, <1>tail DEF TypeOK, Cmd
  <2>6. Birth' /\ SoleReader'
    BY DEF Birth, SoleReader, TypeOK, Thread
  <2>7. SlotsExact' /\ GrantedStopped'
    BY <2>3 DEF SlotsExact, GrantedStopped, TypeOK
  <2>8. GrantsArrive'
    BY <2>3, <2>4 DEF GrantsArrive, GrantedStopped, TypeOK
  <2>9. ShownReads' /\ OneResume'
    BY <2>1, <2>2 DEF ShownReads, OneResume
  <2> QED
    BY <2>5, <2>6, <2>7, <2>8, <2>9
<1>8. ASSUME NEW t \in Thread, ContinueOne(t) PROVE IInv'
  <2> USE <1>8 DEF ContinueOne, Reads
  <2> DEFINE u == Head(inbox).arg
  <2>0. inbox # <<>> /\ inbox' = Tail(inbox) /\ Head(inbox).op = "continue" /\ pc[t] = "loop"
    OBVIOUS
  <2>1. \A i \in 1 .. Len(inbox') : ~Resume(inbox'[i])
    <3>1. Resume(inbox[1])
      BY <2>0, <1>tail DEF Resume
    <3> QED
      BY <2>0, <1>tail, <3>1, <1>len DEF OneResume
  <2>2. shown = None
    BY <2>0, <1>tail, <1>len DEF OneResume, Resume
  <2>3. u \in Thread /\ slotOf[u] # 0 /\ owner[slotOf[u]] = u
    <3>1. u \in StoppedOthers(t)
      OBVIOUS
    <3>2. PICK s \in Slot : owner[s] = u
      BY <3>1 DEF StoppedOthers
    <3>3. u \in Thread /\ u # None
      BY <3>1 DEF StoppedOthers, DebuggerAssumption
    <3> HIDE DEF u
    <3>4. slotOf[u] = s /\ s # 0
      BY <3>2, <3>3 DEF SlotsExact, Slot
    <3> QED
      BY <3>2, <3>3, <3>4
  <2>4. event' \in [Slot -> BOOLEAN] /\ \A s \in Slot : event'[s] = (event[s] \/ owner[s] = u)
    BY DEF Set, TypeOK
  <2>5. TypeOK'
    BY <2>0, <2>3, <2>4, <1>tail DEF TypeOK, Cmd
  <2>6. Birth' /\ SoleReader'
    BY DEF Birth, SoleReader, TypeOK, Thread
  <2>7. SlotsExact' /\ GrantedStopped'
    BY <2>3 DEF SlotsExact, GrantedStopped, TypeOK
  <2>8. GrantsArrive'
    BY <2>3, <2>4 DEF GrantsArrive, GrantedStopped, TypeOK
  <2>9. ShownReads' /\ OneResume'
    BY <2>1, <2>2 DEF ShownReads, OneResume
  <2> QED
    BY <2>5, <2>6, <2>7, <2>8, <2>9
<1>9. ASSUME NEW t \in Thread, StepCommand(t) PROVE IInv'
  <2> USE <1>9 DEF StepCommand, Reads, GoTo, stops
  <2>0. inbox # <<>> /\ inbox' = Tail(inbox) /\ Head(inbox).op = "step" /\ pc[t] = "loop"
    OBVIOUS
  <2>1. \A i \in 1 .. Len(inbox') : ~Resume(inbox'[i])
    <3>1. Resume(inbox[1])
      BY <2>0, <1>tail DEF Resume
    <3> QED
      BY <2>0, <1>tail, <3>1, <1>len DEF OneResume
  <2>2. shown = None
    BY <2>0, <1>tail, <1>len DEF OneResume, Resume
  <2>3. TypeOK'
    BY <2>0, <1>tail DEF TypeOK, Cmd
  <2>4. Birth' /\ SoleReader'
    BY DEF Birth, SoleReader, TypeOK, Thread
  <2>5. SlotsExact' /\ GrantsArrive' /\ GrantedStopped'
    BY DEF SlotsExact, GrantsArrive, GrantedStopped, TypeOK
  <2>6. ShownReads' /\ OneResume'
    BY <2>1, <2>2 DEF ShownReads, OneResume
  <2> QED
    BY <2>3, <2>4, <2>5, <2>6
<1>10. ASSUME NEW t \in Thread, PauseCommand(t) PROVE IInv'
  <2> USE <1>10 DEF PauseCommand, Reads, stops
  <2>0. inbox # <<>> /\ inbox' = Tail(inbox)
    OBVIOUS
  <2>1. TypeOK'
    BY <2>0, <1>tail DEF TypeOK, Cmd
  <2>2. Birth' /\ SoleReader' /\ SlotsExact' /\ GrantsArrive' /\ GrantedStopped'
    BY DEF Birth, SoleReader, SlotsExact, GrantsArrive, GrantedStopped
  <2>3. \A i \in 1 .. Len(inbox') : i + 1 \in 1 .. Len(inbox) /\ inbox'[i] = inbox[i + 1]
    BY <2>0, <1>tail, <1>len
  <2>4. ShownReads'
    BY <2>3 DEF ShownReads
  <2>5. OneResume'
    <3>1. \A i \in 1 .. Len(inbox') : Resume(inbox'[i]) =>
             shown = None /\ loopTid \in Thread /\ loopTid = inbox'[i].for /\ pc[loopTid] = "loop"
      BY <2>3 DEF OneResume
    <3>2. \A i, j \in 1 .. Len(inbox') : Resume(inbox'[i]) /\ Resume(inbox'[j]) => i + 1 = j + 1
      BY <2>3 DEF OneResume
    <3> QED
      BY <3>1, <3>2 DEF OneResume
  <2> QED
    BY <2>1, <2>2, <2>4, <2>5
<1>11. ASSUME NEW t \in Thread, ReadClosed(t) PROVE IInv'
  <2> USE <1>11 DEF ReadClosed, GoTo, stops
  <2>0. Len(inbox) = 0
    BY DEF TypeOK
  <2>1. TypeOK'
    BY DEF TypeOK
  <2>2. Birth' /\ SoleReader'
    BY DEF Birth, SoleReader, TypeOK, Thread
  <2>3. SlotsExact' /\ GrantsArrive' /\ GrantedStopped'
    BY DEF SlotsExact, GrantsArrive, GrantedStopped, TypeOK
  <2>4. ShownReads' /\ OneResume'
    BY <2>0 DEF ShownReads, OneResume
  <2> QED
    BY <2>1, <2>2, <2>3, <2>4
<1>12. ASSUME NEW t \in Thread, Return(t) PROVE IInv'
  <2> USE <1>12 DEF Return, GoTo, AfterLoop, stops
  <2>0. loopTid = t /\ \A u \in Thread : pc[u] \in {"loop", "return"} => u = t
    BY DEF SoleReader
  <2>1. shown = None /\ \A i \in 1 .. Len(inbox) : ~Resume(inbox[i])
    BY <2>0 DEF ShownReads, OneResume
  <2>2. TypeOK'
    BY DEF TypeOK
  <2>3. Birth' /\ SoleReader'
    BY <2>0 DEF Birth, SoleReader, TypeOK, Thread
  <2>4. SlotsExact' /\ GrantsArrive' /\ GrantedStopped'
    BY DEF SlotsExact, GrantsArrive, GrantedStopped, TypeOK
  <2>5. ShownReads' /\ OneResume'
    BY <2>1 DEF ShownReads, OneResume
  <2> QED
    BY <2>2, <2>3, <2>4, <2>5
\* The adapter writes a command at the end of the pipe.
<1>send. ASSUME NEW cmd \in Cmd, Send(cmd)
         PROVE  /\ inbox' \in Seq(Cmd) /\ Len(inbox') = Len(inbox) + 1
                /\ \A i \in 1 .. Len(inbox) : inbox'[i] = inbox[i]
                /\ inbox'[Len(inbox) + 1] = cmd
  BY <1>send, AppendFacts DEF Send, TypeOK, Cmd
<1>resume. ASSUME NEW cmd \in Cmd, Send(cmd), shown # None, shown' = None, cmd.for = shown
           PROVE  IInv'
  <2> USE <1>resume DEF Send, stops
  <2>1. TypeOK'
    BY <1>send DEF TypeOK, Cmd
  <2>2. Birth' /\ SoleReader' /\ SlotsExact' /\ GrantsArrive' /\ GrantedStopped'
    BY DEF Birth, SoleReader, SlotsExact, GrantsArrive, GrantedStopped
  <2>3. \A i \in 1 .. Len(inbox') : Resume(inbox'[i]) => i = Len(inbox) + 1
    BY <1>send, <1>len DEF ShownReads
  <2>4. inbox'[Len(inbox) + 1].for = shown
    BY <1>send
  <2>5. ShownReads' /\ OneResume'
    BY <2>3, <2>4 DEF ShownReads, OneResume
  <2> QED
    BY <2>1, <2>2, <2>5
<1>13. CASE SendContinue
  <2>1. PICK u \in Thread \cup {None} : Send(Command("continue", u, shown))
    BY <1>13 DEF SendContinue
  <2>2. Command("continue", u, shown) \in Cmd /\ Command("continue", u, shown).for = shown
    BY DEF Command, Cmd, TypeOK
  <2> QED
    BY <1>13, <2>1, <2>2, <1>resume DEF SendContinue, ShownAfterResume
<1>14. CASE SendStep
  <2>1. PICK u \in {None, shown} : Send(Command("step", u, shown))
    BY <1>14 DEF SendStep
  <2>2. Command("step", u, shown) \in Cmd /\ Command("step", u, shown).for = shown
    BY DEF Command, Cmd, TypeOK
  <2> QED
    BY <1>14, <2>1, <2>2, <1>resume DEF SendStep, ShownAfterResume
<1>15. CASE SendPause
  <2>1. PICK u \in Thread \cup {None} : Send(Command("pause", u, None))
    BY <1>15 DEF SendPause
  <2> DEFINE cmd == Command("pause", u, None)
  <2>2. cmd \in Cmd /\ ~Resume(cmd)
    BY DEF Command, Cmd, Resume
  <2> HIDE DEF cmd
  <2>3. /\ inbox' \in Seq(Cmd) /\ Len(inbox') = Len(inbox) + 1
        /\ \A i \in 1 .. Len(inbox) : inbox'[i] = inbox[i]
        /\ inbox'[Len(inbox) + 1] = cmd
    BY <2>1, <2>2, <1>send DEF cmd
  <2>4. UNCHANGED <<pc, stops, loopTid, active, pauseReq, pauseTid, stepping,
                    closed, granted, shown>>
    BY <1>15, <2>1 DEF SendPause, Send
  <2> USE <2>4 DEF stops
  <2>5. TypeOK'
    BY <2>3 DEF TypeOK, Cmd
  <2>6. Birth' /\ SoleReader' /\ SlotsExact' /\ GrantsArrive' /\ GrantedStopped'
    BY DEF Birth, SoleReader, SlotsExact, GrantsArrive, GrantedStopped
  <2>7. \A i \in 1 .. Len(inbox') : Resume(inbox'[i]) =>
           i \in 1 .. Len(inbox) /\ inbox'[i] = inbox[i]
    BY <2>2, <2>3, <1>len
  <2>8. ShownReads'
    BY <2>7 DEF ShownReads
  <2>9. OneResume'
    BY <2>7 DEF OneResume
  <2> QED
    BY <2>5, <2>6, <2>8, <2>9
<1>16. CASE Vanish
  <2> USE <1>16 DEF Vanish, stops
  <2>1. TypeOK'
    BY DEF TypeOK
  <2>2. Birth' /\ SoleReader' /\ SlotsExact' /\ GrantsArrive' /\ GrantedStopped'
    BY DEF Birth, SoleReader, SlotsExact, GrantsArrive, GrantedStopped
  <2>3. ShownReads' /\ OneResume'
    BY DEF ShownReads, OneResume
  <2> QED
    BY <2>1, <2>2, <2>3
<1>17. CASE UNCHANGED vars
  <2> USE <1>17 DEF vars
  <2>1. TypeOK' /\ Birth' /\ SoleReader'
    BY DEF TypeOK, Birth, SoleReader
  <2>2. SlotsExact' /\ GrantsArrive' /\ GrantedStopped'
    BY DEF SlotsExact, GrantsArrive, GrantedStopped
  <2>3. ShownReads' /\ OneResume'
    BY DEF ShownReads, OneResume
  <2> QED
    BY <2>1, <2>2, <2>3
<1> QED
  BY <1>1, <1>2, <1>3, <1>4, <1>5, <1>6, <1>7, <1>8, <1>9, <1>10, <1>11, <1>12,
     <1>13, <1>14, <1>15, <1>16, <1>17 DEF Next, Adapter, Step

\* The inductive invariant holds whatever threads stop, whichever commands the
\* adapter sends and whenever it goes.
THEOREM DebuggerInvariance == Spec => []IInv
BY InitIInv, NextIInv, PTL DEF Spec

\* One thread at a time reads the pipe: the claim is held from the compare-and-
\* swap to the end of hphl_dbg_do_pause.
THEOREM ReadsAlone == Spec => []SoleReader
<1>1. IInv => SoleReader
  BY DEF IInv
<1> QED
  BY <1>1, DebuggerInvariance, PTL

\* A stop has its own slot, keeps the signal that resumes it, and is resumed by
\* the commands sent for it.
THEOREM StopsKept == Spec => []StopsExact
<1>1. IInv => Addressed
  BY DEF IInv, OneResume, Addressed, Resume
<1>2. IInv => StopsExact
  BY <1>1 DEF IInv, StopsExact
<1> QED
  BY <1>2, DebuggerInvariance, PTL

-----------------------------------------------------------------------------
(* A session: what is where *)


Requests == [op : {"continue", "step", "read", "threads", "breakpoints", "pause", "disconnect"},
             id : Nat, set : SUBSET Line]
Queries == [op : {"read", "threads"}, id : Nat, set : {{}}]
Commands == [op : {"continue", "step", "read", "threads", "pause"}, id : Nat,
             line : {None}, on : BOOLEAN]
            \cup [op : {"bpx"}, id : Nat, line : Line, on : BOOLEAN]
Lines == [op : {"paused", "ok", "read", "threads"}, id : Nat, stop : Nat,
          line : Line \cup {None}]
Points == [line : Line, hits : Nat]

Passing == Cond \cup Counted
Resumes(c) == c.op \in {"continue", "step"}
ResumeIn(q) == \E i \in 1 .. Len(q) : Resumes(q[i])
OnlyPauses(q) == \A i \in 1 .. Len(q) : q[i].op = "pause"
Places == {bps[i].line : i \in DOMAIN bps}

\* A resume is on its way or the program runs or has ended; its stop is told; or the
\* adapter tests whether to show it.
Going == prog \in {"run", "gone"} \/ ResumeIn(cmds)
Arrives == \E i \in 1 .. Len(lines) : lines[i].op = "paused"
OnWay == Going \/ Arrives \/ sPc = "cond"

STypes ==
    /\ cmds \in Seq(Commands) /\ lines \in Seq(Lines) /\ reqs \in Seq(Requests)
    /\ bps \in Seq(Points)
    /\ job \in Queries \cup {None} /\ asked \in Nat
    /\ \A i \in 1 .. Len(reqs) : /\ reqs[i].id \in 1 .. asked /\ reqs[i].set \subseteq ever
                                 /\ reqs[i].op # "breakpoints" => reqs[i].set = {}
    /\ job # None => job.id \in 1 .. asked
    /\ view \in [what : {"start", "running"}]
                \cup [what : {"stop"}, stop : Nat, why : {"pause", "step", "error", "breakpoint"},
                      line : Line \cup {None}]
    /\ wanted \subseteq ever /\ ever \subseteq Line /\ Places \subseteq ever
    /\ \A i \in DOMAIN bps : bps[i].hits <= stop

ViewIs ==
    /\ view.what = "running" <=> OnWay \/ ResumeIn(reqs)
    /\ OnWay => ~ResumeIn(reqs)
    /\ view.what = "start" => prog = "start"
    /\ S!Sees => prog = "stop" /\ stop = view.stop

FramesIs ==
    /\ prog = "start" => frames = 0
    /\ prog = "stop" /\ ~Going /\ ~Arrives => frames = stop

GoingIs ==
    /\ Going => ~Arrives /\ sPc \in {"events", "requests"}
    /\ prog = "run" => OnlyPauses(cmds)
    /\ prog = "gone" => cmds = <<>>
    /\ \A i \in 1 .. Len(cmds) : Resumes(cmds[i]) =>
           \A j \in 1 .. Len(cmds) : j > i => cmds[j].op = "pause"

ArrivesIs ==
    \A i \in 1 .. Len(lines) : lines[i].op = "paused" =>
        /\ i = Len(lines) /\ lines[i].stop = stop /\ lines[i].line = here
        /\ here \in Line /\ stop > 0
        /\ prog = "stop" /\ OnlyPauses(cmds) /\ sPc \in {"events", "requests"}
        /\ ~S!Asked => here \in Places
        /\ \A k \in DOMAIN bps : bps[k].hits < stop

\* The answer to a command is in the pipe, or the command is, and nothing else that
\* would be answered.
AnswerDue(op, id) ==
    \/ /\ lines = <<>>
       /\ \E k \in 1 .. Len(cmds) :
             /\ cmds[k].op = op /\ cmds[k].id = id
             /\ \A i \in 1 .. Len(cmds) : i # k => cmds[i].op = "pause"
    \/ /\ OnlyPauses(cmds)
       /\ Len(lines) = 1 /\ lines[1].op = op /\ lines[1].id = id /\ lines[1].stop = stop

PcIs ==
    /\ sPc = "reply" => ~OnWay /\ prog = "stop" /\ AnswerDue(job.op, job.id)
    /\ sPc = "cond" => prog = "stop" /\ ~Going /\ ~Arrives /\ AnswerDue("read", 0)
                       /\ here \in Line /\ stop > 0
    /\ sPc \in {"events", "requests"} =>
          /\ \A i \in 1 .. Len(cmds) : cmds[i].op \notin {"read", "threads"}
          /\ \A i \in 1 .. Len(lines) : lines[i].op \in {"ok", "paused"}

Unconfirmed ==
    \/ \E i \in 1 .. Len(cmds) : cmds[i].op = "bpx"
    \/ \E i \in 1 .. Len(lines) : lines[i].op = "ok"

Queried(j) == reqs[j].op \in {"read", "threads"}
ResumeBefore(j) == \E k \in 1 .. Len(reqs) : k < j /\ Resumes(reqs[k])

OrderIs ==
    /\ \A i, j \in 1 .. Len(reqs) : Resumes(reqs[i]) /\ Resumes(reqs[j]) => i = j
    /\ \A i \in 1 .. Len(reqs) :
          /\ reqs[i].op \in {"breakpoints", "threads"} => ~OnWay /\ ~ResumeBefore(i)
          /\ reqs[i].op = "threads" => prog = "stop"
    /\ \A i, j \in 1 .. Len(reqs) :
          i < j /\ reqs[i].op = "breakpoints" /\ Queried(j) => ResumeBefore(j)
    /\ \A j \in 1 .. Len(reqs) : ~OnWay /\ Unconfirmed /\ Queried(j) => ResumeBefore(j)
    /\ view.what # "running"
          /\ (Unconfirmed \/ \E i \in 1 .. Len(reqs) : reqs[i].op = "breakpoints") => edited

ReadsAre ==
    /\ \A j \in 1 .. Len(reqs) :
          view.what = "running" /\ reqs[j].op = "read" /\ (ResumeIn(reqs) => ResumeBefore(j))
             => ever \cap Passing = {}
    /\ (Going \/ Arrives) /\ frames # 0 => ever \cap Passing # {}
    /\ sPc = "cond" => ever \cap Passing # {}

StepsAsked ==
    (\E i \in 1 .. Len(cmds) : cmds[i].op = "step") \/ (prog = "run" /\ sStepping) => S!Asked

About(c, l) == c.op = "bpx" /\ c.line = l
OnAfter(l) ==
    \E i \in 0 .. Len(cmds) :
        /\ \A j \in 1 .. Len(cmds) : j > i => ~About(cmds[j], l)
        /\ IF i = 0 THEN l \in armed ELSE About(cmds[i], l) /\ cmds[i].on
ArmedIs == prog # "gone" => \A l \in Line : OnAfter(l) <=> l \in Places

ShownHolds ==
    S!Sees /\ view.why = "breakpoint" => (view.line \in Cond => view.stop \in True)

Over == prog = "gone" /\ cmds = <<>> /\ sPc = "events"

SInv ==
    /\ S!TypeOK /\ STypes /\ ShownHolds
    /\ quit => Over
    /\ ~quit => /\ ViewIs /\ FramesIs /\ GoingIs /\ ArrivesIs /\ PcIs
                /\ OrderIs /\ ReadsAre /\ StepsAsked /\ ArmedIs

-----------------------------------------------------------------------------
(* The operators *)

\* The operators of the instance are those of the library.
LEMMA SameCardinality == \A X : S!Cardinality(X) = Cardinality(X)
  BY DEF S!Cardinality, Cardinality

LEMMA SameFinite == \A X : S!IsFiniteSet(X) <=> IsFiniteSet(X)
  BY DEF S!IsFiniteSet, IsFiniteSet

\* A function on 1 .. n is a sequence of length n.
LEMMA FunctionIsSeq ==
    ASSUME NEW P, NEW n \in Nat, NEW q \in [1 .. n -> P]
    PROVE  q \in Seq(P) /\ Len(q) = n /\ DOMAIN q = 1 .. n
  OBVIOUS

\* What the constants are.
LEMMA Assumed ==
    /\ IsFiniteSet(Line) /\ Passing \subseteq Line /\ Sets \subseteq SUBSET Line
    /\ MaxStops \in Nat /\ MaxAsked \in Nat
    /\ None \notin Line /\ None \notin Queries
  BY SessionAssumption, SameFinite DEF S!SessionAssumption, Passing, Queries

\* A set as a sequence: each member once.
LEMMA SetToSeqFacts ==
    ASSUME NEW X, IsFiniteSet(X)
    PROVE  /\ S!SetToSeq(X) \in Seq(X) /\ Len(S!SetToSeq(X)) = Cardinality(X)
           /\ Cardinality(X) \in Nat
           /\ \A i, j \in 1 .. Cardinality(X) : S!SetToSeq(X)[i] = S!SetToSeq(X)[j] => i = j
           /\ \A x \in X : \E i \in 1 .. Cardinality(X) : S!SetToSeq(X)[i] = x
<1> DEFINE n == Cardinality(X)
           q == S!SetToSeq(X)
<1>1. n \in Nat /\ ExistsBijection(1 .. n, X)
  BY FS_CardinalityType
<1>2. \E f \in [1 .. n -> X] : S!IsInjective(f)
  BY <1>1 DEF ExistsBijection, Bijection, Injection, IsInjective, S!IsInjective
<1>3. q = CHOOSE f \in [1 .. n -> X] : S!IsInjective(f)
  BY SameCardinality DEF S!SetToSeq
<1> HIDE DEF q
<1>4. q \in [1 .. n -> X] /\ S!IsInjective(q)
  BY <1>2, <1>3
<1>5. \A i, j \in 1 .. n : q[i] = q[j] => i = j
  BY <1>4 DEF S!IsInjective
<1>6. q \in Injection(1 .. n, X)
  BY <1>4, <1>5 DEF Injection, IsInjective
<1>7. Cardinality(1 .. n) = n
  BY <1>1, FS_Interval
<1>8. q \in Surjection(1 .. n, X)
  BY <1>6, <1>7, FS_Injection
<1>9. \A x \in X : \E i \in 1 .. n : q[i] = x
  BY <1>8 DEF Surjection
<1>10. q \in Seq(X) /\ Len(q) = n
  BY <1>1, <1>4
<1> QED  BY <1>1, <1>5, <1>9, <1>10 DEF q

\* What the places in use of a vector of breakpoints hold.
Vector(n, m) == [at : [1 .. n -> [line : Line, hits : 0 .. m]], len : 0 .. n]
Used(s) == {s.at[i].line : i \in 1 .. s.len}
Once(s) == \A i, j \in 1 .. s.len : s.at[i].line = s.at[j].line => i = j

\* Two sequences, one after the other.
LEMMA Joined ==
    ASSUME NEW P, NEW a \in Seq(P), NEW b \in Seq(P), NEW m, NEW n, m = Len(a), n = m + Len(b)
    PROVE  /\ a \o b \in Seq(P) /\ Len(a \o b) = n /\ m \in Nat /\ n \in Nat
           /\ \A i \in 1 .. n : (a \o b)[i] = IF i <= m THEN a[i] ELSE b[i - m]
  BY ConcatProperties, LenProperties

\* A piece of a sequence.
LEMMA Piece ==
    ASSUME NEW P, NEW q \in Seq(P), NEW m \in Nat \ {0}, NEW n \in Nat, m - 1 <= n, n <= Len(q)
    PROVE  /\ SubSeq(q, m, n) \in Seq(P) /\ Len(SubSeq(q, m, n)) = n - m + 1
           /\ \A i \in 1 .. n - m + 1 : SubSeq(q, m, n)[i] = q[m + i - 1]
  OBVIOUS

\* One place taken out of the first len of a sequence, whose end stays as it was.
LEMMA TakenOut ==
    ASSUME NEW P, NEW q \in Seq(P), NEW len \in 1 .. Len(q), NEW k \in 1 .. len
    PROVE  SubSeq(q, 1, k - 1) \o SubSeq(q, k + 1, len) \o SubSeq(q, len, Len(q))
           = [i \in 1 .. Len(q) |-> q[IF i \in k .. len - 1 THEN i + 1 ELSE i]]
<1> DEFINE n == Len(q)
           a == SubSeq(q, 1, k - 1)
           b == SubSeq(q, k + 1, len)
           c == SubSeq(q, len, n)
           d == a \o b
           t == d \o c
           from(i) == IF i \in k .. len - 1 THEN i + 1 ELSE i
<1>1. n \in Nat /\ len \in Nat /\ k \in Nat /\ 1 <= k /\ k <= len /\ len <= n
  BY LenProperties
<1>2. a \in Seq(P) /\ Len(a) = k - 1 /\ \A i \in 1 .. k - 1 : a[i] = q[1 + i - 1]
  <2>1. k - 1 \in Nat /\ 1 - 1 <= k - 1 /\ k - 1 <= Len(q) /\ k - 1 - 1 + 1 = k - 1
    BY <1>1
  <2> QED  BY <2>1, Piece
<1>3. b \in Seq(P) /\ Len(b) = len - k /\ \A i \in 1 .. len - k : b[i] = q[k + 1 + i - 1]
  <2>1. k + 1 \in Nat \ {0} /\ k + 1 - 1 <= len /\ len <= Len(q) /\ len - (k + 1) + 1 = len - k
    BY <1>1
  <2> QED  BY <1>1, <2>1, Piece
<1>4. c \in Seq(P) /\ Len(c) = n - len + 1 /\ \A i \in 1 .. n - len + 1 : c[i] = q[len + i - 1]
  BY <1>1, Piece
<1> HIDE DEF n, a, b, c
<1>5. /\ d \in Seq(P) /\ Len(d) = len - 1
      /\ \A i \in 1 .. len - 1 : d[i] = IF i <= k - 1 THEN a[i] ELSE b[i - (k - 1)]
  <2> DEFINE u == k - 1
             v == len - 1
  <2>1. u = Len(a) /\ v = u + Len(b) /\ a \in Seq(P) /\ b \in Seq(P)
    BY <1>1, <1>2, <1>3
  <2> HIDE DEF u, v
  <2>2. /\ a \o b \in Seq(P) /\ Len(a \o b) = v
        /\ \A i \in 1 .. v : (a \o b)[i] = IF i <= u THEN a[i] ELSE b[i - u]
    BY <2>1, Joined
  <2> QED  BY <2>2 DEF u, v, d
<1> HIDE DEF d
<1>6. /\ t \in Seq(P) /\ Len(t) = n
      /\ \A i \in 1 .. n : t[i] = IF i <= len - 1 THEN d[i] ELSE c[i - (len - 1)]
  <2> DEFINE v == len - 1
  <2>1. v = Len(d) /\ n = v + Len(c) /\ d \in Seq(P) /\ c \in Seq(P)
    BY <1>1, <1>4, <1>5
  <2> HIDE DEF v
  <2>2. /\ d \o c \in Seq(P) /\ Len(d \o c) = n
        /\ \A i \in 1 .. n : (d \o c)[i] = IF i <= v THEN d[i] ELSE c[i - v]
    BY <2>1, Joined
  <2> QED  BY <2>2 DEF v, t
<1> HIDE DEF t
<1>7. ASSUME NEW i \in 1 .. n PROVE t[i] = q[from(i)]
  <2>1. CASE i <= k - 1
    <3>1. i \in 1 .. k - 1 /\ i \in 1 .. len - 1 /\ i <= len - 1 /\ from(i) = i /\ 1 + i - 1 = i
      BY <1>1, <2>1
    <3> QED  BY <1>2, <1>5, <1>6, <2>1, <3>1
  <2>2. CASE i \in k .. len - 1
    <3>1. /\ i \in 1 .. len - 1 /\ i <= len - 1 /\ ~(i <= k - 1) /\ from(i) = i + 1
          /\ i - (k - 1) \in 1 .. len - k /\ k + 1 + (i - (k - 1)) - 1 = i + 1
      BY <1>1, <2>2
    <3> HIDE DEF from
    <3>2. t[i] = b[i - (k - 1)]
      BY <1>5, <1>6, <3>1
    <3> QED  BY <1>3, <3>1, <3>2
  <2>3. CASE i >= len
    <3>1. /\ ~(i <= len - 1) /\ from(i) = i
          /\ i - (len - 1) \in 1 .. n - len + 1 /\ len + (i - (len - 1)) - 1 = i
      BY <1>1, <2>3
    <3> HIDE DEF from
    <3> QED  BY <1>4, <1>6, <3>1
  <2>4. i <= k - 1 \/ i \in k .. len - 1 \/ i >= len
    BY <1>1
  <2> HIDE DEF from
  <2> QED  BY <2>1, <2>2, <2>3, <2>4
<1>8. t = [i \in 1 .. n |-> q[from(i)]]
  <2> HIDE DEF from
  <2>1. t = [i \in 1 .. n |-> t[i]]
    BY <1>6, LenProperties
  <2> QED  BY <1>7, <2>1
<1> QED  BY <1>8 DEF n, a, b, c, d, t

\* The places t are those of s with line l taken out.
Without(s, l, t) ==
    \E k \in 1 .. s.len :
       /\ s.at[k].line = l /\ t.len = s.len - 1
       /\ t.at = [i \in 1 .. Len(s.at) |-> s.at[IF i \in k .. s.len - 1 THEN i + 1 ELSE i]]

\* What sendBp does when the line is there.
LEMMA ErasedIs ==
    ASSUME NEW P, NEW s, s.at \in Seq(P), s.len \in 0 .. Len(s.at), NEW l,
           \E j \in 1 .. s.len : s.at[j].line = l
    PROVE  Without(s, l, S!Erased(s, l))
<1> DEFINE k == CHOOSE k \in 1 .. s.len : s.at[k].line = l
           q == s.at
           len == s.len
           e == S!Erased(s, l)
<1>1. k \in 1 .. len /\ q[k].line = l
  OBVIOUS
<1>2. /\ e.at = SubSeq(q, 1, k - 1) \o SubSeq(q, k + 1, len) \o SubSeq(q, len, Len(q))
      /\ e.len = len - 1
  BY DEF S!Erased
<1> HIDE DEF k, e
<1>3. q \in Seq(P) /\ len \in 1 .. Len(q)
  BY <1>1
<1>4. e.at = [i \in 1 .. Len(q) |-> q[IF i \in k .. len - 1 THEN i + 1 ELSE i]]
  <2> HIDE DEF q, len
  <2> QED  BY <1>1, <1>2, <1>3, TakenOut
<1> HIDE DEF q, len
<1>5. /\ k \in 1 .. len /\ q[k].line = l /\ e.len = len - 1
      /\ e.at = [i \in 1 .. Len(q) |-> q[IF i \in k .. len - 1 THEN i + 1 ELSE i]]
  BY <1>1, <1>2, <1>4
<1> QED  BY <1>5, Zenon DEF e, q, len, Without

\* sendBp takes a line out and keeps the others, each once.
LEMMA ErasedFacts ==
    ASSUME NEW n \in Nat, NEW m \in Nat, NEW s \in Vector(n, m), Once(s), NEW l
    PROVE  /\ S!Erased(s, l) \in Vector(n, m) /\ Once(S!Erased(s, l))
           /\ Used(S!Erased(s, l)) = Used(s) \ {l}
<1> DEFINE t == S!Erased(s, l)
           P == [line : Line, hits : 0 .. m]
<1>0. s.at \in [1 .. n -> P] /\ s.len \in 0 .. n
  BY DEF Vector
<1>1. CASE \A k \in 1 .. s.len : s.at[k].line # l
  BY <1>1 DEF S!Erased, Used
<1>2. CASE \E k \in 1 .. s.len : s.at[k].line = l
  <2>0. PICK k \in 1 .. s.len :
           /\ s.at[k].line = l /\ t.len = s.len - 1
           /\ t.at = [i \in 1 .. Len(s.at) |-> s.at[IF i \in k .. s.len - 1 THEN i + 1 ELSE i]]
    <3>1. s.at \in Seq(P) /\ Len(s.at) = n
      BY <1>0, FunctionIsSeq
    <3> HIDE DEF P
    <3> QED  BY <1>0, <1>2, <3>1, ErasedIs DEF Without
  <2> DEFINE from(i) == IF i \in k .. s.len - 1 THEN i + 1 ELSE i
  <2>2. t = [at |-> t.at, len |-> t.len]
    BY <1>2 DEF S!Erased
  <2> HIDE DEF t
  <2>1. k \in 1 .. s.len /\ s.at[k].line = l
    BY <2>0
  <2>3. t.len = s.len - 1 /\ t.at = [i \in 1 .. n |-> s.at[from(i)]]
    BY <1>0, <2>0, FunctionIsSeq
  <2>4. t.len \in 0 .. n /\ t.len < s.len
    BY <1>0, <2>1, <2>3
  <2>5. \A i \in 1 .. n : from(i) \in 1 .. n
    BY <1>0, <2>1
  <2>6. t.at \in [1 .. n -> P]
    BY <1>0, <2>3, <2>5
  <2>7. t \in Vector(n, m)
    BY <2>2, <2>4, <2>6 DEF Vector
  <2>8. \A i \in 1 .. t.len : from(i) \in 1 .. s.len /\ from(i) # k /\ t.at[i] = s.at[from(i)]
    BY <1>0, <2>1, <2>3, <2>4
  <2>9. \A i, j \in 1 .. t.len : from(i) = from(j) => i = j
    BY <1>0, <2>1, <2>3
  <2>10. \A j \in 1 .. s.len : j # k => \E i \in 1 .. t.len : from(i) = j
    <3> SUFFICES ASSUME NEW j \in 1 .. s.len, j # k PROVE \E i \in 1 .. t.len : from(i) = j
      OBVIOUS
    <3>1. CASE j < k
      <4>1. j \in 1 .. t.len /\ from(j) = j
        BY <1>0, <2>1, <2>3, <3>1
      <4> QED  BY <4>1
    <3>2. CASE j > k
      <4>1. j - 1 \in 1 .. t.len /\ from(j - 1) = j
        BY <1>0, <2>1, <2>3, <3>2
      <4> QED  BY <4>1
    <3> QED  BY <1>0, <2>1, <3>1, <3>2
  <2> HIDE DEF from
  <2>11. Once(t)
    BY <2>8, <2>9 DEF Once
  <2>12. Used(t) \subseteq Used(s) \ {l}
    BY <2>1, <2>8 DEF Used, Once
  <2>13. Used(s) \ {l} \subseteq Used(t)
    <3> SUFFICES ASSUME NEW j \in 1 .. s.len, s.at[j].line # l
                 PROVE  \E i \in 1 .. t.len : t.at[i].line = s.at[j].line
      BY DEF Used
    <3>1. PICK i \in 1 .. t.len : from(i) = j
      BY <2>1, <2>10
    <3> QED  BY <2>8, <3>1
  <2> QED  BY <2>7, <2>11, <2>12, <2>13 DEF t
<1> QED  BY <1>1, <1>2

\* The loop over the vector, round by round.
RoundStep(v, f, i) ==
    IF i = 0 THEN [at |-> v, len |-> Len(v)] ELSE S!Erased(f[i - 1], f[i - 1].at[i].line)
Rounds(v, f, n) == f = [i \in 0 .. n |-> RoundStep(v, f, i)]

\* The rounds of the loop are a function.
LEMMA RoundsExist == ASSUME NEW v PROVE \A n \in Nat : \E f : Rounds(v, f, n)
<1> DEFINE T == {n \in Nat : \E f : Rounds(v, f, n)}
<1>1. 0 \in T
  <2> DEFINE f == [i \in 0 .. 0 |-> [at |-> v, len |-> Len(v)]]
  <2>1. Rounds(v, f, 0)
    BY DEF Rounds, RoundStep
  <2> QED  BY <2>1
<1>2. ASSUME NEW n \in T PROVE n + 1 \in T
  <2>1. n \in Nat
    OBVIOUS
  <2>2. PICK f : Rounds(v, f, n)
    OBVIOUS
  <2> DEFINE g == [i \in 0 .. n + 1 |-> IF i = n + 1 THEN RoundStep(v, f, i) ELSE f[i]]
  <2>3. ASSUME NEW i \in 0 .. n + 1 PROVE g[i] = RoundStep(v, g, i)
    <3>1. i # 0 => i - 1 \in 0 .. n /\ g[i - 1] = f[i - 1]
      BY <2>1
    <3>2. RoundStep(v, g, i) = RoundStep(v, f, i)
      <4> HIDE DEF g
      <4> QED  BY <3>1 DEF RoundStep
    <3>3. i # n + 1 => i \in 0 .. n /\ f[i] = RoundStep(v, f, i)
      BY <2>1, <2>2 DEF Rounds
    <3> QED  BY <3>2, <3>3
  <2>4. g = [i \in 0 .. n + 1 |-> RoundStep(v, g, i)]
    <3>1. g = [i \in 0 .. n + 1 |-> g[i]]
      OBVIOUS
    <3> HIDE DEF g
    <3> QED  BY <2>3, <3>1
  <2>5. Rounds(v, g, n + 1)
    BY <2>4 DEF Rounds
  <2> QED  BY <2>1, <2>5
<1> HIDE DEF T
<1>3. T = Nat
  <2>1. T \subseteq Nat
    BY DEF T
  <2> QED  BY <1>1, <1>2, <2>1, SetInduction
<1> QED  BY <1>3 DEF T

Kept(f, n) == SubSeq(f[n].at, 1, f[n].len)
Off(f, n) == [i \in 1 .. n |-> f[i - 1].at[i].line]

\* The loop of SwitchOff is its rounds.
LEMMA SwitchOffIs ==
    ASSUME NEW v, Len(v) \in Nat
    PROVE  \E f : /\ Rounds(v, f, Len(v))
                  /\ S!SwitchOff(v).kept = Kept(f, Len(v))
                  /\ S!SwitchOff(v).lines = Off(f, Len(v))
<1> DEFINE n == Len(v)
           g == CHOOSE f : Rounds(v, f, n)
<1>1. Rounds(v, g, n)
  BY RoundsExist
<1>2. S!SwitchOff(v) = [kept |-> Kept(g, n), lines |-> Off(g, n)]
  BY DEF S!SwitchOff, Rounds, RoundStep, Kept, Off
<1> HIDE DEF g
<1>3. S!SwitchOff(v).kept = Kept(g, n) /\ S!SwitchOff(v).lines = Off(g, n)
  BY <1>2
<1> QED  BY <1>1, <1>3

\* After i rounds: the vector, and what it still holds.
Round(f, n, m, v, i) ==
    /\ f[i] \in Vector(n, m) /\ Once(f[i])
    /\ Used(f[i]) = {v[j].line : j \in 1 .. n} \ {f[k - 1].at[k].line : k \in 1 .. i}

\* By induction on the round.
LEMMA RoundsKeep ==
    ASSUME NEW n \in Nat, NEW m \in Nat, NEW v \in [1 .. n -> [line : Line, hits : 0 .. m]],
           Len(v) = n, \A i, j \in 1 .. n : v[i].line = v[j].line => i = j,
           NEW f, Rounds(v, f, n)
    PROVE  \A i \in 0 .. n : Round(f, n, m, v, i)
<1> DEFINE T == {i \in Nat : i <= n => Round(f, n, m, v, i)}
<1>0. \A i \in 0 .. n : f[i] = RoundStep(v, f, i)
  BY DEF Rounds
<1>1. 0 \in T
  <2>1. f[0] = [at |-> v, len |-> n]
    BY <1>0 DEF RoundStep
  <2>2. f[0] \in Vector(n, m) /\ Once(f[0]) /\ Used(f[0]) = {v[j].line : j \in 1 .. n}
    BY <2>1 DEF Vector, Once, Used
  <2> QED  BY <2>2 DEF Round
<1>2. ASSUME NEW i \in T PROVE i + 1 \in T
  <2> SUFFICES ASSUME i + 1 <= n PROVE Round(f, n, m, v, i + 1)
    OBVIOUS
  <2>0. i \in Nat /\ Round(f, n, m, v, i)
    OBVIOUS
  <2> DEFINE l == f[i].at[i + 1].line
  <2>1. f[i + 1] = S!Erased(f[i], l)
    BY <1>0, <2>0 DEF RoundStep
  <2>2. f[i] \in Vector(n, m) /\ Once(f[i])
    BY <2>0 DEF Round
  <2>3. /\ f[i + 1] \in Vector(n, m) /\ Once(f[i + 1])
        /\ Used(f[i + 1]) = Used(f[i]) \ {l}
    <3> HIDE DEF l
    <3> QED  BY <2>1, <2>2, ErasedFacts
  <2>4. {f[k - 1].at[k].line : k \in 1 .. i + 1} = {f[k - 1].at[k].line : k \in 1 .. i} \cup {l}
    <3>1. \A k \in 1 .. i + 1 : k \in 1 .. i \/ k = i + 1
      BY <2>0
    <3>2. (i + 1) - 1 = i /\ \A k \in 1 .. i : k \in 1 .. i + 1
      BY <2>0
    <3> QED  BY <3>1, <3>2
  <2> QED  BY <2>0, <2>3, <2>4 DEF Round
<1> HIDE DEF T
<1>3. T = Nat
  <2>1. T \subseteq Nat
    BY DEF T
  <2> QED  BY <1>1, <1>2, <2>1, SetInduction
<1>4. \A i \in 0 .. n : i \in T /\ i <= n
  BY <1>3
<1> QED  BY <1>4 DEF T

\* The lines of a vector of breakpoints, and a vector that has each once.
LinesOf(v) == {v[i].line : i \in DOMAIN v}
Single(v) == \A i, j \in DOMAIN v : v[i].line = v[j].line => i = j

\* A vector before and after the loop, and the lines it sent off commands for.
SwitchedOff(m, v, kept, off) ==
    /\ m \in Nat /\ v \in Seq([line : Line, hits : 0 .. m]) /\ Single(v)
    /\ kept = S!SwitchOff(v).kept /\ off = S!SwitchOff(v).lines

Left(m, v, kept, off) ==
    /\ kept \in Seq([line : Line, hits : 0 .. m]) /\ Single(kept)
    /\ off \in Seq(Line)
    /\ LinesOf(kept) = LinesOf(v) \ {off[i] : i \in DOMAIN off}

\* What the loop leaves has each line once; what it switched off is gone from it.
LEMMA SwitchOffFacts ==
    ASSUME NEW m, NEW v, NEW kept, NEW off, SwitchedOff(m, v, kept, off)
    PROVE  Left(m, v, kept, off)
<1> DEFINE n == Len(v)
           P == [line : Line, hits : 0 .. m]
<1>0. /\ m \in Nat /\ v \in Seq(P) /\ \A i, j \in DOMAIN v : v[i].line = v[j].line => i = j
      /\ kept = S!SwitchOff(v).kept /\ off = S!SwitchOff(v).lines
  BY DEF SwitchedOff, Single
<1>1. n \in Nat /\ v \in [1 .. n -> P] /\ DOMAIN v = 1 .. n
  <2> HIDE DEF P
  <2>1. v \in Seq(P)
    BY <1>0
  <2> QED  BY <2>1, LenProperties
<1>2. PICK f : Rounds(v, f, n) /\ kept = Kept(f, n) /\ off = Off(f, n)
  BY <1>0, <1>1, SwitchOffIs
<1> HIDE DEF n
<1>3. n = Len(v)
  BY DEF n
<1>4. \A i \in 0 .. n : Round(f, n, m, v, i)
  BY <1>0, <1>1, <1>2, <1>3, RoundsKeep
<1> DEFINE s == f[n]
<1>5. s \in Vector(n, m) /\ Once(s)
      /\ Used(s) = {v[j].line : j \in 1 .. n} \ {f[k - 1].at[k].line : k \in 1 .. n}
  <2>1. n \in 0 .. n
    BY <1>1
  <2>2. Round(f, n, m, v, n)
    BY <1>4, <2>1
  <2> QED  BY <2>2 DEF Round
<1> HIDE DEF s
<1>6. s.at \in [1 .. n -> P] /\ s.len \in 0 .. n
  BY <1>5 DEF Vector
<1>7. kept = [i \in 1 .. s.len |-> s.at[i]]
  <2>1. kept = SubSeq(s.at, 1, s.len)
    BY <1>2 DEF Kept, s
  <2> QED  BY <1>1, <1>6, <2>1
<1>8. DOMAIN kept = 1 .. s.len /\ \A i \in 1 .. s.len : kept[i] = s.at[i]
  BY <1>7
<1>14. kept \in Seq(P)
  <2> HIDE DEF P
  <2>1. s.len \in Nat /\ \A i \in 1 .. s.len : s.at[i] \in P
    BY <1>1, <1>6
  <2>2. kept \in [1 .. s.len -> P]
    BY <1>7, <2>1
  <2> QED  BY <2>1, <2>2, FunctionIsSeq
<1>9. \A i \in 1 .. n : f[i - 1].at[i].line \in Line
  <2> SUFFICES ASSUME NEW i \in 1 .. n PROVE f[i - 1].at[i].line \in Line
    OBVIOUS
  <2>1. i - 1 \in 0 .. n
    BY <1>1
  <2>2. f[i - 1] \in Vector(n, m)
    BY <1>4, <2>1 DEF Round
  <2> QED  BY <2>2 DEF Vector
<1>10. off \in Seq(Line) /\ DOMAIN off = 1 .. n
       /\ \A i \in 1 .. n : off[i] = f[i - 1].at[i].line
  BY <1>1, <1>2, <1>9 DEF Off
<1>11. {off[i] : i \in DOMAIN off} = {f[k - 1].at[k].line : k \in 1 .. n}
  BY <1>10
<1>12. {kept[i].line : i \in DOMAIN kept} = Used(s)
  BY <1>8 DEF Used
<1>13. \A i, j \in DOMAIN kept : kept[i].line = kept[j].line => i = j
  BY <1>5, <1>8 DEF Once
<1> QED  BY <1>1, <1>5, <1>10, <1>11, <1>12, <1>13, <1>14 DEF Left, Single, LinesOf

\* With at most two breakpoints nothing is left.
LEMMA TwoSwitchedOff ==
    ASSUME NEW m \in Nat, NEW v \in Seq([line : Line, hits : 0 .. m]), Len(v) <= 2,
           \A i, j \in DOMAIN v : v[i].line = v[j].line => i = j
    PROVE  S!SwitchOff(v).kept = <<>>
<1> DEFINE n == Len(v)
           P == [line : Line, hits : 0 .. m]
<1>1. n \in Nat /\ v \in [1 .. n -> P] /\ DOMAIN v = 1 .. n
  <2> HIDE DEF P
  <2>1. v \in Seq(P)
    BY DEF P
  <2> QED  BY <2>1, LenProperties
<1>2. PICK f : Rounds(v, f, n) /\ S!SwitchOff(v).kept = Kept(f, n)
  BY <1>1, SwitchOffIs
<1>3. \A i \in 0 .. n : f[i] = RoundStep(v, f, i)
  BY <1>2 DEF Rounds
<1>4. f[0] = [at |-> v, len |-> n]
  BY <1>1, <1>3 DEF RoundStep
<1>5. f[n].len = 0
  <2>1. CASE n = 0
    BY <1>4, <2>1
  <2> DEFINE s0 == f[0]
             s1 == f[1]
             l == v[1].line
  <2>4. s0.at = v /\ s0.len = n
    BY <1>4
  <2>5. v \in Seq(P) /\ Len(v) = n
    OBVIOUS
  <2>6. n >= 1 => s1 = S!Erased(s0, l)
    BY <1>1, <1>3, <1>4 DEF RoundStep
  <2> HIDE DEF s0, n, l, P
  <2>7. ASSUME n \in {1, 2}
        PROVE  \E k \in 1 .. n :
                  /\ v[k].line = l /\ s1.len = n - 1
                  /\ s1.at = [i \in 1 .. n |-> v[IF i \in k .. n - 1 THEN i + 1 ELSE i]]
    <3>1. s0.at \in Seq(P) /\ s0.len \in 0 .. Len(s0.at)
      BY <2>4, <2>5, <2>7
    <3>2. \E j \in 1 .. s0.len : s0.at[j].line = l
      BY <2>4, <2>7 DEF l
    <3>3. s1 = S!Erased(s0, l)
      BY <2>6, <2>7
    <3> HIDE DEF s1
    <3>4. Without(s0, l, S!Erased(s0, l))
      BY <3>1, <3>2, ErasedIs
    <3> QED  BY <2>4, <2>5, <3>3, <3>4 DEF Without
  <2>2. CASE n = 1
    BY <2>2, <2>7
  <2>3. CASE n = 2
    <3>1. v[1].line # v[2].line
      BY <1>1, <2>3
    <3>2. PICK k \in 1 .. n :
             /\ v[k].line = l /\ s1.len = n - 1
             /\ s1.at = [i \in 1 .. n |-> v[IF i \in k .. n - 1 THEN i + 1 ELSE i]]
      BY <2>3, <2>7
    <3>3. k = 1
      BY <2>3, <3>1, <3>2 DEF l
    <3>4. s1.len = 1 /\ s1.at[1] = v[2] /\ s1.at[2] = v[2]
      BY <2>3, <3>2, <3>3
    <3>5. s1.at \in Seq(P) /\ Len(s1.at) = 2
      <4>1. s1.at \in [1 .. 2 -> P]
        BY <1>1, <2>3, <3>2, <3>3
      <4> QED  BY <4>1, FunctionIsSeq
    <3> DEFINE x == v[2].line
    <3>6. f[2] = S!Erased(s1, x)
      BY <1>3, <2>3, <3>4 DEF RoundStep
    <3>7. s1.len \in 0 .. Len(s1.at) /\ \E j \in 1 .. s1.len : s1.at[j].line = x
      BY <3>4, <3>5
    <3> HIDE DEF s1, x
    <3>8. S!Erased(s1, x).len = s1.len - 1
      BY <3>5, <3>7, ErasedIs DEF Without
    <3> QED  BY <2>3, <3>4, <3>6, <3>8
  <2> QED  BY <1>1, <2>1, <2>2, <2>3
<1> QED  BY <1>2, <1>5 DEF Kept

\* A command sent is a command appended.
LEMMA OneMore == ASSUME NEW X, NEW q \in Seq(X), NEW x \in X
                 PROVE  q \o <<x>> = Append(q, x)
  OBVIOUS

\* The new set joins what was kept, each line once.
LEMMA AddedFacts ==
    ASSUME NEW m \in Nat, NEW kept \in Seq([line : Line, hits : 0 .. m]), Single(kept),
           NEW set \in SUBSET Line
    PROVE  /\ S!Added(kept, set) \in Seq([line : Line, hits : 0 .. m])
           /\ Single(S!Added(kept, set))
           /\ LinesOf(S!Added(kept, set)) = LinesOf(kept) \cup set
           /\ \A i \in DOMAIN S!Added(kept, set) :
                 S!Added(kept, set)[i].line \in set => S!Added(kept, set)[i].hits = 0
<1> DEFINE P == [line : Line, hits : 0 .. m]
           new == {l \in set : \A i \in DOMAIN kept : kept[i].line # l}
           n == Len(kept)
           c == Cardinality(new)
           q == S!SetToSeq(new)
           a == [i \in DOMAIN kept |->
                   IF kept[i].line \in set THEN [kept[i] EXCEPT !.hits = 0] ELSE kept[i]]
           b == [i \in 1 .. c |-> [line |-> q[i], hits |-> 0]]
<1>1. S!Added(kept, set) = a \o b
  BY SameCardinality DEF S!Added
<1>2. n \in Nat /\ DOMAIN kept = 1 .. n /\ kept \in [1 .. n -> P]
  <2> HIDE DEF P
  <2>1. kept \in Seq(P)
    BY DEF P
  <2> QED  BY <2>1, LenProperties
<1>3. IsFiniteSet(new)
  BY Assumed, FS_Subset
<1> HIDE DEF n, new
<1>4. /\ q \in Seq(new) /\ Len(q) = c /\ c \in Nat
      /\ \A i, j \in 1 .. c : q[i] = q[j] => i = j
      /\ \A x \in new : \E i \in 1 .. c : q[i] = x
  BY <1>3, SetToSeqFacts
<1>5. \A i \in 1 .. c : q[i] \in new
  BY <1>4
<1> HIDE DEF q, c
<1>6. new \subseteq set /\ \A l \in new : \A i \in 1 .. n : kept[i].line # l
  BY <1>2 DEF new
<1>7. a \in [1 .. n -> P] /\ \A i \in 1 .. n : a[i].line = kept[i].line
                               /\ (a[i].line \in set => a[i].hits = 0)
  BY <1>2
<1>8. b \in [1 .. c -> P] /\ \A i \in 1 .. c : b[i].line = q[i] /\ b[i].hits = 0
  BY <1>5, <1>6
<1> HIDE DEF a, b, P
<1>9. a \in Seq(P) /\ Len(a) = n /\ b \in Seq(P) /\ Len(b) = c
  BY <1>2, <1>4, <1>7, <1>8, FunctionIsSeq
<1> DEFINE r == a \o b
<1>10. /\ r \in Seq(P) /\ Len(r) = n + c
       /\ \A i \in 1 .. n + c : r[i] = IF i <= n THEN a[i] ELSE b[i - n]
  BY <1>9, ConcatProperties
<1>11. DOMAIN r = 1 .. n + c
  BY <1>10, LenProperties
<1> HIDE DEF r
<1>12. \A i \in 1 .. n + c : r[i].line = IF i <= n THEN kept[i].line ELSE q[i - n]
  <2> SUFFICES ASSUME NEW i \in 1 .. n + c
               PROVE  r[i].line = IF i <= n THEN kept[i].line ELSE q[i - n]
    OBVIOUS
  <2>1. CASE i <= n
    BY <1>2, <1>4, <1>7, <1>10, <2>1
  <2>2. CASE i > n
    <3>1. i - n \in 1 .. c
      BY <1>2, <1>4, <2>2
    <3> QED  BY <1>2, <1>8, <1>10, <2>2, <3>1
  <2> QED  BY <1>2, <1>4, <2>1, <2>2
<1>13. Single(r)
  <2> SUFFICES ASSUME NEW i \in 1 .. n + c, NEW j \in 1 .. n + c, r[i].line = r[j].line
               PROVE  i = j
    BY <1>11 DEF Single
  <2>1. CASE i <= n /\ j <= n
    <3>1. i \in DOMAIN kept /\ j \in DOMAIN kept /\ kept[i].line = kept[j].line
      BY <1>2, <1>4, <1>12, <2>1
    <3> QED  BY <3>1 DEF Single
  <2>2. CASE i <= n /\ j > n
    <3>1. i \in 1 .. n /\ j - n \in 1 .. c /\ kept[i].line = q[j - n]
      BY <1>2, <1>4, <1>12, <2>2
    <3> QED  BY <1>5, <1>6, <3>1
  <2>3. CASE i > n /\ j <= n
    <3>1. j \in 1 .. n /\ i - n \in 1 .. c /\ kept[j].line = q[i - n]
      BY <1>2, <1>4, <1>12, <2>3
    <3> QED  BY <1>5, <1>6, <3>1
  <2>4. CASE i > n /\ j > n
    <3>1. i - n \in 1 .. c /\ j - n \in 1 .. c /\ q[i - n] = q[j - n]
      BY <1>2, <1>4, <1>12, <2>4
    <3>2. i - n = j - n
      BY <1>4, <3>1
    <3> QED  BY <1>2, <3>2
  <2> QED  BY <1>2, <1>4, <2>1, <2>2, <2>3, <2>4
<1>14. LinesOf(r) = LinesOf(kept) \cup set
  <2>1. \A i \in 1 .. n + c : r[i].line \in LinesOf(kept) \cup set
    <3> SUFFICES ASSUME NEW i \in 1 .. n + c PROVE r[i].line \in LinesOf(kept) \cup set
      OBVIOUS
    <3>1. CASE i <= n
      BY <1>2, <1>4, <1>12, <3>1 DEF LinesOf
    <3>2. CASE i > n
      <4>1. i - n \in 1 .. c
        BY <1>2, <1>4, <3>2
      <4> QED  BY <1>2, <1>5, <1>6, <1>12, <3>2, <4>1
    <3> QED  BY <1>2, <1>4, <3>1, <3>2
  <2>2. \A i \in 1 .. n : \E j \in 1 .. n + c : r[j].line = kept[i].line
    BY <1>2, <1>4, <1>12
  <2>3. \A l \in new : \E j \in 1 .. n + c : r[j].line = l
    <3> SUFFICES ASSUME NEW l \in new PROVE \E j \in 1 .. n + c : r[j].line = l
      OBVIOUS
    <3>1. PICK i \in 1 .. c : q[i] = l
      BY <1>4
    <3>2. n + i \in 1 .. n + c /\ ~(n + i <= n) /\ (n + i) - n = i
      BY <1>2, <1>4
    <3> QED  BY <1>12, <3>1, <3>2
  <2>4. \A l \in set : l \in new \/ \E i \in 1 .. n : kept[i].line = l
    BY <1>2 DEF new
  <2>5. LinesOf(r) = {r[i].line : i \in 1 .. n + c} /\ LinesOf(kept) = {kept[i].line : i \in 1 .. n}
    BY <1>2, <1>11 DEF LinesOf
  <2>6. LinesOf(r) \subseteq LinesOf(kept) \cup set
    BY <2>1, <2>5
  <2>7. LinesOf(kept) \subseteq LinesOf(r)
    BY <2>2, <2>5
  <2>8. set \subseteq LinesOf(r)
    BY <2>3, <2>4, <2>5, <2>7
  <2> QED  BY <2>6, <2>7, <2>8
<1>15. \A i \in 1 .. n + c : r[i].line \in set => r[i].hits = 0
  <2> SUFFICES ASSUME NEW i \in 1 .. n + c, r[i].line \in set PROVE r[i].hits = 0
    OBVIOUS
  <2>1. CASE i <= n
    <3>1. i \in 1 .. n /\ r[i] = a[i]
      BY <1>2, <1>4, <1>10, <2>1
    <3> QED  BY <1>7, <3>1
  <2>2. CASE i > n
    <3>1. i - n \in 1 .. c /\ r[i] = b[i - n]
      BY <1>2, <1>4, <1>10, <2>2
    <3> QED  BY <1>8, <3>1
  <2> QED  BY <1>2, <1>4, <2>1, <2>2
<1> QED  BY <1>1, <1>10, <1>11, <1>13, <1>14, <1>15 DEF r, P

-----------------------------------------------------------------------------
(* The invariant *)

Live ==
    /\ ViewIs /\ FramesIs /\ GoingIs /\ ArrivesIs /\ PcIs
    /\ OrderIs /\ ReadsAre /\ StepsAsked /\ ArmedIs
Typed == S!TypeOK /\ STypes /\ ShownHolds

\* The invariant in the parts the steps need.
LEMMA SInvIs == SInv <=> Typed /\ (quit => Over) /\ (~quit => Live)
  BY DEF SInv, Live, Typed

\* A session begins with nothing anywhere.
LEMMA InitSInv == ASSUME S!Init PROVE SInv
<1> USE DEF S!Init
<1>1. S!TypeOK
  <2>1. stop \in 0 .. MaxStops /\ frames \in 0 .. MaxStops
    BY Assumed
  <2>2. {sStepping, pauseRequested, stepRequested, quit, edited} \subseteq BOOLEAN
    OBVIOUS
  <2>3. \A i \in DOMAIN bps : FALSE
    OBVIOUS
  <2>4. done \subseteq 1 .. asked /\ (sPc = "reply" <=> job # None)
    OBVIOUS
  <2> QED  BY <2>1, <2>2, <2>3, <2>4 DEF S!TypeOK
<1>2. STypes
  BY DEF STypes, Places, Points
<1>3. ShownHolds
  BY DEF ShownHolds, S!Sees
<1>4. ~Going /\ ~Arrives /\ ~ResumeIn(reqs) /\ ~OnWay
  BY DEF Going, Arrives, ResumeIn, OnWay
<1>5. ViewIs /\ FramesIs /\ GoingIs /\ ArrivesIs
  BY <1>4 DEF ViewIs, FramesIs, GoingIs, ArrivesIs, S!Sees
<1>6. PcIs /\ OrderIs /\ ReadsAre /\ StepsAsked
  BY <1>4 DEF PcIs, OrderIs, ReadsAre, StepsAsked, Unconfirmed
<1>7. ArmedIs
  BY DEF ArmedIs, OnAfter, Places
<1> QED  BY <1>1, <1>2, <1>3, <1>5, <1>6, <1>7 DEF SInv

\* After the client asked, the rest of the session is as it was.
Rest == <<prog, stop, here, armed, sStepping, cmds, lines, sPc, job, frames, bps,
          pauseRequested, stepRequested, quit, done>>

\* What does not speak of requests stays.
LEMMA RestKept ==
    ASSUME FramesIs, GoingIs, ArrivesIs, PcIs, StepsAsked, ArmedIs, UNCHANGED Rest
    PROVE  /\ FramesIs' /\ GoingIs' /\ ArrivesIs' /\ PcIs' /\ StepsAsked' /\ ArmedIs'
           /\ OnWay' = OnWay /\ Going' = Going /\ Arrives' = Arrives /\ Places' = Places
           /\ Unconfirmed' = Unconfirmed
<1> USE DEF Rest
<1>1. OnWay' = OnWay /\ Going' = Going /\ Arrives' = Arrives
  BY DEF OnWay, Going, Arrives
<1>2. Places' = Places /\ Unconfirmed' = Unconfirmed
  BY DEF Places, Unconfirmed
<1>3. FramesIs' /\ GoingIs' /\ StepsAsked'
  BY <1>1 DEF FramesIs, GoingIs, StepsAsked, S!Asked
<1>4. ArrivesIs'
  BY <1>2 DEF ArrivesIs, S!Asked
<1>5. PcIs'
  BY <1>1 DEF PcIs, AnswerDue
<1>6. ArmedIs'
  BY <1>2 DEF ArmedIs, OnAfter
<1> QED  BY <1>1, <1>2, <1>3, <1>4, <1>5, <1>6

\* A request joins the queue.
LEMMA AskFacts ==
    ASSUME SInv, NEW op \in {"continue", "step", "read", "threads", "breakpoints", "pause",
                             "disconnect"},
           NEW set \in SUBSET Line, S!Ask(op, set), ever' = ever \cup set, ever' \subseteq Line,
           op # "breakpoints" => set = {}, wanted' \subseteq ever', edited' \in BOOLEAN
    PROVE  /\ Typed /\ ~quit /\ Live
           /\ reqs' \in Seq(Requests) /\ Len(reqs') = Len(reqs) + 1 /\ Len(reqs) \in Nat
           /\ \A i \in 1 .. Len(reqs) : reqs'[i] = reqs[i]
           /\ reqs'[Len(reqs) + 1].op = op
           /\ UNCHANGED Rest
           /\ S!TypeOK'
           /\ view' = view \/ view' \in [what : {"running"}]
                  => STypes'
<1> DEFINE r == [op |-> op, id |-> asked + 1, set |-> set]
           n == Len(reqs)
<1>1. Typed /\ ~quit /\ Live
  BY SInvIs DEF S!Ask
<1>2. reqs \in Seq(Requests) /\ asked \in Nat /\ n \in Nat
  BY <1>1 DEF Typed, STypes
<1>3. r \in Requests /\ reqs' = Append(reqs, r) /\ asked' = asked + 1
  BY <1>2 DEF S!Ask, Requests
<1> HIDE DEF r
<1>4. /\ reqs' \in Seq(Requests) /\ Len(reqs') = n + 1
      /\ \A i \in 1 .. n : reqs'[i] = reqs[i]
      /\ reqs'[n + 1] = r
  BY <1>2, <1>3, AppendFacts
<1>5. UNCHANGED Rest
  BY DEF S!Ask, Rest, S!program, S!adapter
<1>6. S!TypeOK'
  <2>1. done' \subseteq 1 .. asked'
    BY <1>1, <1>2, <1>3, <1>5 DEF Typed, S!TypeOK, Rest
  <2> QED  BY <1>1, <1>5, <2>1 DEF Typed, S!TypeOK, Rest
<1>7. ASSUME view' = view \/ view' \in [what : {"running"}]
      PROVE  STypes'
  <2>1. \A i \in 1 .. n + 1 :
           /\ reqs'[i].id \in 1 .. asked' /\ reqs'[i].set \subseteq ever'
           /\ reqs'[i].op # "breakpoints" => reqs'[i].set = {}
    <3> SUFFICES ASSUME NEW i \in 1 .. n + 1
                 PROVE  /\ reqs'[i].id \in 1 .. asked' /\ reqs'[i].set \subseteq ever'
                        /\ reqs'[i].op # "breakpoints" => reqs'[i].set = {}
      OBVIOUS
    <3>1. CASE i = n + 1
      BY <1>2, <1>3, <1>4, <3>1 DEF r
    <3>2. CASE i \in 1 .. n
      <4>1. reqs[i].id \in 1 .. asked /\ reqs[i].set \subseteq ever
            /\ (reqs[i].op # "breakpoints" => reqs[i].set = {})
        BY <1>1, <3>2 DEF Typed, STypes
      <4> QED  BY <1>2, <1>3, <1>4, <3>2, <4>1
    <3> QED  BY <1>2, <3>1, <3>2
  <2>2. job' # None => job'.id \in 1 .. asked'
    BY <1>1, <1>2, <1>3, <1>5 DEF Typed, STypes, Rest
  <2>3. view' \in [what : {"start", "running"}]
                \cup [what : {"stop"}, stop : Nat, why : {"pause", "step", "error", "breakpoint"},
                      line : Line \cup {None}]
    BY <1>1, <1>7 DEF Typed, STypes
  <2>4. Places' \subseteq ever'
    BY <1>1, <1>5 DEF Typed, STypes, Rest, Places
  <2>5. asked' \in Nat
    BY <1>2, <1>3
  <2> QED  BY <1>1, <1>4, <1>5, <2>1, <2>2, <2>3, <2>4, <2>5 DEF Typed, STypes, Rest
<1> QED  BY <1>1, <1>2, <1>3, <1>4, <1>5, <1>6, <1>7 DEF r

\* What a request at the end of the queue changes.
LEMMA ScanFacts ==
    ASSUME Len(reqs) \in Nat, Len(reqs') = Len(reqs) + 1,
           \A i \in 1 .. Len(reqs) : reqs'[i] = reqs[i]
    PROVE  /\ ResumeIn(reqs') <=> ResumeIn(reqs) \/ Resumes(reqs'[Len(reqs) + 1])
           /\ \A j \in 1 .. Len(reqs) : Queried(j)' = Queried(j)
                                      /\ ResumeBefore(j)' = ResumeBefore(j)
           /\ \A j : j = Len(reqs) + 1 => ResumeBefore(j)' = ResumeIn(reqs)
           /\ \A j \in 1 .. Len(reqs') : j \in 1 .. Len(reqs) \/ j = Len(reqs) + 1
<1>1. \A j \in 1 .. Len(reqs') : j \in 1 .. Len(reqs) \/ j = Len(reqs) + 1
  OBVIOUS
<1>2. Len(reqs) + 1 \in 1 .. Len(reqs') /\ \A j \in 1 .. Len(reqs) : j \in 1 .. Len(reqs')
  OBVIOUS
<1>3. ResumeIn(reqs') <=> ResumeIn(reqs) \/ Resumes(reqs'[Len(reqs) + 1])
  BY <1>1, <1>2 DEF ResumeIn
<1>4. \A j \in 1 .. Len(reqs) : Queried(j)' = Queried(j) /\ ResumeBefore(j)' = ResumeBefore(j)
  <2> SUFFICES ASSUME NEW j \in 1 .. Len(reqs)
               PROVE  Queried(j)' = Queried(j) /\ ResumeBefore(j)' = ResumeBefore(j)
    OBVIOUS
  <2>1. Queried(j)' = Queried(j)
    BY DEF Queried
  <2>2. \A k \in 1 .. Len(reqs') : k < j => k \in 1 .. Len(reqs)
    OBVIOUS
  <2>3. ResumeBefore(j)' <=> ResumeBefore(j)
    BY <1>2, <2>2 DEF ResumeBefore, Resumes
  <2> QED  BY <2>1, <2>3 DEF ResumeBefore
<1>5. ASSUME NEW j, j = Len(reqs) + 1 PROVE ResumeBefore(j)' <=> ResumeIn(reqs)
  <2>1. \A k \in 1 .. Len(reqs') : k < j <=> k \in 1 .. Len(reqs)
    BY <1>5
  <2> QED  BY <1>2, <2>1 DEF ResumeBefore, ResumeIn, Resumes
<1> QED  BY <1>1, <1>3, <1>4, <1>5 DEF ResumeBefore, ResumeIn

\* The client asks for what does not resume: what the requests say stays.
LEMMA AskResumeKeeps == ASSUME SInv, Odd = {}, S!AskResume PROVE SInv'
<1> DEFINE n == Len(reqs)
<1>1. PICK op \in {"continue", "step"} : S!Ask(op, {})
  BY DEF S!AskResume
<1>2. /\ view.what # "running" /\ view' = [what |-> "running"] /\ edited' = FALSE
      /\ wanted' = wanted /\ ever' = ever
  BY DEF S!AskResume
<1>3. Typed /\ wanted' \subseteq ever' /\ ever' \subseteq Line
  BY <1>2, SInvIs DEF Typed, STypes
<1>4. /\ ~quit /\ Live /\ UNCHANGED Rest
      /\ S!TypeOK' /\ STypes'
      /\ Len(reqs') = n + 1 /\ n \in Nat /\ \A i \in 1 .. n : reqs'[i] = reqs[i]
      /\ reqs'[n + 1].op = op
  BY <1>1, <1>2, <1>3, AskFacts
<1>5. ~OnWay /\ ~ResumeIn(reqs)
  BY <1>2, <1>4 DEF Live, ViewIs
<1>6. /\ ResumeIn(reqs') /\ Resumes(reqs'[n + 1])
      /\ \A j \in 1 .. n : Queried(j)' = Queried(j) /\ ResumeBefore(j)' = ResumeBefore(j)
      /\ \A j \in 1 .. Len(reqs') : j \in 1 .. n \/ j = n + 1
  BY <1>1, <1>4, ScanFacts DEF Resumes
<1>7. /\ FramesIs' /\ GoingIs' /\ ArrivesIs' /\ PcIs' /\ StepsAsked' /\ ArmedIs' /\ ~OnWay'
      /\ Going' = Going /\ Arrives' = Arrives /\ quit' = quit
  BY <1>4, <1>5, RestKept DEF Live, Rest
<1> HIDE DEF n
<1>8. ViewIs'
  BY <1>2, <1>6, <1>7 DEF ViewIs, S!Sees
<1>9. \A i \in 1 .. n : ~Resumes(reqs[i]) /\ ~ResumeBefore(i)
  BY <1>4, <1>5 DEF ResumeIn, ResumeBefore, n
<1>10. OrderIs'
  <2>1. \A i, j \in 1 .. Len(reqs') : Resumes(reqs'[i]) /\ Resumes(reqs'[j]) => i = j
    BY <1>4, <1>6, <1>9
  <2>2. \A i \in 1 .. Len(reqs') :
          /\ reqs'[i].op \in {"breakpoints", "threads"} => ~OnWay' /\ ~ResumeBefore(i)'
          /\ reqs'[i].op = "threads" => prog' = "stop"
    <3> SUFFICES ASSUME NEW i \in 1 .. Len(reqs'), reqs'[i].op \in {"breakpoints", "threads"}
                 PROVE  ~ResumeBefore(i)' /\ (reqs'[i].op = "threads" => prog' = "stop")
      BY <1>7
    <3>1. i \in 1 .. n
      BY <1>1, <1>4, <1>6
    <3> QED  BY <1>4, <1>6, <1>9, <3>1 DEF Live, OrderIs, Rest, n
  <2>3. \A i, j \in 1 .. Len(reqs') :
          i < j /\ reqs'[i].op = "breakpoints" /\ Queried(j)' => ResumeBefore(j)'
    <3> SUFFICES ASSUME NEW i \in 1 .. Len(reqs'), NEW j \in 1 .. Len(reqs'),
                        i < j, reqs'[i].op = "breakpoints", Queried(j)'
                 PROVE  ResumeBefore(j)'
      OBVIOUS
    <3>1. i \in 1 .. n
      BY <1>1, <1>4, <1>6
    <3>2. j \in 1 .. n
      BY <1>1, <1>4, <1>6 DEF Queried
    <3> QED  BY <1>4, <1>6, <3>1, <3>2 DEF Live, OrderIs, n
  <2>4. ASSUME Unconfirmed' PROVE \A j \in 1 .. Len(reqs') : Queried(j)' => ResumeBefore(j)'
    <3> SUFFICES ASSUME NEW j \in 1 .. Len(reqs'), Queried(j)' PROVE ResumeBefore(j)'
      OBVIOUS
    <3>1. j \in 1 .. n
      BY <1>1, <1>4, <1>6 DEF Queried
    <3>2. Unconfirmed
      BY <1>4, <2>4 DEF Unconfirmed, Rest
    <3> QED  BY <1>4, <1>5, <1>6, <3>1, <3>2 DEF Live, OrderIs, n
  <2> QED  BY <1>2, <2>1, <2>2, <2>3, <2>4 DEF OrderIs
<1>11. ReadsAre'
  <2>1. \A j \in 1 .. Len(reqs') : reqs'[j].op = "read" => j \in 1 .. n
    BY <1>1, <1>4, <1>6
  <2>2. \A j \in 1 .. n : ~ResumeBefore(j)'
    BY <1>6, <1>9
  <2>3. (Going' \/ Arrives') => OnWay
    BY <1>7 DEF OnWay
  <2>4. sPc' = "cond" => OnWay
    BY <1>4 DEF OnWay, Rest
  <2> QED  BY <1>5, <1>6, <2>1, <2>2, <2>3, <2>4 DEF ReadsAre
<1>12. ShownHolds'
  BY <1>2 DEF ShownHolds, S!Sees
<1> QED  BY <1>4, <1>7, <1>8, <1>10, <1>11, <1>12 DEF SInv

\* Any other request.
LEMMA AskOther ==
    ASSUME SInv, NEW op \in {"read", "threads", "breakpoints", "pause", "disconnect"},
           NEW set \in SUBSET Line, S!Ask(op, set), ever' = ever \cup set, ever' \subseteq Line,
           op # "breakpoints" => set = {}, wanted' \subseteq ever', view' = view,
           edited' = (edited \/ op = "breakpoints"),
           op \in {"threads", "breakpoints"} => view.what # "running",
           op = "threads" => S!Sees,
           op \in {"read", "threads"} => ~edited,
           op = "read" /\ view.what = "running" => ever \cap Passing = {}
    PROVE  SInv'
<1> DEFINE n == Len(reqs)
<1>1. edited' \in BOOLEAN
  BY SInvIs DEF Typed, S!TypeOK
<1>2. /\ Typed /\ ~quit /\ Live /\ UNCHANGED Rest
      /\ S!TypeOK' /\ STypes'
      /\ Len(reqs') = n + 1 /\ n \in Nat /\ \A i \in 1 .. n : reqs'[i] = reqs[i]
      /\ reqs'[n + 1].op = op
  <2>1. op \in {"continue", "step", "read", "threads", "breakpoints", "pause", "disconnect"}
    OBVIOUS
  <2>2. /\ Typed /\ ~quit /\ Live
        /\ reqs' \in Seq(Requests) /\ Len(reqs') = Len(reqs) + 1 /\ Len(reqs) \in Nat
        /\ \A i \in 1 .. Len(reqs) : reqs'[i] = reqs[i]
        /\ reqs'[Len(reqs) + 1].op = op
        /\ UNCHANGED Rest
        /\ S!TypeOK'
        /\ view' = view => STypes'
    <3> HIDE DEF n
    <3> QED  BY <1>1, <2>1, AskFacts
  <2> QED  BY <2>2
<1>3. ~Resumes(reqs'[n + 1]) /\ n + 1 \in 1 .. Len(reqs')
  BY <1>2 DEF Resumes
<1>4. /\ ResumeIn(reqs') <=> ResumeIn(reqs)
      /\ \A j \in 1 .. n : Queried(j)' = Queried(j) /\ ResumeBefore(j)' = ResumeBefore(j)
      /\ \A j : j = n + 1 => ResumeBefore(j)' = ResumeIn(reqs)
      /\ \A j \in 1 .. Len(reqs') : j \in 1 .. n \/ j = n + 1
  BY <1>2, <1>3, ScanFacts
<1>5. /\ FramesIs' /\ GoingIs' /\ ArrivesIs' /\ PcIs' /\ StepsAsked' /\ ArmedIs'
      /\ OnWay' = OnWay /\ Going' = Going /\ Arrives' = Arrives /\ quit' = quit
      /\ Unconfirmed' = Unconfirmed /\ prog' = prog
  BY <1>2, RestKept DEF Live, Rest
<1>6. view.what = "running" <=> OnWay \/ ResumeIn(reqs)
  BY <1>2 DEF Live, ViewIs
<1>7. ViewIs'
  BY <1>2, <1>4, <1>5 DEF Live, ViewIs, S!Sees, Rest
<1> HIDE DEF n
<1>9. OrderIs'
  <2>1. \A i, j \in 1 .. Len(reqs') : Resumes(reqs'[i]) /\ Resumes(reqs'[j]) => i = j
    BY <1>2, <1>3, <1>4 DEF Live, OrderIs, n
  <2>2. \A i \in 1 .. Len(reqs') :
          /\ reqs'[i].op \in {"breakpoints", "threads"} => ~OnWay' /\ ~ResumeBefore(i)'
          /\ reqs'[i].op = "threads" => prog' = "stop"
    <3> SUFFICES ASSUME NEW i \in 1 .. Len(reqs'), reqs'[i].op \in {"breakpoints", "threads"}
                 PROVE  /\ ~OnWay' /\ ~ResumeBefore(i)'
                        /\ reqs'[i].op = "threads" => prog' = "stop"
      OBVIOUS
    <3>1. CASE i \in 1 .. n
      BY <1>2, <1>4, <1>5, <3>1 DEF Live, OrderIs, n
    <3>2. CASE i = n + 1
      <4>1. ~OnWay' /\ ~ResumeBefore(i)'
        BY <1>2, <1>4, <1>5, <1>6, <3>2
      <4>2. op = "threads" => prog = "stop"
        BY <1>2 DEF Live, ViewIs
      <4> QED  BY <1>2, <1>5, <3>2, <4>1, <4>2
    <3> QED  BY <1>4, <3>1, <3>2
  <2>3. \A i, j \in 1 .. Len(reqs') :
          i < j /\ reqs'[i].op = "breakpoints" /\ Queried(j)' => ResumeBefore(j)'
    <3> SUFFICES ASSUME NEW i \in 1 .. Len(reqs'), NEW j \in 1 .. Len(reqs'),
                        i < j, reqs'[i].op = "breakpoints", Queried(j)'
                 PROVE  ResumeBefore(j)'
      OBVIOUS
    <3>0. i \in 1 .. n /\ reqs[i].op = "breakpoints"
      BY <1>2, <1>4
    <3>1. CASE j \in 1 .. n
      BY <1>2, <1>4, <3>0, <3>1 DEF Live, OrderIs, n
    <3>2. CASE j = n + 1
      <4>1. ~edited
        BY <1>2, <3>2 DEF Queried
      <4>2. view.what = "running"
        BY <1>2, <3>0, <4>1 DEF Live, OrderIs, n
      <4>3. ~OnWay
        BY <1>2, <3>0 DEF Live, OrderIs, n
      <4> QED  BY <1>4, <1>6, <3>2, <4>2, <4>3
    <3> QED  BY <1>4, <3>1, <3>2
  <2>4. \A j \in 1 .. Len(reqs') :
           ~OnWay' /\ Unconfirmed' /\ Queried(j)' => ResumeBefore(j)'
    <3> SUFFICES ASSUME NEW j \in 1 .. Len(reqs'), ~OnWay', Unconfirmed', Queried(j)'
                 PROVE  ResumeBefore(j)'
      OBVIOUS
    <3>1. CASE j \in 1 .. n
      BY <1>2, <1>4, <1>5, <3>1 DEF Live, OrderIs, n
    <3>2. CASE j = n + 1
      <4>1. ~edited
        BY <1>2, <3>2 DEF Queried
      <4>2. view.what = "running"
        BY <1>2, <1>5, <4>1 DEF Live, OrderIs
      <4> QED  BY <1>4, <1>5, <1>6, <3>2, <4>2
    <3> QED  BY <1>4, <3>1, <3>2
  <2>5. view'.what # "running"
          /\ (Unconfirmed' \/ \E i \in 1 .. Len(reqs') : reqs'[i].op = "breakpoints") => edited'
    <3> SUFFICES ASSUME view'.what # "running", op # "breakpoints",
                        Unconfirmed' \/ \E i \in 1 .. Len(reqs') : reqs'[i].op = "breakpoints"
                 PROVE  edited
      OBVIOUS
    <3>1. Unconfirmed \/ \E i \in 1 .. n : reqs[i].op = "breakpoints"
      BY <1>2, <1>4, <1>5
    <3> QED  BY <1>2, <3>1 DEF Live, OrderIs, n
  <2> QED  BY <2>1, <2>2, <2>3, <2>4, <2>5 DEF OrderIs
<1>10. ReadsAre'
  <2>1. \A j \in 1 .. Len(reqs') :
          view'.what = "running" /\ reqs'[j].op = "read" /\ (ResumeIn(reqs') => ResumeBefore(j)')
             => ever' \cap Passing = {}
    <3> SUFFICES ASSUME NEW j \in 1 .. Len(reqs'), view'.what = "running", reqs'[j].op = "read",
                        ResumeIn(reqs') => ResumeBefore(j)'
                 PROVE  ever' \cap Passing = {}
      OBVIOUS
    <3>0. op # "breakpoints" /\ ever' = ever
      OBVIOUS
    <3>1. CASE j \in 1 .. n
      BY <1>2, <1>4, <3>0, <3>1 DEF Live, ReadsAre, n
    <3>2. CASE j = n + 1
      BY <1>2, <3>0, <3>2
    <3> QED  BY <1>4, <3>1, <3>2
  <2>2. (Going' \/ Arrives') /\ frames' # 0 => ever' \cap Passing # {}
    BY <1>2, <1>5 DEF Live, ReadsAre, Rest
  <2>3. sPc' = "cond" => ever' \cap Passing # {}
    BY <1>2, <1>5 DEF Live, ReadsAre, Rest
  <2> QED  BY <2>1, <2>2, <2>3 DEF ReadsAre
<1>11. ShownHolds'
  BY <1>2 DEF Typed, ShownHolds, S!Sees
<1> QED  BY <1>2, <1>5, <1>7, <1>9, <1>10, <1>11 DEF SInv

\* Whatever the client asks keeps the invariant.
LEMMA ClientKeeps == ASSUME SInv, Odd = {}, S!Client PROVE SInv'
<1>1. wanted \subseteq ever /\ ever \subseteq Line /\ edited \in BOOLEAN
  BY SInvIs DEF Typed, STypes, S!TypeOK
<1>2. CASE S!AskResume
  BY <1>2, AskResumeKeeps
<1>3. CASE S!AskRead
  <2>1. S!Ask("read", {}) /\ UNCHANGED <<view, edited, wanted, ever>> /\ ~edited
        /\ (view.what = "running" => ever \cap Passing = {})
    BY <1>3 DEF S!AskRead, S!Calm, S!Sees, Passing
  <2> QED  BY <1>1, <2>1, AskOther
<1>4. CASE S!AskThreads
  <2>1. S!Ask("threads", {}) /\ UNCHANGED <<view, edited, wanted, ever>> /\ ~edited
        /\ S!Sees /\ view.what # "running"
    BY <1>4 DEF S!AskThreads, S!Calm, S!Sees
  <2> QED  BY <1>1, <2>1, AskOther
<1>5. CASE S!AskBreakpoints
  <2>1. PICK set \in SUBSET Line :
           S!Ask("breakpoints", set) /\ wanted' = set /\ ever' = ever \cup set
    BY <1>5, Assumed DEF S!AskBreakpoints
  <2>2. view' = view /\ edited' = TRUE /\ view.what # "running"
    BY <1>5 DEF S!AskBreakpoints
  <2> QED  BY <1>1, <2>1, <2>2, AskOther
<1>6. CASE S!AskPause
  <2>1. S!Ask("pause", {}) /\ UNCHANGED <<view, edited, wanted, ever>>
    BY <1>6 DEF S!AskPause
  <2> QED  BY <1>1, <2>1, AskOther
<1>7. CASE S!AskEnd
  <2>1. S!Ask("disconnect", {}) /\ UNCHANGED <<view, edited, wanted, ever>>
    BY <1>7 DEF S!AskEnd
  <2> QED  BY <1>1, <2>1, AskOther
<1> QED  BY <1>2, <1>3, <1>4, <1>5, <1>6, <1>7 DEF S!Client

\* Steps that leave the requests alone.
LEMMA OrderOnWay ==
    ASSUME OrderIs, OnWay, OnWay', view.what = "running", view' = view, reqs' = reqs
    PROVE  OrderIs'
<1>1. \A i \in 1 .. Len(reqs) : reqs[i].op \notin {"breakpoints", "threads"}
  BY DEF OrderIs
<1>2. \A j \in 1 .. Len(reqs) : Queried(j)' = Queried(j) /\ ResumeBefore(j)' = ResumeBefore(j)
  BY DEF Queried, ResumeBefore
<1> QED  BY <1>1, <1>2 DEF OrderIs

\* The same requests, no more on their way and no more unconfirmed.
LEMMA OrderStill ==
    ASSUME OrderIs, OnWay' <=> OnWay, prog' = prog, Unconfirmed' => Unconfirmed,
           UNCHANGED <<reqs, view, edited>>
    PROVE  OrderIs'
<1>1. \A j \in 1 .. Len(reqs) : Queried(j)' = Queried(j) /\ ResumeBefore(j)' = ResumeBefore(j)
  BY DEF Queried, ResumeBefore
<1> QED  BY <1>1 DEF OrderIs

\* The same for the requests that read.
LEMMA ReadsStill ==
    ASSUME ReadsAre, view' = view \/ view'.what # "running", UNCHANGED <<reqs, ever>>,
           (Going' \/ Arrives') /\ frames' # 0 => ever \cap Passing # {},
           sPc' = "cond" => ever \cap Passing # {}
    PROVE  ReadsAre'
<1>1. \A j \in 1 .. Len(reqs) : ResumeBefore(j)' = ResumeBefore(j)
  BY DEF ResumeBefore
<1> QED  BY <1>1 DEF ReadsAre

\* A program that runs: what that says.
LEMMA Running ==
    ASSUME SInv, prog = "run"
    PROVE  /\ Typed /\ ~quit /\ Live /\ Going /\ OnWay /\ ~Arrives
           /\ sPc \in {"events", "requests"}
           /\ OnlyPauses(cmds) /\ ~ResumeIn(cmds)
           /\ view.what = "running" /\ ~ResumeIn(reqs) /\ ~S!Sees
<1>1. Typed /\ ~quit /\ Live
  BY SInvIs DEF Over
<1>2. Going /\ OnWay /\ ~Arrives /\ sPc \in {"events", "requests"} /\ OnlyPauses(cmds)
  BY <1>1 DEF Live, Going, OnWay, GoingIs
<1>3. ~ResumeIn(cmds)
  BY <1>2 DEF OnlyPauses, ResumeIn, Resumes
<1>4. view.what = "running" /\ ~ResumeIn(reqs)
  BY <1>1, <1>2 DEF Live, ViewIs
<1> QED  BY <1>1, <1>2, <1>3, <1>4 DEF S!Sees

\* A trap stops the program.
LEMMA StopKeeps == ASSUME SInv, NEW l \in Line, S!Stop(l) PROVE SInv'
<1> DEFINE e == [op |-> "paused", id |-> 0, stop |-> stop + 1, line |-> l]
           n == Len(lines)
<1>1. /\ prog = "run" /\ prog' = "stop" /\ stop < MaxStops /\ stop' = stop + 1 /\ here' = l
      /\ sStepping' = FALSE /\ (sStepping \/ l \in armed)
      /\ lines' = Append(lines, e)
      /\ UNCHANGED <<armed, cmds, reqs, sPc, job, frames, bps, pauseRequested, stepRequested,
                     quit, view, edited, asked, wanted, ever, done>>
  BY DEF S!Stop, S!adapter, S!client
<1>2. /\ Typed /\ ~quit /\ Live /\ Going /\ OnWay /\ ~Arrives
      /\ sPc \in {"events", "requests"}
      /\ OnlyPauses(cmds) /\ ~ResumeIn(cmds)
      /\ view.what = "running" /\ ~ResumeIn(reqs) /\ ~S!Sees
  BY <1>1, Running
<1>3. stop \in Nat /\ stop \in 0 .. MaxStops /\ lines \in Seq(Lines) /\ e \in Lines
  BY <1>2, Assumed DEF Typed, STypes, S!TypeOK, Lines
<1> HIDE DEF e
<1>4. /\ lines' \in Seq(Lines) /\ Len(lines') = n + 1 /\ n \in Nat
      /\ \A i \in 1 .. n : lines'[i] = lines[i]
      /\ lines'[n + 1] = e
  BY <1>1, <1>3, AppendFacts
<1>5. \A i \in 1 .. Len(lines') : i \in 1 .. n \/ i = n + 1
  BY <1>4
<1>6. n + 1 \in 1 .. Len(lines') /\ \A i \in 1 .. n : lines[i].op # "paused"
  BY <1>2, <1>4 DEF Arrives
<1>7. e.op = "paused" /\ e.stop = stop' /\ e.line = l
  BY <1>1 DEF e
<1> HIDE DEF n
<1>8. Arrives' /\ OnWay' /\ ~Going' /\ ~ResumeIn(cmds') /\ OnlyPauses(cmds')
  BY <1>1, <1>2, <1>4, <1>6, <1>7 DEF Arrives, OnWay, Going
<1>9. S!TypeOK'
  <2>1. stop' \in 0 .. MaxStops
    BY <1>1, <1>3, Assumed
  <2> QED  BY <1>1, <1>2, <2>1 DEF Typed, S!TypeOK
<1>10. STypes'
  <2>1. \A i \in DOMAIN bps' : bps'[i].hits <= stop'
    <3> SUFFICES ASSUME NEW i \in DOMAIN bps PROVE bps[i].hits <= stop + 1
      BY <1>1
    <3>1. bps[i].hits \in 0 .. MaxStops /\ bps[i].hits <= stop
      BY <1>2 DEF Typed, STypes, S!TypeOK
    <3> QED  BY <1>3, <3>1
  <2>2. Places' \subseteq ever'
    BY <1>1, <1>2 DEF Typed, STypes, Places
  <2> QED  BY <1>1, <1>2, <1>4, <2>1, <2>2 DEF Typed, STypes
<1>11. ShownHolds'
  BY <1>1, <1>2 DEF ShownHolds, S!Sees
<1>12. ViewIs'
  BY <1>1, <1>2, <1>8 DEF Live, ViewIs, S!Sees
<1>13. FramesIs' /\ GoingIs'
  BY <1>1, <1>2, <1>8 DEF Live, FramesIs, GoingIs
<1>14. ArrivesIs'
  <2>1. ~S!Asked' => l \in Places'
    <3> SUFFICES ASSUME ~S!Asked PROVE l \in Places
      BY <1>1 DEF S!Asked, Places
    <3>1. l \in armed
      BY <1>1, <1>2 DEF Live, StepsAsked
    <3>2. \A i \in 1 .. Len(cmds) : ~About(cmds[i], l)
      BY <1>2 DEF OnlyPauses, About
    <3>3. OnAfter(l)
      <4>0. Len(cmds) \in Nat
        BY <1>2 DEF Typed, STypes
      <4>1. 0 \in 0 .. Len(cmds)
        BY <4>0
      <4> QED  BY <3>1, <3>2, <4>1 DEF OnAfter
    <3> QED  BY <1>1, <1>2, <3>3 DEF Live, ArmedIs
  <2>2. \A k \in DOMAIN bps' : bps'[k].hits < stop'
    <3> SUFFICES ASSUME NEW k \in DOMAIN bps PROVE bps[k].hits < stop + 1
      BY <1>1
    <3>1. bps[k].hits \in 0 .. MaxStops /\ bps[k].hits <= stop
      BY <1>2 DEF Typed, STypes, S!TypeOK
    <3> QED  BY <1>3, <3>1
  <2>3. \A i \in 1 .. Len(lines') : lines'[i].op = "paused" => i = n + 1
    BY <1>4, <1>5, <1>6
  <2>4. stop' > 0
    BY <1>1, <1>3
  <2> QED  BY <1>1, <1>2, <1>4, <1>7, <1>8, <2>1, <2>2, <2>3, <2>4 DEF ArrivesIs
<1>15. PcIs'
  <2>1. \A i \in 1 .. Len(lines') : lines'[i].op \in {"ok", "paused"}
    <3>1. \A i \in 1 .. n : lines[i].op \in {"ok", "paused"}
      BY <1>2 DEF Live, PcIs, n
    <3> QED  BY <1>4, <1>5, <1>7, <3>1
  <2> QED  BY <1>1, <1>2, <2>1 DEF Live, PcIs
<1>16. OrderIs'
  BY <1>1, <1>2, <1>8, OrderOnWay DEF Live
<1>17. ReadsAre'
  BY <1>1, <1>2, ReadsStill DEF Live, ReadsAre
<1>18. StepsAsked'
  BY <1>1, <1>2 DEF Live, StepsAsked, S!Asked
<1>19. ArmedIs'
  BY <1>1, <1>2 DEF Live, ArmedIs, OnAfter, Places
<1> QED  BY <1>1, <1>2, <1>9, <1>10, <1>11, <1>12, <1>13, <1>14, <1>15, <1>16, <1>17, <1>18,
            <1>19 DEF SInv

\* The program ends by itself.
LEMMA ExitKeeps == ASSUME SInv, S!Exit PROVE SInv'
<1>1. /\ prog = "run" /\ prog' = "gone" /\ cmds' = <<>>
      /\ UNCHANGED <<stop, here, armed, sStepping, lines, reqs, sPc, job, frames, bps,
                     pauseRequested, stepRequested, quit, view, edited, asked, wanted, ever,
                     done>>
  BY DEF S!Exit, S!adapter, S!client
<1>2. /\ Typed /\ ~quit /\ Live /\ Going /\ OnWay /\ ~Arrives
      /\ sPc \in {"events", "requests"}
      /\ view.what = "running" /\ ~ResumeIn(reqs) /\ ~S!Sees
  BY <1>1, Running
<1>3. Going' /\ OnWay' /\ ~Arrives' /\ Len(cmds') = 0
  BY <1>1, <1>2 DEF Going, OnWay, Arrives
<1>4. S!TypeOK' /\ ShownHolds'
  BY <1>1, <1>2 DEF Typed, S!TypeOK, ShownHolds, S!Sees
<1>5. STypes'
  BY <1>1, <1>2 DEF Typed, STypes, Places
<1>6. ViewIs' /\ FramesIs' /\ GoingIs'
  BY <1>1, <1>2, <1>3 DEF Live, ViewIs, FramesIs, GoingIs, S!Sees
<1>7. ArrivesIs'
  BY <1>3 DEF ArrivesIs, Arrives
<1>8. PcIs'
  BY <1>1, <1>2, <1>3 DEF Live, PcIs
<1>9. OrderIs'
  BY <1>1, <1>2, <1>3, OrderOnWay DEF Live
<1>10. ReadsAre'
  BY <1>1, <1>2, ReadsStill DEF Live, ReadsAre
<1>11. StepsAsked' /\ ArmedIs'
  BY <1>1, <1>3 DEF StepsAsked, ArmedIs
<1> QED  BY <1>1, <1>2, <1>4, <1>5, <1>6, <1>7, <1>8, <1>9, <1>10, <1>11 DEF SInv

\* A command is read: what the pipe holds, and which breakpoints will be on.
LEMMA ReadFacts ==
    ASSUME cmds \in Seq(Commands), cmds # <<>>, cmds' = Tail(cmds), NEW c, c = Head(cmds)
    PROVE  /\ c \in Commands /\ c = cmds[1] /\ cmds' \in Seq(Commands)
           /\ Len(cmds') = Len(cmds) - 1 /\ Len(cmds) \in Nat \ {0}
           /\ \A i \in 1 .. Len(cmds') : i + 1 \in 1 .. Len(cmds) /\ cmds'[i] = cmds[i + 1]
           /\ \A i \in 1 .. Len(cmds) : i = 1 \/ (i - 1 \in 1 .. Len(cmds') /\ cmds[i] = cmds'[i - 1])
           /\ ResumeIn(cmds) <=> Resumes(c) \/ ResumeIn(cmds')
           /\ OnlyPauses(cmds) <=> c.op = "pause" /\ OnlyPauses(cmds')
<1>1. /\ c \in Commands /\ c = cmds[1] /\ cmds' \in Seq(Commands)
      /\ Len(cmds') = Len(cmds) - 1
      /\ \A i \in 1 .. Len(cmds) - 1 : cmds'[i] = cmds[i + 1]
  BY TailFacts
<1>2. Len(cmds) \in Nat \ {0}
  OBVIOUS
<1>3. \A i \in 1 .. Len(cmds') : i + 1 \in 1 .. Len(cmds) /\ cmds'[i] = cmds[i + 1]
  BY <1>1, <1>2
<1>4. \A i \in 1 .. Len(cmds) : i = 1 \/ (i - 1 \in 1 .. Len(cmds') /\ cmds[i] = cmds'[i - 1])
  <2> SUFFICES ASSUME NEW i \in 1 .. Len(cmds), i # 1
               PROVE  i - 1 \in 1 .. Len(cmds') /\ cmds[i] = cmds'[i - 1]
    OBVIOUS
  <2>1. i - 1 \in 1 .. Len(cmds) - 1 /\ (i - 1) + 1 = i
    BY <1>2
  <2> QED  BY <1>1, <2>1
<1>5. 1 \in 1 .. Len(cmds)
  BY <1>2
<1>6. ResumeIn(cmds) <=> Resumes(c) \/ ResumeIn(cmds')
  BY <1>1, <1>3, <1>4, <1>5 DEF ResumeIn
<1>7. OnlyPauses(cmds) <=> c.op = "pause" /\ OnlyPauses(cmds')
  BY <1>1, <1>3, <1>4, <1>5 DEF OnlyPauses
<1> QED  BY <1>1, <1>2, <1>3, <1>4, <1>6, <1>7

\* A command read has the effect it had while it waited.
LEMMA OnAfterRead ==
    ASSUME cmds \in Seq(Commands), cmds # <<>>, cmds' = Tail(cmds), NEW l,
           l \in armed' <=> IF About(Head(cmds), l) THEN Head(cmds).on ELSE l \in armed
    PROVE  OnAfter(l)' <=> OnAfter(l)
<1> DEFINE c == Head(cmds)
           n == Len(cmds)
<1>1. /\ c = cmds[1] /\ Len(cmds') = n - 1 /\ n \in Nat \ {0}
      /\ \A i \in 1 .. Len(cmds') : i + 1 \in 1 .. n /\ cmds'[i] = cmds[i + 1]
      /\ \A i \in 1 .. n : i = 1 \/ (i - 1 \in 1 .. Len(cmds') /\ cmds[i] = cmds'[i - 1])
  BY ReadFacts
<1>2. l \in armed' <=> IF About(c, l) THEN c.on ELSE l \in armed
  OBVIOUS
<1> HIDE DEF c, n
<1>3. ASSUME OnAfter(l) PROVE OnAfter(l)'
  <2>1. PICK i \in 0 .. n : /\ \A j \in 1 .. n : j > i => ~About(cmds[j], l)
                            /\ IF i = 0 THEN l \in armed ELSE About(cmds[i], l) /\ cmds[i].on
    BY <1>3 DEF OnAfter, n
  <2>2. CASE i <= 1
    <3>1. \A j \in 1 .. Len(cmds') : ~About(cmds'[j], l)
      <4> SUFFICES ASSUME NEW j \in 1 .. Len(cmds') PROVE ~About(cmds[j + 1], l)
        BY <1>1
      <4>1. j + 1 \in 1 .. n /\ j + 1 > i
        BY <1>1, <2>2
      <4> QED  BY <2>1, <4>1
    <3>2. l \in armed'
      <4>1. CASE i = 0
        <5>1. 1 \in 1 .. n /\ 1 > i
          BY <1>1, <4>1
        <5>2. ~About(c, l)
          BY <1>1, <2>1, <5>1
        <5> QED  BY <1>2, <2>1, <4>1, <5>2
      <4>2. CASE i = 1
        BY <1>1, <1>2, <2>1, <4>2
      <4> QED  BY <2>1, <2>2, <4>1, <4>2
    <3>3. 0 \in 0 .. Len(cmds')
      BY <1>1
    <3> QED  BY <3>1, <3>2, <3>3 DEF OnAfter, About
  <2>3. CASE i > 1
    <3>1. i - 1 \in 1 .. Len(cmds') /\ cmds[i] = cmds'[i - 1] /\ i - 1 \in 0 .. Len(cmds') /\ i - 1 # 0
      BY <1>1, <2>1, <2>3
    <3>2. \A j \in 1 .. Len(cmds') : j > i - 1 => ~About(cmds'[j], l)
      <4> SUFFICES ASSUME NEW j \in 1 .. Len(cmds'), j > i - 1 PROVE ~About(cmds[j + 1], l)
        BY <1>1
      <4>1. j + 1 \in 1 .. n /\ j + 1 > i
        BY <1>1, <2>1
      <4> QED  BY <2>1, <4>1
    <3> QED  BY <2>1, <2>3, <3>1, <3>2 DEF OnAfter, About
  <2> QED  BY <2>1, <2>2, <2>3
<1>4. ASSUME OnAfter(l)' PROVE OnAfter(l)
  <2>1. PICK i \in 0 .. Len(cmds') :
           /\ \A j \in 1 .. Len(cmds') : j > i => ~About(cmds'[j], l)
           /\ IF i = 0 THEN l \in armed' ELSE About(cmds'[i], l) /\ cmds'[i].on
    BY <1>4 DEF OnAfter, About
  <2>2. \A j \in 1 .. n : j > i + 1 => ~About(cmds[j], l)
    <3> SUFFICES ASSUME NEW j \in 1 .. n, j > i + 1 PROVE ~About(cmds[j], l)
      OBVIOUS
    <3>1. j - 1 \in 1 .. Len(cmds') /\ cmds[j] = cmds'[j - 1] /\ j - 1 > i
      BY <1>1, <2>1
    <3> QED  BY <2>1, <3>1
  <2>3. CASE i # 0 \/ About(c, l)
    <3>1. i + 1 \in 0 .. n /\ i + 1 # 0
      BY <1>1, <2>1
    <3>2. About(cmds[i + 1], l) /\ cmds[i + 1].on
      <4>1. CASE i = 0
        <5>1. cmds[i + 1] = c
          BY <1>1, <4>1
        <5> QED  BY <1>2, <2>1, <2>3, <4>1, <5>1
      <4>2. CASE i # 0
        <5>1. i \in 1 .. Len(cmds')
          BY <1>1, <2>1, <4>2
        <5> QED  BY <1>1, <2>1, <4>2, <5>1
      <4> QED  BY <4>1, <4>2
    <3> QED  BY <2>2, <3>1, <3>2 DEF OnAfter, n
  <2>4. CASE i = 0 /\ ~About(c, l)
    <3>1. l \in armed
      BY <1>2, <2>1, <2>4
    <3>2. \A j \in 1 .. n : ~About(cmds[j], l)
      <4> SUFFICES ASSUME NEW j \in 1 .. n PROVE ~About(cmds[j], l)
        OBVIOUS
      <4>1. CASE j = 1
        BY <1>1, <2>4, <4>1
      <4>2. CASE j # 1
        <5>1. j > i + 1
          BY <2>4, <4>2
        <5> QED  BY <2>2, <5>1
      <4> QED  BY <4>1, <4>2
    <3>3. 0 \in 0 .. n
      BY <1>1
    <3> QED  BY <3>1, <3>2, <3>3 DEF OnAfter, n
  <2> QED  BY <2>3, <2>4
<1> QED  BY <1>3, <1>4

\* What reading a command never changes.
LEMMA ReadRest ==
    ASSUME SInv, S!ReadCommand
    PROVE  /\ Typed /\ ~quit /\ Live /\ prog \in {"start", "stop"}
           /\ cmds \in Seq(Commands) /\ cmds # <<>> /\ cmds' = Tail(cmds)
           /\ lines \in Seq(Lines)
           /\ UNCHANGED <<reqs, sPc, job, frames, bps, pauseRequested, stepRequested, quit,
                          view, edited, asked, wanted, ever, done>>
<1>1. prog \in {"start", "stop"} /\ cmds # <<>> /\ cmds' = Tail(cmds)
      /\ UNCHANGED <<reqs, sPc, job, frames, bps, pauseRequested, stepRequested, quit,
                     view, edited, asked, wanted, ever, done>>
  BY DEF S!ReadCommand, S!adapter, S!client
<1>2. Typed /\ ~quit /\ Live
  BY <1>1, SInvIs DEF Over
<1> QED  BY <1>1, <1>2 DEF Typed, STypes

\* Types after a command was read.
LEMMA ReadTypes ==
    ASSUME Typed, S!ReadCommand, cmds \in Seq(Commands), cmds # <<>>,
           UNCHANGED <<stop, here>>, prog' \in {"start", "run", "stop"}, armed' \subseteq Line,
           sStepping' \in BOOLEAN, lines' \in Seq(Lines)
    PROVE  Typed'
<1>1. cmds' \in Seq(Commands)
  BY ReadFacts DEF S!ReadCommand
<1>2. UNCHANGED <<reqs, sPc, job, frames, bps, pauseRequested, stepRequested, quit,
                  view, edited, asked, wanted, ever, done>>
  BY DEF S!ReadCommand, S!adapter, S!client
<1>3. S!TypeOK' /\ ShownHolds'
  BY <1>2 DEF Typed, S!TypeOK, ShownHolds, S!Sees
<1>4. STypes'
  BY <1>1, <1>2 DEF Typed, STypes, Places
<1> QED  BY <1>3, <1>4 DEF Typed

\* The program goes on.
LEMMA ResumeKeeps == ASSUME SInv, S!ReadCommand, S!Resume(Head(cmds)) PROVE SInv'
<1> DEFINE c == Head(cmds)
<1>1. /\ Typed /\ ~quit /\ Live /\ prog \in {"start", "stop"}
      /\ cmds \in Seq(Commands) /\ cmds # <<>> /\ cmds' = Tail(cmds) /\ lines \in Seq(Lines)
      /\ UNCHANGED <<reqs, sPc, job, frames, bps, pauseRequested, stepRequested, quit,
                     view, edited, asked, wanted, ever, done>>
  BY ReadRest
<1>2. /\ c = cmds[1] /\ Len(cmds) \in Nat \ {0} /\ Len(cmds') = Len(cmds) - 1
      /\ \A i \in 1 .. Len(cmds') : i + 1 \in 1 .. Len(cmds) /\ cmds'[i] = cmds[i + 1]
      /\ (ResumeIn(cmds) <=> Resumes(c) \/ ResumeIn(cmds'))
  BY <1>1, ReadFacts
<1>3. /\ Resumes(c) /\ prog' = "run" /\ sStepping' = (c.op = "step")
      /\ UNCHANGED <<stop, here, armed, lines>>
  BY DEF S!Resume, Resumes
<1> HIDE DEF c
<1>4. Going /\ OnWay /\ ~Arrives /\ sPc \in {"events", "requests"}
  BY <1>1, <1>2, <1>3 DEF Live, Going, OnWay, GoingIs
<1>5. view.what = "running" /\ ~ResumeIn(reqs)
  BY <1>1, <1>4 DEF Live, ViewIs
<1>6. Going' /\ OnWay' /\ ~Arrives'
  BY <1>3, <1>4 DEF Going, OnWay, Arrives
<1>7. Typed'
  <2>1. armed' \subseteq Line /\ sStepping' \in BOOLEAN /\ lines' \in Seq(Lines)
    BY <1>1, <1>3 DEF Typed, S!TypeOK
  <2> QED  BY <1>1, <1>3, <2>1, ReadTypes
<1>8. OnlyPauses(cmds')
  <2> SUFFICES ASSUME NEW i \in 1 .. Len(cmds') PROVE cmds'[i].op = "pause"
    BY DEF OnlyPauses
  <2>1. 1 \in 1 .. Len(cmds) /\ i + 1 \in 1 .. Len(cmds) /\ i + 1 > 1 /\ cmds'[i] = cmds[i + 1]
    BY <1>2
  <2> QED  BY <1>1, <1>2, <1>3, <2>1 DEF Live, GoingIs
<1>9. ViewIs' /\ FramesIs'
  BY <1>1, <1>3, <1>5, <1>6 DEF ViewIs, FramesIs, S!Sees
<1>10. GoingIs'
  BY <1>1, <1>3, <1>4, <1>6, <1>8 DEF GoingIs, OnlyPauses
<1>11. ArrivesIs'
  BY <1>6 DEF ArrivesIs, Arrives
<1>12. PcIs'
  BY <1>1, <1>2, <1>3, <1>4 DEF Live, PcIs
<1>13. OrderIs'
  BY <1>1, <1>4, <1>5, <1>6, OrderOnWay DEF Live
<1>14. ReadsAre'
  BY <1>1, <1>4, ReadsStill DEF Live, ReadsAre
<1>15. StepsAsked'
  <2>1. sStepping' => S!Asked
    <3>1. sStepping' => \E i \in 1 .. Len(cmds) : cmds[i].op = "step"
      <4>1. 1 \in 1 .. Len(cmds)
        BY <1>2
      <4> QED  BY <1>2, <1>3, <4>1
    <3> QED  BY <1>1, <3>1 DEF Live, StepsAsked
  <2>2. \A i \in 1 .. Len(cmds') : cmds'[i].op # "step"
    BY <1>8 DEF OnlyPauses
  <2> QED  BY <1>1, <2>1, <2>2 DEF StepsAsked, S!Asked
<1>16. ArmedIs'
  <2> SUFFICES ASSUME NEW l \in Line PROVE OnAfter(l)' <=> l \in Places'
    BY DEF ArmedIs
  <2>1. ~About(c, l)
    BY <1>3 DEF Resumes, About
  <2>2. OnAfter(l)' <=> OnAfter(l)
    BY <1>1, <1>3, <2>1, OnAfterRead DEF c
  <2> QED  BY <1>1, <2>2 DEF Live, ArmedIs, Places
<1>17. quit' = quit
  BY <1>1
<1> QED  BY <1>1, <1>7, <1>9, <1>10, <1>11, <1>12, <1>13, <1>14, <1>15, <1>16, <1>17
         DEF SInv, Typed

\* A pause finds the program stopped.
LEMMA IgnoreKeeps == ASSUME SInv, S!ReadCommand, S!Ignore(Head(cmds)) PROVE SInv'
<1> DEFINE c == Head(cmds)
<1>1. /\ Typed /\ ~quit /\ Live /\ prog \in {"start", "stop"}
      /\ cmds \in Seq(Commands) /\ cmds # <<>> /\ cmds' = Tail(cmds) /\ lines \in Seq(Lines)
      /\ UNCHANGED <<reqs, sPc, job, frames, bps, pauseRequested, stepRequested, quit,
                     view, edited, asked, wanted, ever, done>>
  BY ReadRest
<1>2. /\ c = cmds[1] /\ Len(cmds) \in Nat \ {0} /\ Len(cmds') = Len(cmds) - 1
      /\ \A i \in 1 .. Len(cmds') : i + 1 \in 1 .. Len(cmds) /\ cmds'[i] = cmds[i + 1]
      /\ \A i \in 1 .. Len(cmds) : i = 1 \/ (i - 1 \in 1 .. Len(cmds') /\ cmds[i] = cmds'[i - 1])
      /\ (ResumeIn(cmds) <=> Resumes(c) \/ ResumeIn(cmds'))
      /\ (OnlyPauses(cmds) <=> c.op = "pause" /\ OnlyPauses(cmds'))
  BY <1>1, ReadFacts
<1>3. c.op = "pause" /\ UNCHANGED <<prog, stop, here, armed, sStepping, lines>>
  BY DEF S!Ignore, S!program
<1> HIDE DEF c
<1>4. /\ ResumeIn(cmds') <=> ResumeIn(cmds)
      /\ OnlyPauses(cmds') <=> OnlyPauses(cmds)
      /\ Unconfirmed' => Unconfirmed
  BY <1>2, <1>3 DEF Resumes, Unconfirmed
<1>5. (Going' <=> Going) /\ (OnWay' <=> OnWay) /\ (Arrives' <=> Arrives)
  BY <1>1, <1>3, <1>4 DEF Going, OnWay, Arrives
<1>6. Typed'
  BY <1>1, <1>3, ReadTypes DEF Typed, S!TypeOK
<1>7. ViewIs' /\ FramesIs'
  BY <1>1, <1>3, <1>5 DEF Live, ViewIs, FramesIs, S!Sees
<1>8. GoingIs'
  <2>1. \A i \in 1 .. Len(cmds') : Resumes(cmds'[i]) =>
           \A j \in 1 .. Len(cmds') : j > i => cmds'[j].op = "pause"
    <3> SUFFICES ASSUME NEW i \in 1 .. Len(cmds'), Resumes(cmds'[i]),
                        NEW j \in 1 .. Len(cmds'), j > i
                 PROVE  cmds'[j].op = "pause"
      OBVIOUS
    <3>1. /\ i + 1 \in 1 .. Len(cmds) /\ j + 1 \in 1 .. Len(cmds) /\ j + 1 > i + 1
          /\ Resumes(cmds[i + 1]) /\ cmds'[j] = cmds[j + 1]
      BY <1>2
    <3> QED  BY <1>1, <3>1 DEF Live, GoingIs
  <2> QED  BY <1>1, <1>3, <1>4, <1>5, <2>1 DEF Live, GoingIs
<1>9. ArrivesIs'
  BY <1>1, <1>3, <1>4 DEF Live, ArrivesIs, S!Asked, Places
<1>10. PcIs'
  <2>1. ASSUME NEW op \in {"read", "threads"}, NEW id, AnswerDue(op, id) PROVE AnswerDue(op, id)'
    <3>1. CASE lines = <<>>
      <4>1. PICK k \in 1 .. Len(cmds) : /\ cmds[k].op = op /\ cmds[k].id = id
                                        /\ \A i \in 1 .. Len(cmds) : i # k => cmds[i].op = "pause"
        BY <2>1, <3>1 DEF AnswerDue
      <4>2. k - 1 \in 1 .. Len(cmds') /\ cmds'[k - 1] = cmds[k]
        BY <1>2, <1>3, <4>1
      <4>3. \A i \in 1 .. Len(cmds') : i # k - 1 => cmds'[i].op = "pause"
        BY <1>2, <4>1
      <4> QED  BY <1>3, <3>1, <4>1, <4>2, <4>3 DEF AnswerDue
    <3>2. CASE lines # <<>>
      BY <1>3, <1>4, <2>1, <3>2 DEF AnswerDue
    <3> QED  BY <3>1, <3>2
  <2>2. sPc = "reply" => job.op \in {"read", "threads"}
    BY <1>1 DEF Typed, S!TypeOK, STypes, Queries
  <2>3. sPc = "reply" => AnswerDue(job.op, job.id)'
    <3> SUFFICES ASSUME sPc = "reply" PROVE AnswerDue(job.op, job.id)'
      OBVIOUS
    <3>1. AnswerDue(job.op, job.id)
      BY <1>1 DEF Live, PcIs
    <3>2. PICK op \in {"read", "threads"}, id \in {job.id} : op = job.op /\ id = job.id
      BY <2>2
    <3>3. AnswerDue(op, id)
      BY <3>1, <3>2
    <3>4. AnswerDue(op, id)'
      BY <2>1, <3>3
    <3> QED  BY <1>1, <3>2, <3>4 DEF AnswerDue
  <2>4. sPc = "cond" => AnswerDue("read", 0)'
    BY <1>1, <2>1 DEF Live, PcIs
  <2> QED  BY <1>1, <1>2, <1>3, <1>5, <2>3, <2>4 DEF Live, PcIs
<1>11. OrderIs'
  BY <1>1, <1>3, <1>4, <1>5, OrderStill DEF Live
<1>12. ReadsAre'
  BY <1>1, <1>5, ReadsStill DEF Live, ReadsAre
<1>13. StepsAsked'
  BY <1>1, <1>2, <1>3 DEF Live, StepsAsked, S!Asked
<1>14. ArmedIs'
  <2> SUFFICES ASSUME NEW l \in Line PROVE OnAfter(l)' <=> l \in Places'
    BY DEF ArmedIs
  <2>1. ~About(c, l)
    BY <1>3 DEF About
  <2>2. OnAfter(l)' <=> OnAfter(l)
    BY <1>1, <1>3, <2>1, OnAfterRead DEF c
  <2> QED  BY <1>1, <2>2 DEF Live, ArmedIs, Places
<1>15. quit' = quit
  BY <1>1
<1> QED  BY <1>1, <1>6, <1>7, <1>8, <1>9, <1>10, <1>11, <1>12, <1>13, <1>14, <1>15
         DEF SInv, Typed

\* A breakpoint is confirmed or a question answered.
LEMMA ServeKeeps == ASSUME SInv, S!ReadCommand, S!Serve(Head(cmds)) PROVE SInv'
<1> DEFINE c == Head(cmds)
           e == [op |-> IF c.op = "bpx" THEN "ok" ELSE c.op, id |-> c.id, stop |-> stop,
                 line |-> None]
           n == Len(lines)
<1>1. /\ Typed /\ ~quit /\ Live /\ prog \in {"start", "stop"}
      /\ cmds \in Seq(Commands) /\ cmds # <<>> /\ cmds' = Tail(cmds) /\ lines \in Seq(Lines)
      /\ UNCHANGED <<reqs, sPc, job, frames, bps, pauseRequested, stepRequested, quit,
                     view, edited, asked, wanted, ever, done>>
  BY ReadRest
<1>2. /\ c \in Commands /\ c = cmds[1] /\ Len(cmds) \in Nat \ {0} /\ Len(cmds') = Len(cmds) - 1
      /\ \A i \in 1 .. Len(cmds') : i + 1 \in 1 .. Len(cmds) /\ cmds'[i] = cmds[i + 1]
      /\ \A i \in 1 .. Len(cmds) : i = 1 \/ (i - 1 \in 1 .. Len(cmds') /\ cmds[i] = cmds'[i - 1])
      /\ (ResumeIn(cmds) <=> Resumes(c) \/ ResumeIn(cmds'))
      /\ (OnlyPauses(cmds) <=> c.op = "pause" /\ OnlyPauses(cmds'))
  BY <1>1, ReadFacts
<1>3. /\ c.op \in {"bpx", "read", "threads"}
      /\ armed' = IF c.op # "bpx" THEN armed
                  ELSE IF c.on THEN armed \cup {c.line} ELSE armed \ {c.line}
      /\ lines' = Append(lines, e)
      /\ UNCHANGED <<prog, stop, here, sStepping>>
  BY DEF S!Serve
<1>4. e \in Lines /\ stop \in Nat
  BY <1>1, <1>2, <1>3, Assumed DEF Typed, S!TypeOK, Lines, Commands
<1>5. /\ e.op = IF c.op = "bpx" THEN "ok" ELSE c.op
      /\ e.id = c.id /\ e.stop = stop
  OBVIOUS
<1>6. e.op \in {"ok", "read", "threads"}
  BY <1>3, <1>5
<1> HIDE DEF c, e
<1>7. /\ lines' \in Seq(Lines) /\ Len(lines') = n + 1 /\ n \in Nat
      /\ \A i \in 1 .. n : lines'[i] = lines[i]
      /\ lines'[n + 1] = e
  BY <1>1, <1>3, <1>4, AppendFacts
<1>8. /\ \A i \in 1 .. Len(lines') : i \in 1 .. n \/ i = n + 1
      /\ n + 1 \in 1 .. Len(lines') /\ \A i \in 1 .. n : i \in 1 .. Len(lines')
  BY <1>7
<1> HIDE DEF n
<1>9. 1 \in 1 .. Len(cmds) /\ ~OnlyPauses(cmds)
  BY <1>2, <1>3
<1>10. ~Arrives
  BY <1>1, <1>9 DEF Live, ArrivesIs, Arrives
<1>11. ~Arrives' /\ (ResumeIn(cmds') <=> ResumeIn(cmds))
  <2>1. \A i \in 1 .. n : lines[i].op # "paused"
    BY <1>10 DEF Arrives, n
  <2>2. ~Arrives'
    BY <1>6, <1>7, <1>8, <2>1 DEF Arrives
  <2> QED  BY <1>2, <1>3, <2>2 DEF Resumes
<1>12. (Going' <=> Going) /\ (OnWay' <=> OnWay)
  BY <1>1, <1>3, <1>10, <1>11 DEF Going, OnWay
<1>13. Typed'
  <2>1. c.op = "bpx" => c.line \in Line
    BY <1>2 DEF Commands
  <2>2. armed' \subseteq Line
    BY <1>1, <1>3, <2>1 DEF Typed, S!TypeOK
  <2> QED  BY <1>1, <1>3, <1>7, <2>2, ReadTypes DEF Typed, S!TypeOK
<1>14. ViewIs' /\ FramesIs'
  BY <1>1, <1>3, <1>10, <1>11, <1>12 DEF Live, ViewIs, FramesIs, S!Sees
<1>15. GoingIs'
  <2>1. \A i \in 1 .. Len(cmds') : Resumes(cmds'[i]) =>
           \A j \in 1 .. Len(cmds') : j > i => cmds'[j].op = "pause"
    <3> SUFFICES ASSUME NEW i \in 1 .. Len(cmds'), Resumes(cmds'[i]),
                        NEW j \in 1 .. Len(cmds'), j > i
                 PROVE  cmds'[j].op = "pause"
      OBVIOUS
    <3>1. /\ i + 1 \in 1 .. Len(cmds) /\ j + 1 \in 1 .. Len(cmds) /\ j + 1 > i + 1
          /\ Resumes(cmds[i + 1]) /\ cmds'[j] = cmds[j + 1]
      BY <1>2
    <3> QED  BY <1>1, <3>1 DEF Live, GoingIs
  <2> QED  BY <1>1, <1>3, <1>11, <1>12, <2>1 DEF Live, GoingIs
<1>16. ArrivesIs'
  BY <1>11 DEF ArrivesIs, Arrives
<1>17. PcIs'
  <2>1. CASE sPc \in {"events", "requests"}
    <3>1. c.op = "bpx" /\ e.op = "ok"
      BY <1>1, <1>2, <1>3, <1>5, <1>9, <2>1 DEF Live, PcIs
    <3>2. \A i \in 1 .. n : lines[i].op \in {"ok", "paused"}
      BY <1>1, <2>1 DEF Live, PcIs, n
    <3>3. \A i \in 1 .. Len(lines') : lines'[i].op \in {"ok", "paused"}
      BY <1>7, <1>8, <3>1, <3>2
    <3>4. \A i \in 1 .. Len(cmds') : cmds'[i].op \notin {"read", "threads"}
      BY <1>1, <1>2, <2>1 DEF Live, PcIs
    <3> QED  BY <1>1, <2>1, <3>3, <3>4 DEF PcIs
  <2>2. ASSUME NEW op \in {"read", "threads"}, NEW id, AnswerDue(op, id) PROVE AnswerDue(op, id)'
    <3>1. PICK k \in 1 .. Len(cmds) : /\ cmds[k].op = op /\ cmds[k].id = id
                                      /\ \A i \in 1 .. Len(cmds) : i # k => cmds[i].op = "pause"
      BY <1>9, <2>2 DEF AnswerDue
    <3>2. lines = <<>>
      BY <1>9, <2>2 DEF AnswerDue
    <3>3. k = 1
      BY <1>2, <1>3, <1>9, <3>1
    <3>4. c.op = op /\ c.id = id /\ e.op = op /\ e.id = id /\ e.stop = stop
      BY <1>2, <1>5, <3>1, <3>3
    <3>5. OnlyPauses(cmds')
      <4> SUFFICES ASSUME NEW i \in 1 .. Len(cmds') PROVE cmds'[i].op = "pause"
        BY DEF OnlyPauses
      <4>1. i + 1 \in 1 .. Len(cmds) /\ i + 1 # 1 /\ cmds'[i] = cmds[i + 1]
        BY <1>2
      <4> QED  BY <3>1, <3>3, <4>1
    <3>6. n = 0
      BY <3>2 DEF n
    <3>7. Len(lines') = 1 /\ lines'[1] = e
      BY <1>7, <3>6
    <3> QED  BY <1>3, <3>4, <3>5, <3>7 DEF AnswerDue
  <2>3. CASE sPc = "reply"
    <3>1. AnswerDue(job.op, job.id) /\ ~OnWay /\ prog = "stop"
      BY <1>1, <2>3 DEF Live, PcIs
    <3>2. job.op \in {"read", "threads"}
      BY <1>1, <2>3 DEF Typed, S!TypeOK, STypes, Queries
    <3>3. PICK op \in {"read", "threads"}, id \in {job.id} : op = job.op /\ id = job.id
      BY <3>2
    <3>4. AnswerDue(op, id)'
      BY <2>2, <3>1, <3>3
    <3>5. AnswerDue(job.op, job.id)'
      BY <1>1, <3>3, <3>4 DEF AnswerDue
    <3> QED  BY <1>1, <1>3, <1>12, <2>3, <3>1, <3>5 DEF PcIs
  <2>4. CASE sPc = "cond"
    <3>1. AnswerDue("read", 0)'
      BY <1>1, <2>2, <2>4 DEF Live, PcIs
    <3> QED  BY <1>1, <1>3, <1>11, <1>12, <2>4, <3>1 DEF Live, PcIs
  <2> QED  BY <1>1, <2>1, <2>3, <2>4 DEF Typed, S!TypeOK
<1>18. Unconfirmed' => Unconfirmed
  <2>1. (\E i \in 1 .. Len(cmds') : cmds'[i].op = "bpx") => \E i \in 1 .. Len(cmds) : cmds[i].op = "bpx"
    BY <1>2
  <2>2. ASSUME NEW i \in 1 .. Len(lines'), lines'[i].op = "ok" PROVE Unconfirmed
    <3>1. CASE i \in 1 .. n
      BY <1>7, <2>2, <3>1 DEF Unconfirmed, n
    <3>2. CASE i = n + 1
      <4>1. c.op = "bpx"
        BY <1>3, <1>5, <1>7, <2>2, <3>2
      <4> QED  BY <1>2, <1>9, <4>1 DEF Unconfirmed
    <3> QED  BY <1>8, <3>1, <3>2
  <2> QED  BY <2>1, <2>2 DEF Unconfirmed
<1>19. OrderIs'
  BY <1>1, <1>3, <1>12, <1>18, OrderStill DEF Live
<1>20. ReadsAre'
  BY <1>1, <1>10, <1>11, <1>12, ReadsStill DEF Live, ReadsAre
<1>21. StepsAsked'
  BY <1>1, <1>2, <1>3 DEF Live, StepsAsked, S!Asked
<1>22. ArmedIs'
  <2> SUFFICES ASSUME NEW l \in Line PROVE OnAfter(l)' <=> l \in Places'
    BY DEF ArmedIs
  <2>1. l \in armed' <=> IF About(c, l) THEN c.on ELSE l \in armed
    BY <1>3 DEF About
  <2>2. OnAfter(l)' <=> OnAfter(l)
    BY <1>1, <2>1, OnAfterRead DEF c
  <2> QED  BY <1>1, <2>2 DEF Live, ArmedIs, Places
<1>23. quit' = quit
  BY <1>1
<1> QED  BY <1>1, <1>13, <1>14, <1>15, <1>16, <1>17, <1>19, <1>20, <1>21, <1>22, <1>23
         DEF SInv, Typed

\* Every command read keeps the invariant.
LEMMA ReadCommandKeeps == ASSUME SInv, S!ReadCommand PROVE SInv'
  BY ResumeKeeps, ServeKeeps, IgnoreKeeps DEF S!ReadCommand

\* The adapter takes a line that is no stop.
LEMMA DropKeeps == ASSUME SInv, S!Event, Head(lines).op # "paused" PROVE SInv'
<1> DEFINE e == Head(lines)
           n == Len(lines)
<1>1. /\ sPc = "events" /\ ~quit /\ lines # <<>> /\ lines' = Tail(lines)
      /\ UNCHANGED <<prog, stop, here, armed, sStepping, cmds, reqs, sPc, job, frames, bps,
                     pauseRequested, stepRequested, quit, view, edited, asked, wanted, ever,
                     done>>
  BY DEF S!Event, S!program, S!client
<1>2. Typed /\ Live
  BY <1>1, SInvIs
<1>3. lines \in Seq(Lines)
  BY <1>2 DEF Typed, STypes
<1>4. /\ e = lines[1] /\ lines' \in Seq(Lines) /\ Len(lines') = n - 1 /\ n \in Nat \ {0}
      /\ \A i \in 1 .. n - 1 : lines'[i] = lines[i + 1]
  BY <1>1, <1>3, TailFacts
<1>5. e.op # "paused"
  OBVIOUS
<1> HIDE DEF e
<1>6. /\ \A i \in 1 .. Len(lines') : i + 1 \in 1 .. n /\ lines'[i] = lines[i + 1]
      /\ \A i \in 1 .. n : i = 1 \/ (i - 1 \in 1 .. Len(lines') /\ lines'[i - 1] = lines[i])
  <2>1. \A i \in 1 .. Len(lines') : i \in 1 .. n - 1 /\ i + 1 \in 1 .. n
    BY <1>4
  <2>2. \A i \in 1 .. n : i = 1 \/ (i - 1 \in 1 .. n - 1 /\ i - 1 \in 1 .. Len(lines') /\ (i - 1) + 1 = i)
    BY <1>4
  <2> QED  BY <1>4, <2>1, <2>2
<1> HIDE DEF n
<1>7. (Arrives' <=> Arrives) /\ (Unconfirmed' => Unconfirmed)
  <2>1. Arrives' => Arrives
    BY <1>6 DEF Arrives, n
  <2>2. Arrives => Arrives'
    BY <1>4, <1>5, <1>6 DEF Arrives, n
  <2>3. Unconfirmed' => Unconfirmed
    BY <1>1, <1>6 DEF Unconfirmed, n
  <2> QED  BY <2>1, <2>2, <2>3
<1>8. (Going' <=> Going) /\ (OnWay' <=> OnWay)
  BY <1>1, <1>7 DEF Going, OnWay
<1>9. S!TypeOK' /\ ShownHolds'
  BY <1>1, <1>2 DEF Typed, S!TypeOK, ShownHolds, S!Sees
<1>10. STypes'
  BY <1>1, <1>2, <1>4 DEF Typed, STypes, Places
<1>11. ViewIs' /\ FramesIs' /\ GoingIs'
  BY <1>1, <1>2, <1>7, <1>8 DEF Live, ViewIs, FramesIs, GoingIs, S!Sees
<1>12. ArrivesIs'
  <2> SUFFICES ASSUME NEW i \in 1 .. Len(lines'), lines'[i].op = "paused"
               PROVE  /\ i = Len(lines') /\ lines'[i].stop = stop /\ lines'[i].line = here
                      /\ here \in Line /\ stop > 0
                      /\ prog = "stop" /\ OnlyPauses(cmds) /\ sPc \in {"events", "requests"}
                      /\ ~S!Asked => here \in Places
                      /\ \A k \in DOMAIN bps : bps[k].hits < stop
    BY <1>1 DEF ArrivesIs, S!Asked, Places
  <2>1. i + 1 \in 1 .. n /\ lines[i + 1].op = "paused" /\ lines'[i] = lines[i + 1]
    BY <1>6
  <2>2. i = Len(lines')
    BY <1>2, <1>4, <2>1 DEF Live, ArrivesIs, n
  <2> QED  BY <1>2, <2>1, <2>2 DEF Live, ArrivesIs, n
<1>13. PcIs'
  BY <1>1, <1>2, <1>6 DEF Live, PcIs, n
<1>14. OrderIs'
  BY <1>1, <1>2, <1>7, <1>8, OrderStill DEF Live
<1>15. ReadsAre'
  BY <1>1, <1>2, <1>7, <1>8, ReadsStill DEF Live, ReadsAre
<1>16. StepsAsked' /\ ArmedIs'
  BY <1>1, <1>2 DEF Live, StepsAsked, S!Asked, ArmedIs, OnAfter, Places
<1> QED  BY <1>1, <1>9, <1>10, <1>11, <1>12, <1>13, <1>14, <1>15, <1>16 DEF SInv

\* A command at the end of the pipe that is no breakpoint.
LEMMA OnAfterSent ==
    ASSUME cmds \in Seq(Commands), NEW c \in Commands, c.op # "bpx",
           cmds' = cmds \o <<c>>, armed' = armed, NEW l
    PROVE  OnAfter(l)' <=> OnAfter(l)
<1> DEFINE n == Len(cmds)
<1>1. /\ Len(cmds') = n + 1 /\ n \in Nat
      /\ \A i \in 1 .. n : cmds'[i] = cmds[i]
      /\ cmds'[n + 1] = c
  BY OneMore, AppendFacts
<1>2. ~About(cmds'[n + 1], l)
  BY <1>1 DEF About
<1> HIDE DEF n
<1>3. ASSUME OnAfter(l) PROVE OnAfter(l)'
  <2>1. PICK i \in 0 .. n : /\ \A j \in 1 .. n : j > i => ~About(cmds[j], l)
                            /\ IF i = 0 THEN l \in armed ELSE About(cmds[i], l) /\ cmds[i].on
    BY <1>3 DEF OnAfter, n
  <2>2. i \in 0 .. Len(cmds') /\ (i # 0 => i \in 1 .. n)
    BY <1>1
  <2>3. \A j \in 1 .. Len(cmds') : j > i => ~About(cmds'[j], l)
    <3> SUFFICES ASSUME NEW j \in 1 .. Len(cmds'), j > i PROVE ~About(cmds'[j], l)
      OBVIOUS
    <3>1. j \in 1 .. n \/ j = n + 1
      BY <1>1
    <3> QED  BY <1>1, <1>2, <2>1, <3>1
  <2> QED  BY <1>1, <2>1, <2>2, <2>3 DEF OnAfter, About
<1>4. ASSUME OnAfter(l)' PROVE OnAfter(l)
  <2>1. PICK i \in 0 .. Len(cmds') :
           /\ \A j \in 1 .. Len(cmds') : j > i => ~About(cmds'[j], l)
           /\ IF i = 0 THEN l \in armed ELSE About(cmds'[i], l) /\ cmds'[i].on
    BY <1>4 DEF OnAfter, About
  <2>2. i # n + 1
    <3>1. n + 1 # 0
      BY <1>1
    <3> QED  BY <1>2, <2>1, <3>1
  <2>3. i \in 0 .. n /\ (i # 0 => i \in 1 .. n)
    BY <1>1, <2>1, <2>2
  <2>4. \A j \in 1 .. n : j > i => ~About(cmds[j], l)
    BY <1>1, <2>1
  <2> QED  BY <1>1, <2>1, <2>3, <2>4 DEF OnAfter, n
<1> QED  BY <1>3, <1>4

\* What a command at the end of the pipe changes.
LEMMA SentFacts ==
    ASSUME cmds \in Seq(Commands), NEW c \in Commands, cmds' = cmds \o <<c>>
    PROVE  /\ cmds' \in Seq(Commands) /\ Len(cmds') = Len(cmds) + 1 /\ Len(cmds) \in Nat
           /\ \A i \in 1 .. Len(cmds) : cmds'[i] = cmds[i]
           /\ cmds'[Len(cmds) + 1] = c
           /\ \A i \in 1 .. Len(cmds') : i \in 1 .. Len(cmds) \/ i = Len(cmds) + 1
           /\ \A i \in 1 .. Len(cmds) : i \in 1 .. Len(cmds')
           /\ Len(cmds) + 1 \in 1 .. Len(cmds')
           /\ ResumeIn(cmds') <=> ResumeIn(cmds) \/ Resumes(c)
<1> DEFINE n == Len(cmds)
<1>1. /\ cmds' \in Seq(Commands) /\ Len(cmds') = n + 1 /\ n \in Nat
      /\ \A i \in 1 .. n : cmds'[i] = cmds[i]
      /\ cmds'[n + 1] = c
  BY OneMore, AppendFacts
<1> HIDE DEF n
<1>2. /\ \A i \in 1 .. Len(cmds') : i \in 1 .. n \/ i = n + 1
      /\ \A i \in 1 .. n : i \in 1 .. Len(cmds')
      /\ n + 1 \in 1 .. Len(cmds')
  BY <1>1
<1>3. ResumeIn(cmds') <=> ResumeIn(cmds) \/ Resumes(c)
  BY <1>1, <1>2 DEF ResumeIn, n
<1> QED  BY <1>1, <1>2, <1>3 DEF n

\* The adapter takes a stop.  It is the only line, and it is of the stop the program is at.
LEMMA PausedFacts ==
    ASSUME SInv, S!Event, Head(lines).op = "paused"
    PROVE  /\ Typed /\ ~quit /\ Live /\ sPc = "events" /\ prog = "stop"
           /\ OnlyPauses(cmds) /\ ~ResumeIn(cmds) /\ cmds \in Seq(Commands)
           /\ OnWay /\ view.what = "running" /\ ~ResumeIn(reqs)
           /\ Head(lines).stop = stop /\ Head(lines).line = here
           /\ here \in Line /\ stop > 0 /\ (~S!Asked => here \in Places)
           /\ \A k \in DOMAIN bps : bps[k].hits < stop
           /\ lines' = <<>> /\ S!Stopped(Head(lines))
           /\ UNCHANGED <<prog, stop, here, armed, sStepping, reqs, job, quit, done>>
<1>1. /\ sPc = "events" /\ ~quit /\ lines # <<>> /\ lines' = Tail(lines)
      /\ S!Stopped(Head(lines))
      /\ UNCHANGED <<prog, stop, here, armed, sStepping, reqs, job, quit, done>>
  BY DEF S!Event, S!program
<1>2. Typed /\ Live
  BY <1>1, SInvIs
<1>3. lines \in Seq(Lines) /\ cmds \in Seq(Commands)
  BY <1>2 DEF Typed, STypes
<1>4. /\ Head(lines) = lines[1] /\ lines' \in Seq(Lines) /\ Len(lines') = Len(lines) - 1
      /\ Len(lines) \in Nat \ {0}
  BY <1>1, <1>3, TailFacts
<1>5. 1 \in 1 .. Len(lines) /\ lines[1].op = "paused"
  BY <1>4
<1>6. /\ 1 = Len(lines) /\ lines[1].stop = stop /\ lines[1].line = here
      /\ here \in Line /\ stop > 0 /\ prog = "stop" /\ OnlyPauses(cmds)
      /\ ~S!Asked => here \in Places
      /\ \A k \in DOMAIN bps : bps[k].hits < stop
  BY <1>2, <1>5 DEF Live, ArrivesIs
<1>7. Arrives /\ OnWay
  BY <1>5 DEF Arrives, OnWay
<1>8. view.what = "running" /\ ~ResumeIn(reqs)
  BY <1>2, <1>7 DEF Live, ViewIs
<1>9. ~ResumeIn(cmds)
  BY <1>6 DEF OnlyPauses, ResumeIn, Resumes
<1>10. lines' = <<>>
  <2>1. Len(lines) = 1 /\ Len(lines') = Len(lines) - 1
    BY <1>4, <1>6
  <2>2. Len(lines') = 0
    BY <2>1
  <2>3. \A q \in Seq(Lines) : q # <<>> => Len(q) \in Nat \ {0}
    BY EmptySeq
  <2> QED  BY <1>4, <2>2, <2>3
<1> QED  BY <1>1, <1>2, <1>3, <1>4, <1>6, <1>7, <1>8, <1>9, <1>10

\* Counting a hit changes no line and stays in the bounds.
LEMMA HitsFacts ==
    ASSUME Typed, NEW l, \A k \in DOMAIN bps : bps[k].hits < stop,
           NEW v, v = bps \/ v = S!CountedHits(l)
    PROVE  /\ v \in Seq(Points) /\ DOMAIN v = DOMAIN bps
           /\ \A i \in DOMAIN bps : v[i].line = bps[i].line /\ v[i].hits \in 0 .. MaxStops
                                    /\ v[i].hits <= stop
<1>1. /\ bps \in Seq(Points) /\ stop \in 0 .. MaxStops
      /\ \A i \in DOMAIN bps : bps[i].line \in Line /\ bps[i].hits \in 0 .. MaxStops
  BY DEF Typed, STypes, S!TypeOK
<1>2. CASE v = bps
  BY <1>1, <1>2, Assumed
<1>3. CASE v = S!CountedHits(l)
  <2>1. /\ DOMAIN v = DOMAIN bps
        /\ \A i \in DOMAIN bps : v[i] = IF i \in S!BreakpointAt(l) /\ bps[i].line \in Counted
                                        THEN [bps[i] EXCEPT !.hits = @ + 1] ELSE bps[i]
    BY <1>3 DEF S!CountedHits
  <2>2. \A i \in DOMAIN bps : bps[i] \in Points
    BY <1>1
  <2>3. ASSUME NEW i \in DOMAIN bps
        PROVE  v[i] \in Points /\ v[i].line = bps[i].line /\ v[i].hits \in 0 .. MaxStops
               /\ v[i].hits <= stop
    <3>1. /\ bps[i] \in [line : Line, hits : Nat] /\ bps[i].hits \in 0 .. MaxStops
          /\ bps[i].hits < stop /\ stop \in 0 .. MaxStops /\ MaxStops \in Nat
      BY <1>1, <2>2, Assumed DEF Points
    <3>2. v[i] = bps[i] \/ v[i] = [bps[i] EXCEPT !.hits = @ + 1]
      BY <2>1
    <3>3. CASE v[i] = bps[i]
      BY <3>1, <3>3 DEF Points
    <3>4. CASE v[i] = [bps[i] EXCEPT !.hits = @ + 1]
      <4>1. v[i].line = bps[i].line /\ v[i].hits = bps[i].hits + 1 /\ v[i] \in [line : Line, hits : Nat]
        BY <3>1, <3>4
      <4> QED  BY <3>1, <4>1 DEF Points
    <3> QED  BY <3>2, <3>3, <3>4
  <2>4. v \in Seq(Points)
    <3>1. Len(bps) \in Nat /\ DOMAIN bps = 1 .. Len(bps)
      BY <1>1, LenProperties
    <3>2. v = [i \in DOMAIN bps |-> v[i]]
      BY <1>3 DEF S!CountedHits
    <3>3. v \in [1 .. Len(bps) -> Points]
      BY <2>3, <3>1, <3>2
    <3> QED  BY <3>1, <3>3, FunctionIsSeq
  <2> QED  BY <2>1, <2>3, <2>4
<1> QED  BY <1>2, <1>3

\* What is then so whatever the adapter does with the stop.
LEMMA PausedRest ==
    ASSUME SInv, S!Event, Head(lines).op = "paused", cmds' \in Seq(Commands),
           sPc' \in {"events", "cond"}, wanted' = wanted, ever' = ever, asked' = asked,
           edited' \in BOOLEAN,
           view' = view \/ view' \in [what : {"stop"}, stop : Nat,
                                      why : {"pause", "step", "error", "breakpoint"},
                                      line : Line \cup {None}]
    PROVE  /\ S!TypeOK' /\ STypes' /\ Places' = Places
           /\ frames' = stop /\ ~S!Asked' /\ ~Arrives' /\ Len(lines') = 0
<1>1. /\ Typed /\ ~quit /\ Live /\ sPc = "events" /\ prog = "stop"
      /\ Head(lines).stop = stop /\ Head(lines).line = here
      /\ \A k \in DOMAIN bps : bps[k].hits < stop
      /\ lines' = <<>> /\ S!Stopped(Head(lines))
      /\ UNCHANGED <<prog, stop, here, armed, sStepping, reqs, job, quit, done>>
  BY PausedFacts
<1>2. /\ frames' = stop /\ pauseRequested' = FALSE /\ stepRequested' = FALSE
      /\ bps' = bps \/ bps' = S!CountedHits(here)
  BY <1>1 DEF S!Stopped
<1>3. /\ bps' \in Seq(Points) /\ DOMAIN bps' = DOMAIN bps
      /\ \A i \in DOMAIN bps : bps'[i].line = bps[i].line /\ bps'[i].hits \in 0 .. MaxStops
                               /\ bps'[i].hits <= stop
  BY <1>1, <1>2, HitsFacts
<1>4. Places' = Places
  BY <1>3 DEF Places
<1>5. S!TypeOK'
  <2>1. frames' \in 0 .. MaxStops
    BY <1>1, <1>2 DEF Typed, S!TypeOK
  <2>2. \A i \in DOMAIN bps' : bps'[i].line \in Line /\ bps'[i].hits \in 0 .. MaxStops
    BY <1>1, <1>3 DEF Typed, S!TypeOK
  <2>3. \A i, j \in DOMAIN bps' : bps'[i].line = bps'[j].line => i = j
    BY <1>1, <1>3 DEF Typed, S!TypeOK
  <2>4. {sStepping', pauseRequested', stepRequested', quit', edited'} \subseteq BOOLEAN
    BY <1>1, <1>2 DEF Typed, S!TypeOK
  <2>5. sPc' \in {"events", "requests", "reply", "cond"} /\ (sPc' = "reply" <=> job' # None)
    BY <1>1 DEF Typed, S!TypeOK
  <2> QED  BY <1>1, <2>1, <2>2, <2>3, <2>4, <2>5 DEF Typed, S!TypeOK
<1>6. STypes'
  <2>1. \A i \in DOMAIN bps' : bps'[i].hits <= stop'
    BY <1>1, <1>3
  <2>2. lines' \in Seq(Lines)
    BY <1>1
  <2> QED  BY <1>1, <1>3, <1>4, <2>1, <2>2 DEF Typed, STypes
<1> QED  BY <1>1, <1>2, <1>4, <1>5, <1>6 DEF S!Asked, Arrives

\* The commands an adapter of this model sends by itself.
LEMMA OwnCommands ==
    /\ S!Command("read") \in Commands /\ S!Command("read").op = "read"
    /\ S!Command("read").id = 0
    /\ S!Command("continue") \in Commands /\ S!Command("continue").op = "continue"
  BY DEF S!Command, Commands

\* The stop waits for its condition.
LEMMA TestKeeps ==
    ASSUME SInv, S!Event, Head(lines).op = "paused",
           cmds' = cmds \o <<S!Command("read")>>, sPc' = "cond", UNCHANGED S!client,
           here \in Cond, here \in Places
    PROVE  SInv'
<1> DEFINE c == S!Command("read")
           n == Len(cmds)
<1>1. /\ Typed /\ ~quit /\ Live /\ sPc = "events" /\ prog = "stop"
      /\ OnlyPauses(cmds) /\ ~ResumeIn(cmds) /\ cmds \in Seq(Commands)
      /\ OnWay /\ view.what = "running" /\ ~ResumeIn(reqs)
      /\ here \in Line /\ stop > 0
      /\ lines' = <<>>
      /\ UNCHANGED <<prog, stop, here, armed, sStepping, reqs, job, quit, done>>
  BY PausedFacts
<1>2. UNCHANGED <<view, edited, asked, wanted, ever>>
  BY DEF S!client
<1>3. c \in Commands /\ c.op = "read" /\ c.id = 0 /\ cmds' = cmds \o <<c>>
  BY OwnCommands
<1> HIDE DEF c
<1>4. /\ cmds' \in Seq(Commands) /\ Len(cmds') = n + 1 /\ n \in Nat
      /\ \A i \in 1 .. n : cmds'[i] = cmds[i]
      /\ cmds'[n + 1] = c
      /\ \A i \in 1 .. Len(cmds') : i \in 1 .. n \/ i = n + 1
      /\ n + 1 \in 1 .. Len(cmds')
      /\ ~ResumeIn(cmds')
  BY <1>1, <1>3, SentFacts DEF Resumes
<1>5. /\ S!TypeOK' /\ STypes' /\ Places' = Places
      /\ frames' = stop /\ ~S!Asked' /\ ~Arrives' /\ Len(lines') = 0
  BY <1>1, <1>2, <1>4, PausedRest DEF Typed, S!TypeOK
<1> HIDE DEF n
<1>6. \A i \in 1 .. n : cmds'[i].op = "pause"
  BY <1>1, <1>4 DEF OnlyPauses, n
<1>7. ~Going' /\ OnWay'
  BY <1>1, <1>4 DEF Going, OnWay
<1>8. ShownHolds'
  BY <1>1, <1>2 DEF ShownHolds, S!Sees
<1>9. ViewIs' /\ FramesIs'
  BY <1>1, <1>2, <1>5, <1>7 DEF ViewIs, FramesIs, S!Sees
<1>10. GoingIs'
  BY <1>1, <1>4, <1>7 DEF GoingIs, ResumeIn
<1>11. ArrivesIs'
  BY <1>5 DEF ArrivesIs
<1>12. PcIs'
  <2>1. AnswerDue("read", 0)'
    BY <1>1, <1>3, <1>4, <1>6 DEF AnswerDue
  <2> QED  BY <1>1, <1>5, <1>7, <2>1 DEF PcIs
<1>13. OrderIs'
  BY <1>1, <1>2, <1>7, OrderOnWay DEF Live
<1>14. here \in ever \cap Passing
  BY <1>1 DEF Typed, STypes, Passing
<1>15. ReadsAre'
  BY <1>1, <1>2, <1>14, ReadsStill DEF Live
<1>16. StepsAsked'
  BY <1>1, <1>3, <1>4, <1>6 DEF StepsAsked
<1>17. ArmedIs'
  <2> SUFFICES ASSUME NEW l \in Line PROVE OnAfter(l)' <=> l \in Places'
    BY DEF ArmedIs
  <2>1. OnAfter(l)' <=> OnAfter(l)
    BY <1>1, <1>3, OnAfterSent
  <2> QED  BY <1>1, <1>5, <2>1 DEF Live, ArmedIs
<1> QED  BY <1>1, <1>5, <1>8, <1>9, <1>10, <1>11, <1>12, <1>13, <1>15, <1>16, <1>17 DEF SInv

\* The stop is passed over for its hit count.
LEMMA PassedKeeps ==
    ASSUME SInv, S!Event, Head(lines).op = "paused",
           cmds' = cmds \o <<S!Command("continue")>>, sPc' = "events", UNCHANGED S!client,
           here \in Counted, here \in Places
    PROVE  SInv'
<1> DEFINE c == S!Command("continue")
           n == Len(cmds)
<1>1. /\ Typed /\ ~quit /\ Live /\ sPc = "events" /\ prog = "stop"
      /\ OnlyPauses(cmds) /\ ~ResumeIn(cmds) /\ cmds \in Seq(Commands)
      /\ OnWay /\ view.what = "running" /\ ~ResumeIn(reqs)
      /\ here \in Line /\ stop > 0
      /\ lines' = <<>>
      /\ UNCHANGED <<prog, stop, here, armed, sStepping, reqs, job, quit, done>>
  BY PausedFacts
<1>2. UNCHANGED <<view, edited, asked, wanted, ever>>
  BY DEF S!client
<1>3. c \in Commands /\ c.op = "continue" /\ cmds' = cmds \o <<c>>
  BY OwnCommands
<1> HIDE DEF c
<1>4. /\ cmds' \in Seq(Commands) /\ Len(cmds') = n + 1 /\ n \in Nat
      /\ \A i \in 1 .. n : cmds'[i] = cmds[i]
      /\ cmds'[n + 1] = c
      /\ \A i \in 1 .. Len(cmds') : i \in 1 .. n \/ i = n + 1
      /\ n + 1 \in 1 .. Len(cmds')
      /\ ResumeIn(cmds')
  BY <1>1, <1>3, SentFacts DEF Resumes
<1>5. /\ S!TypeOK' /\ STypes' /\ Places' = Places
      /\ frames' = stop /\ ~S!Asked' /\ ~Arrives' /\ Len(lines') = 0
  BY <1>1, <1>2, <1>4, PausedRest DEF Typed, S!TypeOK
<1> HIDE DEF n
<1>6. \A i \in 1 .. n : cmds'[i].op = "pause"
  BY <1>1, <1>4 DEF OnlyPauses, n
<1>7. Going' /\ OnWay'
  BY <1>4 DEF Going, OnWay
<1>8. ShownHolds'
  BY <1>1, <1>2 DEF ShownHolds, S!Sees
<1>9. ViewIs' /\ FramesIs'
  BY <1>1, <1>2, <1>5, <1>7 DEF ViewIs, FramesIs, S!Sees
<1>10. GoingIs'
  <2>1. \A i \in 1 .. Len(cmds') : Resumes(cmds'[i]) => i = n + 1
    BY <1>4, <1>6 DEF Resumes
  <2>2. \A i \in 1 .. Len(cmds') : Resumes(cmds'[i]) =>
           \A j \in 1 .. Len(cmds') : j > i => cmds'[j].op = "pause"
    BY <1>4, <2>1
  <2> QED  BY <1>1, <1>5, <2>2 DEF GoingIs
<1>11. ArrivesIs'
  BY <1>5 DEF ArrivesIs
<1>12. PcIs'
  <2>1. \A i \in 1 .. Len(cmds') : cmds'[i].op \notin {"read", "threads"}
    BY <1>3, <1>4, <1>6
  <2> QED  BY <1>5, <2>1 DEF PcIs
<1>13. OrderIs'
  BY <1>1, <1>2, <1>7, OrderOnWay DEF Live
<1>14. here \in ever \cap Passing
  BY <1>1 DEF Typed, STypes, Passing
<1>15. ReadsAre'
  BY <1>1, <1>2, <1>14, ReadsStill DEF Live
<1>16. StepsAsked'
  BY <1>1, <1>3, <1>4, <1>6 DEF StepsAsked
<1>17. ArmedIs'
  <2> SUFFICES ASSUME NEW l \in Line PROVE OnAfter(l)' <=> l \in Places'
    BY DEF ArmedIs
  <2>1. OnAfter(l)' <=> OnAfter(l)
    BY <1>1, <1>3, OnAfterSent
  <2> QED  BY <1>1, <1>5, <2>1 DEF Live, ArmedIs
<1> QED  BY <1>1, <1>5, <1>8, <1>9, <1>10, <1>11, <1>12, <1>13, <1>15, <1>16, <1>17 DEF SInv

\* The stop is shown.
LEMMA ShownKeeps ==
    ASSUME SInv, OnWay, prog = "stop", OnlyPauses(cmds), lines' = <<>>, sPc' = "events",
           frames' = stop, Places' = Places, S!TypeOK', STypes', ShownHolds',
           view'.what = "stop", view'.stop = stop,
           UNCHANGED <<prog, stop, here, armed, sStepping, cmds, reqs, quit, ever>>
    PROVE  SInv'
<1>1. Typed /\ ~quit /\ Live
  BY SInvIs DEF Over
<1>2. ~ResumeIn(cmds) /\ \A i \in 1 .. Len(cmds) : cmds[i].op = "pause"
  BY DEF ResumeIn, OnlyPauses, Resumes
<1>3. Len(lines') = 0
  OBVIOUS
<1>4. ~Going' /\ ~Arrives' /\ ~OnWay' /\ ~Unconfirmed'
  BY <1>2, <1>3 DEF Going, Arrives, OnWay, Unconfirmed
<1>5. ~ResumeIn(reqs)
  BY <1>1 DEF Live, ViewIs
<1>6. ViewIs' /\ FramesIs' /\ GoingIs'
  BY <1>2, <1>4, <1>5 DEF ViewIs, FramesIs, GoingIs, S!Sees, ResumeIn
<1>7. ArrivesIs'
  BY <1>3 DEF ArrivesIs
<1>8. PcIs'
  BY <1>2, <1>3 DEF PcIs
<1>9. OrderIs'
  <2>1. \A i \in 1 .. Len(reqs) : reqs[i].op \notin {"breakpoints", "threads"}
    BY <1>1 DEF Live, OrderIs
  <2>2. \A i, j \in 1 .. Len(reqs) : Resumes(reqs[i]) /\ Resumes(reqs[j]) => i = j
    BY <1>1 DEF Live, OrderIs
  <2> QED  BY <1>4, <2>1, <2>2 DEF OrderIs
<1>10. ReadsAre'
  BY <1>1, <1>4, ReadsStill DEF Live
<1>11. StepsAsked'
  BY <1>2 DEF StepsAsked
<1>12. ArmedIs'
  BY <1>1 DEF Live, ArmedIs, OnAfter
<1> QED  BY <1>1, <1>6, <1>7, <1>8, <1>9, <1>10, <1>11, <1>12 DEF SInv

\* Every line taken from the program keeps the invariant.
LEMMA EventKeeps == ASSUME SInv, S!Event PROVE SInv'
<1> DEFINE e == Head(lines)
           hit == S!BreakpointAt(e.line)
           due == \A i \in hit : S!Due(i)
           test == ~S!Asked /\ hit # {} /\ due /\ e.line \in Cond
           why == IF pauseRequested THEN "pause" ELSE IF stepRequested THEN "step"
                  ELSE IF test THEN "error" ELSE "breakpoint"
<1>1. CASE e.op # "paused"
  BY <1>1, DropKeeps
<1>2. CASE e.op = "paused"
  <2>1. /\ Typed /\ ~quit /\ Live /\ sPc = "events" /\ prog = "stop"
        /\ OnlyPauses(cmds) /\ cmds \in Seq(Commands) /\ OnWay
        /\ e.stop = stop /\ e.line = here
        /\ here \in Line /\ (~S!Asked => here \in Places)
        /\ lines' = <<>> /\ S!Stopped(e)
        /\ UNCHANGED <<prog, stop, here, armed, sStepping, reqs, job, quit, done>>
    BY <1>2, PausedFacts
  <2>2. \/ test /\ S!Send(<<S!Command("read")>>) /\ sPc' = "cond" /\ UNCHANGED S!client
        \/ ~S!Asked /\ ~due /\ S!PassOver /\ UNCHANGED sPc
        \/ (S!Asked \/ due) /\ ~(test /\ S!Sends) /\ UNCHANGED sPc /\ S!Show(why, e.stop, e.line)
    BY <2>1 DEF S!Stopped
  <2>3. S!Sends
    BY <2>1 DEF S!Sends
  <2>4. hit # {} <=> here \in Places
    BY <2>1 DEF S!BreakpointAt, Places
  <2>5. CASE test /\ S!Send(<<S!Command("read")>>) /\ sPc' = "cond" /\ UNCHANGED S!client
    <3>1. cmds' = cmds \o <<S!Command("read")>> /\ here \in Cond /\ here \in Places
      BY <2>1, <2>3, <2>4, <2>5 DEF S!Send
    <3> QED  BY <1>2, <2>5, <3>1, TestKeeps
  <2>6. CASE ~S!Asked /\ ~due /\ S!PassOver /\ UNCHANGED sPc
    <3>1. cmds' = cmds \o <<S!Command("continue")>> /\ UNCHANGED S!client
      BY <2>3, <2>6 DEF S!PassOver, S!Send
    <3>2. here \in Counted /\ here \in Places
      <4>1. PICK i \in hit : ~S!Due(i)
        BY <2>6
      <4>2. i \in DOMAIN bps /\ bps[i].line = here /\ bps[i].line \in Counted
        BY <2>1, <4>1 DEF S!BreakpointAt, S!Due
      <4> QED  BY <4>2 DEF Places
    <3> QED  BY <1>2, <2>1, <2>6, <3>1, <3>2, PassedKeeps
  <2>7. CASE (S!Asked \/ due) /\ ~(test /\ S!Sends) /\ UNCHANGED sPc /\ S!Show(why, e.stop, e.line)
    <3>1. /\ view' = [what |-> "stop", stop |-> stop, why |-> why, line |-> here]
          /\ edited' = FALSE /\ cmds' = cmds
          /\ UNCHANGED <<asked, wanted, ever>>
      BY <2>1, <2>7 DEF S!Show
    <3>2. ~test
      BY <2>3, <2>7
    <3>3. why = "breakpoint" => here \notin Cond
      BY <2>1, <2>4, <2>7, <3>2 DEF S!Asked
    <3>4. why \in {"pause", "step", "error", "breakpoint"}
      OBVIOUS
    <3> HIDE DEF why, test, hit, due
    <3>5. stop \in Nat
      BY <2>1, Assumed DEF Typed, S!TypeOK
    <3>6. view' \in [what : {"stop"}, stop : Nat, why : {"pause", "step", "error", "breakpoint"},
                     line : Line \cup {None}]
      BY <2>1, <3>1, <3>4, <3>5
    <3>7. S!TypeOK' /\ STypes' /\ Places' = Places /\ frames' = stop
      <4>1. edited' \in BOOLEAN /\ sPc' = "events" /\ cmds' \in Seq(Commands)
        BY <2>1, <2>7, <3>1
      <4> QED  BY <1>2, <3>1, <3>6, <4>1, PausedRest
    <3>8. ShownHolds'
      BY <3>1, <3>3 DEF ShownHolds, S!Sees
    <3>9. view'.what = "stop" /\ view'.stop = stop /\ sPc' = "events"
      BY <2>1, <2>7, <3>1
    <3> QED  BY <2>1, <3>1, <3>7, <3>8, <3>9, ShownKeeps
  <2> QED  BY <2>2, <2>5, <2>6, <2>7
<1> QED  BY <1>1, <1>2

\* Between events and requests only the place changes.
LEMMA TurnKeeps == ASSUME SInv, S!EventsDone \/ S!BackToEvents PROVE SInv'
<1>1. /\ ~quit /\ sPc \in {"events", "requests"} /\ sPc' \in {"events", "requests"}
      /\ UNCHANGED <<prog, stop, here, armed, sStepping, cmds, lines, reqs, job, frames, bps,
                     pauseRequested, stepRequested, quit, view, edited, asked, wanted, ever,
                     done>>
  BY DEF S!EventsDone, S!BackToEvents, S!program, S!adapter, S!client
<1>2. Typed /\ Live
  BY <1>1, SInvIs
<1>3. Going' = Going /\ Arrives' = Arrives /\ (OnWay' <=> OnWay) /\ Places' = Places
      /\ Unconfirmed' = Unconfirmed
  BY <1>1 DEF Going, Arrives, OnWay, Places, Unconfirmed
<1>4. S!TypeOK' /\ ShownHolds'
  BY <1>1, <1>2 DEF Typed, S!TypeOK, ShownHolds, S!Sees
<1>5. STypes'
  BY <1>1, <1>2, <1>3 DEF Typed, STypes
<1>6. ViewIs' /\ FramesIs' /\ GoingIs'
  BY <1>1, <1>2, <1>3 DEF Live, ViewIs, FramesIs, GoingIs, S!Sees
<1>7. ArrivesIs' /\ PcIs'
  BY <1>1, <1>2, <1>3 DEF Live, ArrivesIs, PcIs, S!Asked
<1>8. OrderIs'
  BY <1>1, <1>2, <1>3, OrderStill DEF Live
<1>9. ReadsAre'
  BY <1>1, <1>2, <1>3, ReadsStill DEF Live, ReadsAre
<1>10. StepsAsked' /\ ArmedIs'
  BY <1>1, <1>2, <1>3 DEF Live, StepsAsked, S!Asked, ArmedIs, OnAfter
<1> QED  BY <1>1, <1>4, <1>5, <1>6, <1>7, <1>8, <1>9, <1>10 DEF SInv

\* The condition of the stop: its answer is the only line.
LEMMA JudgeFacts ==
    ASSUME SInv, S!Judge
    PROVE  /\ Typed /\ ~quit /\ Live /\ prog = "stop" /\ OnWay /\ ~ResumeIn(cmds)
           /\ OnlyPauses(cmds) /\ cmds \in Seq(Commands)
           /\ lines # <<>> /\ Head(lines).op = "read" /\ Head(lines).stop = stop
           /\ frames = stop /\ here \in Line /\ stop > 0
           /\ view.what = "running" /\ ~ResumeIn(reqs)
           /\ lines' = <<>> /\ sPc' = "events"
           /\ UNCHANGED <<prog, stop, here, armed, sStepping, reqs, job, frames, bps,
                          pauseRequested, stepRequested, quit, done>>
<1>1. /\ sPc = "cond" /\ (lines # <<>> \/ ~S!Sends) /\ sPc' = "events"
      /\ lines' = IF lines # <<>> THEN Tail(lines) ELSE lines
      /\ UNCHANGED <<prog, stop, here, armed, sStepping, reqs, job, frames, bps,
                     pauseRequested, stepRequested, quit, done>>
  BY DEF S!Judge, S!program, S!adapter
<1>2. Typed /\ ~quit /\ Live
  BY <1>1, SInvIs DEF Over
<1>3. /\ prog = "stop" /\ ~Going /\ ~Arrives /\ AnswerDue("read", 0) /\ here \in Line /\ stop > 0
  BY <1>1, <1>2 DEF Live, PcIs
<1>4. lines # <<>> /\ cmds \in Seq(Commands) /\ lines \in Seq(Lines)
  BY <1>1, <1>2, <1>3 DEF S!Sends, Typed, STypes
<1>5. OnlyPauses(cmds) /\ Len(lines) = 1 /\ lines[1].op = "read" /\ lines[1].stop = stop
  BY <1>3, <1>4 DEF AnswerDue
<1>6. Head(lines) = lines[1] /\ lines' \in Seq(Lines) /\ Len(lines') = Len(lines) - 1
  BY <1>1, <1>4, TailFacts
<1>7. lines' = <<>>
  <2>1. Len(lines') = 0
    BY <1>5, <1>6
  <2>2. \A q \in Seq(Lines) : q # <<>> => Len(q) \in Nat \ {0}
    BY EmptySeq
  <2> QED  BY <1>6, <2>1, <2>2
<1>8. OnWay /\ ~ResumeIn(cmds) /\ frames = stop
  BY <1>1, <1>2, <1>3, <1>5 DEF Live, FramesIs, OnWay, OnlyPauses, ResumeIn, Resumes
<1>9. view.what = "running" /\ ~ResumeIn(reqs)
  BY <1>2, <1>8 DEF Live, ViewIs
<1> QED  BY <1>1, <1>2, <1>3, <1>4, <1>5, <1>6, <1>7, <1>8, <1>9

\* The condition is judged: the stop is shown or passed over.
LEMMA JudgeKeeps == ASSUME SInv, S!Judge PROVE SInv'
<1> DEFINE e == Head(lines)
<1>1. /\ Typed /\ ~quit /\ Live /\ prog = "stop" /\ OnWay /\ ~ResumeIn(cmds)
      /\ OnlyPauses(cmds) /\ cmds \in Seq(Commands)
      /\ lines # <<>> /\ e.op = "read" /\ e.stop = stop
      /\ frames = stop /\ here \in Line /\ stop > 0
      /\ view.what = "running" /\ ~ResumeIn(reqs)
      /\ lines' = <<>> /\ sPc' = "events"
      /\ UNCHANGED <<prog, stop, here, armed, sStepping, reqs, job, frames, bps,
                     pauseRequested, stepRequested, quit, done>>
  BY JudgeFacts
<1>2. sPc = "cond" /\ job = None
  <2>1. sPc = "cond"
    BY DEF S!Judge
  <2> QED  BY <1>1, <2>1 DEF Typed, S!TypeOK
<1>3. IF ~S!Holds(e) THEN S!PassOver ELSE S!Show("breakpoint", frames, here)
  BY <1>1 DEF S!Judge
<1>4. Places' = Places /\ stop \in Nat
  BY <1>1, Assumed DEF Places, Typed, S!TypeOK
<1>5. Len(lines') = 0 /\ lines' \in Seq(Lines)
  BY <1>1
<1>6. CASE ~S!Holds(e)
  <2> DEFINE c == S!Command("continue")
             n == Len(cmds)
  <2>1. /\ cmds' = cmds \o <<c>> /\ c \in Commands /\ c.op = "continue"
        /\ UNCHANGED <<view, edited, asked, wanted, ever>>
    BY <1>1, <1>3, <1>6, OwnCommands DEF S!PassOver, S!Send, S!Sends, S!client
  <2> HIDE DEF c
  <2>2. /\ cmds' \in Seq(Commands) /\ Len(cmds') = n + 1 /\ n \in Nat
        /\ \A i \in 1 .. n : cmds'[i] = cmds[i]
        /\ cmds'[n + 1] = c
        /\ \A i \in 1 .. Len(cmds') : i \in 1 .. n \/ i = n + 1
        /\ n + 1 \in 1 .. Len(cmds')
        /\ ResumeIn(cmds')
    BY <1>1, <2>1, SentFacts DEF Resumes
  <2> HIDE DEF n
  <2>3. \A i \in 1 .. n : cmds'[i].op = "pause"
    BY <1>1, <2>2 DEF OnlyPauses, n
  <2>4. Going' /\ OnWay' /\ ~Arrives'
    BY <1>5, <2>2 DEF Going, OnWay, Arrives
  <2>5. S!TypeOK' /\ ShownHolds'
    BY <1>1, <1>2, <2>1 DEF Typed, S!TypeOK, ShownHolds, S!Sees
  <2>6. STypes'
    BY <1>1, <1>4, <1>5, <2>1, <2>2 DEF Typed, STypes
  <2>7. ViewIs' /\ FramesIs'
    BY <1>1, <2>1, <2>4 DEF ViewIs, FramesIs, S!Sees
  <2>8. GoingIs'
    <3>1. \A i \in 1 .. Len(cmds') : Resumes(cmds'[i]) => i = n + 1
      BY <2>2, <2>3 DEF Resumes
    <3>2. \A i \in 1 .. Len(cmds') : Resumes(cmds'[i]) =>
             \A j \in 1 .. Len(cmds') : j > i => cmds'[j].op = "pause"
      BY <2>2, <3>1
    <3> QED  BY <1>1, <2>4, <3>2 DEF GoingIs
  <2>9. ArrivesIs'
    BY <1>5 DEF ArrivesIs
  <2>10. PcIs'
    <3>1. \A i \in 1 .. Len(cmds') : cmds'[i].op \notin {"read", "threads"}
      BY <2>1, <2>2, <2>3
    <3> QED  BY <1>1, <1>5, <3>1 DEF PcIs
  <2>11. OrderIs'
    BY <1>1, <2>1, <2>4, OrderOnWay DEF Live
  <2>12. ReadsAre'
    BY <1>1, <1>2, <2>1, ReadsStill DEF Live, ReadsAre
  <2>13. StepsAsked'
    BY <1>1, <2>1, <2>2, <2>3 DEF StepsAsked
  <2>14. ArmedIs'
    <3> SUFFICES ASSUME NEW l \in Line PROVE OnAfter(l)' <=> l \in Places'
      BY DEF ArmedIs
    <3>1. OnAfter(l)' <=> OnAfter(l)
      BY <1>1, <2>1, OnAfterSent
    <3> QED  BY <1>1, <1>4, <3>1 DEF Live, ArmedIs
  <2> QED  BY <1>1, <2>5, <2>6, <2>7, <2>8, <2>9, <2>10, <2>11, <2>12, <2>13, <2>14 DEF SInv
<1>7. CASE S!Holds(e)
  <2>1. /\ view' = [what |-> "stop", stop |-> stop, why |-> "breakpoint", line |-> here]
        /\ edited' = FALSE /\ cmds' = cmds /\ UNCHANGED <<asked, wanted, ever>>
        /\ stop \in True
    BY <1>1, <1>3, <1>7 DEF S!Show, S!Holds
  <2>2. view' \in [what : {"stop"}, stop : Nat, why : {"pause", "step", "error", "breakpoint"},
                   line : Line \cup {None}]
    BY <1>1, <1>4, <2>1
  <2>3. S!TypeOK' /\ ShownHolds'
    BY <1>1, <1>2, <2>1 DEF Typed, S!TypeOK, ShownHolds, S!Sees
  <2>4. STypes'
    BY <1>1, <1>4, <1>5, <2>1, <2>2 DEF Typed, STypes
  <2> QED  BY <1>1, <1>4, <2>1, <2>3, <2>4, ShownKeeps
<1> QED  BY <1>6, <1>7

\* A request is taken from the queue: what the others say then.
LEMMA TakeFacts ==
    ASSUME reqs \in Seq(Requests), reqs # <<>>, reqs' = Tail(reqs), NEW r, r = Head(reqs)
    PROVE  /\ r \in Requests /\ r = reqs[1] /\ 1 \in 1 .. Len(reqs)
           /\ reqs' \in Seq(Requests) /\ Len(reqs') = Len(reqs) - 1 /\ Len(reqs) \in Nat \ {0}
           /\ \A i \in 1 .. Len(reqs') : i + 1 \in 1 .. Len(reqs) /\ reqs'[i] = reqs[i + 1]
           /\ ResumeIn(reqs) <=> Resumes(r) \/ ResumeIn(reqs')
           /\ \A j \in 1 .. Len(reqs') : \A k : k = j + 1 =>
                 (ResumeBefore(k) <=> Resumes(r) \/ ResumeBefore(j)')
           /\ \A j \in 1 .. Len(reqs') : \A k : k = j + 1 => (Queried(k) <=> Queried(j)')
<1>1. /\ r \in Requests /\ r = reqs[1] /\ reqs' \in Seq(Requests)
      /\ Len(reqs') = Len(reqs) - 1
      /\ \A i \in 1 .. Len(reqs) - 1 : reqs'[i] = reqs[i + 1]
  BY TailFacts
<1>2. Len(reqs) \in Nat \ {0}
  OBVIOUS
<1>3. 1 \in 1 .. Len(reqs)
  BY <1>2
<1>4. \A i \in 1 .. Len(reqs') : i + 1 \in 1 .. Len(reqs) /\ reqs'[i] = reqs[i + 1]
  BY <1>1, <1>2
<1>5. \A i \in 1 .. Len(reqs) : i = 1 \/ (i - 1 \in 1 .. Len(reqs') /\ reqs[i] = reqs'[i - 1])
  <2> SUFFICES ASSUME NEW i \in 1 .. Len(reqs), i # 1
               PROVE  i - 1 \in 1 .. Len(reqs') /\ reqs[i] = reqs'[i - 1]
    OBVIOUS
  <2>1. i - 1 \in 1 .. Len(reqs) - 1 /\ (i - 1) + 1 = i
    BY <1>2
  <2> QED  BY <1>1, <2>1
<1>6. ResumeIn(reqs) <=> Resumes(r) \/ ResumeIn(reqs')
  BY <1>1, <1>3, <1>4, <1>5 DEF ResumeIn
<1>7. ASSUME NEW j \in 1 .. Len(reqs'), NEW k, k = j + 1
      PROVE  (ResumeBefore(k) <=> Resumes(r) \/ ResumeBefore(j)') /\ (Queried(k) <=> Queried(j)')
  <2>1. ASSUME Resumes(r) PROVE ResumeBefore(k)
    <3>1. 1 < k
      BY <1>7
    <3> QED  BY <1>1, <1>3, <2>1, <3>1 DEF ResumeBefore
  <2>2. ASSUME ResumeBefore(j)' PROVE ResumeBefore(k)
    <3>1. PICK i \in 1 .. Len(reqs') : i < j /\ Resumes(reqs'[i])
      BY <2>2 DEF ResumeBefore, Resumes
    <3>2. i + 1 \in 1 .. Len(reqs) /\ i + 1 < k /\ Resumes(reqs[i + 1])
      BY <1>4, <1>7, <3>1
    <3> QED  BY <3>2 DEF ResumeBefore
  <2>3. ASSUME ResumeBefore(k), ~Resumes(r) PROVE ResumeBefore(j)'
    <3>1. PICK i \in 1 .. Len(reqs) : i < k /\ Resumes(reqs[i])
      BY <2>3 DEF ResumeBefore
    <3>2. i # 1
      BY <1>1, <2>3, <3>1
    <3>3. i - 1 \in 1 .. Len(reqs') /\ Resumes(reqs'[i - 1]) /\ i - 1 < j
      BY <1>5, <1>7, <3>1, <3>2
    <3> QED  BY <3>3 DEF ResumeBefore, Resumes
  <2>4. Queried(k) <=> Queried(j)'
    BY <1>4, <1>7 DEF Queried
  <2> QED  BY <2>1, <2>2, <2>3, <2>4
<1> QED  BY <1>1, <1>2, <1>3, <1>4, <1>6, <1>7

\* What every request leaves alone.
LEMMA RequestFacts ==
    ASSUME SInv, S!Request, NEW r, r = Head(reqs)
    PROVE  /\ Typed /\ ~quit /\ Live /\ sPc = "requests" /\ sPc' = "events" /\ job = None
           /\ reqs \in Seq(Requests) /\ reqs # <<>> /\ reqs' = Tail(reqs)
           /\ cmds \in Seq(Commands) /\ bps \in Seq(Points)
           /\ r.id \in 1 .. asked /\ r.id \in Nat /\ r.set \subseteq ever
           /\ S!OnResume(r) \/ S!OnPause(r) \/ S!OnBreakpoints(r) \/ S!OnNothing(r)
              \/ S!OnDisconnect(r)
           /\ done' = done \cup {r.id}
           /\ UNCHANGED <<stop, here, armed, sStepping, lines, job, view, edited, asked,
                          wanted, ever>>
<1>1. /\ sPc = "requests" /\ sPc' = "events" /\ ~quit /\ reqs # <<>> /\ reqs' = Tail(reqs)
      /\ S!OnResume(r) \/ S!OnPause(r) \/ S!OnBreakpoints(r) \/ S!OnNothing(r)
         \/ S!OnDisconnect(r)
      /\ done' = done \cup {r.id}
      /\ UNCHANGED <<stop, here, armed, sStepping, lines, job, view, edited, asked,
                     wanted, ever>>
  BY DEF S!Request, S!client
<1>2. Typed /\ Live
  BY <1>1, SInvIs
<1>3. reqs \in Seq(Requests) /\ cmds \in Seq(Commands) /\ bps \in Seq(Points)
  BY <1>2 DEF Typed, STypes
<1>4. r = reqs[1] /\ 1 \in 1 .. Len(reqs) /\ r \in Requests
  BY <1>1, <1>3, TakeFacts
<1>5. r.id \in 1 .. asked /\ r.id \in Nat /\ r.set \subseteq ever
  BY <1>2, <1>4 DEF Typed, STypes, Requests
<1>6. job = None
  BY <1>1, <1>2 DEF Typed, S!TypeOK
<1> QED  BY <1>1, <1>2, <1>3, <1>5, <1>6

\* Types after a request was taken.
LEMMA RequestTypes ==
    ASSUME SInv, S!Request, prog' \in {"start", "run", "stop", "gone"}, cmds' \in Seq(Commands),
           frames' \in 0 .. MaxStops, {pauseRequested', stepRequested', quit'} \subseteq BOOLEAN,
           bps' \in Seq([line : Line, hits : 0 .. stop]), Single(bps'), LinesOf(bps') \subseteq ever
    PROVE  Typed'
<1> DEFINE r == Head(reqs)
<1>1. /\ Typed /\ sPc' = "events" /\ job = None
      /\ reqs \in Seq(Requests) /\ reqs # <<>> /\ reqs' = Tail(reqs)
      /\ r.id \in 1 .. asked /\ done' = done \cup {r.id}
      /\ UNCHANGED <<stop, here, armed, sStepping, lines, job, view, edited, asked,
                     wanted, ever>>
  BY RequestFacts
<1>2. /\ reqs' \in Seq(Requests)
      /\ \A i \in 1 .. Len(reqs') : i + 1 \in 1 .. Len(reqs) /\ reqs'[i] = reqs[i + 1]
  BY <1>1, TakeFacts
<1> HIDE DEF r
<1>3. stop \in 0 .. MaxStops /\ MaxStops \in Nat
  BY <1>1, Assumed DEF Typed, S!TypeOK
<1>4. /\ \A i \in DOMAIN bps' : bps'[i].line \in Line /\ bps'[i].hits \in 0 .. MaxStops
                                /\ bps'[i].hits <= stop
      /\ bps' \in Seq(Points)
  <2> DEFINE P == [line : Line, hits : 0 .. stop]
  <2>1. Len(bps') \in Nat /\ DOMAIN bps' = 1 .. Len(bps') /\ bps' \in [1 .. Len(bps') -> P]
    <3>1. bps' \in Seq(P)
      OBVIOUS
    <3> HIDE DEF P
    <3> QED  BY <3>1, LenProperties
  <2>2. \A p \in P : p \in Points /\ p.line \in Line /\ p.hits \in 0 .. MaxStops /\ p.hits <= stop
    BY <1>3 DEF Points
  <2>3. \A i \in DOMAIN bps' : bps'[i] \in P
    BY <2>1
  <2> HIDE DEF P
  <2>4. bps' \in [1 .. Len(bps') -> Points]
    BY <2>1, <2>2
  <2>5. bps' \in Seq(Points)
    BY <2>1, <2>4, FunctionIsSeq
  <2> QED  BY <2>2, <2>3, <2>5
<1>5. \A i, j \in DOMAIN bps' : bps'[i].line = bps'[j].line => i = j
  BY DEF Single
<1>6. S!TypeOK'
  BY <1>1, <1>4, <1>5 DEF Typed, S!TypeOK
<1>7. STypes'
  <2>1. \A i \in 1 .. Len(reqs') : /\ reqs'[i].id \in 1 .. asked /\ reqs'[i].set \subseteq ever
                                   /\ reqs'[i].op # "breakpoints" => reqs'[i].set = {}
    BY <1>1, <1>2 DEF Typed, STypes
  <2>2. Places' \subseteq ever
    BY DEF Places, LinesOf
  <2> QED  BY <1>1, <1>2, <1>4, <2>1, <2>2 DEF Typed, STypes
<1>8. ShownHolds'
  BY <1>1 DEF Typed, ShownHolds, S!Sees
<1> QED  BY <1>6, <1>7, <1>8 DEF Typed

\* The breakpoints, with what bounds their hits.
LEMMA PointsFacts ==
    ASSUME Typed
    PROVE  /\ bps \in Seq([line : Line, hits : 0 .. stop]) /\ Single(bps)
           /\ LinesOf(bps) = Places /\ LinesOf(bps) \subseteq ever /\ stop \in Nat
<1> DEFINE P == [line : Line, hits : 0 .. stop]
<1>1. /\ bps \in Seq(Points) /\ stop \in Nat
      /\ \A i \in DOMAIN bps : bps[i].hits <= stop
  BY Assumed DEF Typed, STypes, S!TypeOK
<1>2. Len(bps) \in Nat /\ DOMAIN bps = 1 .. Len(bps) /\ bps \in [1 .. Len(bps) -> Points]
  BY <1>1, LenProperties
<1>3. \A p \in Points : p.hits <= stop => p \in P
  BY <1>1 DEF Points
<1> HIDE DEF P
<1>4. bps \in [1 .. Len(bps) -> P]
  BY <1>1, <1>2, <1>3
<1>5. bps \in Seq(P)
  BY <1>2, <1>4, FunctionIsSeq
<1>6. Single(bps)
  BY DEF Single, Typed, S!TypeOK
<1>7. LinesOf(bps) = Places /\ Places \subseteq ever
  BY DEF LinesOf, Places, Typed, STypes
<1> QED  BY <1>1, <1>5, <1>6, <1>7 DEF P

\* A request that resumes nothing and ends nothing.
LEMMA QuietTake ==
    ASSUME SInv, ~quit, sPc = "requests", sPc' \in {"events", "reply"},
           reqs # <<>>, reqs' = Tail(reqs), ~Resumes(Head(reqs)), Going' <=> Going,
           UNCHANGED <<prog, frames, quit, stop, lines, view, edited, ever>>,
           Unconfirmed' => Unconfirmed \/ Head(reqs).op = "breakpoints"
    PROVE  /\ ViewIs' /\ FramesIs' /\ OrderIs' /\ ReadsAre'
           /\ (OnWay' <=> OnWay) /\ (Arrives' <=> Arrives)
<1> DEFINE r == Head(reqs)
<1>1. /\ Live /\ sPc = "requests" /\ sPc' \in {"events", "reply"}
      /\ reqs \in Seq(Requests) /\ reqs # <<>> /\ reqs' = Tail(reqs)
      /\ UNCHANGED <<stop, lines, view, edited, ever>>
  BY SInvIs DEF Typed, STypes
<1>2. /\ r = reqs[1] /\ 1 \in 1 .. Len(reqs)
      /\ \A i \in 1 .. Len(reqs') : i + 1 \in 1 .. Len(reqs) /\ reqs'[i] = reqs[i + 1]
      /\ ResumeIn(reqs) <=> Resumes(r) \/ ResumeIn(reqs')
      /\ \A j \in 1 .. Len(reqs') : \A k : k = j + 1 =>
            (ResumeBefore(k) <=> Resumes(r) \/ ResumeBefore(j)')
      /\ \A j \in 1 .. Len(reqs') : \A k : k = j + 1 => (Queried(k) <=> Queried(j)')
  <2> HIDE DEF r
  <2> QED  BY <1>1, TakeFacts DEF r
<1>3. ~Resumes(r) /\ (Unconfirmed' => Unconfirmed \/ r.op = "breakpoints")
  OBVIOUS
<1> HIDE DEF r
<1>4. ResumeIn(reqs') <=> ResumeIn(reqs)
  BY <1>2, <1>3
<1>5. \A j \in 1 .. Len(reqs') : /\ ResumeBefore(j)' <=> ResumeBefore(j + 1)
                                 /\ Queried(j)' <=> Queried(j + 1)
  BY <1>2, <1>3
<1>6. (Arrives' <=> Arrives) /\ (OnWay' <=> OnWay)
  BY <1>1 DEF Arrives, OnWay
<1>7. ViewIs' /\ FramesIs'
  BY <1>1, <1>4, <1>6 DEF Live, ViewIs, FramesIs, S!Sees
<1>8. OrderIs'
  <2>1. \A i, j \in 1 .. Len(reqs') : Resumes(reqs'[i]) /\ Resumes(reqs'[j]) => i = j
    <3> SUFFICES ASSUME NEW i \in 1 .. Len(reqs'), NEW j \in 1 .. Len(reqs'),
                        Resumes(reqs'[i]), Resumes(reqs'[j])
                 PROVE  i = j
      OBVIOUS
    <3>1. i + 1 = j + 1
      BY <1>1, <1>2 DEF Live, OrderIs
    <3> QED  BY <3>1
  <2>2. \A i \in 1 .. Len(reqs') :
          /\ reqs'[i].op \in {"breakpoints", "threads"} => ~OnWay' /\ ~ResumeBefore(i)'
          /\ reqs'[i].op = "threads" => prog' = "stop"
    BY <1>1, <1>2, <1>5, <1>6 DEF Live, OrderIs
  <2>3. \A i, j \in 1 .. Len(reqs') :
          i < j /\ reqs'[i].op = "breakpoints" /\ Queried(j)' => ResumeBefore(j)'
    <3> SUFFICES ASSUME NEW i \in 1 .. Len(reqs'), NEW j \in 1 .. Len(reqs'),
                        i < j, reqs'[i].op = "breakpoints", Queried(j)'
                 PROVE  ResumeBefore(j)'
      OBVIOUS
    <3>1. i + 1 < j + 1
      OBVIOUS
    <3> QED  BY <1>1, <1>2, <1>5, <3>1 DEF Live, OrderIs
  <2>4. \A j \in 1 .. Len(reqs') : ~OnWay' /\ Unconfirmed' /\ Queried(j)' => ResumeBefore(j)'
    <3> SUFFICES ASSUME NEW j \in 1 .. Len(reqs'), ~OnWay', Unconfirmed', Queried(j)'
                 PROVE  ResumeBefore(j)'
      OBVIOUS
    <3>1. 1 < j + 1
      OBVIOUS
    <3>2. Queried(j + 1) /\ j + 1 \in 1 .. Len(reqs)
      BY <1>2, <1>5
    <3>3. CASE Unconfirmed
      BY <1>1, <1>5, <1>6, <3>2, <3>3 DEF Live, OrderIs
    <3>4. CASE r.op = "breakpoints"
      BY <1>1, <1>2, <1>5, <3>1, <3>2, <3>4 DEF Live, OrderIs
    <3> QED  BY <1>3, <3>3, <3>4
  <2>5. view'.what # "running"
          /\ (Unconfirmed' \/ \E i \in 1 .. Len(reqs') : reqs'[i].op = "breakpoints") => edited'
    <3>1. (Unconfirmed' \/ \E i \in 1 .. Len(reqs') : reqs'[i].op = "breakpoints")
          => Unconfirmed \/ \E i \in 1 .. Len(reqs) : reqs[i].op = "breakpoints"
      BY <1>2, <1>3
    <3> QED  BY <1>1, <3>1 DEF Live, OrderIs
  <2> QED  BY <2>1, <2>2, <2>3, <2>4, <2>5 DEF OrderIs
<1>9. ReadsAre'
  <2>1. \A j \in 1 .. Len(reqs') :
          view'.what = "running" /\ reqs'[j].op = "read" /\ (ResumeIn(reqs') => ResumeBefore(j)')
             => ever' \cap Passing = {}
    BY <1>1, <1>2, <1>4, <1>5 DEF Live, ReadsAre
  <2> QED  BY <1>1, <1>6, <2>1 DEF Live, ReadsAre
<1> QED  BY <1>6, <1>7, <1>8, <1>9

\* The same when a request is handled at once.
LEMMA QuietRequest ==
    ASSUME SInv, S!Request, ~Resumes(Head(reqs)), Going' <=> Going,
           UNCHANGED <<prog, frames, quit>>,
           Unconfirmed' => Unconfirmed \/ Head(reqs).op = "breakpoints"
    PROVE  /\ ViewIs' /\ FramesIs' /\ OrderIs' /\ ReadsAre'
           /\ (OnWay' <=> OnWay) /\ (Arrives' <=> Arrives)
<1>1. /\ ~quit /\ sPc = "requests" /\ sPc' = "events" /\ reqs # <<>> /\ reqs' = Tail(reqs)
      /\ UNCHANGED <<stop, lines, view, edited, ever>>
  BY RequestFacts
<1> QED  BY <1>1, QuietTake

\* A request answered without the program.
LEMMA NothingKeeps == ASSUME SInv, S!Request, S!OnNothing(Head(reqs)) PROVE SInv'
<1> DEFINE r == Head(reqs)
<1>1. /\ Typed /\ ~quit /\ Live /\ sPc = "requests" /\ sPc' = "events" /\ job = None
      /\ cmds \in Seq(Commands)
      /\ UNCHANGED <<stop, here, armed, sStepping, lines, job, view, edited, asked,
                     wanted, ever>>
  BY RequestFacts
<1>2. /\ ~Resumes(r)
      /\ UNCHANGED <<prog, cmds, frames, bps, pauseRequested, stepRequested, quit>>
  BY DEF S!OnNothing, S!Blind, Resumes
<1>3. (Going' <=> Going) /\ (Unconfirmed' <=> Unconfirmed) /\ Places' = Places
  BY <1>1, <1>2 DEF Going, Unconfirmed, Places
<1>4. /\ ViewIs' /\ FramesIs' /\ OrderIs' /\ ReadsAre'
      /\ (OnWay' <=> OnWay) /\ (Arrives' <=> Arrives)
  BY <1>2, <1>3, QuietRequest
<1>5. Typed'
  BY <1>1, <1>2, RequestTypes, PointsFacts DEF Typed, S!TypeOK
<1>6. GoingIs' /\ ArrivesIs' /\ PcIs'
  BY <1>1, <1>2, <1>3, <1>4 DEF Live, GoingIs, ArrivesIs, PcIs, S!Asked
<1>7. StepsAsked' /\ ArmedIs'
  BY <1>1, <1>2, <1>3 DEF Live, StepsAsked, S!Asked, ArmedIs, OnAfter
<1> QED  BY <1>1, <1>2, <1>4, <1>5, <1>6, <1>7 DEF SInv, Typed

\* A pause is sent.
LEMMA PauseKeeps == ASSUME SInv, S!Request, S!OnPause(Head(reqs)) PROVE SInv'
<1> DEFINE r == Head(reqs)
           c == [S!Command("pause") EXCEPT !.id = r.id]
           n == Len(cmds)
<1>1. /\ Typed /\ ~quit /\ Live /\ sPc = "requests" /\ sPc' = "events" /\ job = None
      /\ cmds \in Seq(Commands) /\ r.id \in Nat
      /\ UNCHANGED <<stop, here, armed, sStepping, lines, job, view, edited, asked,
                     wanted, ever>>
  BY RequestFacts
<1>2. /\ ~Resumes(r) /\ S!Send(<<c>>)
      /\ pauseRequested' = (pauseRequested \/ S!Sends)
      /\ stepRequested' = (stepRequested /\ ~S!Sends)
      /\ UNCHANGED <<prog, frames, bps, quit>>
  BY DEF S!OnPause, Resumes
<1>3. c \in Commands /\ c.op = "pause"
  BY <1>1 DEF S!Command, Commands
<1> HIDE DEF c
<1>4. Places' = Places
  BY <1>2 DEF Places
<1>5. /\ {pauseRequested, stepRequested, quit} \subseteq BOOLEAN /\ frames \in 0 .. MaxStops
      /\ prog \in {"start", "run", "stop", "gone"}
  BY <1>1 DEF Typed, S!TypeOK
<1>6. {pauseRequested', stepRequested', quit'} \subseteq BOOLEAN
  BY <1>2, <1>5
<1>7. CASE ~S!Sends
  <2>1. cmds' = cmds /\ pauseRequested' = pauseRequested /\ stepRequested' = stepRequested
    BY <1>2, <1>5, <1>7 DEF S!Send
  <2>2. (Going' <=> Going) /\ (Unconfirmed' <=> Unconfirmed)
    BY <1>1, <1>2, <2>1 DEF Going, Unconfirmed
  <2>3. /\ ViewIs' /\ FramesIs' /\ OrderIs' /\ ReadsAre'
        /\ (OnWay' <=> OnWay) /\ (Arrives' <=> Arrives)
    BY <1>2, <2>2, QuietRequest
  <2>4. Typed'
    BY <1>1, <1>2, <1>5, <2>1, RequestTypes, PointsFacts
  <2>5. GoingIs' /\ ArrivesIs' /\ PcIs'
    BY <1>1, <1>2, <1>4, <2>1, <2>2, <2>3 DEF Live, GoingIs, ArrivesIs, PcIs, S!Asked
  <2>6. StepsAsked' /\ ArmedIs'
    BY <1>1, <1>2, <1>4, <2>1 DEF Live, StepsAsked, S!Asked, ArmedIs, OnAfter
  <2> QED  BY <1>1, <1>2, <2>3, <2>4, <2>5, <2>6 DEF SInv, Typed
<1>8. CASE S!Sends
  <2>1. cmds' = cmds \o <<c>> /\ pauseRequested'
    BY <1>2, <1>8 DEF S!Send
  <2>2. /\ cmds' \in Seq(Commands) /\ Len(cmds') = n + 1 /\ n \in Nat
        /\ \A i \in 1 .. n : cmds'[i] = cmds[i]
        /\ cmds'[n + 1] = c
        /\ \A i \in 1 .. Len(cmds') : i \in 1 .. n \/ i = n + 1
        /\ (ResumeIn(cmds') <=> ResumeIn(cmds))
    BY <1>1, <1>3, <2>1, SentFacts DEF Resumes
  <2> HIDE DEF n
  <2>3. (Going' <=> Going) /\ (Unconfirmed' => Unconfirmed)
        /\ (OnlyPauses(cmds) => OnlyPauses(cmds'))
    BY <1>1, <1>2, <1>3, <2>2 DEF Going, Unconfirmed, OnlyPauses, n
  <2>4. /\ ViewIs' /\ FramesIs' /\ OrderIs' /\ ReadsAre'
        /\ (OnWay' <=> OnWay) /\ (Arrives' <=> Arrives)
    BY <1>2, <2>3, QuietRequest
  <2>5. Typed'
    BY <1>1, <1>2, <1>5, <1>6, <2>2, RequestTypes, PointsFacts
  <2>6. GoingIs'
    <3>1. \A i \in 1 .. Len(cmds') : Resumes(cmds'[i]) =>
             \A j \in 1 .. Len(cmds') : j > i => cmds'[j].op = "pause"
      <4> SUFFICES ASSUME NEW i \in 1 .. Len(cmds'), Resumes(cmds'[i]),
                          NEW j \in 1 .. Len(cmds'), j > i
                   PROVE  cmds'[j].op = "pause"
        OBVIOUS
      <4>1. i \in 1 .. n
        BY <1>3, <2>2 DEF Resumes
      <4>2. CASE j = n + 1
        BY <1>3, <2>2, <4>2
      <4>3. CASE j \in 1 .. n
        BY <1>1, <2>2, <4>1, <4>3 DEF Live, GoingIs, n
      <4> QED  BY <2>2, <4>2, <4>3
    <3> QED  BY <1>1, <1>2, <1>8, <2>3, <2>4, <3>1 DEF Live, GoingIs, S!Sends
  <2>7. ArrivesIs'
    BY <1>1, <1>2, <1>4, <2>1, <2>3 DEF Live, ArrivesIs, S!Asked
  <2>8. PcIs'
    <3>1. \A i \in 1 .. Len(cmds') : cmds'[i].op \notin {"read", "threads"}
      BY <1>1, <1>3, <2>2 DEF Live, PcIs, n
    <3> QED  BY <1>1, <3>1 DEF Live, PcIs
  <2>9. StepsAsked'
    BY <2>1 DEF StepsAsked, S!Asked
  <2>10. ArmedIs'
    <3> SUFFICES ASSUME prog # "gone", NEW l \in Line PROVE OnAfter(l)' <=> l \in Places'
      BY <1>2 DEF ArmedIs
    <3>1. OnAfter(l)' <=> OnAfter(l)
      BY <1>1, <1>3, <2>1, OnAfterSent
    <3> QED  BY <1>1, <1>4, <3>1 DEF Live, ArmedIs
  <2> QED  BY <1>1, <1>2, <2>4, <2>5, <2>6, <2>7, <2>8, <2>9, <2>10 DEF SInv, Typed
<1> QED  BY <1>7, <1>8

\* The session ends.
LEMMA EndKeeps == ASSUME SInv, S!Request, S!OnDisconnect(Head(reqs)) PROVE SInv'
<1>1. Typed /\ sPc' = "events"
  BY RequestFacts
<1>2. quit' = TRUE /\ prog' = "gone" /\ cmds' = <<>>
      /\ UNCHANGED <<frames, bps, pauseRequested, stepRequested>>
  BY DEF S!OnDisconnect
<1>3. cmds' \in Seq(Commands)
  BY <1>2
<1>4. Typed'
  BY <1>1, <1>2, <1>3, RequestTypes, PointsFacts DEF Typed, S!TypeOK
<1> QED  BY <1>1, <1>2, <1>4 DEF SInv, Typed, Over

\* A resume is sent and the frames are forgotten.
LEMMA GoKeeps == ASSUME SInv, S!Request, S!OnResume(Head(reqs)) PROVE SInv'
<1> DEFINE r == Head(reqs)
           c == [S!Command(r.op) EXCEPT !.id = r.id]
           n == Len(cmds)
<1>1. /\ Typed /\ ~quit /\ Live /\ sPc = "requests" /\ sPc' = "events" /\ job = None
      /\ reqs \in Seq(Requests) /\ reqs # <<>> /\ reqs' = Tail(reqs)
      /\ cmds \in Seq(Commands) /\ r.id \in Nat
      /\ UNCHANGED <<stop, here, armed, sStepping, lines, job, view, edited, asked,
                     wanted, ever>>
  BY RequestFacts
<1>2. /\ Resumes(r) /\ r.op \in {"continue", "step"} /\ S!Send(<<c>>)
      /\ frames' = S!Forgotten
      /\ stepRequested' = (stepRequested \/ (S!Sends /\ r.op = "step"))
      /\ pauseRequested' = (pauseRequested /\ ~(S!Sends /\ r.op = "step"))
      /\ UNCHANGED <<prog, bps, quit>>
  BY DEF S!OnResume, Resumes
<1>3. /\ r = reqs[1] /\ 1 \in 1 .. Len(reqs)
      /\ \A i \in 1 .. Len(reqs') : i + 1 \in 1 .. Len(reqs) /\ reqs'[i] = reqs[i + 1]
      /\ ResumeIn(reqs)
      /\ \A j \in 1 .. Len(reqs') : \A k : k = j + 1 => ResumeBefore(k)
  <2> HIDE DEF r
  <2> QED  BY <1>1, <1>2, TakeFacts DEF r
<1>4. c \in Commands /\ c.op = r.op
  BY <1>1, <1>2 DEF S!Command, Commands
<1> HIDE DEF r, c
<1>5. ~OnWay /\ view.what = "running"
  BY <1>1, <1>3 DEF Live, ViewIs
<1>6. ~Going /\ ~Arrives /\ S!Sends /\ ~ResumeIn(cmds) /\ prog \notin {"run", "gone"}
  BY <1>5 DEF OnWay, Going, S!Sends
<1>7. cmds' = cmds \o <<c>> /\ frames' = 0 /\ (r.op = "step" => stepRequested')
  BY <1>2, <1>6 DEF S!Send, S!Forgotten
<1>8. /\ cmds' \in Seq(Commands) /\ Len(cmds') = n + 1 /\ n \in Nat
      /\ \A i \in 1 .. n : cmds'[i] = cmds[i]
      /\ cmds'[n + 1] = c
      /\ \A i \in 1 .. Len(cmds') : i \in 1 .. n \/ i = n + 1
      /\ ResumeIn(cmds')
  BY <1>1, <1>2, <1>4, <1>7, SentFacts DEF Resumes
<1> HIDE DEF n
<1>9. \A i \in 1 .. n : ~Resumes(cmds[i])
  BY <1>6 DEF ResumeIn, n
<1>10. ~Arrives' /\ Going' /\ OnWay' /\ Places' = Places
  BY <1>1, <1>2, <1>6, <1>8 DEF Arrives, Going, OnWay, Places
<1>11. ~ResumeIn(reqs')
  <2> SUFFICES ASSUME NEW i \in 1 .. Len(reqs'), Resumes(reqs'[i]) PROVE FALSE
    BY DEF ResumeIn
  <2>1. i + 1 = 1
    BY <1>1, <1>2, <1>3 DEF Live, OrderIs
  <2> QED  BY <2>1
<1>12. Typed'
  <2>1. {pauseRequested', stepRequested', quit'} \subseteq BOOLEAN /\ frames' \in 0 .. MaxStops
        /\ prog' \in {"start", "run", "stop", "gone"}
    BY <1>1, <1>2, <1>7, Assumed DEF Typed, S!TypeOK
  <2> QED  BY <1>1, <1>2, <1>8, <2>1, RequestTypes, PointsFacts
<1>13. ViewIs' /\ FramesIs'
  BY <1>1, <1>5, <1>7, <1>10, <1>11 DEF ViewIs, FramesIs, S!Sees
<1>14. GoingIs'
  <2>1. \A i \in 1 .. Len(cmds') : Resumes(cmds'[i]) => i = n + 1
    BY <1>8, <1>9
  <2>2. \A i \in 1 .. Len(cmds') : Resumes(cmds'[i]) =>
           \A j \in 1 .. Len(cmds') : j > i => cmds'[j].op = "pause"
    BY <1>8, <2>1
  <2> QED  BY <1>1, <1>2, <1>6, <1>10, <2>2 DEF GoingIs
<1>15. ArrivesIs'
  BY <1>10 DEF ArrivesIs, Arrives
<1>16. PcIs'
  <2>1. \A i \in 1 .. Len(cmds') : cmds'[i].op \notin {"read", "threads"}
    BY <1>1, <1>2, <1>4, <1>8 DEF Live, PcIs, n
  <2> QED  BY <1>1, <2>1 DEF Live, PcIs
<1>17. OrderIs'
  <2>1. \A i \in 1 .. Len(reqs') : ~Resumes(reqs'[i])
    BY <1>11 DEF ResumeIn
  <2>2. \A i \in 1 .. Len(reqs') : reqs'[i].op \notin {"breakpoints", "threads"}
    BY <1>1, <1>3 DEF Live, OrderIs
  <2> QED  BY <1>1, <1>5, <1>10, <2>1, <2>2 DEF OrderIs
<1>18. ReadsAre'
  <2>1. \A j \in 1 .. Len(reqs') : reqs'[j].op = "read" => ever \cap Passing = {}
    BY <1>1, <1>3, <1>5 DEF Live, ReadsAre
  <2> QED  BY <1>1, <1>7, <2>1 DEF ReadsAre
<1>19. StepsAsked'
  <2>1. \A i \in 1 .. Len(cmds') : cmds'[i].op = "step" => stepRequested'
    BY <1>4, <1>7, <1>8, <1>9 DEF Resumes
  <2> QED  BY <1>2, <1>6, <2>1 DEF StepsAsked, S!Asked
<1>20. ArmedIs'
  <2> SUFFICES ASSUME prog # "gone", NEW l \in Line PROVE OnAfter(l)' <=> l \in Places'
    BY <1>2 DEF ArmedIs
  <2>1. OnAfter(l)' <=> OnAfter(l)
    BY <1>1, <1>2, <1>4, <1>7, OnAfterSent
  <2> QED  BY <1>1, <1>10, <2>1 DEF Live, ArmedIs
<1> QED  BY <1>1, <1>2, <1>12, <1>13, <1>14, <1>15, <1>16, <1>17, <1>18, <1>19, <1>20
         DEF SInv, Typed

\* Commands at the end of the pipe: what is on after them.
Decided(new, l) ==
    \E k \in 1 .. Len(new) : /\ About(new[k], l) /\ new[k].on
                             /\ \A j \in 1 .. Len(new) : j > k => ~About(new[j], l)

\* The last command about a line decides.
LEMMA OnAfterMore ==
    ASSUME cmds \in Seq(Commands), NEW new \in Seq(Commands), cmds' = cmds \o new,
           armed' = armed, NEW l
    PROVE  OnAfter(l)' <=> \/ Decided(new, l)
                           \/ (\A k \in 1 .. Len(new) : ~About(new[k], l)) /\ OnAfter(l)
<1> DEFINE n == Len(cmds)
           m == Len(new)
<1>1. /\ Len(cmds') = n + m /\ n \in Nat /\ m \in Nat
      /\ \A i \in 1 .. n + m : cmds'[i] = IF i <= n THEN cmds[i] ELSE new[i - n]
  BY ConcatProperties
<1> HIDE DEF n, m
<1>2. /\ \A i \in 1 .. n : i \in 1 .. Len(cmds') /\ cmds'[i] = cmds[i]
      /\ \A i \in 1 .. m : n + i \in 1 .. Len(cmds') /\ cmds'[n + i] = new[i]
      /\ \A i \in 1 .. Len(cmds') : i \in 1 .. n \/ (i - n \in 1 .. m /\ cmds'[i] = new[i - n])
  <2>1. ASSUME NEW i \in 1 .. n PROVE i \in 1 .. Len(cmds') /\ cmds'[i] = cmds[i]
    BY <1>1
  <2>2. ASSUME NEW i \in 1 .. m PROVE n + i \in 1 .. Len(cmds') /\ cmds'[n + i] = new[i]
    <3>1. n + i \in 1 .. n + m /\ ~(n + i <= n) /\ (n + i) - n = i
      BY <1>1
    <3> QED  BY <1>1, <3>1
  <2>3. ASSUME NEW i \in 1 .. Len(cmds')
        PROVE  i \in 1 .. n \/ (i - n \in 1 .. m /\ cmds'[i] = new[i - n])
    <3>1. i \in 1 .. n \/ (~(i <= n) /\ i - n \in 1 .. m)
      BY <1>1
    <3> QED  BY <1>1, <3>1
  <2> QED  BY <2>1, <2>2, <2>3
<1>3. ASSUME Decided(new, l) PROVE OnAfter(l)'
  <2>1. PICK k \in 1 .. m : /\ About(new[k], l) /\ new[k].on
                            /\ \A j \in 1 .. m : j > k => ~About(new[j], l)
    BY <1>3 DEF Decided, m
  <2>2. n + k \in 0 .. Len(cmds') /\ n + k # 0 /\ cmds'[n + k] = new[k]
    BY <1>1, <1>2
  <2>3. \A j \in 1 .. Len(cmds') : j > n + k => ~About(cmds'[j], l)
    <3> SUFFICES ASSUME NEW j \in 1 .. Len(cmds'), j > n + k PROVE ~About(cmds'[j], l)
      OBVIOUS
    <3>1. j \notin 1 .. n /\ j - n > k
      BY <1>1
    <3> QED  BY <1>2, <2>1, <3>1
  <2> QED  BY <2>1, <2>2, <2>3 DEF OnAfter, About
<1>4. ASSUME \A k \in 1 .. m : ~About(new[k], l), OnAfter(l) PROVE OnAfter(l)'
  <2>1. PICK i \in 0 .. n : /\ \A j \in 1 .. n : j > i => ~About(cmds[j], l)
                            /\ IF i = 0 THEN l \in armed ELSE About(cmds[i], l) /\ cmds[i].on
    BY <1>4 DEF OnAfter, n
  <2>2. i \in 0 .. Len(cmds') /\ (i # 0 => i \in 1 .. n)
    BY <1>1
  <2>3. \A j \in 1 .. Len(cmds') : j > i => ~About(cmds'[j], l)
    BY <1>2, <1>4, <2>1
  <2> QED  BY <1>2, <2>1, <2>2, <2>3 DEF OnAfter, About
<1>5. ASSUME OnAfter(l)', ~Decided(new, l)
      PROVE  (\A k \in 1 .. m : ~About(new[k], l)) /\ OnAfter(l)
  <2>1. PICK i \in 0 .. Len(cmds') :
           /\ \A j \in 1 .. Len(cmds') : j > i => ~About(cmds'[j], l)
           /\ IF i = 0 THEN l \in armed' ELSE About(cmds'[i], l) /\ cmds'[i].on
    BY <1>5 DEF OnAfter, About
  <2>2. CASE i > n
    <3>1. i \in 1 .. Len(cmds') /\ i \notin 1 .. n /\ i # 0
      BY <1>1, <2>1, <2>2
    <3>2. i - n \in 1 .. m /\ cmds'[i] = new[i - n]
      BY <1>2, <3>1
    <3>3. \A j \in 1 .. m : j > i - n => ~About(new[j], l)
      <4> SUFFICES ASSUME NEW j \in 1 .. m, j > i - n PROVE ~About(new[j], l)
        OBVIOUS
      <4>1. n + j > i
        BY <1>1, <2>1
      <4> QED  BY <1>2, <2>1, <4>1
    <3>4. Decided(new, l)
      BY <2>1, <3>1, <3>2, <3>3 DEF Decided, m
    <3> QED  BY <1>5, <3>4
  <2>3. CASE i <= n
    <3>1. i \in 0 .. n /\ (i # 0 => i \in 1 .. n)
      BY <1>1, <2>1, <2>3
    <3>2. \A k \in 1 .. m : ~About(new[k], l)
      <4> SUFFICES ASSUME NEW k \in 1 .. m PROVE ~About(new[k], l)
        OBVIOUS
      <4>1. n + k > i
        BY <1>1, <2>1, <2>3
      <4> QED  BY <1>2, <2>1, <4>1
    <3>3. \A j \in 1 .. n : j > i => ~About(cmds[j], l)
      BY <1>2, <2>1
    <3>4. OnAfter(l)
      BY <1>2, <2>1, <3>1, <3>3 DEF OnAfter, n
    <3> QED  BY <3>2, <3>4
  <2> QED  BY <1>1, <2>1, <2>2, <2>3
<1> QED  BY <1>3, <1>4, <1>5 DEF m

\* The commands of a breakpoints request: off for each line the loop met, on for each
\* line of the set.
Offs(id, off) == [i \in DOMAIN off |-> S!Bpx(id, off[i], FALSE)]
Ons(id, on) == [i \in DOMAIN on |-> S!Bpx(id, on[i], TRUE)]

Told(id, off, set, new) ==
    /\ id \in Nat /\ off \in Seq(Line) /\ set \in SUBSET Line
    /\ new = Offs(id, off) \o Ons(id, S!SetToSeq(set))

\* Lines of the set end on, the others that were switched off end off.
LEMMA BpxFacts ==
    ASSUME NEW id, NEW off, NEW set, NEW new, Told(id, off, set, new)
    PROVE  /\ new \in Seq(Commands) /\ \A i \in 1 .. Len(new) : new[i].op = "bpx"
           /\ \A l \in set : Decided(new, l)
           /\ \A l \in Line \ set : ~Decided(new, l)
           /\ \A l \in Line \ set :
                 (\A k \in 1 .. Len(new) : ~About(new[k], l)) <=> l \notin {off[i] : i \in DOMAIN off}
<1> DEFINE on == S!SetToSeq(set)
           a == Offs(id, off)
           b == Ons(id, on)
           n == Len(off)
           c == Len(on)
<1>20. /\ id \in Nat /\ off \in Seq(Line) /\ set \in SUBSET Line
       /\ new = Offs(id, off) \o Ons(id, on) /\ on = S!SetToSeq(set)
  BY DEF Told
<1> HIDE DEF on
<1>0. n \in Nat /\ DOMAIN off = 1 .. n /\ \A i \in 1 .. n : off[i] \in Line
  BY <1>20, LenProperties
<1>1. IsFiniteSet(set)
  BY <1>20, Assumed, FS_Subset
<1>2. /\ on \in Seq(set) /\ c \in Nat /\ c = Cardinality(set)
      /\ \A i, j \in 1 .. c : on[i] = on[j] => i = j
      /\ \A l \in set : \E i \in 1 .. c : on[i] = l
  BY <1>1, <1>20, SetToSeqFacts
<1>3. c \in Nat /\ DOMAIN on = 1 .. c /\ \A i \in 1 .. c : on[i] \in set
  BY <1>2, LenProperties
<1> HIDE DEF n, c
<1>4. \A i \in 1 .. n : a[i] = S!Bpx(id, off[i], FALSE) /\ a[i] \in Commands
  BY <1>0, <1>20 DEF Offs, S!Bpx, Commands
<1>5. \A i \in 1 .. c : b[i] = S!Bpx(id, on[i], TRUE) /\ b[i] \in Commands
  BY <1>3, <1>20 DEF Ons, S!Bpx, Commands
<1>6. a \in Seq(Commands) /\ Len(a) = n
  <2>1. a \in [1 .. n -> Commands]
    BY <1>0, <1>4 DEF Offs
  <2> HIDE DEF a
  <2> QED  BY <1>0, <2>1, FunctionIsSeq
<1>7. b \in Seq(Commands) /\ Len(b) = c
  <2>1. b \in [1 .. c -> Commands]
    BY <1>3, <1>5 DEF Ons
  <2> HIDE DEF b
  <2> QED  BY <1>3, <2>1, FunctionIsSeq
<1> HIDE DEF a, b
<1>8. /\ new = a \o b /\ new \in Seq(Commands) /\ Len(new) = n + c
      /\ \A i \in 1 .. n + c : new[i] = IF i <= n THEN a[i] ELSE b[i - n]
  <2>1. new = a \o b
    BY <1>20 DEF a, b
  <2> QED  BY <1>6, <1>7, <2>1, ConcatProperties
<1>9. /\ \A i \in 1 .. n : a[i].op = "bpx" /\ a[i].line = off[i] /\ ~a[i].on
      /\ \A i \in 1 .. c : b[i].op = "bpx" /\ b[i].line = on[i] /\ b[i].on
  <2>1. ASSUME NEW l, NEW o \in BOOLEAN, NEW x, x = S!Bpx(id, l, o)
        PROVE  x.op = "bpx" /\ x.line = l /\ (x.on <=> o)
    BY <2>1 DEF S!Bpx
  <2>2. ASSUME NEW i \in 1 .. n PROVE a[i].op = "bpx" /\ a[i].line = off[i] /\ ~a[i].on
    <3>1. a[i] = S!Bpx(id, off[i], FALSE)
      BY <1>4
    <3>2. a[i].op = "bpx" /\ a[i].line = off[i] /\ (a[i].on <=> FALSE)
      BY <2>1, <3>1, Zenon
    <3> QED  BY <3>2
  <2>3. ASSUME NEW i \in 1 .. c PROVE b[i].op = "bpx" /\ b[i].line = on[i] /\ b[i].on
    <3>1. b[i] = S!Bpx(id, on[i], TRUE)
      BY <1>5
    <3>2. b[i].op = "bpx" /\ b[i].line = on[i] /\ (b[i].on <=> TRUE)
      BY <2>1, <3>1, Zenon
    <3> QED  BY <3>2
  <2> QED  BY <2>2, <2>3
<1>10. /\ \A i \in 1 .. n : i \in 1 .. Len(new) /\ new[i] = a[i]
       /\ \A i \in 1 .. c : n + i \in 1 .. Len(new) /\ new[n + i] = b[i]
       /\ \A i \in 1 .. Len(new) : \/ i \in 1 .. n /\ new[i] = a[i]
                                   \/ i - n \in 1 .. c /\ i > n /\ new[i] = b[i - n]
  <2>1. ASSUME NEW i \in 1 .. n PROVE i \in 1 .. Len(new) /\ new[i] = a[i]
    <3>1. i \in 1 .. n + c /\ i <= n
      BY <1>0, <1>3
    <3> QED  BY <1>8, <3>1
  <2>2. ASSUME NEW i \in 1 .. c PROVE n + i \in 1 .. Len(new) /\ new[n + i] = b[i]
    <3>1. n + i \in 1 .. n + c /\ ~(n + i <= n) /\ (n + i) - n = i
      BY <1>0, <1>3
    <3> QED  BY <1>8, <3>1
  <2>3. ASSUME NEW i \in 1 .. Len(new), i \notin 1 .. n
        PROVE  i - n \in 1 .. c /\ i > n /\ new[i] = b[i - n]
    <3>1. i - n \in 1 .. c /\ i > n /\ i \in 1 .. n + c /\ ~(i <= n)
      BY <1>0, <1>3, <1>8, <2>3
    <3> QED  BY <1>8, <3>1
  <2> QED  BY <2>1, <2>2, <2>3
<1>11. ASSUME NEW i \in 1 .. Len(new) PROVE new[i].op = "bpx"
  <2>1. (i \in 1 .. n /\ new[i] = a[i]) \/ (i - n \in 1 .. c /\ new[i] = b[i - n])
    BY <1>10
  <2> QED  BY <1>9, <2>1
<1>12. ASSUME NEW l \in set PROVE Decided(new, l)
  <2>1. PICK i \in 1 .. c : on[i] = l
    BY <1>2
  <2>2. n + i \in 1 .. Len(new) /\ About(new[n + i], l) /\ new[n + i].on
    BY <1>9, <1>10, <2>1 DEF About
  <2>3. \A j \in 1 .. Len(new) : j > n + i => ~About(new[j], l)
    <3> SUFFICES ASSUME NEW j \in 1 .. Len(new), j > n + i PROVE new[j].line # l
      BY DEF About
    <3>1. j \notin 1 .. n
      BY <1>0, <1>2
    <3>2. j - n \in 1 .. c /\ new[j] = b[j - n]
      BY <1>10, <3>1
    <3>4. new[j].line = on[j - n]
      BY <1>9, <3>2
    <3>3. j - n # i
      BY <1>0, <1>2
    <3> QED  BY <1>2, <2>1, <3>2, <3>3, <3>4
  <2> QED  BY <2>2, <2>3 DEF Decided
<1>13. ASSUME NEW l \in Line \ set
       PROVE  /\ ~Decided(new, l)
              /\ (\A k \in 1 .. Len(new) : ~About(new[k], l))
                    <=> l \notin {off[i] : i \in DOMAIN off}
  <2>1. ASSUME NEW i \in 1 .. Len(new), About(new[i], l)
        PROVE  i \in 1 .. n /\ off[i] = l /\ ~new[i].on
    <3>1. (i \in 1 .. n /\ new[i] = a[i]) \/ (i - n \in 1 .. c /\ new[i] = b[i - n])
      BY <1>10
    <3>2. ~(i - n \in 1 .. c /\ new[i] = b[i - n])
      BY <1>3, <1>9, <2>1 DEF About
    <3> QED  BY <1>9, <2>1, <3>1, <3>2 DEF About
  <2>2. \A i \in 1 .. n : off[i] = l => i \in 1 .. Len(new) /\ About(new[i], l)
    BY <1>9, <1>10 DEF About
  <2> QED  BY <1>0, <2>1, <2>2 DEF Decided
<1> QED  BY <1>8, <1>11, <1>12, <1>13

\* The request that replaces the breakpoints.
LEMMA BreakpointsFacts ==
    ASSUME SInv, S!Request, S!OnBreakpoints(Head(reqs)), NEW r, r = Head(reqs)
    PROVE  /\ ~OnWay /\ S!Sends /\ r.set \in SUBSET Line /\ r.set \subseteq ever
           /\ UNCHANGED <<prog, frames, pauseRequested, stepRequested, quit>>
           /\ \E off \in Seq(Line), new \in Seq(Commands) :
                 /\ off = S!SwitchOff(bps).lines
                 /\ new = Offs(r.id, off) \o Ons(r.id, S!SetToSeq(r.set))
                 /\ cmds' = cmds \o new /\ \A i \in 1 .. Len(new) : new[i].op = "bpx"
                 /\ Places' = (Places \ {off[i] : i \in DOMAIN off}) \cup r.set
           /\ bps' = S!Added(S!SwitchOff(bps).kept, r.set)
           /\ bps' \in Seq([line : Line, hits : 0 .. stop]) /\ Single(bps')
           /\ LinesOf(bps') \subseteq ever
<1> DEFINE kept == S!SwitchOff(bps).kept
           off == S!SwitchOff(bps).lines
           on == S!SetToSeq(r.set)
           new == Offs(r.id, off) \o Ons(r.id, on)
<1>1. /\ Typed /\ Live /\ reqs \in Seq(Requests) /\ reqs # <<>> /\ reqs' = Tail(reqs)
      /\ r.id \in Nat /\ r.set \subseteq ever /\ ever \subseteq Line
  BY RequestFacts DEF Typed, STypes
<1>2. r = reqs[1] /\ 1 \in 1 .. Len(reqs)
  BY <1>1, TakeFacts
<1>3. r.op = "breakpoints" /\ UNCHANGED <<prog, frames, pauseRequested, stepRequested, quit>>
  BY DEF S!OnBreakpoints
<1>4. ~OnWay
  BY <1>1, <1>2, <1>3 DEF Live, OrderIs
<1>5. S!Sends
  BY <1>4 DEF OnWay, Going, S!Sends
<1>6. /\ bps \in Seq([line : Line, hits : 0 .. stop]) /\ Single(bps)
      /\ LinesOf(bps) = Places /\ LinesOf(bps) \subseteq ever /\ stop \in Nat
  BY <1>1, PointsFacts
<1>7. cmds' = cmds \o new /\ bps' = S!Added(kept, r.set)
  BY <1>5 DEF S!OnBreakpoints, S!Send, Offs, Ons
<1>8. /\ kept \in Seq([line : Line, hits : 0 .. stop]) /\ Single(kept)
      /\ off \in Seq(Line)
      /\ LinesOf(kept) = LinesOf(bps) \ {off[i] : i \in DOMAIN off}
  <2>1. SwitchedOff(stop, bps, kept, off)
    BY <1>6 DEF SwitchedOff
  <2> HIDE DEF kept, off
  <2>2. Left(stop, bps, kept, off)
    BY <2>1, SwitchOffFacts
  <2> QED  BY <2>2 DEF Left
<1> HIDE DEF kept, off
<1>9. r.set \in SUBSET Line
  BY <1>1
<1>10. /\ bps' \in Seq([line : Line, hits : 0 .. stop]) /\ Single(bps')
       /\ LinesOf(bps') = LinesOf(kept) \cup r.set
  <2> DEFINE set == r.set
             b == bps'
  <2>1. set \in SUBSET Line /\ stop \in Nat /\ b = S!Added(kept, set)
    BY <1>6, <1>7, <1>9
  <2>2. kept \in Seq([line : Line, hits : 0 .. stop]) /\ Single(kept)
    BY <1>8
  <2> HIDE DEF set, b
  <2>3. /\ S!Added(kept, set) \in Seq([line : Line, hits : 0 .. stop])
        /\ Single(S!Added(kept, set))
        /\ LinesOf(S!Added(kept, set)) = LinesOf(kept) \cup set
    BY <2>1, <2>2, AddedFacts
  <2>4. /\ b \in Seq([line : Line, hits : 0 .. stop]) /\ Single(b)
        /\ LinesOf(b) = LinesOf(kept) \cup set
    BY <2>1, <2>3
  <2> QED  BY <2>4 DEF set, b
<1>11. new \in Seq(Commands) /\ \A i \in 1 .. Len(new) : new[i].op = "bpx"
  <2>1. Told(r.id, off, r.set, new)
    BY <1>1, <1>8, <1>9 DEF Told
  <2> HIDE DEF new
  <2> QED  BY <2>1, BpxFacts
<1> HIDE DEF new
<1>12. Places' = LinesOf(bps')
  BY DEF Places, LinesOf
<1>13. Places' = (Places \ {off[i] : i \in DOMAIN off}) \cup r.set
  BY <1>6, <1>8, <1>10, <1>12
<1>14. LinesOf(bps') \subseteq ever
  BY <1>1, <1>6, <1>8, <1>10
<1>15. off = S!SwitchOff(bps).lines
  BY DEF off
<1>16. new = Offs(r.id, off) \o Ons(r.id, S!SetToSeq(r.set))
  BY DEF new
<1>17. bps' = S!Added(S!SwitchOff(bps).kept, r.set)
  BY <1>7 DEF kept
<1>18. \E o \in Seq(Line), c \in Seq(Commands) :
          /\ o = S!SwitchOff(bps).lines
          /\ c = Offs(r.id, o) \o Ons(r.id, S!SetToSeq(r.set))
          /\ cmds' = cmds \o c /\ \A i \in 1 .. Len(c) : c[i].op = "bpx"
          /\ Places' = (Places \ {o[i] : i \in DOMAIN o}) \cup r.set
  <2>1. off \in Seq(Line) /\ new \in Seq(Commands) /\ cmds' = cmds \o new
    BY <1>7, <1>8, <1>11
  <2> QED  BY <1>11, <1>13, <1>15, <1>16, <2>1
<1> QED  BY <1>1, <1>3, <1>4, <1>5, <1>9, <1>10, <1>14, <1>17, <1>18

\* The breakpoints are replaced.
LEMMA BreakpointsKeeps == ASSUME SInv, S!Request, S!OnBreakpoints(Head(reqs)) PROVE SInv'
<1> DEFINE r == Head(reqs)
           n == Len(cmds)
<1>1. /\ Typed /\ ~quit /\ Live /\ sPc = "requests" /\ sPc' = "events" /\ job = None
      /\ cmds \in Seq(Commands) /\ r.id \in Nat
      /\ UNCHANGED <<stop, here, armed, sStepping, lines, job, view, edited, asked,
                     wanted, ever>>
  BY RequestFacts
<1>2. /\ ~OnWay /\ S!Sends /\ r.set \in SUBSET Line
      /\ UNCHANGED <<prog, frames, pauseRequested, stepRequested, quit>>
      /\ bps' \in Seq([line : Line, hits : 0 .. stop]) /\ Single(bps')
      /\ LinesOf(bps') \subseteq ever
  BY BreakpointsFacts
<1>3. PICK off \in Seq(Line), new \in Seq(Commands) :
         /\ new = Offs(r.id, off) \o Ons(r.id, S!SetToSeq(r.set))
         /\ cmds' = cmds \o new /\ \A i \in 1 .. Len(new) : new[i].op = "bpx"
         /\ Places' = (Places \ {off[i] : i \in DOMAIN off}) \cup r.set
  BY BreakpointsFacts
<1>4. r.op = "breakpoints" /\ ~Resumes(r)
  BY DEF S!OnBreakpoints, Resumes
<1> HIDE DEF r, n
<1>16. Told(r.id, off, r.set, new)
  BY <1>1, <1>2, <1>3 DEF Told
<1>5. /\ cmds' \in Seq(Commands)
      /\ \A i \in 1 .. n : i \in 1 .. Len(cmds') /\ cmds'[i] = cmds[i]
      /\ \A i \in 1 .. Len(cmds') : (i \in 1 .. n /\ cmds'[i] = cmds[i]) \/ cmds'[i].op = "bpx"
  <2> DEFINE m == Len(new)
  <2>1. /\ cmds' \in Seq(Commands) /\ Len(cmds') = n + m /\ n \in Nat /\ m \in Nat
        /\ \A i \in 1 .. n + m : cmds'[i] = IF i <= n THEN cmds[i] ELSE new[i - n]
    BY <1>1, <1>3, ConcatProperties DEF n
  <2>2. \A i \in 1 .. m : new[i].op = "bpx"
    BY <1>3
  <2> HIDE DEF m
  <2>3. ASSUME NEW i \in 1 .. Len(cmds')
        PROVE  (i \in 1 .. n /\ cmds'[i] = cmds[i]) \/ cmds'[i].op = "bpx"
    <3>1. CASE i <= n
      BY <2>1, <3>1
    <3>2. CASE i > n
      <4>1. i - n \in 1 .. m /\ ~(i <= n)
        BY <2>1, <3>2
      <4> QED  BY <2>1, <2>2, <4>1
    <3> QED  BY <2>1, <3>1, <3>2
  <2>4. \A i \in 1 .. n : i \in 1 .. Len(cmds') /\ cmds'[i] = cmds[i]
    BY <2>1
  <2> QED  BY <2>1, <2>3, <2>4
<1>6. ~Going /\ ~Arrives /\ ~ResumeIn(cmds) /\ prog \notin {"run", "gone"}
  BY <1>2 DEF OnWay, Going
<1>7. ~ResumeIn(cmds')
  BY <1>5, <1>6 DEF ResumeIn, Resumes, n
<1>8. Going' <=> Going
  BY <1>2, <1>6, <1>7 DEF Going
<1>9. /\ ViewIs' /\ FramesIs' /\ OrderIs' /\ ReadsAre'
      /\ (OnWay' <=> OnWay) /\ (Arrives' <=> Arrives)
  BY <1>2, <1>4, <1>8, QuietRequest DEF r
<1>10. Typed'
  BY <1>1, <1>2, <1>5, RequestTypes DEF Typed, S!TypeOK
<1>11. GoingIs'
  <2>1. \A i \in 1 .. Len(cmds') : ~Resumes(cmds'[i])
    BY <1>7 DEF ResumeIn
  <2> QED  BY <1>2, <1>6, <1>8, <2>1 DEF GoingIs
<1>12. ArrivesIs'
  BY <1>6, <1>9 DEF ArrivesIs, Arrives
<1>13. PcIs'
  <2>1. \A i \in 1 .. Len(cmds') : cmds'[i].op \notin {"read", "threads"}
    BY <1>1, <1>5 DEF Live, PcIs, n
  <2> QED  BY <1>1, <2>1 DEF Live, PcIs
<1>14. StepsAsked'
  <2>1. \A i \in 1 .. Len(cmds') : cmds'[i].op # "step"
    BY <1>7 DEF ResumeIn, Resumes
  <2> QED  BY <1>2, <1>6, <2>1 DEF StepsAsked
<1>15. ArmedIs'
  <2> SUFFICES ASSUME NEW l \in Line PROVE OnAfter(l)' <=> l \in Places'
    BY DEF ArmedIs
  <2>1. OnAfter(l) <=> l \in Places
    BY <1>1, <1>6 DEF Live, ArmedIs
  <2>2. OnAfter(l)' <=> \/ Decided(new, l)
                        \/ (\A k \in 1 .. Len(new) : ~About(new[k], l)) /\ OnAfter(l)
    BY <1>1, <1>3, OnAfterMore
  <2>3. CASE l \in r.set
    <3>1. Decided(new, l)
      BY <1>16, <2>3, BpxFacts
    <3> QED  BY <1>3, <2>2, <2>3, <3>1
  <2>4. CASE l \notin r.set
    <3>1. /\ ~Decided(new, l)
          /\ (\A k \in 1 .. Len(new) : ~About(new[k], l)) <=> l \notin {off[i] : i \in DOMAIN off}
      BY <1>16, <2>4, BpxFacts
    <3> QED  BY <1>3, <2>1, <2>2, <2>4, <3>1
  <2> QED  BY <2>3, <2>4
<1> QED  BY <1>1, <1>2, <1>9, <1>10, <1>11, <1>12, <1>13, <1>14, <1>15 DEF SInv, Typed

\* Every request handled at once keeps the invariant.
LEMMA RequestKeeps == ASSUME SInv, S!Request PROVE SInv'
<1>1. S!OnResume(Head(reqs)) \/ S!OnPause(Head(reqs)) \/ S!OnBreakpoints(Head(reqs))
      \/ S!OnNothing(Head(reqs)) \/ S!OnDisconnect(Head(reqs))
  BY RequestFacts
<1> QED  BY <1>1, GoKeeps, PauseKeeps, BreakpointsKeeps, NothingKeeps, EndKeeps

\* A request that is asked of the program: it stands at the stop of the frames, and
\* nothing but pauses is on its way to it and nothing from it.
LEMMA QueryFacts ==
    ASSUME SInv, S!Query, NEW r, r = Head(reqs)
    PROVE  /\ Typed /\ ~quit /\ Live /\ sPc = "requests" /\ sPc' = "reply" /\ job' = r
           /\ reqs \in Seq(Requests) /\ reqs # <<>> /\ reqs' = Tail(reqs)
           /\ cmds \in Seq(Commands) /\ r \in Queries /\ r.id \in 1 .. asked /\ r.id \in Nat
           /\ ~OnWay /\ prog = "stop" /\ ~Unconfirmed /\ OnlyPauses(cmds) /\ lines = <<>>
           /\ cmds' = cmds \o <<[S!Command(r.op) EXCEPT !.id = r.id]>>
           /\ UNCHANGED <<prog, stop, here, armed, sStepping, lines, frames, bps,
                          pauseRequested, stepRequested, quit, view, edited, asked, wanted,
                          ever, done>>
<1>1. /\ sPc = "requests" /\ sPc' = "reply" /\ ~quit /\ reqs # <<>> /\ S!Sends
      /\ r.op \in {"read", "threads"} /\ ~S!Blind(r) /\ job' = r /\ reqs' = Tail(reqs)
      /\ cmds' = cmds \o <<[S!Command(r.op) EXCEPT !.id = r.id]>>
      /\ UNCHANGED <<prog, stop, here, armed, sStepping, lines, frames, bps,
                     pauseRequested, stepRequested, quit, view, edited, asked, wanted,
                     ever, done>>
  BY DEF S!Query, S!Send, S!program, S!client
<1>2. Typed /\ Live
  BY <1>1, SInvIs
<1>3. reqs \in Seq(Requests) /\ cmds \in Seq(Commands) /\ lines \in Seq(Lines)
  BY <1>2 DEF Typed, STypes
<1>4. r = reqs[1] /\ 1 \in 1 .. Len(reqs) /\ r \in Requests
  BY <1>1, <1>3, TakeFacts
<1>5. r.id \in 1 .. asked /\ r.set = {} /\ r.id \in Nat
  BY <1>1, <1>2, <1>4 DEF Typed, STypes, Requests
<1>6. r \in Queries
  BY <1>1, <1>4, <1>5 DEF Queries, Requests
<1>7. ~ResumeBefore(1) /\ Queried(1)
  BY <1>1, <1>3, <1>4 DEF ResumeBefore, Queried
<1>8. ~OnWay /\ prog = "stop"
  <2>1. CASE r.op = "threads"
    BY <1>2, <1>4, <2>1 DEF Live, OrderIs
  <2>2. CASE r.op = "read"
    <3>1. frames # 0
      BY <1>1, <2>2 DEF S!Blind
    <3>2. ~OnWay
      <4> SUFFICES ASSUME OnWay PROVE FALSE
        OBVIOUS
      <4>1. view.what = "running" /\ ~ResumeIn(reqs)
        BY <1>2 DEF Live, ViewIs
      <4>2. ever \cap Passing = {}
        BY <1>2, <1>4, <2>2, <4>1 DEF Live, ReadsAre
      <4>3. Going \/ Arrives
        BY <1>1 DEF OnWay
      <4> QED  BY <1>2, <3>1, <4>2, <4>3 DEF Live, ReadsAre
    <3>3. prog # "start"
      BY <1>2, <3>1 DEF Live, FramesIs
    <3> QED  BY <1>2, <3>2, <3>3 DEF OnWay, Going, Typed, S!TypeOK
  <2> QED  BY <1>1, <2>1, <2>2
<1>9. ~Unconfirmed
  BY <1>2, <1>4, <1>7, <1>8 DEF Live, OrderIs
<1>10. OnlyPauses(cmds)
  <2> SUFFICES ASSUME NEW i \in 1 .. Len(cmds) PROVE cmds[i].op = "pause"
    BY DEF OnlyPauses
  <2>1. cmds[i].op \notin {"read", "threads"}
    BY <1>1, <1>2 DEF Live, PcIs
  <2>2. cmds[i].op # "bpx"
    BY <1>9 DEF Unconfirmed
  <2>3. cmds[i].op \notin {"continue", "step"}
    BY <1>8 DEF OnWay, Going, ResumeIn, Resumes
  <2>4. cmds[i] \in Commands
    BY <1>3
  <2> QED  BY <2>1, <2>2, <2>3, <2>4 DEF Commands
<1>11. lines = <<>>
  <2>1. \A i \in 1 .. Len(lines) : FALSE
    <3>1. \A i \in 1 .. Len(lines) : lines[i].op \in {"ok", "paused"}
      BY <1>1, <1>2 DEF Live, PcIs
    <3> QED  BY <1>8, <1>9, <3>1 DEF OnWay, Arrives, Unconfirmed
  <2>2. \A q \in Seq(Lines) : q # <<>> => Len(q) \in Nat \ {0}
    BY EmptySeq
  <2>3. lines # <<>> => 1 \in 1 .. Len(lines)
    BY <1>3, <2>2
  <2> QED  BY <2>1, <2>3
<1> QED  BY <1>1, <1>2, <1>3, <1>5, <1>6, <1>8, <1>9, <1>10, <1>11

\* The question is sent and its handler waits.
LEMMA QueryKeeps == ASSUME SInv, S!Query PROVE SInv'
<1> DEFINE r == Head(reqs)
           c == [S!Command(r.op) EXCEPT !.id = r.id]
           n == Len(cmds)
<1>1. /\ Typed /\ ~quit /\ Live /\ sPc = "requests" /\ sPc' = "reply" /\ job' = r
      /\ reqs \in Seq(Requests) /\ reqs # <<>> /\ reqs' = Tail(reqs)
      /\ cmds \in Seq(Commands) /\ r \in Queries /\ r.id \in 1 .. asked /\ r.id \in Nat
      /\ ~OnWay /\ prog = "stop" /\ ~Unconfirmed /\ OnlyPauses(cmds) /\ lines = <<>>
      /\ cmds' = cmds \o <<c>>
      /\ UNCHANGED <<prog, stop, here, armed, sStepping, lines, frames, bps,
                     pauseRequested, stepRequested, quit, view, edited, asked, wanted,
                     ever, done>>
  BY QueryFacts
<1>2. r.op \in {"read", "threads"}
  BY <1>1 DEF Queries
<1>3. c \in Commands /\ c.op = r.op /\ c.id = r.id
  BY <1>1, <1>2 DEF S!Command, Commands
<1>4. ~Resumes(r)
  BY <1>2 DEF Resumes
<1> HIDE DEF c
<1>5. /\ cmds' \in Seq(Commands) /\ Len(cmds') = n + 1 /\ n \in Nat
      /\ \A i \in 1 .. n : cmds'[i] = cmds[i]
      /\ cmds'[n + 1] = c
      /\ \A i \in 1 .. Len(cmds') : i \in 1 .. n \/ i = n + 1
      /\ n + 1 \in 1 .. Len(cmds')
      /\ (ResumeIn(cmds') <=> ResumeIn(cmds))
  BY <1>1, <1>2, <1>3, SentFacts DEF Resumes
<1> HIDE DEF n
<1>6. \A i \in 1 .. n : cmds'[i].op = "pause"
  BY <1>1, <1>5 DEF OnlyPauses, n
<1>7. Len(lines) = 0 /\ Places' = Places /\ ~Arrives'
  BY <1>1 DEF Places, Arrives
<1>8. (Going' <=> Going) /\ ~Unconfirmed' /\ ~Going
  BY <1>1, <1>2, <1>3, <1>5, <1>6, <1>7 DEF Going, Unconfirmed, OnWay
<1>9. /\ ViewIs' /\ FramesIs' /\ OrderIs' /\ ReadsAre'
      /\ (OnWay' <=> OnWay) /\ (Arrives' <=> Arrives)
  BY <1>1, <1>4, <1>8, QuietTake
<1> HIDE DEF r
<1>10. job' # None /\ job' \in Queries
  BY <1>1, Assumed
<1>11. S!TypeOK' /\ ShownHolds'
  BY <1>1, <1>10 DEF Typed, S!TypeOK, ShownHolds, S!Sees
<1>12. STypes'
  <2>1. /\ reqs' \in Seq(Requests)
        /\ \A i \in 1 .. Len(reqs') : i + 1 \in 1 .. Len(reqs) /\ reqs'[i] = reqs[i + 1]
    BY <1>1, TakeFacts
  <2>2. \A i \in 1 .. Len(reqs') : /\ reqs'[i].id \in 1 .. asked /\ reqs'[i].set \subseteq ever
                                   /\ reqs'[i].op # "breakpoints" => reqs'[i].set = {}
    BY <1>1, <2>1 DEF Typed, STypes
  <2>3. lines' \in Seq(Lines) /\ bps' \in Seq(Points)
    BY <1>1 DEF Typed, STypes
  <2>4. job' \in Queries \cup {None} /\ (job' # None => job'.id \in 1 .. asked')
    BY <1>1, <1>10
  <2> QED  BY <1>1, <1>5, <1>7, <2>1, <2>2, <2>3, <2>4 DEF Typed, STypes
<1>13. GoingIs'
  BY <1>1, <1>5, <1>8 DEF GoingIs, Going, ResumeIn
<1>14. ArrivesIs'
  BY <1>7 DEF ArrivesIs, Arrives
<1>15. PcIs'
  <2>1. AnswerDue(job.op, job.id)'
    BY <1>1, <1>3, <1>5, <1>6 DEF AnswerDue
  <2> QED  BY <1>1, <1>9, <2>1 DEF PcIs
<1>16. StepsAsked'
  BY <1>1, <1>2, <1>3, <1>5, <1>6 DEF StepsAsked
<1>17. ArmedIs'
  <2> SUFFICES ASSUME NEW l \in Line PROVE OnAfter(l)' <=> l \in Places'
    BY DEF ArmedIs
  <2>1. OnAfter(l)' <=> OnAfter(l)
    BY <1>1, <1>2, <1>3, OnAfterSent
  <2> QED  BY <1>1, <1>7, <2>1 DEF Live, ArmedIs
<1> QED  BY <1>1, <1>9, <1>11, <1>12, <1>13, <1>14, <1>15, <1>16, <1>17 DEF SInv

\* The handler takes its answer.
LEMMA ReplyKeeps == ASSUME SInv, S!Reply PROVE SInv'
<1>1. /\ sPc = "reply" /\ sPc' = "events" /\ (lines # <<>> \/ ~S!Sends) /\ job' = None
      /\ lines' = IF lines # <<>> THEN Tail(lines) ELSE lines
      /\ done' = done \cup {job.id}
      /\ UNCHANGED <<prog, stop, here, armed, sStepping, cmds, reqs, frames, bps,
                     pauseRequested, stepRequested, quit, view, edited, asked, wanted, ever>>
  BY DEF S!Reply, S!program, S!client
<1>2. Typed /\ ~quit /\ Live
  BY <1>1, SInvIs DEF Over
<1>3. ~OnWay /\ prog = "stop" /\ AnswerDue(job.op, job.id)
  BY <1>1, <1>2 DEF Live, PcIs
<1>4. lines # <<>> /\ lines \in Seq(Lines) /\ job # None
  BY <1>1, <1>2, <1>3 DEF S!Sends, Typed, STypes, S!TypeOK
<1>5. OnlyPauses(cmds) /\ Len(lines) = 1
  BY <1>3, <1>4 DEF AnswerDue
<1>6. lines' \in Seq(Lines) /\ Len(lines') = 0
  BY <1>1, <1>4, <1>5, TailFacts
<1>7. ~Going /\ ~Arrives /\ ~Going' /\ ~Arrives' /\ ~OnWay' /\ Places' = Places /\ ~Unconfirmed'
  BY <1>1, <1>3, <1>5, <1>6 DEF OnWay, Going, Arrives, Places, Unconfirmed, OnlyPauses
<1>8. S!TypeOK' /\ ShownHolds'
  <2>1. done' \subseteq 1 .. asked
    BY <1>1, <1>2, <1>4 DEF Typed, STypes, S!TypeOK
  <2> QED  BY <1>1, <1>2, <2>1 DEF Typed, S!TypeOK, ShownHolds, S!Sees
<1>9. STypes'
  BY <1>1, <1>2, <1>6, <1>7 DEF Typed, STypes
<1>10. ViewIs' /\ FramesIs'
  BY <1>1, <1>2, <1>3, <1>7 DEF Live, ViewIs, FramesIs, S!Sees
<1>11. GoingIs' /\ ArrivesIs'
  BY <1>1, <1>2, <1>6, <1>7 DEF Live, GoingIs, ArrivesIs
<1>12. PcIs'
  BY <1>1, <1>5, <1>6 DEF PcIs, OnlyPauses
<1>13. OrderIs'
  BY <1>1, <1>2, <1>3, <1>7, OrderStill DEF Live
<1>14. ReadsAre'
  BY <1>1, <1>2, <1>7, ReadsStill DEF Live
<1>15. StepsAsked' /\ ArmedIs'
  BY <1>1, <1>2, <1>7 DEF Live, StepsAsked, S!Asked, ArmedIs, OnAfter
<1> QED  BY <1>1, <1>2, <1>8, <1>9, <1>10, <1>11, <1>12, <1>13, <1>14, <1>15 DEF SInv

\* Every step of a session keeps the invariant.
LEMMA SessionKeeps == ASSUME SInv, Odd = {}, S!Next PROVE SInv'
<1>1. S!Adapter => SInv'
  BY EventKeeps, TurnKeeps, JudgeKeeps, RequestKeeps, QueryKeeps, ReplyKeeps DEF S!Adapter
<1> QED  BY <1>1, ClientKeeps, StopKeeps, ExitKeeps, ReadCommandKeeps DEF S!Next

-----------------------------------------------------------------------------
(* The run: a session, or threads, with the other part at rest *)

\* A step of the threads leaves the session alone.
LEMMA StillKeeps == ASSUME SInv, UNCHANGED session PROVE SInv'
<1>1. UNCHANGED <<prog, stop, here, armed, sStepping, cmds, lines, reqs, sPc, job, frames, bps,
                  pauseRequested, stepRequested, quit, view, edited, asked, done, wanted,
                  ever>>
  BY DEF session
<1>2. Going' = Going /\ Arrives' = Arrives /\ OnWay' = OnWay /\ Places' = Places
      /\ Unconfirmed' = Unconfirmed
  BY <1>1 DEF Going, Arrives, OnWay, Places, Unconfirmed
<1>3. Typed => Typed'
  BY <1>1, <1>2 DEF Typed, S!TypeOK, STypes, ShownHolds, S!Sees
<1>4. Live => Live'
  <2> SUFFICES ASSUME Live PROVE Live'
    OBVIOUS
  <2>1. ViewIs' /\ FramesIs' /\ GoingIs' /\ ArrivesIs' /\ PcIs'
    BY <1>1, <1>2 DEF Live, ViewIs, FramesIs, GoingIs, ArrivesIs, PcIs, AnswerDue, S!Sees, S!Asked
  <2>2. OrderIs'
    BY <1>1, <1>2, OrderStill DEF Live
  <2>3. ReadsAre'
    BY <1>1, <1>2, ReadsStill DEF Live, ReadsAre
  <2>4. StepsAsked' /\ ArmedIs'
    BY <1>1, <1>2 DEF Live, StepsAsked, S!Asked, ArmedIs, OnAfter
  <2> QED  BY <2>1, <2>2, <2>3, <2>4 DEF Live
<1>5. quit' = quit /\ (Over => Over')
  BY <1>1 DEF Over
<1> QED  BY <1>3, <1>4, <1>5, SInvIs DEF SInv, Typed, Live

\* A step of the run is a step of the session or leaves it alone.
LEMMA SessionOrStill == ASSUME [DebugNext]_debugVars PROVE S!Next \/ UNCHANGED session
  BY DEF DebugNext, SessionStep, debugVars

\* Inductive invariant of a session whose client does none of what the session does
\* not bear (Odd): the client's view, the pipe to the program, its lines, the place
\* the adapter is at and the requests that wait agree as SInv says.
THEOREM SessionInvariance == ASSUME Odd = {} PROVE DebugSpec => []SInv
<1>1. DebugInit => SInv
  BY InitSInv DEF DebugInit
<1>2. SInv /\ [DebugNext]_debugVars => SInv'
  BY SessionKeeps, StillKeeps, SessionOrStill
<1> QED  BY <1>1, <1>2, PTL DEF DebugSpec

\* A handler that waits has one line to take, its answer.
LEMMA InvReplies == SInv => RepliesMatch
<1> SUFFICES ASSUME SInv, lines # <<>> PROVE
             /\ sPc = "reply" => Head(lines).op = job.op /\ Head(lines).id = job.id
             /\ sPc = "cond" => Head(lines).op = "read" /\ Head(lines).id = 0
  BY DEF RepliesMatch, S!RepliesMatch
<1>1. sPc \in {"reply", "cond"} => Live
  BY SInvIs DEF Over
<1>2. lines \in Seq(Lines)
  BY SInvIs DEF Typed, STypes
<1>3. Head(lines) = lines[1]
  BY <1>2
<1>4. sPc = "reply" => lines[1].op = job.op /\ lines[1].id = job.id
  BY <1>1 DEF Live, PcIs, AnswerDue
<1>5. sPc = "cond" => lines[1].op = "read" /\ lines[1].id = 0
  BY <1>1 DEF Live, PcIs, AnswerDue
<1> QED  BY <1>3, <1>4, <1>5

\* A handler that waits for the answer to its command, whatever the client set, asked
\* or resumed meanwhile and however many stops and late confirmations are on their
\* way, is given that answer (waitRuntimeLine takes the next line).
THEOREM RepliesKept == ASSUME Odd = {} PROVE DebugSpec => []RepliesMatch
  BY SessionInvariance, InvReplies, PTL

\* Once no breakpoint command is in the pipe the runtime stops at exactly the places
\* the adapter keeps, each of which was asked for at some time.
TablesAgree ==
    (\A i \in DOMAIN cmds : cmds[i].op # "bpx") /\ prog # "gone" /\ ~quit
        => armed = Places /\ Places \subseteq ever

\* With no breakpoint command in the pipe the tables agree.
LEMMA InvTables == SInv => TablesAgree
<1> SUFFICES ASSUME SInv, \A i \in DOMAIN cmds : cmds[i].op # "bpx", prog # "gone", ~quit
             PROVE  armed = Places /\ Places \subseteq ever
  BY DEF TablesAgree
<1>1. Typed /\ Live /\ Len(cmds) \in Nat /\ DOMAIN cmds = 1 .. Len(cmds)
  BY SInvIs DEF Typed, STypes
<1>2. \A l \in Line : OnAfter(l) <=> l \in armed
  <2> SUFFICES ASSUME NEW l \in Line PROVE OnAfter(l) <=> l \in armed
    OBVIOUS
  <2>1. \A j \in 1 .. Len(cmds) : ~About(cmds[j], l)
    BY <1>1 DEF About
  <2>2. 0 \in 0 .. Len(cmds) /\ \A i \in 0 .. Len(cmds) : i = 0 \/ i \in 1 .. Len(cmds)
    BY <1>1
  <2> QED  BY <2>1, <2>2 DEF OnAfter
<1>3. armed \subseteq Line /\ Places \subseteq ever /\ ever \subseteq Line
  BY <1>1 DEF Typed, S!TypeOK, STypes
<1> QED  BY <1>1, <1>2, <1>3 DEF Live, ArmedIs

\* Whatever the erasing loop leaves, the runtime and the adapter never part: once the
\* commands are read the program stops at the places of bps_, for any number of lines.
THEOREM TablesKept == ASSUME Odd = {} PROVE DebugSpec => []TablesAgree
  BY SessionInvariance, InvTables, PTL

-----------------------------------------------------------------------------
(* The breakpoints last asked for *)

\* The last request for breakpoints that waits asks for what the client wants; when
\* none waits the adapter has it, and nothing else while at most two lines were ever
\* asked for.
LastSet(i) == /\ reqs[i].op = "breakpoints"
           /\ \A j \in 1 .. Len(reqs) : j > i => reqs[j].op # "breakpoints"
NoneWaits == \A i \in 1 .. Len(reqs) : reqs[i].op # "breakpoints"
Few == Cardinality(ever) <= 2
WantedIs ==
    ~quit => /\ \A i \in 1 .. Len(reqs) : LastSet(i) => reqs[i].set = wanted
             /\ NoneWaits => wanted \subseteq Places /\ (Few => Places = wanted)

\* Steps that leave the requests and the places alone.
LEMMA WantedStill ==
    ASSUME WantedIs, UNCHANGED <<reqs, wanted, quit, ever>>, Places' = Places
    PROVE  WantedIs'
  BY DEF WantedIs, LastSet, NoneWaits, Few

\* A request as the client makes it.
Asks(op, set) ==
    /\ reqs' = Append(reqs, [op |-> op, id |-> asked', set |-> set])
    /\ wanted' = IF op = "breakpoints" THEN set ELSE wanted
    /\ op # "breakpoints" => ever' = ever

\* The client asks: for breakpoints, or for something else.
LEMMA WantedAsked == ASSUME SInv, WantedIs, S!Client PROVE WantedIs'
<1>1. UNCHANGED <<quit, bps>> /\ ~quit /\ \E op, set : Asks(op, set)
  <2>1. \A op, set : S!Ask(op, set) => /\ UNCHANGED <<quit, bps>> /\ ~quit
                                     /\ reqs' = Append(reqs, [op |-> op, id |-> asked', set |-> set])
    BY DEF S!Ask, S!adapter
  <2>2. CASE S!AskResume
    BY <2>1, <2>2 DEF S!AskResume, Asks
  <2>3. CASE S!AskBreakpoints
    BY <2>1, <2>3 DEF S!AskBreakpoints, Asks
  <2>4. CASE S!AskRead \/ S!AskThreads \/ S!AskPause \/ S!AskEnd
    <3>1. PICK op \in {"read", "threads", "pause", "disconnect"} : S!Ask(op, {}) /\ UNCHANGED <<wanted, ever>>
      BY <2>4 DEF S!AskRead, S!AskThreads, S!AskPause, S!AskEnd
    <3>2. Asks(op, {})
      BY <2>1, <3>1 DEF Asks
    <3> QED  BY <2>1, <3>1, <3>2
  <2> QED  BY <2>2, <2>3, <2>4 DEF S!Client
<1>2. PICK r : /\ reqs' = Append(reqs, r)
               /\ wanted' = IF r.op = "breakpoints" THEN r.set ELSE wanted
               /\ r.op # "breakpoints" => ever' = ever
  <2>1. PICK op, set : Asks(op, set)
    BY <1>1
  <2> DEFINE r == [op |-> op, id |-> asked', set |-> set]
  <2>2. r.op = op /\ r.set = set
    OBVIOUS
  <2> QED  BY <2>1, <2>2 DEF Asks
<1> DEFINE n == Len(reqs)
<1>3. /\ Len(reqs') = n + 1 /\ n \in Nat /\ reqs'[n + 1] = r
      /\ \A i \in 1 .. n : reqs'[i] = reqs[i]
  BY <1>2, SInvIs DEF Typed, STypes
<1>4. Places' = Places
  BY <1>1 DEF Places
<1> HIDE DEF n
<1>5. /\ \A i \in 1 .. Len(reqs') : i \in 1 .. n \/ i = n + 1
      /\ n + 1 \in 1 .. Len(reqs') /\ \A i \in 1 .. n : i \in 1 .. Len(reqs') /\ n + 1 > i
  BY <1>3
<1>6. CASE r.op = "breakpoints"
  <2>1. \A i \in 1 .. Len(reqs') : LastSet(i)' => i = n + 1
    BY <1>3, <1>5, <1>6 DEF LastSet
  <2>2. \E i \in 1 .. Len(reqs') : reqs'[i].op = "breakpoints"
    BY <1>3, <1>5, <1>6
  <2>3. ~NoneWaits'
    BY <2>2 DEF NoneWaits
  <2> QED  BY <1>2, <1>3, <1>6, <2>1, <2>3 DEF WantedIs
<1>7. CASE r.op # "breakpoints"
  <2>1. \A i \in 1 .. Len(reqs') : LastSet(i)' => i \in 1 .. n /\ LastSet(i)
    BY <1>3, <1>5, <1>7 DEF LastSet, n
  <2>2. NoneWaits' => NoneWaits
    BY <1>3, <1>5 DEF NoneWaits, n
  <2>3. ever' = ever /\ wanted' = wanted
    BY <1>2, <1>7
  <2>4. Few' = Few
    BY <2>3 DEF Few
  <2> QED  BY <1>1, <1>3, <1>4, <2>1, <2>2, <2>3, <2>4 DEF WantedIs, n
<1> QED  BY <1>6, <1>7

\* A request is taken: it was for breakpoints, and they are now the adapter's, or not.
LEMMA WantedTaken ==
    ASSUME WantedIs, ~quit, reqs \in Seq(Requests), reqs # <<>>, reqs' = Tail(reqs),
           wanted' = wanted, ever' = ever,
           IF Head(reqs).op = "breakpoints"
           THEN Head(reqs).set \subseteq Places' /\ (Few => Places' = Head(reqs).set)
           ELSE Places' = Places
    PROVE  WantedIs'
<1> DEFINE r == Head(reqs)
<1>1. /\ r = reqs[1] /\ 1 \in 1 .. Len(reqs) /\ Len(reqs) \in Nat \ {0}
      /\ Len(reqs') = Len(reqs) - 1
      /\ \A i \in 1 .. Len(reqs') : i + 1 \in 1 .. Len(reqs) /\ reqs'[i] = reqs[i + 1]
  <2> HIDE DEF r
  <2> QED  BY TakeFacts DEF r
<1>2. /\ r.op = "breakpoints" => r.set \subseteq Places' /\ (Few => Places' = r.set)
      /\ r.op # "breakpoints" => Places' = Places
      /\ Few' = Few
  BY DEF Few
<1> HIDE DEF r
<1>3. \A i \in 1 .. Len(reqs) : i = 1 \/ (i - 1 \in 1 .. Len(reqs') /\ reqs[i] = reqs'[i - 1])
  <2> SUFFICES ASSUME NEW i \in 1 .. Len(reqs), i # 1
               PROVE  i - 1 \in 1 .. Len(reqs') /\ reqs[i] = reqs'[i - 1]
    OBVIOUS
  <2>1. i - 1 \in 1 .. Len(reqs') /\ (i - 1) + 1 = i
    BY <1>1
  <2> QED  BY <1>1, <2>1
<1>4. ASSUME NEW i \in 1 .. Len(reqs'), LastSet(i)' PROVE reqs'[i].set = wanted
  <2>1. ASSUME NEW j \in 1 .. Len(reqs), j > i + 1 PROVE reqs[j].op # "breakpoints"
    <3>1. j # 1 /\ j - 1 > i
      BY <2>1
    <3>2. j - 1 \in 1 .. Len(reqs') /\ reqs[j] = reqs'[j - 1]
      BY <1>3, <3>1
    <3> QED  BY <1>4, <3>1, <3>2 DEF LastSet
  <2>2. i + 1 \in 1 .. Len(reqs) /\ reqs[i + 1] = reqs'[i]
    BY <1>1
  <2>3. LastSet(i + 1)
    BY <1>4, <2>1, <2>2 DEF LastSet
  <2> QED  BY <2>2, <2>3 DEF WantedIs
<1>5. ASSUME NoneWaits' PROVE wanted \subseteq Places' /\ (Few => Places' = wanted)
  <2>1. \A i \in 1 .. Len(reqs) : i = 1 \/ reqs[i].op # "breakpoints"
    BY <1>3, <1>5 DEF NoneWaits
  <2>2. CASE r.op = "breakpoints"
    <3>1. \A i \in 1 .. Len(reqs) : i > 1 => reqs[i].op # "breakpoints"
      BY <2>1
    <3>2. \A i : i = 1 => LastSet(i)
      BY <1>1, <2>2, <3>1 DEF LastSet
    <3> QED  BY <1>1, <1>2, <2>2, <3>2 DEF WantedIs
  <2>3. CASE r.op # "breakpoints"
    BY <1>1, <1>2, <2>1, <2>3 DEF WantedIs, NoneWaits
  <2> QED  BY <2>2, <2>3
<1> QED  BY <1>2, <1>4, <1>5 DEF WantedIs

\* Two lines ever asked for have at most two breakpoints.
LEMMA AtMostTwo == ASSUME Typed, Few PROVE Len(bps) <= 2
<1> DEFINE n == Len(bps)
           f == [i \in 1 .. n |-> bps[i].line]
<1>1. /\ n \in Nat /\ DOMAIN bps = 1 .. n
      /\ \A i \in 1 .. n : bps[i].line \in ever
      /\ \A i, j \in 1 .. n : bps[i].line = bps[j].line => i = j
  <2>1. bps \in Seq(Points)
    BY DEF Typed, STypes
  <2>2. n \in Nat /\ DOMAIN bps = 1 .. n
    BY <2>1, LenProperties
  <2>3. Places \subseteq ever
    BY DEF Typed, STypes
  <2> QED  BY <2>2, <2>3 DEF Typed, S!TypeOK, Places
<1> HIDE DEF n
<1>2. f \in Injection(1 .. n, ever)
  BY <1>1 DEF Injection, IsInjective
<1>3. IsFiniteSet(ever) /\ IsFiniteSet(1 .. n) /\ Cardinality(1 .. n) = n
  <2>1. ever \subseteq Line
    BY DEF Typed, STypes
  <2>2. IsFiniteSet(ever)
    BY <2>1, Assumed, FS_Subset
  <2>3. IsFiniteSet(1 .. n) /\ Cardinality(1 .. n) = n
    BY <1>1, FS_Interval
  <2> QED  BY <2>2, <2>3
<1>4. Cardinality(1 .. n) <= Cardinality(ever)
  BY <1>2, <1>3, FS_Injection
<1>5. Cardinality(ever) \in Nat
  BY <1>3, FS_CardinalityType
<1> QED  BY <1>1, <1>3, <1>4, <1>5 DEF n, Few

\* What is asked for is there, without a hit; with two lines nothing old is left.
LEMMA PlacesReset ==
    ASSUME SInv, S!Request, S!OnBreakpoints(Head(reqs)), NEW set, set = Head(reqs).set
    PROVE  /\ set \subseteq Places' /\ (Few => Places' = set)
           /\ \A i \in DOMAIN bps' : bps'[i].line \in set => bps'[i].hits = 0
<1> DEFINE kept == S!SwitchOff(bps).kept
           off == S!SwitchOff(bps).lines
<1>1. set \in SUBSET Line /\ bps' = S!Added(kept, set)
  BY BreakpointsFacts
<1>2. Typed
  BY SInvIs
<1>3. bps \in Seq([line : Line, hits : 0 .. stop]) /\ Single(bps) /\ stop \in Nat
  BY <1>2, PointsFacts
<1>4. kept \in Seq([line : Line, hits : 0 .. stop]) /\ Single(kept)
  <2>1. SwitchedOff(stop, bps, kept, off)
    BY <1>3 DEF SwitchedOff
  <2> HIDE DEF kept, off
  <2>2. Left(stop, bps, kept, off)
    BY <2>1, SwitchOffFacts
  <2> QED  BY <2>2 DEF Left
<1>5. Few => kept = <<>>
  <2>1. \A i, j \in DOMAIN bps : bps[i].line = bps[j].line => i = j
    BY <1>3 DEF Single
  <2> QED  BY <1>2, <1>3, <2>1, AtMostTwo, TwoSwitchedOff
<1> HIDE DEF kept
<1>6. /\ LinesOf(bps') = LinesOf(kept) \cup set
      /\ \A i \in DOMAIN bps' : bps'[i].line \in set => bps'[i].hits = 0
  BY <1>1, <1>3, <1>4, AddedFacts
<1>7. Few => LinesOf(kept) = {}
  BY <1>5 DEF LinesOf
<1>8. Places' = LinesOf(bps')
  BY DEF Places, LinesOf
<1> QED  BY <1>6, <1>7, <1>8

\* Every step keeps what the client wants on its way or in place.
LEMMA WantedKeeps ==
    ASSUME SInv, WantedIs, S!Next PROVE WantedIs'
<1>1. CASE S!Client
  BY <1>1, WantedAsked
<1>2. CASE (\E l \in Line : S!Stop(l)) \/ S!Exit \/ S!ReadCommand
  BY <1>2, WantedStill DEF S!Stop, S!Exit, S!ReadCommand, S!adapter, S!client, Places
<1>3. CASE S!EventsDone \/ S!BackToEvents \/ S!Reply
  BY <1>3, WantedStill DEF S!EventsDone, S!BackToEvents, S!Reply, S!adapter, S!client, Places
<1>4. CASE S!Judge
  BY <1>4, WantedStill DEF S!Judge, S!adapter, S!client, S!PassOver, S!Show, Places
<1>5. CASE S!Event
  <2>1. UNCHANGED <<reqs, wanted, quit, ever>>
    BY <1>5 DEF S!Event, S!Stopped, S!PassOver, S!Show, S!client
  <2>2. bps' = bps \/ bps' = S!CountedHits(Head(lines).line)
    BY <1>5 DEF S!Event, S!Stopped
  <2>3. /\ bps \in Seq(Points) /\ \A i \in DOMAIN bps : bps[i] \in Points
    BY SInvIs DEF Typed, STypes
  <2>4. \A l : DOMAIN S!CountedHits(l) = DOMAIN bps
               /\ \A i \in DOMAIN bps : S!CountedHits(l)[i].line = bps[i].line
    BY <2>3 DEF S!CountedHits, Points
  <2>5. Places' = Places
    BY <2>2, <2>4 DEF Places
  <2> QED  BY <2>1, <2>5, WantedStill
<1>6. CASE S!Query
  <2>1. /\ ~quit /\ reqs # <<>> /\ reqs' = Tail(reqs) /\ UNCHANGED <<bps, wanted, ever>>
        /\ Head(reqs).op # "breakpoints"
    BY <1>6 DEF S!Query, S!client
  <2>2. reqs \in Seq(Requests) /\ Places' = Places
    BY <2>1, SInvIs DEF Typed, STypes, Places
  <2> QED  BY <2>1, <2>2, WantedTaken
<1>7. CASE S!Request
  <2>1. /\ ~quit /\ reqs # <<>> /\ reqs' = Tail(reqs) /\ reqs \in Seq(Requests)
        /\ UNCHANGED <<wanted, ever>>
        /\ S!OnResume(Head(reqs)) \/ S!OnPause(Head(reqs)) \/ S!OnBreakpoints(Head(reqs))
           \/ S!OnNothing(Head(reqs)) \/ S!OnDisconnect(Head(reqs))
    BY <1>7, RequestFacts
  <2>2. CASE S!OnBreakpoints(Head(reqs))
    <3>1. /\ Head(reqs).op = "breakpoints" /\ Head(reqs).set \subseteq Places'
          /\ Few => Places' = Head(reqs).set
      BY <1>7, <2>2, PlacesReset DEF S!OnBreakpoints
    <3> QED  BY <2>1, <3>1, WantedTaken
  <2>3. CASE ~S!OnBreakpoints(Head(reqs))
    <3>1. Head(reqs).op # "breakpoints" /\ bps' = bps
      BY <2>1, <2>3 DEF S!OnResume, S!OnPause, S!OnNothing, S!OnDisconnect, S!Blind
    <3>2. Places' = Places
      BY <3>1 DEF Places
    <3> QED  BY <2>1, <3>1, <3>2, WantedTaken
  <2> QED  BY <2>2, <2>3
<1> QED  BY <1>1, <1>2, <1>3, <1>4, <1>5, <1>6, <1>7 DEF S!Next, S!Adapter

\* What was asked for is in both tables once nothing waits.
LEMMA InvAsked == SInv /\ WantedIs => BreakpointsAsAsked
<1> SUFFICES ASSUME SInv, WantedIs, \A i \in DOMAIN cmds : cmds[i].op # "bpx", prog # "gone",
                    \A i \in DOMAIN reqs : reqs[i].op # "breakpoints"
             PROVE  /\ armed = Places /\ wanted \subseteq armed /\ armed \subseteq ever
                    /\ Cardinality(ever) <= 2 => armed = wanted
  BY SameCardinality DEF BreakpointsAsAsked, S!BreakpointsAsAsked, Places
<1>1. ~quit
  BY SInvIs DEF Over
<1>2. armed = Places /\ Places \subseteq ever
  BY <1>1, InvTables DEF TablesAgree
<1>3. DOMAIN reqs = 1 .. Len(reqs)
  BY SInvIs DEF Typed, STypes
<1>4. wanted \subseteq Places /\ (Few => Places = wanted)
  BY <1>1, <1>3 DEF WantedIs, NoneWaits
<1> QED  BY <1>2, <1>4 DEF Few

\* Both invariants together.
LEMMA WantedInvariance == ASSUME Odd = {} PROVE DebugSpec => [](SInv /\ WantedIs)
<1>1. DebugInit => SInv /\ WantedIs
  <2>1. S!Init => WantedIs
    BY DEF S!Init, WantedIs, LastSet, Places
  <2> QED  BY <2>1, InitSInv DEF DebugInit
<1>2. SInv /\ WantedIs /\ [DebugNext]_debugVars => (SInv /\ WantedIs)'
  <2>1. ASSUME SInv, WantedIs, UNCHANGED session PROVE WantedIs'
    BY <2>1, WantedStill DEF session, Places
  <2> QED  BY <2>1, SessionKeeps, StillKeeps, SessionOrStill, WantedKeeps
<1> QED  BY <1>1, <1>2, PTL DEF DebugSpec

\* When nothing is under way the runtime and the adapter have the same breakpoints, all
\* of the last setBreakpoints among them and only such as were asked for at some time:
\* for any number of lines, conditions, hit counts, stops and requests.  As long as
\* never more than two lines were asked for they are exactly the last ones; with three
\* the loop over bps_, which sendBp shortens, leaves one of the old.
THEOREM BreakpointsKept == ASSUME Odd = {} PROVE DebugSpec => []BreakpointsAsAsked
  BY WantedInvariance, InvAsked, PTL

-----------------------------------------------------------------------------
(* What a stop that is shown means *)

\* The stop at line l is told and not yet counted.
Uncounted(l) == IF Arrives /\ l = here THEN 1 ELSE 0

\* The adapter has counted no more hits of a line than the program has stopped there
\* since the client asked.
HitsAre ==
    ~quit /\ NoneWaits => \A i \in DOMAIN bps : bps[i].line \in wanted =>
        bps[i].hits + Uncounted(bps[i].line) <= visits[bps[i].line]

Enough(l) == l \in Counted \cap wanted => visits[l] >= 2
CondIs == sPc = "cond" => here \in ever /\ Enough(here)
ShownDue ==
    S!Sees /\ view.why = "breakpoint" => view.line \in ever /\ (~edited => Enough(view.line))

MeantIs == visits \in [Line -> Nat] /\ HitsAre /\ CondIs /\ ShownDue

\* What the client is shown agrees with the program.
LEMMA InvShown == SInv /\ MeantIs => ShownIsTrue
<1> SUFFICES ASSUME SInv, MeantIs PROVE S!ShownIsTrue
  BY DEF ShownIsTrue
<1>1. Typed /\ (quit => Over) /\ (~quit => Live)
  BY SInvIs
<1>2. S!ShownTrue
  BY <1>1 DEF Live, ViewIs, Over, S!ShownTrue
<1>3. S!ReadsAtStop
  <2> SUFFICES ASSUME NEW i \in DOMAIN cmds, cmds[i].op = "read"
               PROVE  prog = "stop" /\ stop = frames
    BY DEF S!ReadsAtStop
  <2>1. i \in 1 .. Len(cmds)
    BY <1>1 DEF Typed, STypes
  <2>2. ~quit /\ Live
    BY <1>1, <2>1 DEF Over
  <2>3. sPc \in {"reply", "cond"}
    BY <1>1, <2>1, <2>2 DEF Live, PcIs, Typed, S!TypeOK
  <2>4. prog = "stop" /\ ~Going /\ ~Arrives
    BY <2>2, <2>3 DEF Live, PcIs, OnWay
  <2> QED  BY <2>2, <2>4 DEF Live, FramesIs
<1>4. S!ShownIsMeant
  BY <1>1 DEF Typed, ShownHolds, MeantIs, ShownDue, Enough, S!ShownIsMeant
<1> QED  BY <1>1, <1>2, <1>3, <1>4 DEF Typed, S!ShownIsTrue


\* A breakpoint and its hits.
LEMMA PointIs ==
    ASSUME Typed PROVE \A i \in DOMAIN bps : bps[i].line \in Line /\ bps[i].hits \in Nat
<1>1. MaxStops \in Nat /\ \A i \in DOMAIN bps : bps[i].line \in Line /\ bps[i].hits \in 0 .. MaxStops
  BY Assumed DEF Typed, S!TypeOK
<1> QED  BY <1>1

\* Steps that count nothing, show nothing and ask for nothing.
LEMMA MeantStill ==
    ASSUME Typed, MeantIs, UNCHANGED <<here, bps, visits, wanted, ever, view, edited>>,
           quit => quit', ~quit' => (NoneWaits' => NoneWaits), Arrives' => Arrives,
           sPc' = "cond" => sPc = "cond"
    PROVE  MeantIs'
<1>1. visits' \in [Line -> Nat] /\ \A l : Enough(l)' = Enough(l)
  BY DEF MeantIs, Enough
<1>2. HitsAre'
  <2> SUFFICES ASSUME ~quit', NoneWaits', NEW i \in DOMAIN bps, bps[i].line \in wanted
               PROVE  bps[i].hits + Uncounted(bps[i].line)' <= visits[bps[i].line]
    BY DEF HitsAre, Uncounted
  <2> DEFINE h == bps[i].hits
             l == bps[i].line
             v == visits[l]
  <2>1. h + Uncounted(l) <= v
    BY DEF MeantIs, HitsAre
  <2>2. h \in Nat /\ l \in Line /\ v \in Nat
    BY PointIs DEF MeantIs
  <2>3. Uncounted(l)' \in {0, 1} /\ Uncounted(l) \in {0, 1}
        /\ (Uncounted(l)' = 1 => Uncounted(l) = 1)
    BY DEF Uncounted
  <2> HIDE DEF h, l, v
  <2>4. h + Uncounted(l)' <= v
    BY <2>1, <2>2, <2>3
  <2> QED  BY <2>4 DEF h, l, v
<1>3. CondIs' /\ ShownDue'
  BY <1>1 DEF MeantIs, CondIs, ShownDue, S!Sees
<1> QED  BY <1>1, <1>2, <1>3 DEF MeantIs

\* A line taken from the front was there.
LEMMA ArrivesBefore ==
    ASSUME lines \in Seq(Lines), lines # <<>>, lines' = Tail(lines), Arrives' PROVE Arrives
<1>1. /\ Len(lines') = Len(lines) - 1 /\ Len(lines) \in Nat \ {0}
      /\ \A i \in 1 .. Len(lines) - 1 : lines'[i] = lines[i + 1]
  BY TailFacts
<1>2. PICK i \in 1 .. Len(lines') : lines'[i].op = "paused"
  BY DEF Arrives
<1>3. i + 1 \in 1 .. Len(lines) /\ lines[i + 1].op = "paused"
  BY <1>1, <1>2
<1> QED  BY <1>3 DEF Arrives

\* A line added that is no stop.
LEMMA ArrivesAfter ==
    ASSUME lines \in Seq(Lines), NEW e \in Lines, e.op # "paused",
           lines' = Append(lines, e), Arrives'
    PROVE  Arrives
<1> DEFINE n == Len(lines)
<1>1. /\ Len(lines') = n + 1 /\ n \in Nat /\ lines'[n + 1] = e
      /\ \A i \in 1 .. n : lines'[i] = lines[i]
  OBVIOUS
<1>2. PICK i \in 1 .. Len(lines') : lines'[i].op = "paused"
  BY DEF Arrives
<1> HIDE DEF n
<1>3. i \in 1 .. n
  <2>1. i \in 1 .. n \/ i = n + 1
    BY <1>1
  <2> QED  BY <1>1, <1>2, <2>1
<1> QED  BY <1>1, <1>2, <1>3 DEF Arrives, n

\* A request taken that is not for breakpoints.
LEMMA NoneBefore ==
    ASSUME reqs \in Seq(Requests), reqs # <<>>, reqs' = Tail(reqs),
           Head(reqs).op # "breakpoints", NoneWaits'
    PROVE  NoneWaits
<1>1. /\ Head(reqs) = reqs[1] /\ Len(reqs') = Len(reqs) - 1 /\ Len(reqs) \in Nat \ {0}
      /\ \A i \in 1 .. Len(reqs) - 1 : reqs'[i] = reqs[i + 1]
  BY TailFacts
<1>2. ASSUME NEW i \in 1 .. Len(reqs), i # 1 PROVE reqs[i].op # "breakpoints"
  <2>1. i - 1 \in 1 .. Len(reqs) - 1 /\ (i - 1) + 1 = i
    BY <1>1, <1>2
  <2>2. i - 1 \in 1 .. Len(reqs') /\ reqs'[i - 1] = reqs[i]
    BY <1>1, <2>1
  <2> QED  BY <2>2 DEF NoneWaits
<1> QED  BY <1>1, <1>2 DEF NoneWaits

\* The client asks.
LEMMA MeantAsked == ASSUME SInv, MeantIs, Odd = {}, S!Client PROVE MeantIs'
<1>1. /\ UNCHANGED <<here, bps, quit, lines, sPc>> /\ ~quit
      /\ Typed /\ Live
  <2>1. ~quit /\ UNCHANGED <<here, bps, quit, lines, sPc>>
    BY DEF S!Client, S!AskResume, S!AskRead, S!AskThreads, S!AskBreakpoints, S!AskPause,
           S!AskEnd, S!Ask, S!program, S!adapter
  <2> QED  BY <2>1, SInvIs
<1>2. Arrives' = Arrives /\ \A l : Uncounted(l)' = Uncounted(l)
  BY <1>1 DEF Arrives, Uncounted
<1>3. PICK op, set : S!Ask(op, set) /\ (op # "breakpoints" => UNCHANGED <<wanted, ever, visits>>)
                     /\ (op = "breakpoints" => S!AskBreakpoints)
                     /\ (op # "breakpoints" => (view' = view /\ edited' = edited)
                                               \/ view'.what = "running")
  BY DEF S!Client, S!AskResume, S!AskRead, S!AskThreads, S!AskBreakpoints, S!AskPause,
         S!AskEnd
<1> DEFINE r == [op |-> op, id |-> asked', set |-> set]
           n == Len(reqs)
<1>4. /\ Len(reqs') = n + 1 /\ n \in Nat /\ reqs'[n + 1].op = op
      /\ \A i \in 1 .. n : reqs'[i] = reqs[i]
  <2>1. reqs' = Append(reqs, r) /\ reqs \in Seq(Requests)
    BY <1>1, <1>3 DEF S!Ask, Typed, STypes
  <2> QED  BY <2>1
<1> HIDE DEF r, n
<1>5. n + 1 \in 1 .. Len(reqs') /\ \A i \in 1 .. n : i \in 1 .. Len(reqs')
  BY <1>4
<1>6. CASE op # "breakpoints"
  <2>1. NoneWaits' => NoneWaits
    BY <1>4, <1>5 DEF NoneWaits, n
  <2>2. UNCHANGED <<wanted, ever, visits>>
    BY <1>3, <1>6
  <2>3. visits' \in [Line -> Nat] /\ \A l : Enough(l)' = Enough(l)
    BY <2>2 DEF MeantIs, Enough
  <2>4. HitsAre'
    BY <1>1, <1>2, <2>1, <2>2 DEF MeantIs, HitsAre
  <2>5. CondIs'
    BY <1>1, <2>2, <2>3 DEF MeantIs, CondIs
  <2>6. ShownDue'
    BY <1>3, <1>6, <2>2, <2>3 DEF MeantIs, ShownDue, S!Sees
  <2> QED  BY <2>3, <2>4, <2>5, <2>6 DEF MeantIs
<1>7. CASE op = "breakpoints"
  <2>1. /\ view.what # "running" /\ view' = view /\ edited' = TRUE
        /\ visits' = [l \in Line |-> 0] /\ ever \subseteq ever'
    BY <1>3, <1>7 DEF S!AskBreakpoints
  <2>2. ~NoneWaits'
    BY <1>4, <1>5, <1>7 DEF NoneWaits
  <2>3. sPc # "cond"
    BY <1>1, <2>1 DEF Live, ViewIs, OnWay
  <2> QED  BY <1>1, <2>1, <2>2, <2>3 DEF MeantIs, HitsAre, CondIs, ShownDue, S!Sees
<1> QED  BY <1>6, <1>7

\* The program stops: one hit more to count.
LEMMA MeantStop == ASSUME SInv, MeantIs, NEW l \in Line, S!Stop(l) PROVE MeantIs'
<1>1. /\ prog = "run" /\ here' = l /\ visits' = [visits EXCEPT ![l] = @ + 1]
      /\ UNCHANGED <<reqs, sPc, bps, quit, view, edited, wanted, ever>>
  BY DEF S!Stop, S!adapter
<1>2. Typed /\ ~quit /\ Live
  BY <1>1, SInvIs DEF Over
<1>3. ~Arrives /\ sPc # "cond" /\ view.what = "running"
  BY <1>1, <1>2 DEF Live, GoingIs, ViewIs, Going, OnWay
<1>4. /\ visits \in [Line -> Nat] /\ visits' \in [Line -> Nat]
      /\ \A k \in Line : visits'[k] = IF k = l THEN visits[k] + 1 ELSE visits[k]
  BY <1>1 DEF MeantIs
<1>5. HitsAre'
  <2> SUFFICES ASSUME NoneWaits', NEW i \in DOMAIN bps, bps[i].line \in wanted
               PROVE  bps[i].hits + Uncounted(bps[i].line)' <= visits'[bps[i].line]
    BY <1>1 DEF HitsAre
  <2> DEFINE h == bps[i].hits
             k == bps[i].line
  <2>1. NoneWaits
    BY <1>1 DEF NoneWaits
  <2>2. h + Uncounted(k) <= visits[k]
    BY <1>2, <2>1 DEF MeantIs, HitsAre
  <2>3. h \in Nat /\ k \in Line /\ visits[k] \in Nat
    BY <1>2, <1>4, PointIs
  <2>4. Uncounted(k) = 0 /\ Uncounted(k)' \in {0, 1} /\ (Uncounted(k)' = 1 => k = l)
    BY <1>1, <1>3 DEF Uncounted
  <2>5. visits'[k] = IF k = l THEN visits[k] + 1 ELSE visits[k]
    BY <1>4, <2>3
  <2> HIDE DEF h, k
  <2>6. h + Uncounted(k)' <= visits'[k]
    BY <2>2, <2>3, <2>4, <2>5
  <2> QED  BY <2>6 DEF h, k
<1>6. CondIs' /\ ShownDue'
  BY <1>1, <1>3 DEF CondIs, ShownDue, S!Sees
<1> QED  BY <1>4, <1>5, <1>6 DEF MeantIs

\* A stop that is taken: its hit is counted, and enough were when all are due.
LEMMA MeantCounted ==
    ASSUME SInv, MeantIs, S!Event, Head(lines).op = "paused", UNCHANGED <<visits, wanted>>
    PROVE  /\ HitsAre'
           /\ (~S!Asked /\ \A i \in S!BreakpointAt(here) : S!Due(i)) =>
                 here \in ever /\ Enough(here)
<1>1. /\ Typed /\ ~quit /\ Live /\ Head(lines).line = here /\ here \in Line
      /\ OnWay /\ (~S!Asked => here \in Places) /\ lines' = <<>> /\ S!Stopped(Head(lines))
      /\ UNCHANGED <<here, reqs, quit>>
  BY PausedFacts
<1>2. bps' = IF S!Asked THEN bps ELSE S!CountedHits(here)
  BY <1>1 DEF S!Stopped
<1>3. Arrives
  <2>1. lines \in Seq(Lines) /\ lines # <<>>
    BY <1>1 DEF Typed, STypes, S!Event
  <2>2. 1 \in 1 .. Len(lines) /\ lines[1].op = "paused"
    BY <2>1
  <2> QED  BY <2>2 DEF Arrives
<1>4. NoneWaits
  BY <1>1 DEF Live, OrderIs, NoneWaits
<1>5. \A i \in DOMAIN bps : bps[i].line \in wanted =>
         bps[i].hits + Uncounted(bps[i].line) <= visits[bps[i].line]
  BY <1>1, <1>4 DEF MeantIs, HitsAre
<1>6. \A i \in DOMAIN bps : bps[i].line \in Line /\ bps[i].hits \in Nat
                            /\ visits[bps[i].line] \in Nat
  BY <1>1, PointIs DEF MeantIs
<1>7. ~Arrives' /\ \A l : Uncounted(l) = IF l = here THEN 1 ELSE 0
  BY <1>1, <1>3 DEF Uncounted, Arrives
<1>8. /\ DOMAIN bps' = DOMAIN bps
      /\ \A i \in DOMAIN bps : /\ bps'[i].line = bps[i].line
                               /\ \/ bps'[i].hits = bps[i].hits
                                  \/ bps'[i].hits = bps[i].hits + 1 /\ bps[i].line = here
  <2>1. CASE S!Asked
    BY <1>2, <2>1
  <2>2. CASE ~S!Asked
    <3>1. bps' = S!CountedHits(here) /\ \A i \in DOMAIN bps : bps[i] \in Points
      BY <1>1, <1>2, <2>2 DEF Typed, STypes
    <3> QED  BY <3>1 DEF S!CountedHits, S!BreakpointAt, Points
  <2> QED  BY <2>1, <2>2
<1>9. HitsAre'
  <2>1. ASSUME NEW i \in DOMAIN bps, bps[i].line \in wanted
        PROVE  bps'[i].hits + 0 <= visits[bps[i].line]
    <3> DEFINE h == bps[i].hits
               n == bps'[i].hits
               l == bps[i].line
               v == visits[l]
    <3>1. n = h \/ (n = h + 1 /\ l = here)
      BY <1>8
    <3>2. h + Uncounted(l) <= v /\ h \in Nat /\ v \in Nat
      BY <1>5, <1>6, <2>1
    <3>3. Uncounted(l) = IF l = here THEN 1 ELSE 0
      BY <1>7
    <3> HIDE DEF h, n, l, v
    <3>4. n + 0 <= v
      BY <3>1, <3>2, <3>3
    <3> QED  BY <3>4 DEF n, v, l
  <2> QED  BY <1>7, <1>8, <2>1 DEF HitsAre, Uncounted
<1>10. ASSUME ~S!Asked, \A i \in S!BreakpointAt(here) : S!Due(i)
       PROVE  here \in ever /\ Enough(here)
  <2>1. PICK i \in DOMAIN bps : bps[i].line = here
    BY <1>1, <1>10 DEF Places
  <2>2. i \in S!BreakpointAt(here)
    BY <2>1 DEF S!BreakpointAt
  <2>3. here \in Counted => bps[i].hits + 1 >= 2
    BY <1>10, <2>1, <2>2 DEF S!Due
  <2>4. ASSUME here \in Counted \cap wanted PROVE visits[here] >= 2
    <3> DEFINE h == bps[i].hits
               v == visits[here]
    <3>1. h + Uncounted(here) <= v /\ h \in Nat /\ v \in Nat /\ h + 1 >= 2
      BY <1>5, <1>6, <2>1, <2>3, <2>4
    <3>2. Uncounted(here) = 1
      BY <1>7
    <3> HIDE DEF h, v
    <3>3. v >= 2
      BY <3>1, <3>2
    <3> QED  BY <3>3 DEF v
  <2>5. here \in ever
    BY <1>1, <1>10 DEF Typed, STypes
  <2> QED  BY <2>4, <2>5 DEF Enough
<1> QED  BY <1>9, <1>10

\* A line is taken from the program.
LEMMA MeantEvent == ASSUME SInv, MeantIs, S!Event PROVE MeantIs'
<1> DEFINE e == Head(lines)
           hit == S!BreakpointAt(e.line)
           due == \A i \in hit : S!Due(i)
           test == ~S!Asked /\ hit # {} /\ due /\ e.line \in Cond
           why == IF pauseRequested THEN "pause" ELSE IF stepRequested THEN "step"
                  ELSE IF test THEN "error" ELSE "breakpoint"
<1>1. CASE e.op # "paused"
  <2>1. /\ lines' = Tail(lines) /\ lines # <<>> /\ ~quit
        /\ UNCHANGED <<here, bps, visits, wanted, ever, view, edited, reqs, sPc, quit>>
    BY <1>1 DEF S!Event, S!program, S!client
  <2>2. Typed /\ lines \in Seq(Lines)
    BY <2>1, SInvIs DEF Typed, STypes
  <2>3. Arrives' => Arrives
    BY <2>1, <2>2, ArrivesBefore
  <2>4. NoneWaits' => NoneWaits
    BY <2>1 DEF NoneWaits
  <2> QED  BY <2>1, <2>2, <2>3, <2>4, MeantStill
<1>2. CASE e.op = "paused"
  <2>1. /\ Typed /\ ~quit /\ Live /\ sPc = "events" /\ prog = "stop" /\ view.what = "running"
        /\ e.stop = stop /\ e.line = here /\ here \in Line /\ S!Stopped(e)
        /\ UNCHANGED <<here, quit>>
    BY <1>2, PausedFacts
  <2>2. \/ test /\ sPc' = "cond" /\ UNCHANGED S!client
        \/ S!PassOver /\ UNCHANGED sPc
        \/ (S!Asked \/ due) /\ UNCHANGED sPc /\ S!Show(why, e.stop, e.line)
    BY <2>1 DEF S!Stopped
  <2>3. UNCHANGED <<visits, wanted, ever>> /\ (test => ~S!Asked /\ due)
        /\ (why = "breakpoint" => ~S!Asked)
    BY <2>2 DEF S!client, S!PassOver, S!Show, S!Asked
  <2>4. HitsAre' /\ (~S!Asked /\ due => here \in ever /\ Enough(here))
    BY <1>2, <2>1, <2>3, MeantCounted
  <2>5. visits' \in [Line -> Nat] /\ Enough(here)' = Enough(here) /\ here' = here
    BY <2>1, <2>3 DEF MeantIs, Enough
  <2> HIDE DEF due, why, test
  <2>6. CASE test /\ sPc' = "cond" /\ UNCHANGED S!client
    BY <2>1, <2>3, <2>4, <2>5, <2>6 DEF MeantIs, CondIs, ShownDue, S!Sees, S!client
  <2>7. CASE S!PassOver /\ UNCHANGED sPc
    BY <2>1, <2>4, <2>5, <2>7 DEF MeantIs, CondIs, ShownDue, S!Sees, S!client, S!PassOver
  <2>8. CASE (S!Asked \/ due) /\ UNCHANGED sPc /\ S!Show(why, e.stop, e.line)
    <3>1. view' = [what |-> "stop", stop |-> stop, why |-> why, line |-> here]
      BY <2>1, <2>8 DEF S!Show
    <3>2. why = "breakpoint" => here \in ever' /\ Enough(here)'
      BY <2>3, <2>4, <2>5, <2>8
    <3>3. ShownDue'
      <4>1. view'.why = why /\ view'.line = here
        BY <3>1
      <4>2. Enough(here)' = (here' \in (Counted \cap wanted)' => visits'[here'] >= 2)
        BY DEF Enough
      <4> QED  BY <2>5, <3>2, <4>1, <4>2 DEF ShownDue, Enough
    <3>4. CondIs'
      BY <2>1, <2>8 DEF CondIs
    <3> QED  BY <2>4, <2>5, <3>3, <3>4 DEF MeantIs
  <2> QED  BY <2>2, <2>6, <2>7, <2>8
<1> QED  BY <1>1, <1>2

\* The condition is judged: the hits are counted already.
LEMMA MeantJudged == ASSUME SInv, MeantIs, S!Judge PROVE MeantIs'
<1>1. /\ Typed /\ ~quit /\ Live /\ view.what = "running"
      /\ lines # <<>> /\ Head(lines).op = "read" /\ sPc' = "events"
      /\ lines' = <<>> /\ UNCHANGED <<here, reqs, bps, quit>>
  BY JudgeFacts
<1>2. sPc = "cond" /\ (S!PassOver \/ S!Show("breakpoint", frames, here))
  BY <1>1 DEF S!Judge
<1>3. UNCHANGED <<visits, wanted, ever>>
  BY <1>2 DEF S!PassOver, S!Show, S!client
<1>4. ~Arrives' /\ (NoneWaits' => NoneWaits)
  BY <1>1 DEF Arrives, NoneWaits
<1>5. CASE S!PassOver
  <2>1. UNCHANGED <<view, edited>>
    BY <1>5 DEF S!PassOver, S!client
  <2> QED  BY <1>1, <1>3, <1>4, <2>1, MeantStill
<1>6. CASE S!Show("breakpoint", frames, here)
  <2>1. view'.line = here
    BY <1>6 DEF S!Show
  <2>2. here \in ever /\ Enough(here)
    BY <1>2 DEF MeantIs, CondIs
  <2>3. ShownDue'
    <3>1. here' = here /\ here' \in ever'
      BY <1>1, <1>3, <2>2
    <3>2. here \in (Counted \cap wanted)' => visits'[here] >= 2
      BY <1>3, <2>2 DEF Enough
    <3> QED  BY <2>1, <3>1, <3>2 DEF ShownDue, Enough
  <2>4. HitsAre' /\ visits' \in [Line -> Nat]
    <3>1. \A l : Uncounted(l) \in {0, 1}
      BY DEF Uncounted
    <3> SUFFICES ASSUME NoneWaits', NEW i \in DOMAIN bps, bps[i].line \in wanted
                 PROVE  bps[i].hits + 0 <= visits[bps[i].line]
      BY <1>1, <1>3, <1>4 DEF HitsAre, MeantIs, Uncounted
    <3> DEFINE h == bps[i].hits
               l == bps[i].line
               v == visits[l]
    <3>2. h + Uncounted(l) <= v
      BY <1>1, <1>4 DEF MeantIs, HitsAre
    <3>3. h \in Nat /\ v \in Nat
      BY <1>1, PointIs DEF MeantIs
    <3> HIDE DEF h, l, v
    <3>4. h + 0 <= v
      BY <3>1, <3>2, <3>3
    <3> QED  BY <3>4 DEF h, l, v
  <2> QED  BY <1>1, <2>3, <2>4 DEF MeantIs, CondIs
<1> QED  BY <1>2, <1>5, <1>6

\* A request is taken.
LEMMA MeantTaken == ASSUME SInv, WantedIs, MeantIs, S!Request \/ S!Query PROVE MeantIs'
<1> DEFINE r == Head(reqs)
<1>1. /\ ~quit /\ reqs # <<>> /\ reqs' = Tail(reqs) /\ sPc' \in {"events", "reply"}
      /\ UNCHANGED <<here, lines, visits, wanted, ever, view, edited>>
  BY DEF S!Request, S!Query, S!client, S!program
<1>2. Typed /\ Live /\ reqs \in Seq(Requests)
  BY <1>1, SInvIs DEF Typed, STypes
<1>3. Arrives' = Arrives /\ \A l : Uncounted(l)' = Uncounted(l)
  BY <1>1 DEF Arrives, Uncounted
<1>4. CASE r.op # "breakpoints"
  <2>1. bps' = bps /\ (quit => quit')
    BY <1>1, <1>4 DEF S!Request, S!Query, S!OnResume, S!OnPause, S!OnBreakpoints, S!OnNothing,
                      S!OnDisconnect
  <2>2. NoneWaits' => NoneWaits
    BY <1>1, <1>2, <1>4, NoneBefore
  <2> QED  BY <1>1, <1>2, <1>3, <2>1, <2>2, MeantStill
<1>5. CASE r.op = "breakpoints"
  <2>1. S!Request /\ S!OnBreakpoints(r)
    BY <1>5 DEF S!Request, S!Query, S!OnResume, S!OnPause, S!OnNothing, S!OnDisconnect, S!Blind
  <2>2. \A i \in DOMAIN bps' : bps'[i].line \in r.set => bps'[i].hits = 0
    BY <2>1, PlacesReset
  <2>3. /\ r = reqs[1] /\ 1 \in 1 .. Len(reqs)
        /\ Len(reqs') = Len(reqs) - 1 /\ Len(reqs) \in Nat \ {0}
        /\ \A i \in 1 .. Len(reqs) - 1 : reqs'[i] = reqs[i + 1]
    BY <1>1, <1>2, TakeFacts, TailFacts
  <2>4. ~Arrives
    BY <1>2, <1>5, <2>3 DEF Live, OrderIs, OnWay
  <2> HIDE DEF r
  <2>5. ASSUME NoneWaits' PROVE r.set = wanted
    <3>1. ASSUME NEW j \in 1 .. Len(reqs), j > 1 PROVE reqs[j].op # "breakpoints"
      <4>1. j - 1 \in 1 .. Len(reqs) - 1 /\ (j - 1) + 1 = j
        BY <2>3, <3>1
      <4>2. j - 1 \in 1 .. Len(reqs') /\ reqs'[j - 1] = reqs[j]
        BY <2>3, <4>1
      <4> QED  BY <2>5, <4>2 DEF NoneWaits
    <3>2. \A i : i = 1 => LastSet(i)
      BY <1>5, <2>3, <3>1 DEF LastSet
    <3> QED  BY <1>1, <2>3, <3>2 DEF WantedIs
  <2>6. HitsAre'
    <3> SUFFICES ASSUME NoneWaits', NEW i \in DOMAIN bps', bps'[i].line \in wanted
                 PROVE  bps'[i].hits + 0 <= visits[bps'[i].line]
      BY <1>1, <1>3, <2>4 DEF HitsAre, Uncounted
    <3>1. bps'[i].hits = 0
      BY <2>2, <2>5
    <3>2. \A l \in wanted : visits[l] \in Nat
      BY <1>2 DEF Typed, STypes, MeantIs
    <3>3. visits[bps'[i].line] \in Nat
      BY <3>2
    <3> QED  BY <3>1, <3>3
  <2>7. visits' \in [Line -> Nat] /\ CondIs' /\ ShownDue'
    BY <1>1 DEF MeantIs, CondIs, ShownDue, Enough, S!Sees
  <2> QED  BY <2>6, <2>7 DEF MeantIs
<1> QED  BY <1>4, <1>5

\* A command is read: what it may write is no stop.
LEMMA MeantRead == ASSUME SInv, MeantIs, S!ReadCommand PROVE MeantIs'
<1>1. /\ prog \in {"start", "stop"} /\ cmds # <<>>
      /\ S!Resume(Head(cmds)) \/ S!Serve(Head(cmds)) \/ S!Ignore(Head(cmds))
      /\ UNCHANGED <<reqs, sPc, bps, quit, visits, wanted, ever, view, edited>>
  BY DEF S!ReadCommand, S!adapter, S!client
<1>2. ~quit /\ Typed
  BY <1>1, SInvIs DEF Over
<1>3. lines \in Seq(Lines) /\ cmds \in Seq(Commands)
  BY <1>2 DEF Typed, STypes
<1>4. here' = here /\ (NoneWaits' => NoneWaits)
  BY <1>1 DEF S!Resume, S!Serve, S!Ignore, S!program, NoneWaits
<1>5. Arrives' => Arrives
  <2>1. CASE S!Resume(Head(cmds)) \/ S!Ignore(Head(cmds))
    BY <2>1 DEF S!Resume, S!Ignore, Arrives
  <2>2. CASE S!Serve(Head(cmds))
    <3> DEFINE c == Head(cmds)
               x == [op |-> IF c.op = "bpx" THEN "ok" ELSE c.op,
                     id |-> c.id, stop |-> stop, line |-> None]
    <3>1. lines' = Append(lines, x) /\ x.op # "paused"
      BY <2>2 DEF S!Serve
    <3>2. c \in Commands /\ c.id \in Nat /\ stop \in Nat
      BY <1>1, <1>2, <1>3, Assumed DEF Typed, S!TypeOK, Commands
    <3>3. c.op \in {"bpx", "read", "threads"}
      BY <2>2 DEF S!Serve
    <3> HIDE DEF c
    <3>4. x \in Lines
      BY <3>2, <3>3 DEF Lines
    <3> HIDE DEF x
    <3> QED  BY <1>3, <3>1, <3>4, ArrivesAfter
  <2> QED  BY <1>1, <2>1, <2>2
<1> QED  BY <1>1, <1>2, <1>4, <1>5, MeantStill

\* Every step keeps it.
LEMMA MeantKeeps ==
    ASSUME SInv, WantedIs, MeantIs, Odd = {}, S!Next PROVE MeantIs'
<1>1. Typed
  BY SInvIs
<1>2. CASE S!Exit \/ S!EventsDone \/ S!BackToEvents
  <2>1. /\ UNCHANGED <<here, bps, visits, wanted, ever, view, edited, lines, reqs, quit>>
        /\ sPc' = "cond" => sPc = "cond"
    BY <1>2 DEF S!Exit, S!EventsDone, S!BackToEvents, S!program, S!adapter, S!client
  <2>2. Arrives' = Arrives /\ NoneWaits' = NoneWaits
    BY <2>1 DEF Arrives, NoneWaits
  <2> QED  BY <1>1, <2>1, <2>2, MeantStill
<1>3. CASE S!Reply
  <2>1. /\ UNCHANGED <<here, bps, visits, wanted, ever, view, edited, reqs, quit>>
        /\ sPc' = "events" /\ lines' = (IF lines # <<>> THEN Tail(lines) ELSE lines)
    BY <1>3 DEF S!Reply, S!program, S!client
  <2>2. lines \in Seq(Lines)
    BY <1>1 DEF Typed, STypes
  <2>3. Arrives' => Arrives
    <3>1. CASE lines = <<>>
      BY <2>1, <3>1 DEF Arrives
    <3>2. CASE lines # <<>>
      BY <2>1, <2>2, <3>2, ArrivesBefore
    <3> QED  BY <3>1, <3>2
  <2>4. NoneWaits' = NoneWaits
    BY <2>1 DEF NoneWaits
  <2> QED  BY <1>1, <2>1, <2>3, <2>4, MeantStill
<1> QED  BY <1>2, <1>3, MeantAsked, MeantStop, MeantEvent, MeantJudged, MeantTaken, MeantRead
         DEF S!Next, S!Adapter

\* All three invariants together.
LEMMA MeantInvariance == ASSUME Odd = {} PROVE DebugSpec => [](SInv /\ WantedIs /\ MeantIs)
<1>1. DebugInit => MeantIs
  <2>1. S!Init => MeantIs
    BY DEF S!Init, MeantIs, HitsAre, CondIs, ShownDue, S!Sees
  <2> QED  BY <2>1 DEF DebugInit
<1>2. SInv /\ WantedIs /\ MeantIs /\ [DebugNext]_debugVars => MeantIs'
  <2>1. ASSUME SInv, MeantIs, UNCHANGED session PROVE MeantIs'
    <3>1. Typed
      BY <2>1, SInvIs
    <3>2. UNCHANGED <<here, bps, visits, wanted, ever, view, edited, lines, reqs, quit, sPc>>
      BY <2>1 DEF session
    <3>3. Arrives' = Arrives /\ NoneWaits' = NoneWaits
      BY <3>2 DEF Arrives, NoneWaits
    <3> QED  BY <2>1, <3>1, <3>2, <3>3, MeantStill
  <2> QED  BY <2>1, SessionOrStill, MeantKeeps
<1> QED  BY <1>1, <1>2, WantedInvariance, PTL DEF DebugSpec

\* A client that was told of a stop and has not resumed since sees a program stopped
\* there, and what it reads is of that stop.  A stop shown as a breakpoint is at a line
\* the client once asked for; its condition held; and for a hit count the program has
\* stopped there twice since the client last asked.
THEOREM ShownKept == ASSUME Odd = {} PROVE DebugSpec => []ShownIsTrue
  BY MeantInvariance, InvShown, PTL
=============================================================================
