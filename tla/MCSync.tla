-------------------------------- MODULE MCSync --------------------------------
(***************************************************************************)
(* The small parts of the runtime in one run: the barrier (extended), a    *)
(* channel C, the ring R of the task queue, the table H of open handles    *)
(* and a map M.  They share no state: part says which of them a behaviour  *)
(* is about, the others stay where they begin.                             *)
(***************************************************************************)
EXTENDS Barrier

CONSTANTS Sender, Receiver, PerSender, ChannelCap, MaxCap, Zero,
          Task, NoTask, RingCap, MaxLive,
          Opener, Handle, TrackCap, None,
          Key, Value, Hash, MapCap, MaxMapCap, Empty, Tomb

VARIABLES part,
          buf, capacity, cHead, cTail, cCount, cPc, newCap, sent, received,
          slots, cap, rHead, rTail, rCount, taken,
          live, table, skipped, hPc, hand, exiting, badClose,
          mTable, mCount, mLast

\* The hashes of the run: keys 0, 4 and 8 meet in a table of four slots, 0 and 8 in
\* one of eight.
KeyAsHash == [k \in Key |-> k]

C == INSTANCE Channel WITH InitCap <- ChannelCap, head <- cHead,
       tail <- cTail, count <- cCount, pc <- cPc
R == INSTANCE TaskRing WITH InitCap <- RingCap, head <- rHead,
       tail <- rTail, count <- rCount
H == INSTANCE HandleTrack WITH Thread <- Opener, Cap <- TrackCap, pc <- hPc

M == INSTANCE OpenMap WITH InitCap <- MapCap, MaxCap <- MaxMapCap,
       table <- mTable, count <- mCount, last <- mLast

channel == <<buf, capacity, cHead, cTail, cCount, cPc, newCap, sent, received>>
ring == <<slots, cap, rHead, rTail, rCount, taken>>
handles == <<live, table, skipped, hPc, hand, exiting, badClose>>
map == <<mTable, mCount, mLast>>
barrier == <<count, generation, pc, gen, passed>>
syncVars == <<part, barrier, channel, ring, handles, map>>

SyncInit == /\ part \in {"barrier", "channel", "ring", "handles", "map"}
            /\ Init /\ C!Init /\ R!Init /\ H!Init /\ M!Init

BarrierStep(A) == /\ part = "barrier" /\ A
                  /\ UNCHANGED <<part, channel, ring, handles, map>>
ChannelStep(A) == /\ part = "channel" /\ A
                  /\ UNCHANGED <<part, barrier, ring, handles, map>>

SyncNext ==
    \/ BarrierStep(Next)
    \/ ChannelStep(C!Next)
    \/ /\ part = "ring" /\ R!Next
       /\ UNCHANGED <<part, barrier, channel, handles, map>>
    \/ /\ part = "handles" /\ H!Next
       /\ UNCHANGED <<part, barrier, channel, ring, map>>
    \/ /\ part = "map" /\ M!Next
       /\ UNCHANGED <<part, barrier, channel, ring, handles>>

\* Each part has the fairness its module states.
SyncSpec ==
    /\ SyncInit /\ [][SyncNext]_syncVars
    /\ \A t \in Thread : WF_syncVars(BarrierStep(Call(t)))
    /\ \A s \in Sender : WF_syncVars(ChannelStep(C!SendStep(s)))
    /\ \A r \in Receiver : WF_syncVars(ChannelStep(C!ReceiveStep(r)))

\* What the parts assume of their constants.
ASSUME PartsAssumption ==
    /\ C!ChannelAssumption /\ C!ZeroAssumption /\ R!RingAssumption
    /\ H!HandleAssumption /\ M!OpenMapAssumption

\* The ring of a channel is a FIFO (hphl_channel_send, hphl_channel_receive).
ChannelIsFifo == C!ChannelIsFifo

\* With as many threads as the barrier needs, all get through all their calls;
\* every message sent through the channel reaches a receiver.  A wake-up lost in
\* either ends that.
AllThrough ==
    /\ part = "barrier" => AllPass
    /\ part = "channel" => C!AllReceived

\* The ring of the task queue is a FIFO with removal from the middle.
RingIsFifo == R!RingIsFifo

\* The table is exactly the open handles that fitted in it, and the exit closes
\* each once (HandleTrack).
HandlesExact == H!HandlesExact

\* The table of a map is a function: a search finds what is in, past tombstones
\* and growth, and the other keys keep their values.
MapIsFunction == M!MapIsFunction
=============================================================================
