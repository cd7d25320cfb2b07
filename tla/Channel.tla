------------------------------ MODULE Channel ------------------------------
(***************************************************************************)
(* hphl_channel_send and hphl_channel_receive of                           *)
(* runtime/concurrency/concurrency.c: a ring of slots under a critical     *)
(* section, with two condition variables.  A sender that finds the ring    *)
(* full BEFORE it takes the critical section allocates a ring twice as     *)
(* large and installs it once inside; if the allocation fails it waits.    *)
(*                                                                         *)
(* Each region of code under the critical section is one step; each of the *)
(* unlocked reads that precede it in Send is a step of its own.            *)
(***************************************************************************)
EXTENDS Integers, SequencesExt, FiniteSets

CONSTANTS
    Sender, Receiver,   \* threads
    PerSender,          \* bound: messages each sender sends
    InitCap,            \* the argument of channel<T>(cap)
    MaxCap,             \* bound: the largest ring the heap has room for
    Zero                \* what calloc puts in a slot

ChannelAssumption ==
    /\ PerSender \in Nat /\ InitCap \in Nat \ {0} /\ MaxCap \in Nat
    /\ Sender \cap Receiver = {}

Message == Sender \X (1 .. PerSender)

ZeroAssumption == Zero \notin Message

VARIABLES
    buf, capacity, head, tail, count,   \* HphlChannel
    pc,         \* per thread: where it is in Send or Receive
    newCap,     \* per sender: its local newCap, 0 without a ring of its own
    sent,       \* per sender: messages handed to Send so far
    received    \* what the receivers got, in order

vars == <<buf, capacity, head, tail, count, pc, newCap, sent, received>>

Init ==
    /\ buf = [i \in 0 .. InitCap - 1 |-> Zero]
    /\ capacity = InitCap
    /\ head = 0 /\ tail = 0 /\ count = 0
    /\ pc = [t \in Sender \cup Receiver |-> "idle"]
    /\ newCap = [s \in Sender |-> 0]
    /\ sent = [s \in Sender |-> 0]
    /\ received = <<>>

\* The messages in the ring, oldest first.
Window == [i \in 1 .. count |-> buf[(head + i - 1) % capacity]]

\* WakeAllConditionVariable on the variable its sleepers call cond.
Awake(cond, next) ==
    [t \in Sender \cup Receiver |-> IF pc[t] = cond THEN next ELSE pc[t]]

UnwrappedNext(i, cap) == i + 1                                \* a mutation
NextSlot(i, cap) == (i + 1) % cap

-----------------------------------------------------------------------------
(* hphl_channel_send *)

\* The test count >= capacity, without the lock.
Look(s) ==
    /\ pc[s] = "idle"
    /\ sent[s] < PerSender
    /\ sent' = [sent EXCEPT ![s] = @ + 1]
    /\ newCap' = [newCap EXCEPT ![s] = 0]
    /\ pc' = [pc EXCEPT ![s] = IF count >= capacity THEN "size" ELSE "enter"]
    /\ UNCHANGED <<buf, capacity, head, tail, count, received>>

\* The size of the new ring, read without the lock, and its allocation, which
\* may fail.
Allocate(s) ==
    /\ pc[s] = "size"
    /\ \E n \in {0, 2 * capacity} :
          n <= MaxCap /\ newCap' = [newCap EXCEPT ![s] = n]
    /\ pc' = [pc EXCEPT ![s] = "enter"]
    /\ UNCHANGED <<buf, capacity, head, tail, count, sent, received>>

\* The sender has the critical section; an awakened one tests again.
Grows(s) == pc[s] = "enter" /\ newCap[s] > capacity
Waits(s) == newCap[s] = 0 /\ count = capacity

UnfoldedRing(s) == [i \in 0 .. newCap[s] - 1 |->              \* a mutation
                      IF i < count THEN buf[i] ELSE Zero]
GrownRing(s) == [i \in 0 .. newCap[s] - 1 |->
                   IF i < count THEN buf[(head + i) % capacity] ELSE Zero]

Put(s) ==
    /\ pc[s] \in {"enter", "woken"}
    /\ ~Waits(s)
    /\ LET ring == IF Grows(s) THEN GrownRing(s) ELSE buf
           cap == IF Grows(s) THEN newCap[s] ELSE capacity
           end == IF Grows(s) THEN count ELSE tail
       IN  /\ buf' = [ring EXCEPT ![end] = <<s, sent[s]>>]
           /\ capacity' = cap
           /\ head' = IF Grows(s) THEN 0 ELSE head
           /\ tail' = NextSlot(end, cap)
    /\ count' = count + 1
    /\ pc' = [Awake("notEmpty", "idle") EXCEPT ![s] = "idle"]
    /\ UNCHANGED <<newCap, sent, received>>

SendSleep(s) ==
    /\ pc[s] \in {"enter", "woken"}
    /\ Waits(s)
    /\ pc' = [pc EXCEPT ![s] = "notFull"]
    /\ UNCHANGED <<buf, capacity, head, tail, count, newCap, sent, received>>

-----------------------------------------------------------------------------
(* hphl_channel_receive *)

ReceiveWakesNone == pc                                        \* a mutation
ReceiveWakes == Awake("notFull", "woken")

Receive(r) ==
    /\ pc[r] = "idle"
    /\ count # 0
    /\ received' = Append(received, buf[head])
    /\ head' = NextSlot(head, capacity)
    /\ count' = count - 1
    /\ pc' = ReceiveWakes
    /\ UNCHANGED <<buf, capacity, tail, newCap, sent>>

ReceiveSleep(r) ==
    /\ pc[r] = "idle"
    /\ count = 0
    /\ pc' = [pc EXCEPT ![r] = "notEmpty"]
    /\ UNCHANGED <<buf, capacity, head, tail, count, newCap, sent, received>>

-----------------------------------------------------------------------------
SendStep(s) == Look(s) \/ Allocate(s) \/ Put(s) \/ SendSleep(s)
ReceiveStep(r) == Receive(r) \/ ReceiveSleep(r)

Next ==
    \/ \E s \in Sender : SendStep(s)
    \/ \E r \in Receiver : ReceiveStep(r)

\* Every thread that can take a step takes one.
Fairness ==
    /\ \A s \in Sender : WF_vars(SendStep(s))
    /\ \A r \in Receiver : WF_vars(ReceiveStep(r))

Spec == Init /\ [][Next]_vars
FairSpec == Spec /\ Fairness

-----------------------------------------------------------------------------
(* Properties *)

TypeOK ==
    /\ capacity \in Nat \ {0}
    /\ buf \in [0 .. capacity - 1 -> Message \cup {Zero}]
    /\ head \in 0 .. capacity - 1
    /\ tail \in 0 .. capacity - 1
    /\ count \in Nat
    /\ pc \in [Sender \cup Receiver ->
                 {"idle", "size", "enter", "woken", "notFull", "notEmpty"}]
    /\ newCap \in [Sender -> Nat]
    /\ sent \in [Sender -> 0 .. PerSender]
    /\ received \in Seq(Message \cup {Zero})

\* The ring is the FIFO: what is received is what was sent, once, in order,
\* across growth and wrap-around (hphl_channel_send, hphl_channel_receive).
Fifo == INSTANCE ChannelFifo WITH pending <- Window

ChannelIsFifo == Fifo!Spec

\* No thread sleeps on a condition that has come true: a receiver only on an
\* empty ring, a sender only on a full one.
NoLostWakeup ==
    /\ \A r \in Receiver : pc[r] = "notEmpty" => count = 0
    /\ \A s \in Sender : pc[s] = "notFull" => count = capacity

\* Every message reaches a receiver.
AllReceived == <>(Len(received) = PerSender * Cardinality(Sender))

\* A Send keeps the messages in the ring: the stale snapshot of count and
\* capacity is harmless ("e benigno", concurrency.c:545).
SendKeepsPending ==
    [][\A s \in Sender : Put(s) => ToSet(Window) \subseteq ToSet(Window')]_vars

\* The ring has the capacity it was created with and Send blocks when it is
\* full (concurrency.c:498-499).
FixedCapacity == count <= InitCap
=============================================================================
