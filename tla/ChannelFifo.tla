---------------------------- MODULE ChannelFifo ----------------------------
(***************************************************************************)
(* What a channel<T> promises: the messages sent are received once each,   *)
(* in the order of the sends.                                              *)
(***************************************************************************)
EXTENDS Sequences

CONSTANT Message    \* what can be sent, each at most once in a behaviour

VARIABLES
    pending,    \* sent and not received, oldest first
    received    \* by any receiver, in the order of the receives

Init == pending = <<>> /\ received = <<>>

Send(m) == pending' = Append(pending, m) /\ UNCHANGED received

Receive ==
    /\ pending # <<>>
    /\ received' = Append(received, Head(pending))
    /\ pending' = Tail(pending)

Next == Receive \/ \E m \in Message : Send(m)

Spec == Init /\ [][Next]_<<pending, received>>
=============================================================================
