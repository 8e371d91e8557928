---------------------------- MODULE ByteChannel ----------------------------
(***************************************************************************)
(* What a ByteQueue promises: a bounded FIFO channel of bytes between one  *)
(* producer and one consumer that can be closed.                           *)
(*                                                                         *)
(* A byte is identified with its position in the producer's stream, so the *)
(* stream is 1, 2, 3, ...: "sent" is how much of it entered the channel    *)
(* and "received" is what the consumer was handed, in order.               *)
(***************************************************************************)
EXTENDS Integers, Sequences

CONSTANT Size                 \* capacity, the constructor's argument

VARIABLES queue, sent, received, open

vars == <<queue, sent, received, open>>

Init ==
    /\ queue = <<>>
    /\ sent = 0
    /\ received = <<>>
    /\ open = TRUE

(* The next n bytes of the stream. *)
Segment(n) == [i \in 1..n |-> sent + i]

(* n bytes enter the channel; only while it is open and has room for them. *)
Put(n) ==
    /\ open
    /\ Len(queue) + n <= Size
    /\ queue' = queue \o Segment(n)
    /\ sent' = sent + n
    /\ UNCHANGED <<received, open>>

(* The n oldest bytes leave it; a closed channel hands out nothing, even   *)
(* when bytes are still stored.                                            *)
Get(n) ==
    /\ open
    /\ n <= Len(queue)
    /\ received' = received \o SubSeq(queue, 1, n)
    /\ queue' = SubSeq(queue, n + 1, Len(queue))
    /\ UNCHANGED <<sent, open>>

Close ==
    /\ open' = FALSE
    /\ UNCHANGED <<queue, sent, received>>

Next ==
    \/ \E n \in 1..Size : Put(n) \/ Get(n)
    \/ Close

Spec == Init /\ [][Next]_vars
=============================================================================
