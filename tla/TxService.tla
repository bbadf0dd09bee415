------------------------------ MODULE TxService ------------------------------
(***************************************************************************)
(* What the transmit side of a TNC promises to its host: the frames it     *)
(* accepts go on the air once each, in the order of acceptance, and every  *)
(* accepted frame eventually goes on the air.  It may refuse a frame (the  *)
(* host is not told), but what it holds is bounded.                        *)
(***************************************************************************)
EXTENDS Integers, Sequences

CONSTANTS
    Frame,      \* the frames a TNC can be asked to send
    Capacity    \* how many frames it may hold

VARIABLES
    pending,    \* accepted and not yet completely sent, oldest first
    sent        \* completely sent, oldest first

vars == <<pending, sent>>

Init == pending = << >> /\ sent = << >>

Accept(f) ==
    /\ Len(pending) < Capacity
    /\ pending' = Append(pending, f)
    /\ UNCHANGED sent

Transmit ==
    /\ pending # << >>
    /\ sent' = Append(sent, Head(pending))
    /\ pending' = Tail(pending)

Next == Transmit \/ \E f \in Frame : Accept(f)

\* The safety half, and the promise that the head of the line is served.
Spec == Init /\ [][Next]_vars
FairSpec == Spec /\ WF_vars(Transmit)
=============================================================================
