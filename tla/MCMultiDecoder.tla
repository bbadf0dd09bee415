---------------------------- MODULE MCMultiDecoder ----------------------------
(* Instances of MultiDecoder for TLC. *)
EXTENDS MultiDecoder

\* Four transmissions in buffers of six samples.  The first is cut by the edge of
\* a buffer, and the second and the third are in the same buffer as its end, which
\* has room for two.  The third is cut by the edge after that, where the count of
\* samples wraps as well (at 13).  The fourth, with the content of the first, is
\* where that one was, a turn of the count later.
FourFrames ==
    << [at |-> 6, content |-> "a"], [at |-> 9, content |-> "b"],
       [at |-> 12, content |-> "c"], [at |-> 19, content |-> "a"] >>
=============================================================================
