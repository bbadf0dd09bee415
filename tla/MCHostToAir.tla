----------------------------- MODULE MCHostToAir -----------------------------
(* Instances of HostToAir for TLC. *)
EXTENDS HostToAir

\* Data frames of port 0 with the bytes that mean something to KISS, and runs
\* of ones that HDLC has to break up.  The first is too short for a decoder,
\* the third so long that the engine cuts it (and then still too long for the
\* other station), the last too long for the host's link.
MixedPayloads ==
    {<<DataCommand>> \o d :
        d \in {<< >>, <<255>>, <<FEND, 126>>, <<31, FESC, 248, TFEND, 1>>,
               <<1, 1, 1, 1, 1, 1>>}}
MixedFrames == {OnAir(p) : p \in MixedPayloads}

\* A bit is turned over while the host has begun two frames at most: what comes
\* of it is about the link, and the link does not look at the queue.
FewWhenDisturbed == flips > 0 => count <= 2
=============================================================================
