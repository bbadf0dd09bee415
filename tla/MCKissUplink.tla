---------------------------- MODULE MCKissUplink ----------------------------
(* Instances of KissUplink for TLC. *)
EXTENDS KissUplink

Payload(id, bytes) == [id |-> id, payload |-> <<DataCommand>> \o bytes]

\* One client: both escapes, the escape codes as plain data, a frame that is
\* too long for a buffer of 3.
OneStream ==
    [c \in Clients |->
        << Payload(1, <<FEND, TFESC>>), Payload(2, <<FESC>>),
           Payload(3, <<1, FESC, 1>>), Payload(4, <<TFEND>>) >>]
=============================================================================
