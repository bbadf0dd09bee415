------------------------------ MODULE PacketLog ------------------------------
(***************************************************************************)
(* What the ingest side of the APRS viewer promises to its browser side:   *)
(* packets are stored under increasing ids, and some time after a packet   *)
(* was stored, or never, all browsers are sent it, once; updates of the    *)
(* station come in between.  ViewerIngest implements this; ViewerHub is    *)
(* built on it.                                                            *)
(***************************************************************************)
EXTENDS Integers, Sequences

VARIABLES
    stored,        \* packets in the database
    sent           \* the events sent to the broadcast channel so far

logVars == <<stored, sent>>

StationUpdate == [type |-> "StationUpdate", id |-> 0]
Packet(i) == [type |-> "Packet", id |-> i]
Event == [type : {"StationUpdate", "Packet"}, id : Nat]

Published(i) == \E k \in DOMAIN sent : sent[k] = Packet(i)

LogInit == stored = 0 /\ sent = << >>

Store == stored' = stored + 1 /\ UNCHANGED sent

Publish(i) ==
    /\ ~Published(i)
    /\ sent' = Append(sent, Packet(i))
    /\ UNCHANGED stored

Update == sent' = Append(sent, StationUpdate) /\ UNCHANGED stored

LogNext == Store \/ Update \/ \E i \in 1 .. stored : Publish(i)
LogSpec == LogInit /\ [][LogNext]_logVars
=============================================================================
