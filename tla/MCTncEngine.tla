----------------------------- MODULE MCTncEngine -----------------------------
(* Instances of TncEngine for TLC. *)
EXTENDS TncEngine

\* TncEngine with the parameter names of TncConfig; txdelay and txtail in the
\* units of the code (10 ms), so that 1200 baud gives 3 flags for 2 units.
ConfigOf(delay, persistence, slot, tail, duplex) ==
    [txdelay |-> delay, persistence |-> persistence, slottime |-> slot,
     txtail |-> tail, full_duplex |-> duplex]

\* Framing, queueing and channel access together: frames of two bits of data,
\* buffers of three symbols that cut flags and frames anywhere, a draw that is
\* won or lost, a clock of two bits that wraps all the time.
TransmitConfig == ConfigOf(2, 63, 1, 0, FALSE)
TransmitSettable == {"txtail", "slottime", "full_duplex"}
TransmitBytes == {0, 2}

\* The transmit pipeline of the desktop program: desktop/src/tx.rs.
TxOnlyConfig == ConfigOf(25, 63, 10, 10, TRUE)
=============================================================================
