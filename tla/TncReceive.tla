------------------------------ MODULE TncReceive ------------------------------
(***************************************************************************)
(* The receive side of the TNC engine: core/src/tnc.rs, TncEngine::poll_rx *)
(* and read_kiss.  Each frame the demodulator finds is KISS-encoded and    *)
(* written to the outbox, or dropped when it does not fit; the platform    *)
(* reads the outbox in pieces of any size and passes them on to the host,  *)
(* whose KISS decoder puts the frames together again.                      *)
(***************************************************************************)
EXTENDS KissOutbox, KissDecoder

CONSTANTS
    Frames,        \* the payloads (command byte, data) of the frames on the air
    Encoding,      \* encode_frame for those frames
    TMP_SIZE,      \* bytes of write_kiss_frame's temporary buffer (700)
    ReadSizes,     \* the buffer sizes read_kiss is called with
    MaxReceived    \* bound: frames received

Byte == 0 .. 255

ASSUME ReceiveAssumption ==
    /\ Encoding \in [Frames -> Seq(Byte)]
    /\ TMP_SIZE \in Nat /\ MaxReceived \in Nat
    /\ ReadSizes \subseteq Nat \ {0}

\* poll_rx encodes data frames of port 0, and none is longer than the host's
\* buffer (331 bytes with the command byte, and 512).
ASSUME EncodingAssumption ==
    \A f \in Frames :
        /\ f \in Seq(Byte) /\ f # << >> /\ ~Special(f[1]) /\ Len(f) <= BUF_SIZE
        /\ Encoding[f] = encode_frame(f)

VARIABLES
    kiss_out,     \* TncEngine::kiss_out
    wire,         \* bytes on their way to the host
    host,         \* the host's decoder
    received,     \* history: number of frames received
    accepted,     \* history: the frames the outbox took
    stream,       \* history: their encodings, one after the other
    handed,       \* history: all bytes read_kiss has returned
    delivered     \* history: the frames the host has decoded

vars == <<kiss_out, wire, host, received, accepted, stream, handed, delivered>>

OnWire(b) == [byte |-> b]

Init ==
    /\ kiss_out = NewOutbox
    /\ wire = << >> /\ host = NewDecoder
    /\ received = 0 /\ accepted = << >> /\ stream = << >>
    /\ handed = << >> /\ delivered = << >>

\* write_kiss_frame succeeds: the encoding fits the temporary buffer and the
\* outbox.
Takes(f) ==
    /\ Len(Encoding[f]) <= TMP_SIZE
    /\ Len(Encoding[f]) <= free_space(kiss_out)

\* poll_rx, for one frame found in the samples; the result is ignored.
PollRx(f) ==
    /\ received < MaxReceived
    /\ received' = received + 1
    /\ kiss_out' = IF Len(Encoding[f]) <= TMP_SIZE
                   THEN write(kiss_out, Encoding[f]) ELSE kiss_out
    /\ IF Takes(f)
       THEN /\ accepted' = Append(accepted, f)
            /\ stream' = stream \o Encoding[f]
       ELSE UNCHANGED <<accepted, stream>>
    /\ UNCHANGED <<wire, host, handed, delivered>>

\* read_kiss into a buffer of n bytes; the platform sends what it got.
ReadKiss(n) ==
    /\ kiss_out' = read(kiss_out, n)
    /\ handed' = handed \o Handed(kiss_out, n)
    /\ wire' = wire \o Handed(kiss_out, n)
    /\ UNCHANGED <<host, received, accepted, stream, delivered>>

\* The host's decoder takes a byte.
HostByte ==
    LET x == OnWire(Head(wire))
    IN /\ wire # << >>
       /\ wire' = Tail(wire)
       /\ host' = feed_byte(host, x)
       /\ delivered' = IF Completes(host, x)
                       THEN Append(delivered, [k \in DOMAIN host.buf |-> host.buf[k].byte])
                       ELSE delivered
       /\ UNCHANGED <<kiss_out, received, accepted, stream, handed>>

Next ==
    \/ \E f \in Frames : PollRx(f)
    \/ \E n \in ReadSizes : ReadKiss(n)
    \/ HostByte

Spec == Init /\ [][Next]_vars

\* The platform reads the outbox again and again, and the host what it is sent.
FairSpec ==
    /\ Spec
    /\ WF_vars(\E n \in ReadSizes : ReadKiss(n))
    /\ WF_vars(HostByte)

-----------------------------------------------------------------------------
TypeOK ==
    /\ kiss_out \in KissOutboxOf(Byte)
    /\ received \in Nat
    /\ accepted \in Seq(Frames)
    /\ stream \in Seq(Byte) /\ handed \in Seq(Byte) /\ wire \in Seq(Byte)

\* The outbox neither loses, doubles, mixes up nor cuts a byte: what was read
\* and what still waits, together, are the encodings of the accepted frames,
\* wherever the ring wraps and however full it gets.
OutboxIsStream == handed \o Waiting(kiss_out) = stream

\* The inductive form of the two.
IInv == TypeOK /\ OutboxIsStream

\* What the host decodes are the accepted frames: all those whose bytes have
\* arrived, in order, and never a part or a splice of them.  A frame that was
\* dropped for want of room does not disturb its neighbours.
HostSeesAccepted ==
    /\ Len(delivered) <= Len(accepted)
    /\ \A k \in DOMAIN delivered : delivered[k] = accepted[k]

\* A frame that the outbox took reaches the host.
AcceptedArrives ==
    \A k \in 1 .. MaxReceived : Len(accepted) >= k ~> Len(delivered) >= k
=============================================================================
