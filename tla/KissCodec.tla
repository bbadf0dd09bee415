------------------------------ MODULE KissCodec ------------------------------
(***************************************************************************)
(* An encoder and a decoder joined by a link that loses nothing:           *)
(* core/src/kiss/mod.rs, encode_frame and KissDecoder::feed_byte, one byte *)
(* at a time, for any frames one after the other.                          *)
(***************************************************************************)
EXTENDS KissDecoder

CONSTANTS
    Payloads,      \* the frames: command byte, data
    MaxFrames      \* bound: frames sent

Byte == 0 .. 255

\* encode_frame writes the command byte as it is: it must not look like the
\* start of anything else.  (That excludes data frames of port 12, whose
\* command byte is 12 * 16 = FEND; every caller encodes port 0.)
ASSUME PayloadAssumption ==
    \A p \in Payloads : p \in Seq(Byte) /\ p # << >> /\ ~Special(p[1])
ASSUME FramesAssumption == MaxFrames \in Nat

VARIABLES
    payload,      \* the frame being encoded, << >> between frames
    walk,         \* how far encode_frame is in it
    decoder,      \* the KissDecoder at the other end
    count,        \* frames begun
    sent,         \* history: the frames completely encoded, those that fit
    delivered     \* history: the frames feed_byte returned

vars == <<payload, walk, decoder, count, sent, delivered>>

OnLink(b) == [byte |-> b]
Fits(p) == Len(p) <= BUF_SIZE
Values(d) == [k \in DOMAIN d |-> d[k].byte]

Init ==
    /\ payload = << >> /\ walk = Opening
    /\ decoder = NewDecoder
    /\ count = 0 /\ sent = << >> /\ delivered = << >>

\* encode_frame is called.
Begin(p) ==
    /\ payload = << >> /\ count < MaxFrames
    /\ payload' = p
    /\ count' = count + 1
    /\ UNCHANGED <<walk, decoder, sent, delivered>>

\* A byte is written at one end and fed to the decoder at the other.
PassByte ==
    LET x == OnLink(NextByte(payload, walk))
    IN /\ payload # << >>
       /\ walk' = NextWalk(payload, walk)
       /\ decoder' = feed_byte(decoder, x)
       /\ delivered' = IF Completes(decoder, x)
                       THEN Append(delivered, Values(FrameOf(decoder))) ELSE delivered
       /\ IF walk.st = "close"
          THEN /\ payload' = << >>
               /\ sent' = IF Fits(payload) THEN Append(sent, payload) ELSE sent
          ELSE UNCHANGED <<payload, sent>>
       /\ UNCHANGED count

Next == PassByte \/ \E p \in Payloads : Begin(p)

Spec == Init /\ [][Next]_vars

-----------------------------------------------------------------------------
\* The walk is somewhere in the payload.
WalkOK ==
    /\ payload = << >> => walk = Opening
    /\ payload # << >> =>
         \/ walk = Opening
         \/ walk.st = "body"    /\ walk.i \in 0 .. Len(payload) - 1
         \/ walk.st = "escaped" /\ walk.i \in 1 .. Len(payload) - 1
                                /\ Special(payload[walk.i + 1])
         \/ walk.st = "close"   /\ walk.i = Len(payload)
    /\ walk = Walk(walk.st, walk.i)

TypeOK ==
    /\ payload \in Payloads \cup {<< >>}
    /\ WalkOK
    /\ Len(decoder.buf) <= BUF_SIZE
    /\ count \in Nat
    /\ sent \in Seq(Payloads)

\* Byte for byte the decoder is in step with the encoder: what it holds is the
\* part of the payload that was written, as much of it as fits.
Stored(i) == IF i <= BUF_SIZE THEN i ELSE BUF_SIZE
Lockstep ==
    decoder = IF walk.st = "open"
              THEN Decoder(decoder.buf, FALSE, FALSE, FALSE)
              ELSE Decoder([k \in 1 .. Stored(walk.i) |-> OnLink(payload[k])],
                           TRUE, walk.st = "escaped", walk.i > BUF_SIZE)

\* Decoding undoes encoding: the frames come out as they went in, all those
\* that fit the decoder's buffer and no others, each at its closing FEND,
\* whatever bytes they hold and whatever went before.
DecodedIsSent == delivered = sent

\* The inductive form of the three.
IInv == TypeOK /\ Lockstep /\ DecodedIsSent
=============================================================================
