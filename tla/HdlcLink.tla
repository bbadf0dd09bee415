------------------------------- MODULE HdlcLink -------------------------------
(***************************************************************************)
(* One station heard by another at 9600 baud: frames encoded by            *)
(* HdlcDecoder's walk, bit by bit through NRZI and the G3RUH scrambler     *)
(* (core/src/modem/scrambler.rs, Fsk9600ModulateAdapter of tnc.rs), a      *)
(* channel that may turn a bit over and that is noise between              *)
(* transmissions, and back (modem/demod_9600.rs) into the HdlcDecoder.     *)
(* The receiver gets one decision per bit: its filters and clock are       *)
(* outside the model.                                                      *)
(***************************************************************************)
EXTENDS HdlcDecoder

CONSTANTS
    Frames,        \* the data of frames, as bits
    Tap, Reg,      \* the scrambler's taps (12, 17); Reg is its length
    MaxSent,       \* bound: frames sent
    MaxNoise,      \* noise bits before a transmission, at most
    MaxFlips       \* bound: bits turned over

ASSUME LinkAssumption ==
    /\ Tap \in Nat /\ Reg \in Nat /\ 0 < Tap /\ Tap < Reg
    /\ MaxSent \in Nat /\ MaxNoise \in Nat /\ MaxFlips \in Nat
\* What begin_frame_tx sends: whole bytes, as few as there are (an empty KISS
\* frame is sent too, and too short for any decoder).
ASSUME FrameAssumption ==
    \A f \in Frames : f \in Seq(Bit) /\ Len(f) % 8 = 0
\* The algebra of the checksum.
ASSUME ChecksumAssumption ==
    \A f \in Frames : /\ crc16_ccitt(f) \in [1 .. 16 -> Bit]
                      /\ Checked(WithChecksum(f))

VARIABLES
    line,          \* the data being sent and its checksum
    tx,            \* how far the sender is in it
    scrambler,     \* Scrambler::shift_reg, newest bit first
    level,         \* the modulator's prev_nrzi
    descrambler,   \* Descrambler::shift_reg
    prev_nrzi,     \* the demodulator's
    hdlc,          \* the HdlcDecoder
    received,      \* history: the frames it returned
    count_sent, flips,   \* events so far
    noise,         \* noise bits since the last transmission
    clean,         \* history: undisturbed bits since the last noise, up to Enough
    intact         \* history: since the last opening flag, and before it long enough

linkVars == <<line, tx, scrambler, level, descrambler, prev_nrzi, hdlc, received,
              count_sent, flips, noise, clean, intact>>

Register == [1 .. Reg -> Bit]
Push(reg, bit) == [k \in 1 .. Reg |-> IF k = 1 THEN bit ELSE reg[k - 1]]
Tapped(reg, bit) == Xor(bit, Xor(reg[Tap], reg[Reg]))

\* The bits it takes for the receiver to be in step and to see one flag.
InStepAfter == Reg + 1
Enough == InStepAfter + 8

LinkInit ==
    /\ line = << >> /\ tx = TxIdle
    /\ scrambler = [k \in 1 .. Reg |-> 0] /\ level = 0
    /\ descrambler = [k \in 1 .. Reg |-> 0] /\ prev_nrzi = 0
    /\ hdlc = NewHdlc /\ received = << >>
    /\ count_sent = 0 /\ noise = 0 /\ flips = 0
    /\ clean = 0 /\ intact = FALSE

-----------------------------------------------------------------------------
\* The sender keys up for a frame.
SendFrame(f) ==
    /\ tx = TxIdle /\ count_sent < MaxSent
    /\ line' = WithChecksum(f)
    /\ tx' = TxStart
    /\ count_sent' = count_sent + 1
    /\ intact' = FALSE
    /\ UNCHANGED <<scrambler, level, descrambler, prev_nrzi, hdlc, received,
                   noise, flips, clean>>

\* A bit off the channel: descramble, NRZI, feed_bit.  The descrambler keeps
\* what it was given.  (Faulty variant: what it gave, as the scrambler does.)
FedBack(raw) == Tapped(descrambler, raw)
FedForward(raw) == raw
Decoded(raw) == 1 - Xor(Tapped(descrambler, raw), prev_nrzi)
Hear(raw) ==
    /\ descrambler' = Push(descrambler, FedForward(raw))
    /\ prev_nrzi' = Tapped(descrambler, raw)
    /\ hdlc' = feed_bit(hdlc, Decoded(raw))
    /\ received' = IF Yields(hdlc, Decoded(raw)) THEN Append(received, Yielded(hdlc))
                   ELSE received

\* A bit onto the channel, turned over or not.  NRZI: a zero changes the level.
NewLevel == Xor(level, 1 - NextBit(line, tx))
SendBit(flip) ==
    LET raw == Tapped(scrambler, NewLevel)
    IN /\ tx # TxIdle
       /\ flips + flip <= MaxFlips /\ flips' = flips + flip
       /\ level' = NewLevel
       /\ scrambler' = Push(scrambler, raw)
       /\ tx' = NextTx(line, tx)
       /\ Hear(Xor(raw, flip))
       /\ clean' = IF flip = 1 THEN 0 ELSE IF clean < Enough THEN clean + 1 ELSE clean
       /\ intact' = IF tx'.st = "body" /\ tx.st = "flags" THEN clean' = Enough
                    ELSE intact /\ flip = 0
       /\ noise' = IF tx' = TxIdle THEN 0 ELSE noise
       /\ UNCHANGED <<line, count_sent>>

\* Nobody sends.
Noise(raw) ==
    /\ tx = TxIdle /\ noise < MaxNoise /\ noise' = noise + 1
    /\ Hear(raw)
    /\ clean' = 0 /\ intact' = FALSE
    /\ UNCHANGED <<line, tx, scrambler, level, count_sent, flips>>

LinkStep == (\E flip \in Bit : SendBit(flip)) \/ (\E raw \in Bit : Noise(raw))
LinkNext == LinkStep \/ \E f \in Frames : SendFrame(f)
LinkSpec == LinkInit /\ [][LinkNext]_linkVars

-----------------------------------------------------------------------------
\* "It needs only 17 received bits to sync, regardless of initial state": after
\* 17 bits that were sent and not disturbed the registers are equal, and from
\* the next bit on the receiver decodes what the sender encodes.
InStepOnceClean ==
    /\ clean >= Reg => descrambler = scrambler
    /\ clean >= InStepAfter => prev_nrzi = level

\* A frame whose bits are not disturbed, nor the last flag before it nor the
\* bits in which the descrambler gets into step, is returned, at the last bit
\* of its closing flag, if it is as long as a decoder wants it and fits the
\* buffer; a shorter or a longer one is sent and not returned.  Until then
\* nothing else is returned, whatever was heard before.
Data == SubSeq(line, 1, Len(line) - 16)
FitsDecoder == Len(line) \in 8 * MIN_FRAME_LEN .. 8 * MAX_FRAME_LEN
HeardExactly ==
    [][LinkStep /\ intact /\ intact' =>
         received' = IF Closing(tx) /\ FitsDecoder THEN Append(received, Data)
                     ELSE received]_linkVars
=============================================================================
