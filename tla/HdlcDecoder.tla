----------------------------- MODULE HdlcDecoder -----------------------------
(***************************************************************************)
(* HDLC framing: core/src/ax25/frame.rs and crc16_ccitt of ax25/mod.rs.    *)
(* As in KissDecoder, the decoder is a value that is fed one bit at a time *)
(* and the encoder a walk over the bits of a frame.                        *)
(*                                                                         *)
(* Data is a sequence of bits in the order in which they go on the air     *)
(* (the least significant bit of a byte first), its length a multiple of   *)
(* eight.                                                                  *)
(***************************************************************************)
EXTENDS Integers, Sequences

CONSTANTS
    MIN_FRAME_LEN,   \* shortest frame the decoder takes, with its checksum (17)
    MAX_FRAME_LEN,   \* bytes of HdlcDecoder::frame_buf (330)
    Flags            \* flags before a frame (4)

ASSUME HdlcAssumption ==
    /\ MIN_FRAME_LEN \in Nat \ {0, 1} /\ MAX_FRAME_LEN \in Nat
    /\ MIN_FRAME_LEN <= MAX_FRAME_LEN
    /\ Flags \in Nat \ {0}

Bit == {0, 1}
Xor(a, b) == IF a = b THEN 0 ELSE 1

Flag == <<0, 1, 1, 1, 1, 1, 1, 0>>

\* The bits of bytes.
BitsOf(data) ==
    [k \in 1 .. 8 * Len(data) |-> (data[(k - 1) \div 8 + 1] \div 2 ^ ((k - 1) % 8)) % 2]

-----------------------------------------------------------------------------
(* crc16_ccitt, its register least significant bit first: shifted down, with *)
(* the polynomial 0x8408 (bits 3, 10 and 15) added when a one drops out.     *)
Shifted(crc, bit) ==
    LET flag == Xor(crc[1], bit)
    IN [k \in 1 .. 16 |->
          LET above == IF k = 16 THEN 0 ELSE crc[k + 1]
          IN IF k - 1 \in {3, 10, 15} THEN Xor(above, flag) ELSE above]

crc16_ccitt(bits) ==
    LET crc[n \in 0 .. Len(bits)] ==
            IF n = 0 THEN [k \in 1 .. 16 |-> 1] ELSE Shifted(crc[n - 1], bits[n])
    IN [k \in 1 .. 16 |-> 1 - crc[Len(bits)][k]]

\* 0x0F47: what the checksum of data and its checksum comes to.
Residue == <<1, 1, 1, 0, 0, 0, 1, 0, 1, 1, 1, 1, 0, 0, 0, 0>>

-----------------------------------------------------------------------------
(* hdlc_encode, as a walk: flags, the data and its checksum with a zero      *)
(* stuffed after five ones, a flag.  `i` bits of the part are sent; `ones`   *)
(* of them, the last ones, are ones.                                         *)
Tx(st, i, ones) == [st |-> st, i |-> i, ones |-> ones]
TxIdle == Tx("idle", 0, 0)
TxStart == Tx("flags", 0, 0)

WithChecksum(data) == data \o crc16_ccitt(data)

NextBit(line, tx) ==
    CASE tx.st \in {"flags", "close"} -> Flag[(tx.i % 8) + 1]
      [] tx.st = "body" -> line[tx.i + 1]
      [] tx.st = "stuff" -> 0

Onwards(line, i, ones) ==
    IF i = Len(line) THEN Tx("close", 0, 0) ELSE Tx("body", i, ones)

\* (Faulty variant: stuffs after the sixth one.)
StuffsLate(ones) == ones = 6
Stuffs(ones) == ones = 5

NextTx(line, tx) ==
    CASE tx.st = "flags" -> IF tx.i + 1 = 8 * Flags THEN Tx("body", 0, 0)
                            ELSE Tx("flags", tx.i + 1, 0)
      [] tx.st = "close" -> IF tx.i + 1 = 8 THEN TxIdle ELSE Tx("close", tx.i + 1, 0)
      [] tx.st = "stuff" -> Onwards(line, tx.i, 0)
      [] tx.st = "body" ->
           LET ones == IF line[tx.i + 1] = 1 THEN tx.ones + 1 ELSE 0
           IN IF Stuffs(ones) THEN Tx("stuff", tx.i + 1, ones)
              ELSE Onwards(line, tx.i + 1, ones)

\* The last bit of the closing flag.
Closing(tx) == tx.st = "close" /\ tx.i = 7

-----------------------------------------------------------------------------
(* HdlcDecoder.  `acc` are the bits received since the last flag, stuffed    *)
(* ones left out: frame_len bytes and bit_index bits.  Outside a frame it is *)
(* of no consequence.                                                        *)
Hdlc(state, shift_reg, ones_count, acc) ==
    [state |-> state, shift_reg |-> shift_reg, ones_count |-> ones_count, acc |-> acc]

NewHdlc == Hdlc("Hunting", [k \in 1 .. 8 |-> 0], 0, << >>)

\* shift_reg, the newest bit last.
ShiftIn(reg, bit) == [k \in 1 .. 8 |-> IF k = 8 THEN bit ELSE reg[k + 1]]

FrameLen(d) == Len(d.acc) \div 8
IsFlag(d, bit) == ShiftIn(d.shift_reg, bit) = Flag
IsFull(d) == Len(d.acc) % 8 = 7 /\ FrameLen(d) >= MAX_FRAME_LEN
Ones(d, bit) == IF bit = 1 THEN d.ones_count + 1 ELSE 0

\* feed_bit returns a frame, without its checksum.  (Faulty variant: misses the
\* shortest ones.)
Checked(bits) == crc16_ccitt(bits) = Residue
YieldsLonger(d, bit) ==
    /\ IsFlag(d, bit)
    /\ d.state = "Receiving" /\ FrameLen(d) > MIN_FRAME_LEN
    /\ Checked(SubSeq(d.acc, 1, 8 * FrameLen(d)))
Yields(d, bit) ==
    /\ IsFlag(d, bit)
    /\ d.state = "Receiving" /\ FrameLen(d) >= MIN_FRAME_LEN
    /\ Checked(SubSeq(d.acc, 1, 8 * FrameLen(d)))
Yielded(d) == SubSeq(d.acc, 1, 8 * (FrameLen(d) - 2))

\* A bit that belongs to the frame; a byte too many ends the reception.
Accumulate(d, bit) ==
    IF IsFull(d) THEN Hdlc("Hunting", ShiftIn(d.shift_reg, bit), Ones(d, bit), << >>)
    ELSE Hdlc("Receiving", ShiftIn(d.shift_reg, bit), Ones(d, bit), Append(d.acc, bit))

feed_bit(d, bit) ==
    LET shift == ShiftIn(d.shift_reg, bit)
    IN IF IsFlag(d, bit) THEN Hdlc("Receiving", shift, 0, << >>)
       ELSE IF d.ones_count >= 7 THEN Hdlc("Hunting", shift, 0, << >>)
       ELSE IF d.state = "Hunting" THEN Hdlc("Hunting", shift, Ones(d, bit), << >>)
       ELSE IF bit = 0 /\ d.ones_count = 5 THEN Hdlc("Receiving", shift, 0, d.acc)
       ELSE Accumulate(d, bit)
=============================================================================
