--------------------------- MODULE HostToAir_proofs ---------------------------
(***************************************************************************)
(* Theorems about KissCodec, about HdlcLink and about the two joined.      *)
(* KissCodec: decoding undoes encoding, for frames of any length and a     *)
(* buffer of any size.  HdlcLink: the receiver gets into step with the     *)
(* sender, and then hears every frame exactly, for any frames, scrambler   *)
(* and buffer.                                                             *)
(***************************************************************************)
EXTENDS HostToAir, KissDecoder_proofs, SequenceTheorems

-----------------------------------------------------------------------------
(* KissCodec *)

LEMMA InitIInv == Init => IInv
  BY BufSizeAssumption
  DEF Init, IInv, TypeOK, WalkOK, Lockstep, DecodedIsSent, NewDecoder, Decoder,
      Opening, Walk

LEMMA BeginKeepsIInv ==
    ASSUME IInv, NEW p \in Payloads, Begin(p)
    PROVE  IInv'
<1>1. TypeOK'
  BY PayloadAssumption DEF IInv, TypeOK, WalkOK, Begin
<1>2. walk = Opening /\ UNCHANGED <<walk, decoder, sent, delivered>>
  BY DEF IInv, TypeOK, WalkOK, Begin
<1>3. Lockstep'
  BY <1>2 DEF IInv, Lockstep, Opening, Walk
<1>. QED
  BY <1>1, <1>2, <1>3 DEF IInv, DecodedIsSent

\* Between frames and inside them the decoder is where the walk is.
LEMMA CodecMatches ==
    ASSUME IInv, payload # << >>
    PROVE  /\ payload \in Payloads /\ payload \in Seq(Byte) /\ ~Special(payload[1])
           /\ WalkIn(payload, walk) /\ Matches(decoder, payload, walk)
<1>1. payload \in Payloads /\ payload \in Seq(Byte) /\ ~Special(payload[1])
  BY PayloadAssumption DEF IInv, TypeOK
<1>2. WalkIn(payload, walk)
  <2>1. walk = Walk(walk.st, walk.i)
    BY DEF IInv, TypeOK, WalkOK
  <2>. QED
    BY <2>1 DEF IInv, TypeOK, WalkOK, WalkIn
<1>3. \A i : [k \in 1 .. Stored(i) |-> OnLink(payload[k])] = Held(payload, i)
  BY DEF Held, Kept, Stored, OnLink, Plain
<1>4. Matches(decoder, payload, walk)
  BY <1>3 DEF IInv, Lockstep, Matches
<1>. QED
  BY <1>1, <1>2, <1>4

\* A byte keeps it there; the closing FEND delivers the frame that was sent,
\* if it fits.
LEMMA PassByteKeepsIInv ==
    ASSUME IInv, PassByte
    PROVE  IInv'
<1>. DEFINE x == Plain(NextByte(payload, walk))
            p == payload
<1>1. /\ p # << >> /\ TypeOK /\ delivered = sent
      /\ walk' = NextWalk(p, walk) /\ decoder' = feed_byte(decoder, x)
      /\ delivered' = IF Completes(decoder, x)
                      THEN Append(delivered, [k \in DOMAIN decoder.buf |-> decoder.buf[k].byte])
                      ELSE delivered
      /\ IF walk.st = "close"
         THEN /\ payload' = << >>
              /\ sent' = IF Len(p) <= BUF_SIZE THEN Append(sent, p) ELSE sent
         ELSE UNCHANGED <<payload, sent>>
      /\ count' = count
  BY DEF PassByte, IInv, DecodedIsSent, OnLink, Plain, Values, FrameOf, Fits
<1>2. /\ p \in Payloads /\ p \in Seq(Byte) /\ ~Special(p[1])
      /\ WalkIn(p, walk) /\ Matches(decoder, p, walk)
  BY <1>1, CodecMatches
<1>3. /\ WalkIn(p, walk') /\ Matches(decoder', p, walk')
      /\ Completes(decoder, x) <=> walk.st = "close" /\ Len(p) <= BUF_SIZE
      /\ Completes(decoder, x) => [k \in DOMAIN decoder.buf |-> decoder.buf[k].byte] = p
      /\ Len(decoder'.buf) <= BUF_SIZE
  BY <1>1, <1>2, WalkGoesOn, ByteInStep
<1>4. DecodedIsSent'
  BY <1>1, <1>3 DEF DecodedIsSent
<1>5. /\ payload' \in Payloads \cup {<< >>} /\ count' \in Nat /\ sent' \in Seq(Payloads)
  <2>1. sent \in Seq(Payloads) /\ count \in Nat
    BY <1>1 DEF TypeOK
  <2>2. Append(sent, p) \in Seq(Payloads)
    BY <1>2, <2>1
  <2>3. CASE walk.st = "close"
    BY <1>1, <2>1, <2>2, <2>3
  <2>4. CASE walk.st # "close"
    BY <1>1, <1>2, <2>1, <2>4
  <2>. QED
    BY <2>3, <2>4
<1>6. walk.st = "close" => walk' = Opening
  BY <1>1 DEF NextWalk
<1>7. WalkOK'
  <2>1. /\ \A st, i : Walk(st, i) = Walk(Walk(st, i).st, Walk(st, i).i)
        /\ Opening = Walk(Opening.st, Opening.i)
    BY Fields DEF Opening
  <2>2. walk' = Walk(walk'.st, walk'.i)
    BY <1>3, <2>1 DEF WalkIn
  <2>. QED
    BY <1>1, <1>3, <1>6, <2>2, Fields DEF WalkOK, WalkIn
<1>8. Lockstep'
  <2>1. CASE walk.st = "close"
    <3>1. walk' = Opening /\ Opening.st = "open"
      BY <1>6, <2>1, Fields DEF Opening
    <3>2. decoder' = Decoder(decoder'.buf, FALSE, FALSE, FALSE)
      BY <1>3, <3>1 DEF Matches
    <3>. QED
      BY <3>1, <3>2 DEF Lockstep
  <2>2. CASE walk.st # "close"
    <3>1. payload' = p
      BY <1>1, <2>2
    <3>2. \A i : [k \in 1 .. Stored(i) |-> OnLink(p[k])] = Held(p, i)
      BY DEF Held, Kept, Stored, OnLink, Plain
    <3>. HIDE DEF p
    <3>. QED
      BY <1>3, <3>1, <3>2 DEF Matches, Lockstep
  <2>. QED
    BY <2>1, <2>2
<1>. QED
  BY <1>3, <1>4, <1>5, <1>7, <1>8 DEF IInv, TypeOK

LEMMA NextIInv == IInv /\ [Next]_vars => IInv'
<1>1. ASSUME IInv, UNCHANGED vars
      PROVE  IInv'
  BY <1>1 DEF IInv, TypeOK, WalkOK, Lockstep, DecodedIsSent, vars
<1>. QED
  BY <1>1, PassByteKeepsIInv, BeginKeepsIInv DEF Next

LEMMA Invariance == Spec => []IInv
  BY InitIInv, NextIInv, PTL DEF Spec

\* The encoder stays inside its frame and the decoder inside its buffer.
THEOREM CodecTypeCorrect == Spec => []TypeOK
<1>1. IInv => TypeOK
  BY DEF IInv
<1>. QED
  BY <1>1, Invariance, PTL

\* Encoder and decoder agree after every byte, and so wherever a read cuts the
\* stream.
THEOREM CodecInStep == Spec => []Lockstep
<1>1. IInv => Lockstep
  BY DEF IInv
<1>. QED
  BY <1>1, Invariance, PTL

\* For frames of every length and content, and every size of the decoder's
\* buffer, what is decoded is what was encoded.
THEOREM CodecRoundTrip == Spec => []DecodedIsSent
<1>1. IInv => DecodedIsSent
  BY DEF IInv
<1>. QED
  BY <1>1, Invariance, PTL

-----------------------------------------------------------------------------
(* HdlcLink *)

\* The registers agree on as many bits as were received undisturbed.
StepInv ==
    /\ clean \in 0 .. Enough
    /\ scrambler \in Register /\ descrambler \in Register /\ level \in Bit
    /\ \A k \in 1 .. Reg : k <= clean => descrambler[k] = scrambler[k]
    /\ clean >= InStepAfter => prev_nrzi = level

\* What is being sent.
LineInv ==
    /\ tx # TxIdle => \E f \in Frames : line = WithChecksum(f)
    /\ tx \in [st : {"idle", "flags", "body", "stuff", "close"}, i : Nat, ones : 0 .. 5]
    /\ tx.st = "idle" => tx = TxIdle
    /\ tx.st = "flags" => tx.i < 8 * Flags
    /\ tx.st = "body" => tx.i < Len(line) /\ tx.ones < 5
    /\ tx.st = "stuff" => tx.i <= Len(line) /\ tx.ones = 5
    /\ tx.st = "close" => tx.i < 8 /\ tx.ones = 0

\* In the flags before a frame, shift_reg ends with the bits heard in step.
FlagInv ==
    tx.st = "flags" =>
        \A j \in 1 .. 8 : (j <= tx.i /\ j <= clean - InStepAfter) =>
            hdlc.shift_reg[9 - j] = Flag[((tx.i - j) % 8) + 1]

\* shift_reg ends with a zero and n ones.
EndsWith(d, n) ==
    /\ d.shift_reg[8 - n] = 0
    /\ \A k \in 1 .. 8 : k > 8 - n => d.shift_reg[k] = 1

\* What the decoder has of a frame of which `n' bits were heard: all of them, or
\* nothing when they are more than it can hold.
Room == 8 * MAX_FRAME_LEN + 7
Holds(d, bits, n) ==
    IF n <= Room
    THEN /\ d.state = "Receiving" /\ Len(d.acc) = n
         /\ \A k \in 1 .. n : d.acc[k] = bits[k]
    ELSE d.state = "Hunting"

\* The decoder is where the sender is.
Follows(d, t) ==
    /\ t.st \in {"body", "stuff"} =>
         /\ d.ones_count = t.ones /\ EndsWith(d, t.ones)
         /\ Holds(d, line, t.i)
    /\ t.st = "close" =>
         /\ Holds(d, line \o Flag, Len(line) + t.i)
         /\ t.i = 0 => \E n \in 0 .. 4 : d.ones_count = n /\ EndsWith(d, n)
         /\ t.i > 0 => /\ d.ones_count = t.i - 1
                       /\ \A k \in 1 .. t.i : d.shift_reg[8 - t.i + k] = Flag[k]

HearInv == intact => clean = Enough /\ tx.st # "flags" /\ Follows(hdlc, tx)

HdlcType == [state : {"Hunting", "Receiving"}, shift_reg : [1 .. 8 -> Bit],
             ones_count : Nat, acc : Seq(Bit)]
HdlcInv == hdlc \in HdlcType

LinkInv == StepInv /\ LineInv /\ FlagInv /\ HearInv /\ HdlcInv

-----------------------------------------------------------------------------
LEMMA XorFacts ==
    /\ \A a, b : Xor(a, b) \in Bit
    /\ \A a, b \in Bit : Xor(Xor(a, b), b) = a /\ Xor(Xor(a, b), a) = b
    /\ \A a : Xor(a, 0) = a \/ a \notin Bit
  BY DEF Xor, Bit

LEMMA StepInit == LinkInit => StepInv
  BY LinkAssumption DEF LinkInit, StepInv, Register, Bit, Enough, InStepAfter

\* A bit that is not turned over comes out of the descrambler as it went into
\* the scrambler, once the registers agree.
LEMMA Descrambled ==
    ASSUME StepInv, clean >= Reg
    PROVE  Tapped(descrambler, Tapped(scrambler, NewLevel)) = NewLevel
  <1>1. descrambler[Tap] = scrambler[Tap] /\ descrambler[Reg] = scrambler[Reg]
    BY LinkAssumption DEF StepInv, Enough, InStepAfter
  <1>2. NewLevel \in Bit /\ Xor(scrambler[Tap], scrambler[Reg]) \in Bit
    BY XorFacts DEF NewLevel
  <1> QED
    BY <1>1, <1>2, XorFacts DEF Tapped

LEMMA StepStep ==
    ASSUME StepInv, [LinkNext]_linkVars PROVE StepInv'
  <1> USE LinkAssumption DEF StepInv
  <1>1. ASSUME NEW flip \in Bit, SendBit(flip) PROVE StepInv'
    <2> DEFINE raw == Tapped(scrambler, NewLevel)
    <2>1. /\ level' = NewLevel /\ scrambler' = Push(scrambler, raw)
          /\ descrambler' = Push(descrambler, Xor(raw, flip))
          /\ prev_nrzi' = Tapped(descrambler, Xor(raw, flip))
          /\ clean' = IF flip = 1 THEN 0 ELSE IF clean < Enough THEN clean + 1 ELSE clean
      BY <1>1 DEF SendBit, Hear, FedForward
    <2>2. raw \in Bit /\ Xor(raw, flip) \in Bit /\ NewLevel \in Bit
      BY XorFacts DEF Tapped, NewLevel
    <2>3. scrambler' \in Register /\ descrambler' \in Register /\ level' \in Bit
      BY <2>1, <2>2 DEF Push, Register
    <2>4. CASE flip = 1
      BY <2>1, <2>3, <2>4 DEF Enough, InStepAfter
    <2>5. CASE flip = 0
      <3>1. Xor(raw, flip) = raw
        BY <2>2, <2>5, XorFacts
      <3>2. \A k \in 1 .. Reg : k <= clean' => descrambler'[k] = scrambler'[k]
        <4> SUFFICES ASSUME NEW k \in 1 .. Reg, k <= clean'
                     PROVE  descrambler'[k] = scrambler'[k]
          OBVIOUS
        <4>1. CASE k = 1
          BY <2>1, <3>1, <4>1 DEF Push
        <4>2. CASE k > 1
          <5>1. k - 1 \in 1 .. Reg /\ k - 1 <= clean
            BY <2>1, <2>5, <4>2 DEF Enough, InStepAfter
          <5> QED
            BY <2>1, <3>1, <4>2, <5>1 DEF Push
        <4> QED
          BY <4>1, <4>2
      <3>3. clean' >= InStepAfter => clean >= Reg
        BY <2>1, <2>5 DEF Enough, InStepAfter
      <3>4. clean' >= InStepAfter => prev_nrzi' = level'
        BY <2>1, <3>1, <3>3, Descrambled
      <3>5. clean' \in 0 .. Enough
        BY <2>1, <2>5 DEF Enough, InStepAfter
      <3> QED
        BY <2>3, <3>2, <3>4, <3>5
    <2> QED
      BY <2>4, <2>5 DEF Bit
  <1>2. ASSUME NEW raw \in Bit, Noise(raw) PROVE StepInv'
    BY <1>2 DEF Noise, Hear, FedForward, Push, Register, Enough, InStepAfter
  <1>3. ASSUME NEW f \in Frames, SendFrame(f) PROVE StepInv'
    BY <1>3 DEF SendFrame
  <1>4. CASE UNCHANGED linkVars
    BY <1>4 DEF linkVars
  <1> QED
    BY <1>1, <1>2, <1>3, <1>4 DEF LinkNext, LinkStep

\* "It needs only 17 received bits to sync": for any scrambler of two taps, and
\* whatever was heard before.
THEOREM InStep == LinkSpec => []InStepOnceClean
  <1>1. StepInv => InStepOnceClean
    <2> SUFFICES ASSUME StepInv, clean >= Reg PROVE descrambler = scrambler
      BY DEF StepInv, InStepOnceClean
    <2> QED
      BY LinkAssumption DEF StepInv, Register, Enough, InStepAfter
  <1>2. StepInv /\ [LinkNext]_linkVars => StepInv'
    BY StepStep
  <1> QED
    BY <1>1, <1>2, StepInit, PTL DEF LinkSpec

-----------------------------------------------------------------------------
LEMMA LineFacts ==
    ASSUME NEW f \in Frames
    PROVE  /\ WithChecksum(f) \in Seq(Bit) /\ Len(WithChecksum(f)) = Len(f) + 16
           /\ Len(WithChecksum(f)) % 8 = 0
           /\ Checked(WithChecksum(f))
  <1>1. f \in Seq(Bit) /\ Len(f) % 8 = 0
    BY FrameAssumption
  <1>2. PICK c \in Seq(Bit) : c = crc16_ccitt(f) /\ Len(c) = 16
    <2>1. crc16_ccitt(f) \in [1 .. 16 -> Bit]
      BY ChecksumAssumption
    <2>2. crc16_ccitt(f) \in Seq(Bit)
      BY <2>1, SeqDef
    <2>3. PICK n \in Nat : n = Len(crc16_ccitt(f)) /\ 1 .. 16 = 1 .. n
      BY <2>1, <2>2, LenProperties
    <2>4. 16 \in 1 .. n /\ 17 \notin 1 .. n
      <3>1. 16 \in 1 .. 16 /\ 17 \notin 1 .. 16 /\ 1 .. 16 = 1 .. n
        BY <2>3
      <3> QED
        BY <3>1
    <2>5. n = 16
      BY <2>4
    <2> QED
      BY <2>2, <2>3, <2>5
  <1>3. WithChecksum(f) \in Seq(Bit) /\ Len(WithChecksum(f)) = Len(f) + 16
    <2>1. f \o c \in Seq(Bit) /\ Len(f \o c) = Len(f) + Len(c)
      BY <1>1, <1>2, ConcatProperties
    <2> QED
      BY <1>2, <2>1 DEF WithChecksum
  <1> QED
    BY <1>1, <1>3, ChecksumAssumption

\* The line while a frame is sent.
LEMMA LineShape ==
    ASSUME LineInv, tx # TxIdle
    PROVE  /\ line \in Seq(Bit) /\ Len(line) \in Nat /\ Len(line) % 8 = 0
           /\ Len(line) >= 16
           /\ Checked(line) /\ tx.st \in {"flags", "body", "stuff", "close"}
  <1>1. PICK f \in Frames : line = WithChecksum(f)
    BY DEF LineInv
  <1>2. tx.st # "idle"
    BY DEF LineInv
  <1> QED
    BY <1>1, <1>2, LineFacts, HdlcAssumption DEF LineInv

LEMMA LineStep ==
    ASSUME LineInv, [LinkNext]_linkVars PROVE LineInv'
  <1>1. ASSUME NEW flip \in Bit, SendBit(flip) PROVE LineInv'
    <2>1. tx # TxIdle /\ tx' = NextTx(line, tx) /\ line' = line
      BY <1>1 DEF SendBit
    <2>2. PICK f \in Frames : line = WithChecksum(f)
      BY <2>1 DEF LineInv
    <2>3. /\ Len(line) \in Nat /\ Len(line) >= 16 /\ line \in Seq(Bit)
          /\ tx.st \in {"flags", "body", "stuff", "close"} /\ tx.i \in Nat /\ tx.ones \in 0 .. 5
      BY <2>1, LineShape DEF LineInv
    <2>4. CASE tx.st = "flags"
      <3>1. tx' = IF tx.i + 1 = 8 * Flags THEN Tx("body", 0, 0) ELSE Tx("flags", tx.i + 1, 0)
        BY <2>1, <2>4 DEF NextTx
      <3>2. tx.i + 1 = 8 * Flags \/ tx.i + 1 < 8 * Flags
        BY <2>3, <2>4, HdlcAssumption DEF LineInv
      <3> QED
        BY <2>1, <2>2, <2>3, <3>1, <3>2 DEF LineInv, Tx, TxIdle
    <2>5. CASE tx.st = "body"
      <3>1. PICK ones \in 0 .. 5 : ones = IF line[tx.i + 1] = 1 THEN tx.ones + 1 ELSE 0
        BY <2>3, <2>5 DEF LineInv
      <3>2. tx.i + 1 \in 0 .. Len(line)
        BY <2>3, <2>5 DEF LineInv
      <3>3. tx' = IF ones = 5 THEN Tx("stuff", tx.i + 1, ones)
                  ELSE IF tx.i + 1 = Len(line) THEN Tx("close", 0, 0) ELSE Tx("body", tx.i + 1, ones)
        BY <2>1, <2>5, <3>1 DEF NextTx, Onwards, Stuffs
      <3> QED
        BY <2>1, <2>2, <2>3, <3>2, <3>3 DEF LineInv, Tx, TxIdle
    <2>6. CASE tx.st = "stuff"
      BY <2>1, <2>2, <2>3, <2>6 DEF LineInv, NextTx, Tx, TxIdle, Onwards
    <2>7. CASE tx.st = "close"
      BY <2>1, <2>2, <2>3, <2>7 DEF LineInv, NextTx, Tx, TxIdle
    <2> QED
      BY <2>3, <2>4, <2>5, <2>6, <2>7
  <1>2. ASSUME NEW raw \in Bit, Noise(raw) PROVE LineInv'
    BY <1>2 DEF Noise, LineInv
  <1>3. ASSUME NEW f \in Frames, SendFrame(f) PROVE LineInv'
    BY <1>3, HdlcAssumption DEF SendFrame, LineInv, TxStart, TxIdle, Tx
  <1>4. CASE UNCHANGED linkVars
    BY <1>4 DEF linkVars, LineInv
  <1> QED
    BY <1>1, <1>2, <1>3, <1>4 DEF LinkNext, LinkStep

\* One step of the decoder.
LEMMA HdlcTyped ==
    ASSUME NEW d \in HdlcType, NEW bit \in Bit PROVE feed_bit(d, bit) \in HdlcType
  <1>1. ShiftIn(d.shift_reg, bit) \in [1 .. 8 -> Bit]
    BY DEF HdlcType, ShiftIn
  <1>2. Ones(d, bit) \in Nat
    BY DEF HdlcType, Ones
  <1>3. << >> \in Seq(Bit) /\ d.acc \in Seq(Bit) /\ Append(d.acc, bit) \in Seq(Bit)
    BY DEF HdlcType
  <1> QED
    BY <1>1, <1>2, <1>3 DEF feed_bit, Accumulate, Hdlc, HdlcType

LEMMA HdlcStep ==
    ASSUME HdlcInv, [LinkNext]_linkVars PROVE HdlcInv'
  <1>1. \A raw : Decoded(raw) \in Bit
    BY XorFacts DEF Decoded, Bit
  <1>2. ASSUME NEW raw, Hear(raw) PROVE HdlcInv'
    BY <1>1, <1>2, HdlcTyped DEF Hear, HdlcInv
  <1> QED
    BY <1>2 DEF LinkNext, LinkStep, SendBit, Noise, SendFrame, linkVars, HdlcInv

LEMMA FedShift ==
    ASSUME NEW d, NEW bit PROVE feed_bit(d, bit).shift_reg = ShiftIn(d.shift_reg, bit)
  BY DEF feed_bit, Accumulate, Hdlc

\* Five ones at most before a zero, or a one, make no flag.
LEMMA NoFlag ==
    ASSUME NEW d \in HdlcType, NEW bit \in Bit,
           bit = 1 \/ \E n \in 0 .. 5 : EndsWith(d, n)
    PROVE  ~IsFlag(d, bit)
  <1>1. CASE bit = 1
    BY <1>1 DEF IsFlag, ShiftIn, Flag
  <1>2. CASE \E n \in 0 .. 5 : EndsWith(d, n)
    <2>1. PICK n \in 0 .. 5 : d.shift_reg[8 - n] = 0
      BY <1>2 DEF EndsWith
    <2>2. PICK k \in 2 .. 7 : k = 7 - n
      BY <2>1
    <2>3. ShiftIn(d.shift_reg, bit)[k] = 0
      BY <2>1, <2>2 DEF ShiftIn
    <2>4. Flag[k] = 1
      BY DEF Flag
    <2> QED
      BY <2>3, <2>4 DEF IsFlag
  <1> QED
    BY <1>1, <1>2

LEMMA FullAt ==
    ASSUME NEW n \in Nat, NEW m \in Nat, n <= 8 * m + 7
    PROVE  (n % 8 = 7 /\ n \div 8 >= m) <=> n = 8 * m + 7
  OBVIOUS

\* A bit of the frame.
LEMMA TakesBit ==
    ASSUME NEW d \in HdlcType, NEW bit \in Bit, NEW bits, NEW n \in Nat,
           Holds(d, bits, n), bits[n + 1] = bit, ~IsFlag(d, bit),
           d.ones_count < 7, ~(bit = 0 /\ d.ones_count = 5)
    PROVE  /\ Holds(feed_bit(d, bit), bits, n + 1)
           /\ feed_bit(d, bit).ones_count = Ones(d, bit)
  <1>1. MAX_FRAME_LEN \in Nat /\ d.ones_count \in Nat
    BY HdlcAssumption DEF HdlcType
  <1>2. CASE n > Room
    <2>1. d.state = "Hunting"
      BY <1>1, <1>2 DEF Holds, Room
    <2>2. feed_bit(d, bit) = Hdlc("Hunting", ShiftIn(d.shift_reg, bit), Ones(d, bit), << >>)
      BY <1>1, <2>1 DEF feed_bit
    <2> QED
      BY <1>1, <1>2, <2>2 DEF Holds, Room, Hdlc
  <1>3. CASE n <= Room
    <2>1. d.state = "Receiving" /\ Len(d.acc) = n /\ \A k \in 1 .. n : d.acc[k] = bits[k]
      BY <1>3 DEF Holds
    <2>2. feed_bit(d, bit) = Accumulate(d, bit)
      BY <1>1, <2>1 DEF feed_bit
    <2>3. IsFull(d) <=> n = Room
      BY <1>1, <1>3, <2>1, FullAt DEF IsFull, FrameLen, Room
    <2>4. CASE n = Room
      BY <1>1, <2>2, <2>3, <2>4 DEF Accumulate, Holds, Hdlc, Room
    <2>5. CASE n < Room
      <3>1. feed_bit(d, bit) = Hdlc("Receiving", ShiftIn(d.shift_reg, bit), Ones(d, bit),
                                    Append(d.acc, bit))
        BY <1>1, <2>2, <2>3, <2>5 DEF Accumulate, Room
      <3>2. d.acc \in Seq(Bit)
        BY DEF HdlcType
      <3>3. /\ Len(Append(d.acc, bit)) = n + 1
            /\ \A k \in 1 .. n + 1 : Append(d.acc, bit)[k] = bits[k]
        BY <2>1, <3>2
      <3>4. n + 1 <= Room
        BY <1>1, <2>5 DEF Room
      <3> QED
        BY <3>1, <3>3, <3>4 DEF Holds, Hdlc
    <2> QED
      BY <1>1, <1>3, <2>4, <2>5 DEF Room
  <1> QED
    BY <1>1, <1>2, <1>3 DEF Room

\* A stuffed bit.
LEMMA DropsStuffed ==
    ASSUME NEW d \in HdlcType, NEW bits, NEW n \in Nat,
           Holds(d, bits, n), d.ones_count = 5, EndsWith(d, 5)
    PROVE  /\ Holds(feed_bit(d, 0), bits, n)
           /\ feed_bit(d, 0).ones_count = 0
  <1>1. ~IsFlag(d, 0)
    BY NoFlag DEF Bit
  <1>2. CASE d.state = "Hunting"
    BY <1>1, <1>2 DEF feed_bit, Ones, Hdlc, Holds
  <1>3. CASE d.state = "Receiving"
    BY <1>1, <1>3 DEF feed_bit, Hdlc, Holds
  <1> QED
    BY <1>2, <1>3 DEF HdlcType

-----------------------------------------------------------------------------
LEMMA NextIsBit ==
    ASSUME LineInv, tx # TxIdle PROVE NextBit(line, tx) \in Bit
  <1>1. line \in Seq(Bit) /\ tx.st \in {"flags", "body", "stuff", "close"}
    BY LineShape
  <1>2. tx.i \in Nat /\ (tx.st = "body" => tx.i + 1 \in 1 .. Len(line))
    BY <1>1 DEF LineInv
  <1>3. Flag \in [1 .. 8 -> Bit]
    BY DEF Flag, Bit
  <1>4. (tx.i % 8) + 1 \in 1 .. 8
    BY <1>2
  <1>5. CASE tx.st \in {"flags", "close"}
    <2>1. NextBit(line, tx) = Flag[(tx.i % 8) + 1]
      BY <1>5 DEF NextBit
    <2> QED
      BY <1>3, <1>4, <2>1
  <1>6. CASE tx.st = "body"
    <2>1. NextBit(line, tx) = line[tx.i + 1]
      BY <1>6 DEF NextBit
    <2> QED
      BY <1>1, <1>2, <1>6, <2>1
  <1>7. CASE tx.st = "stuff"
    BY <1>7 DEF NextBit, Bit
  <1> QED
    BY <1>1, <1>5, <1>6, <1>7

\* In step, the decoder is fed the bit that is sent.
LEMMA BitHeard ==
    ASSUME StepInv, LineInv, SendBit(0), clean >= InStepAfter
    PROVE  /\ hdlc' = feed_bit(hdlc, NextBit(line, tx))
           /\ received' = IF Yields(hdlc, NextBit(line, tx))
                          THEN Append(received, Yielded(hdlc)) ELSE received
  <1> DEFINE raw == Tapped(scrambler, NewLevel)
  <1> DEFINE b == NextBit(line, tx)
  <1>1. b \in Bit /\ 1 - b \in Bit
    BY NextIsBit DEF SendBit, Bit
  <1>2. raw \in Bit /\ Xor(raw, 0) = raw
    BY XorFacts DEF Tapped
  <1>3. Tapped(descrambler, raw) = NewLevel
    BY Descrambled, LinkAssumption DEF StepInv, InStepAfter, Enough
  <1>4. prev_nrzi = level /\ level \in Bit
    BY DEF StepInv
  <1>5. Xor(Tapped(descrambler, raw), prev_nrzi) = 1 - b
    BY <1>1, <1>3, <1>4, XorFacts DEF NewLevel
  <1>6. Decoded(Xor(raw, 0)) = b
    BY <1>1, <1>2, <1>5 DEF Decoded, Bit
  <1>7. Hear(Xor(raw, 0))
    BY DEF SendBit
  <1> QED
    BY <1>6, <1>7 DEF Hear

\* A bit of a flag moves into shift_reg.
LEMMA FlagShift ==
    ASSUME StepInv, LineInv, FlagInv, HdlcInv, NEW flip \in Bit, SendBit(flip),
           tx.st = "flags", NEW j \in 1 .. 8, j <= tx.i + 1, j <= clean' - InStepAfter
    PROVE  hdlc'.shift_reg[9 - j] = Flag[((tx.i + 1 - j) % 8) + 1]
  <1> USE LinkAssumption
  <1>1. flip = 0 /\ clean >= InStepAfter /\ j - 1 <= clean - InStepAfter /\ tx.i \in Nat
    BY DEF SendBit, StepInv, LineInv, InStepAfter, Enough, Bit
  <1>2. hdlc' = feed_bit(hdlc, NextBit(line, tx))
    BY <1>1, BitHeard
  <1>3. hdlc'.shift_reg = ShiftIn(hdlc.shift_reg, Flag[(tx.i % 8) + 1])
    BY <1>2, FedShift DEF NextBit
  <1>4. CASE j = 1
    <2>1. hdlc'.shift_reg[8] = Flag[(tx.i % 8) + 1]
      BY <1>3 DEF ShiftIn
    <2>2. 9 - j = 8 /\ tx.i + 1 - j = tx.i
      BY <1>1, <1>4
    <2> QED
      BY <2>1, <2>2
  <1>5. CASE j > 1
    <2>1. PICK h \in 1 .. 8 : h = j - 1 /\ h <= 7
      BY <1>5
    <2>2. hdlc.shift_reg[9 - h] = Flag[((tx.i - h) % 8) + 1]
      BY <1>1, <2>1 DEF FlagInv
    <2>3. hdlc'.shift_reg[8 - h] = hdlc.shift_reg[9 - h]
      <3>1. PICK k \in 1 .. 7 : k = 8 - h
        BY <2>1
      <3>2. hdlc'.shift_reg[k] = hdlc.shift_reg[k + 1]
        BY <1>3, <3>1 DEF ShiftIn
      <3>3. k + 1 = 9 - h
        BY <2>1, <3>1
      <3> QED
        BY <3>1, <3>2, <3>3
    <2>4. 9 - j = 8 - h /\ tx.i + 1 - j = tx.i - h
      BY <1>1, <2>1
    <2> QED
      BY <2>2, <2>3, <2>4
  <1> QED
    BY <1>4, <1>5

LEMMA FlagStep ==
    ASSUME StepInv, LineInv, FlagInv, HdlcInv, [LinkNext]_linkVars PROVE FlagInv'
  <1>1. ASSUME NEW flip \in Bit, SendBit(flip) PROVE FlagInv'
    <2> SUFFICES ASSUME tx'.st = "flags", NEW j \in 1 .. 8, j <= tx'.i, j <= clean' - InStepAfter
                 PROVE  hdlc'.shift_reg[9 - j] = Flag[((tx'.i - j) % 8) + 1]
      BY DEF FlagInv, InStepAfter
    <2>1. tx' = NextTx(line, tx) /\ tx.st \in {"flags", "body", "stuff", "close"}
      BY <1>1, LineShape DEF SendBit
    <2>2. tx.st = "flags" /\ tx'.i = tx.i + 1
      BY <2>1 DEF NextTx, Tx, TxIdle, Onwards
    <2>3. j <= tx.i + 1 /\ tx'.i - j = tx.i + 1 - j
      BY <2>2 DEF LineInv
    <2>4. hdlc'.shift_reg[9 - j] = Flag[((tx.i + 1 - j) % 8) + 1]
      BY <1>1, <2>2, <2>3, FlagShift
    <2> QED
      BY <2>3, <2>4
  <1>2. ASSUME NEW raw \in Bit, Noise(raw) PROVE FlagInv'
    BY <1>2 DEF Noise, FlagInv, TxIdle, Tx
  <1>3. ASSUME NEW f \in Frames, SendFrame(f) PROVE FlagInv'
    BY <1>3 DEF SendFrame, FlagInv, TxStart, Tx
  <1>4. CASE UNCHANGED linkVars
    BY <1>4 DEF linkVars, FlagInv, InStepAfter
  <1> QED
    BY <1>1, <1>2, <1>3, <1>4 DEF LinkNext, LinkStep

LEMMA FromEnd ==
    ASSUME NEW F \in Nat, NEW j \in 1 .. 8, F > 0
    PROVE  (8 * F - j) % 8 = 8 - j
  OBVIOUS

\* A flag that is heard in step is seen.
LEMMA FlagSeen ==
    ASSUME StepInv, LineInv, FlagInv, HdlcInv, SendBit(0),
           tx.st = "flags", NEW m \in Nat \ {0}, tx.i + 1 = 8 * m, clean >= InStepAfter + 7
    PROVE  /\ IsFlag(hdlc, NextBit(line, tx))
           /\ hdlc' = feed_bit(hdlc, NextBit(line, tx))
  <1>1. tx.i \in Nat /\ clean \in Nat /\ InStepAfter \in Nat /\ clean \in 0 .. Enough
    BY LinkAssumption DEF LineInv, StepInv, InStepAfter, Enough
  <1>2. clean' >= InStepAfter + 8
    BY <1>1 DEF SendBit, Enough
  <1>3. clean >= InStepAfter
    BY <1>1
  <1>4. hdlc' = feed_bit(hdlc, NextBit(line, tx))
    BY <1>3, BitHeard
  <1>5. ASSUME NEW k \in 1 .. 8 PROVE hdlc'.shift_reg[k] = Flag[k]
    <2>1. PICK j \in 1 .. 8 : j = 9 - k /\ k = 9 - j
      OBVIOUS
    <2>2. clean' \in Nat
      BY <1>1 DEF SendBit, Enough
    <2>3. j <= tx.i + 1 /\ j <= clean' - InStepAfter
      <3>1. tx.i + 1 >= 8
        OBVIOUS
      <3>2. \A c, n \in Nat : c >= n + 8 => 8 <= c - n /\ c - n \in Int
        OBVIOUS
      <3>3. 8 <= clean' - InStepAfter /\ clean' - InStepAfter \in Int
        BY <1>1, <1>2, <2>2, <3>2, Zenon
      <3> QED
        BY <1>1, <3>1, <3>3
    <2>4. hdlc'.shift_reg[9 - j] = Flag[((tx.i + 1 - j) % 8) + 1]
      BY <2>3, FlagShift DEF Bit
    <2>5. (8 * m - j) % 8 = 8 - j
      BY FromEnd
    <2>6. tx.i + 1 - j = 8 * m - j
      BY <1>1
    <2>7. 9 - j = k /\ ((tx.i + 1 - j) % 8) + 1 = k
      BY <2>1, <2>5, <2>6
    <2> QED
      BY <2>4, <2>7
  <1>6. hdlc'.shift_reg = ShiftIn(hdlc.shift_reg, NextBit(line, tx))
    BY <1>4, FedShift
  <1>7. ShiftIn(hdlc.shift_reg, NextBit(line, tx)) = Flag
    BY <1>5, <1>6 DEF ShiftIn, Flag
  <1> QED
    BY <1>4, <1>7 DEF IsFlag

\* The last flag before a frame opens it.
LEMMA Opens ==
    ASSUME StepInv, LineInv, FlagInv, HdlcInv, SendBit(0),
           tx.st = "flags", tx'.st = "body", clean' = Enough
    PROVE  hdlc' = Hdlc("Receiving", Flag, 0, << >>) /\ tx' = Tx("body", 0, 0)
  <1> USE LinkAssumption, HdlcAssumption
  <1>1. tx' = NextTx(line, tx) /\ tx.i \in Nat
    BY DEF SendBit, LineInv
  <1>2. tx.i + 1 = 8 * Flags /\ tx' = Tx("body", 0, 0)
    BY <1>1 DEF NextTx, Tx
  <1>3. clean >= InStepAfter + 7
    BY DEF SendBit, StepInv, InStepAfter, Enough
  <1>4. /\ IsFlag(hdlc, NextBit(line, tx))
        /\ hdlc' = feed_bit(hdlc, NextBit(line, tx))
    BY <1>2, <1>3, FlagSeen
  <1> QED
    BY <1>2, <1>4 DEF feed_bit, IsFlag

-----------------------------------------------------------------------------
\* What a frame's bits leave in shift_reg.
LEMMA EndsOnes ==
    ASSUME NEW d \in HdlcType, NEW n \in 0 .. 4, EndsWith(d, n), NEW b \in Bit
    PROVE  /\ b = 1 => EndsWith(feed_bit(d, b), n + 1)
           /\ b = 0 => EndsWith(feed_bit(d, b), 0)
  <1>1. feed_bit(d, b).shift_reg = ShiftIn(d.shift_reg, b)
    BY FedShift
  <1>2. ASSUME b = 1 PROVE EndsWith(feed_bit(d, b), n + 1)
    <2>1. ShiftIn(d.shift_reg, b)[8 - (n + 1)] = d.shift_reg[8 - n]
      <3>1. PICK k \in 3 .. 7 : k = 8 - (n + 1) /\ k + 1 = 8 - n
        OBVIOUS
      <3> QED
        BY <3>1 DEF ShiftIn
    <2>2. ASSUME NEW k \in 1 .. 8, k > 8 - (n + 1) PROVE ShiftIn(d.shift_reg, b)[k] = 1
      BY <1>2, <2>2 DEF ShiftIn, EndsWith
    <2> QED
      BY <1>1, <2>1, <2>2 DEF EndsWith
  <1>3. ASSUME b = 0 PROVE EndsWith(feed_bit(d, b), 0)
    BY <1>1, <1>3 DEF EndsWith, ShiftIn
  <1> QED
    BY <1>2, <1>3

LEMMA AfterLine ==
    ASSUME NEW s \in Seq(Bit)
    PROVE  /\ \A k \in 1 .. Len(s) : (s \o Flag)[k] = s[k]
           /\ \A k \in 1 .. 8 : (s \o Flag)[Len(s) + k] = Flag[k]
  <1>1. PICK F \in Seq(Bit) : F = Flag /\ Len(F) = 8
    <2>1. Flag \in Seq(Bit) /\ Len(Flag) = 8
      BY DEF Flag, Bit
    <2> QED
      BY <2>1, Zenon
  <1>2. /\ \A k \in 1 .. Len(s) : (s \o F)[k] = s[k]
        /\ \A k \in 1 .. 8 : (s \o F)[Len(s) + k] = F[k]
    <2>1. Len(s) \in Nat
      OBVIOUS
    <2>2. \A k \in 1 .. Len(s) + Len(F) :
            (s \o F)[k] = IF k <= Len(s) THEN s[k] ELSE F[k - Len(s)]
      BY ConcatProperties, Zenon
    <2>3. ASSUME NEW k \in 1 .. Len(s) PROVE (s \o F)[k] = s[k]
      <3>1. k \in 1 .. Len(s) + Len(F) /\ k <= Len(s)
        BY <1>1, <2>1
      <3> QED
        BY <2>2, <3>1, Zenon
    <2>4. ASSUME NEW k \in 1 .. 8 PROVE (s \o F)[Len(s) + k] = F[k]
      <3>1. PICK j \in 1 .. Len(s) + Len(F) :
                j = Len(s) + k /\ ~(j <= Len(s)) /\ j - Len(s) = k
        BY <1>1, <2>1
      <3>2. (s \o F)[j] = F[j - Len(s)]
        BY <2>2, <3>1
      <3> QED
        BY <3>1, <3>2, Zenon
    <2> QED
      BY <2>3, <2>4
  <1> QED
    BY <1>1, <1>2, Zenon

\* The data ends here: the closing flag follows.
LEMMA StartsClosing ==
    ASSUME NEW d \in HdlcType, NEW s \in Seq(Bit), Holds(d, s, Len(s))
    PROVE  Holds(d, s \o Flag, Len(s) + 0)
  <1>1. Len(s) + 0 = Len(s)
    OBVIOUS
  <1> QED
    BY <1>1, AfterLine DEF Holds

LEMMA HearBody ==
    ASSUME StepInv, LineInv, HdlcInv, SendBit(0), clean = Enough,
           tx.st = "body", Follows(hdlc, tx)
    PROVE  Follows(hdlc', tx') /\ received' = received
  <1> DEFINE b == line[tx.i + 1]
  <1> DEFINE ones == IF b = 1 THEN tx.ones + 1 ELSE 0
  <1>1. /\ line \in Seq(Bit) /\ Len(line) \in Nat
        /\ tx.i \in 0 .. Len(line) - 1 /\ tx.ones \in 0 .. 4
        /\ line' = line /\ tx' = NextTx(line, tx)
    BY LineShape DEF SendBit, LineInv
  <1>2. b \in Bit /\ NextBit(line, tx) = b /\ ones \in 0 .. 5
    BY <1>1 DEF NextBit
  <1>3. /\ hdlc' = feed_bit(hdlc, b)
        /\ received' = IF Yields(hdlc, b) THEN Append(received, Yielded(hdlc)) ELSE received
    BY <1>2, BitHeard, LinkAssumption DEF Enough, InStepAfter
  <1>4. hdlc \in HdlcType /\ hdlc' \in HdlcType
    BY <1>2, <1>3, HdlcTyped DEF HdlcInv
  <1>5. hdlc.ones_count = tx.ones /\ EndsWith(hdlc, tx.ones) /\ Holds(hdlc, line, tx.i)
    BY DEF Follows
  <1>6. ~IsFlag(hdlc, b)
    BY <1>1, <1>2, <1>4, <1>5, NoFlag
  <1>7. Holds(hdlc', line, tx.i + 1) /\ hdlc'.ones_count = Ones(hdlc, b)
    <2>1. tx.i \in Nat /\ hdlc.ones_count < 7 /\ hdlc.ones_count # 5
      BY <1>1, <1>5
    <2>2. PICK bit \in Bit : bit = b
      BY <1>2
    <2> HIDE DEF b
    <2>3. /\ Holds(feed_bit(hdlc, bit), line, tx.i + 1)
          /\ feed_bit(hdlc, bit).ones_count = Ones(hdlc, bit)
      <3>1. line[tx.i + 1] = bit /\ ~IsFlag(hdlc, bit)
        BY <1>6, <2>2 DEF b
      <3> QED
        BY <1>4, <1>5, <2>1, <3>1, TakesBit
    <2> QED
      BY <1>3, <2>2, <2>3
  <1>8. hdlc'.ones_count = ones
    BY <1>1, <1>5, <1>7 DEF Ones
  <1>9. EndsWith(hdlc', ones)
    BY <1>1, <1>2, <1>3, <1>4, <1>5, EndsOnes DEF Bit
  <1>10. tx' = IF ones = 5 THEN Tx("stuff", tx.i + 1, ones)
               ELSE IF tx.i + 1 = Len(line) THEN Tx("close", 0, 0)
               ELSE Tx("body", tx.i + 1, ones)
    BY <1>1 DEF NextTx, Onwards, Stuffs
  <1>11. received' = received
    BY <1>3, <1>6 DEF Yields
  <1>12. CASE tx'.st \in {"body", "stuff"}
    <2>1. tx'.i = tx.i + 1 /\ tx'.ones = ones
      BY <1>10, <1>12 DEF Tx
    <2>2. tx'.st # "close"
      BY <1>12
    <2>3. hdlc'.ones_count = tx'.ones /\ EndsWith(hdlc', tx'.ones) /\ Holds(hdlc', line, tx'.i)
      BY <1>7, <1>8, <1>9, <2>1
    <2> QED
      BY <1>11, <2>2, <2>3 DEF Follows
  <1>13. CASE tx'.st = "close"
    <2>1. tx.i + 1 = Len(line) /\ tx' = Tx("close", 0, 0) /\ ones \in 0 .. 4
      BY <1>2, <1>10, <1>13 DEF Tx
    <2>2. Holds(hdlc', line \o Flag, Len(line) + 0)
      BY <1>1, <1>4, <1>7, <2>1, StartsClosing
    <2>3. tx'.i = 0 /\ tx'.st = "close"
      BY <2>1 DEF Tx
    <2> QED
      BY <1>8, <1>9, <1>11, <2>1, <2>2, <2>3 DEF Follows
  <1> QED
    BY <1>10, <1>11, <1>12, <1>13 DEF Tx

LEMMA HearStuffed ==
    ASSUME StepInv, LineInv, HdlcInv, SendBit(0), clean = Enough,
           tx.st = "stuff", Follows(hdlc, tx)
    PROVE  Follows(hdlc', tx') /\ received' = received
  <1>1. /\ line \in Seq(Bit) /\ Len(line) \in Nat
        /\ tx.i \in 0 .. Len(line) /\ tx.ones = 5
        /\ line' = line /\ tx' = NextTx(line, tx)
    BY LineShape DEF SendBit, LineInv
  <1>2. NextBit(line, tx) = 0
    BY DEF NextBit
  <1>3. /\ hdlc' = feed_bit(hdlc, 0)
        /\ received' = IF Yields(hdlc, 0) THEN Append(received, Yielded(hdlc)) ELSE received
    BY <1>2, BitHeard, LinkAssumption DEF Enough, InStepAfter
  <1>4. hdlc \in HdlcType /\ hdlc' \in HdlcType
    BY <1>3, HdlcTyped DEF HdlcInv, Bit
  <1>5. hdlc.ones_count = 5 /\ EndsWith(hdlc, 5) /\ Holds(hdlc, line, tx.i)
    BY <1>1 DEF Follows
  <1>6. ~IsFlag(hdlc, 0)
    BY <1>4, <1>5, NoFlag DEF Bit
  <1>7. Holds(hdlc', line, tx.i) /\ hdlc'.ones_count = 0
    BY <1>1, <1>3, <1>4, <1>5, DropsStuffed
  <1>8. EndsWith(hdlc', 0)
    <2>1. hdlc'.shift_reg = ShiftIn(hdlc.shift_reg, 0)
      BY <1>3, FedShift
    <2>2. 8 - 0 = 8
      OBVIOUS
    <2> QED
      BY <2>1, <2>2 DEF EndsWith, ShiftIn
  <1>9. tx' = IF tx.i = Len(line) THEN Tx("close", 0, 0) ELSE Tx("body", tx.i, 0)
    BY <1>1 DEF NextTx, Onwards
  <1>10. received' = received
    BY <1>3, <1>6 DEF Yields
  <1>11. CASE tx.i = Len(line)
    <2>1. Holds(hdlc', line \o Flag, Len(line) + 0)
      BY <1>1, <1>4, <1>7, <1>11, StartsClosing
    <2> QED
      BY <1>1, <1>7, <1>8, <1>9, <1>10, <1>11, <2>1 DEF Follows, Tx
  <1>12. CASE tx.i # Len(line)
    BY <1>1, <1>7, <1>8, <1>9, <1>10, <1>12 DEF Follows, Tx
  <1> QED
    BY <1>11, <1>12

\* The first seven bits of the closing flag.
LEMMA HearClosing ==
    ASSUME StepInv, LineInv, HdlcInv, SendBit(0), clean = Enough,
           tx.st = "close", tx.i < 7, Follows(hdlc, tx)
    PROVE  Follows(hdlc', tx') /\ received' = received
  <1> DEFINE b == Flag[tx.i + 1]
  <1>1. /\ line \in Seq(Bit) /\ Len(line) \in Nat /\ tx.i \in 0 .. 6
        /\ line' = line /\ tx' = NextTx(line, tx)
    BY LineShape DEF SendBit, LineInv
  <1>2. b = (IF tx.i = 0 THEN 0 ELSE 1) /\ NextBit(line, tx) = b
    BY <1>1 DEF NextBit, Flag
  <1>3. /\ hdlc' = feed_bit(hdlc, b)
        /\ received' = IF Yields(hdlc, b) THEN Append(received, Yielded(hdlc)) ELSE received
    BY <1>2, BitHeard, LinkAssumption DEF Enough, InStepAfter
  <1>4. hdlc \in HdlcType /\ hdlc' \in HdlcType /\ b \in Bit
    BY <1>2, <1>3, HdlcTyped DEF HdlcInv, Bit
  <1>5. Holds(hdlc, line \o Flag, Len(line) + tx.i)
    BY DEF Follows
  <1>6. tx' = Tx("close", tx.i + 1, 0)
    BY <1>1 DEF NextTx
  <1>7. (line \o Flag)[Len(line) + tx.i + 1] = b
    <2>1. PICK k \in 1 .. 8 : k = tx.i + 1 /\ Len(line) + tx.i + 1 = Len(line) + k
      BY <1>1
    <2>2. (line \o Flag)[Len(line) + k] = Flag[k]
      BY <1>1, AfterLine, Zenon
    <2> QED
      BY <2>1, <2>2
  <1>8. /\ ~IsFlag(hdlc, b)
        /\ hdlc.ones_count < 7 /\ ~(b = 0 /\ hdlc.ones_count = 5)
        /\ Ones(hdlc, b) = tx.i
    <2>1. CASE tx.i = 0
      <3>1. PICK n \in 0 .. 4 : hdlc.ones_count = n /\ EndsWith(hdlc, n)
        BY <2>1 DEF Follows
      <3>2. ~IsFlag(hdlc, b)
        BY <1>4, <3>1, NoFlag
      <3> QED
        BY <1>2, <2>1, <3>1, <3>2 DEF Ones
    <2>2. CASE tx.i > 0
      <3>1. hdlc.ones_count = tx.i - 1 /\ b = 1
        BY <1>2, <2>2 DEF Follows
      <3>2. ~IsFlag(hdlc, b)
        BY <1>4, <3>1, NoFlag
      <3> QED
        BY <1>1, <3>1, <3>2 DEF Ones
    <2> QED
      BY <1>1, <2>1, <2>2
  <1>9. Holds(hdlc', line \o Flag, Len(line) + tx.i + 1) /\ hdlc'.ones_count = tx.i
    <2>1. PICK n \in Nat : n = Len(line) + tx.i
      BY <1>1
    <2> QED
      BY <1>3, <1>4, <1>5, <1>7, <1>8, <2>1, TakesBit
  <1>10. hdlc'.shift_reg = ShiftIn(hdlc.shift_reg, b)
    BY <1>3, FedShift
  <1>11. ASSUME NEW k \in 1 .. tx.i + 1 PROVE hdlc'.shift_reg[8 - (tx.i + 1) + k] = Flag[k]
    <2>1. CASE k = tx.i + 1
      <3>1. 8 - (tx.i + 1) + k = 8
        BY <1>1, <2>1
      <3> QED
        BY <1>10, <2>1, <3>1 DEF ShiftIn
    <2>2. CASE k < tx.i + 1
      <3>1. PICK m \in 1 .. 7 : m = 8 - (tx.i + 1) + k /\ m + 1 = 8 - tx.i + k
        <4>1. PICK j \in 0 .. 7 : j = tx.i
          BY <1>1
        <4>2. k \in 1 .. j /\ k \in Int
          BY <2>2, <4>1
        <4>3. /\ 8 - (j + 1) + k \in 1 .. 7
              /\ (8 - (j + 1) + k) + 1 = 8 - j + k
          BY <4>2
        <4> QED
          BY <4>1, <4>3
      <3>2. hdlc.shift_reg[8 - tx.i + k] = Flag[k]
        <4>1. tx.i > 0 /\ k \in 1 .. tx.i
          BY <1>1, <2>2
        <4> QED
          BY <4>1 DEF Follows
      <3>3. ShiftIn(hdlc.shift_reg, b)[m] = hdlc.shift_reg[m + 1]
        BY <3>1 DEF ShiftIn
      <3> QED
        BY <1>10, <3>1, <3>2, <3>3
    <2> QED
      BY <1>1, <2>1, <2>2
  <1>12. received' = received
    BY <1>3, <1>8 DEF Yields
  <1>13. /\ tx'.st = "close" /\ tx'.i = tx.i + 1 /\ tx'.i # 0 /\ tx'.i - 1 = tx.i
         /\ Len(line) + tx'.i = Len(line) + tx.i + 1
    BY <1>1, <1>6 DEF Tx
  <1> QED
    BY <1>9, <1>11, <1>12, <1>13 DEF Follows

LEMMA Eighth ==
    ASSUME NEW n \in Nat, n % 8 = 0
    PROVE  /\ (n + 7) \div 8 \in Nat /\ 8 * ((n + 7) \div 8) = n
           /\ 8 * ((n + 7) \div 8 - 2) = n - 16
  OBVIOUS

\* The last one: the frame is complete.
LEMMA HearLast ==
    ASSUME StepInv, LineInv, HdlcInv, SendBit(0), clean = Enough,
           tx.st = "close", tx.i = 7, Follows(hdlc, tx)
    PROVE  /\ tx' = TxIdle
           /\ received' = IF FitsDecoder THEN Append(received, Data) ELSE received
  <1> USE HdlcAssumption
  <1>1. /\ line \in Seq(Bit) /\ Len(line) \in Nat /\ Len(line) % 8 = 0
        /\ Len(line) >= 16 /\ Checked(line)
        /\ tx' = NextTx(line, tx)
    BY LineShape DEF SendBit
  <1>2. NextBit(line, tx) = 0
    BY DEF NextBit, Flag
  <1>3. received' = IF Yields(hdlc, 0) THEN Append(received, Yielded(hdlc)) ELSE received
    BY <1>2, BitHeard, LinkAssumption DEF Enough, InStepAfter
  <1>4. tx' = TxIdle
    BY <1>1 DEF NextTx
  <1>5. IsFlag(hdlc, 0)
    <2>1. ASSUME NEW k \in 1 .. 7 PROVE hdlc.shift_reg[k + 1] = Flag[k]
      <3>1. 8 - 7 + k = k + 1
        OBVIOUS
      <3>2. tx.i > 0 /\ k \in 1 .. tx.i
        OBVIOUS
      <3>3. hdlc.shift_reg[8 - tx.i + k] = Flag[k]
        BY <3>2 DEF Follows
      <3> QED
        BY <3>1, <3>3
    <2> QED
      BY <2>1 DEF IsFlag, ShiftIn, Flag
  <1>6. Holds(hdlc, line \o Flag, Len(line) + 7)
    BY DEF Follows
  <1>7. FitsDecoder <=> Len(line) >= 8 * MIN_FRAME_LEN /\ Len(line) + 7 <= Room
    BY <1>1 DEF FitsDecoder, Room
  <1>8. CASE ~FitsDecoder
    <2>1. ASSUME ~(Len(line) + 7 <= Room) PROVE ~Yields(hdlc, 0)
      BY <1>6, <2>1 DEF Holds, Yields
    <2>2. ASSUME Len(line) + 7 <= Room, Len(line) < 8 * MIN_FRAME_LEN PROVE ~Yields(hdlc, 0)
      <3>1. Len(hdlc.acc) = Len(line) + 7
        BY <1>6, <2>2 DEF Holds
      <3>2. 8 * FrameLen(hdlc) = Len(line) /\ FrameLen(hdlc) \in Nat
        BY <1>1, <3>1, Eighth DEF FrameLen
      <3>3. ~(FrameLen(hdlc) >= MIN_FRAME_LEN)
        BY <2>2, <3>2
      <3> QED
        BY <3>3 DEF Yields
    <2>3. ~(Len(line) + 7 <= Room) \/ Len(line) < 8 * MIN_FRAME_LEN
      BY <1>1, <1>7, <1>8
    <2>4. ~Yields(hdlc, 0)
      BY <2>1, <2>2, <2>3, Zenon
    <2> QED
      BY <1>3, <1>4, <1>8, <2>4
  <1>9. CASE FitsDecoder
    <2>1. /\ hdlc.state = "Receiving" /\ Len(hdlc.acc) = Len(line) + 7
          /\ \A k \in 1 .. Len(line) + 7 : hdlc.acc[k] = (line \o Flag)[k]
      BY <1>6, <1>7, <1>9 DEF Holds
    <2>2. 8 * FrameLen(hdlc) = Len(line) /\ 8 * (FrameLen(hdlc) - 2) = Len(line) - 16
      BY <1>1, <2>1, Eighth DEF FrameLen
    <2>3. FrameLen(hdlc) >= MIN_FRAME_LEN
      <3>1. Len(line) >= 8 * MIN_FRAME_LEN
        BY <1>7, <1>9
      <3> QED
        BY <1>1, <2>1, <2>2, <3>1, Eighth DEF FrameLen
    <2>4. ASSUME NEW k \in 1 .. Len(line) PROVE hdlc.acc[k] = line[k]
      <3>1. (line \o Flag)[k] = line[k]
        BY <1>1, AfterLine, Zenon
      <3>2. k \in 1 .. Len(line) + 7
        BY <1>1
      <3> QED
        BY <2>1, <3>1, <3>2, Zenon
    <2>5. ASSUME NEW n \in 0 .. Len(line) PROVE SubSeq(hdlc.acc, 1, n) = SubSeq(line, 1, n)
      <3>1. \A k \in 1 .. n : hdlc.acc[k] = line[k] /\ line[k] \in Bit
        BY <1>1, <2>4
      <3>2. /\ SubSeq(hdlc.acc, 1, n) \in Seq(Bit) /\ SubSeq(line, 1, n) \in Seq(Bit)
            /\ Len(SubSeq(hdlc.acc, 1, n)) = n /\ Len(SubSeq(line, 1, n)) = n
            /\ \A k \in 1 .. n : SubSeq(hdlc.acc, 1, n)[k] = SubSeq(line, 1, n)[k]
        BY <1>1, <3>1, SubSeqProperties
      <3> QED
        BY <3>2, SeqEqual
    <2>6. SubSeq(line, 1, Len(line)) = line
      <3>1. /\ SubSeq(line, 1, Len(line)) \in Seq(Bit)
            /\ Len(SubSeq(line, 1, Len(line))) = Len(line)
            /\ \A k \in 1 .. Len(line) : SubSeq(line, 1, Len(line))[k] = line[k]
        BY <1>1, SubSeqProperties
      <3> QED
        BY <1>1, <3>1, SeqEqual
    <2>7. Yields(hdlc, 0)
      <3>1. SubSeq(hdlc.acc, 1, Len(line)) = line
        BY <1>1, <2>5, <2>6
      <3>2. Checked(SubSeq(hdlc.acc, 1, 8 * FrameLen(hdlc)))
        BY <1>1, <2>2, <3>1, Zenon
      <3> QED
        BY <1>5, <2>1, <2>3, <3>2 DEF Yields
    <2>8. Yielded(hdlc) = Data
      BY <1>1, <2>2, <2>5 DEF Yielded, Data
    <2> QED
      BY <1>3, <1>4, <1>9, <2>7, <2>8
  <1> QED
    BY <1>8, <1>9

-----------------------------------------------------------------------------
\* A bit of a frame that was heard so far.
LEMMA HearBit ==
    ASSUME LinkInv, NEW flip \in Bit, SendBit(flip), intact, intact'
    PROVE  /\ flip = 0 /\ clean = Enough /\ clean' = Enough /\ Follows(hdlc', tx')
           /\ tx'.st # "flags"
           /\ received' = IF Closing(tx) /\ FitsDecoder THEN Append(received, Data)
                          ELSE received
  <1> USE DEF LinkInv
  <1>1. clean = Enough /\ tx.st \in {"body", "stuff", "close"} /\ Follows(hdlc, tx)
    BY LineShape DEF HearInv, SendBit
  <1>2. flip = 0 /\ clean' = Enough
    <2>1. tx.st # "flags"
      BY <1>1
    <2>2. intact' = (intact /\ flip = 0)
      BY <2>1 DEF SendBit
    <2>3. flip = 0
      BY <2>2
    <2>4. clean' = IF clean < Enough THEN clean + 1 ELSE clean
      BY <2>3 DEF SendBit
    <2> QED
      BY <1>1, <2>3, <2>4, LinkAssumption DEF Enough, InStepAfter
  <1>3. tx'.st # "flags"
    BY <1>1 DEF SendBit, NextTx, Onwards, Tx, TxIdle
  <1>4. CASE tx.st = "body"
    BY <1>1, <1>2, <1>3, <1>4, HearBody DEF Closing
  <1>5. CASE tx.st = "stuff"
    BY <1>1, <1>2, <1>3, <1>5, HearStuffed DEF Closing
  <1>6. CASE tx.st = "close" /\ tx.i # 7
    <2>1. tx.i < 7
      BY <1>6 DEF LineInv
    <2> QED
      BY <1>1, <1>2, <1>3, <1>6, <2>1, HearClosing DEF Closing
  <1>7. CASE tx.st = "close" /\ tx.i = 7
    <2>1. /\ tx' = TxIdle
          /\ received' = IF FitsDecoder THEN Append(received, Data) ELSE received
      BY <1>1, <1>2, <1>7, HearLast
    <2> QED
      BY <1>1, <1>2, <1>3, <1>7, <2>1 DEF Closing, Follows, TxIdle, Tx
  <1> QED
    BY <1>1, <1>4, <1>5, <1>6, <1>7

LEMMA HearStep ==
    ASSUME LinkInv, [LinkNext]_linkVars PROVE HearInv'
  <1> USE DEF LinkInv
  <1>1. ASSUME NEW flip \in Bit, SendBit(flip) PROVE HearInv'
    <2> SUFFICES ASSUME intact' PROVE HearInv'
      BY DEF HearInv
    <2>1. line' = line
      BY <1>1 DEF SendBit
    <2>2. CASE intact
      <3>1. clean' = Enough /\ tx'.st # "flags" /\ Follows(hdlc', tx')
        BY <1>1, <2>2, HearBit
      <3> QED
        BY <2>1, <3>1 DEF HearInv, Follows, Enough, InStepAfter
    <2>3. CASE ~intact
      <3>1. tx.st = "flags" /\ tx'.st = "body" /\ clean' = Enough
        BY <1>1, <2>3 DEF SendBit
      <3>2. flip = 0
        BY <1>1, <3>1, LinkAssumption DEF SendBit, Bit, Enough, InStepAfter
      <3>3. hdlc' = Hdlc("Receiving", Flag, 0, << >>) /\ tx' = Tx("body", 0, 0)
        BY <1>1, <3>1, <3>2, Opens
      <3>4. Follows(hdlc', tx')
        <4>1. EndsWith(hdlc', 0)
          BY <3>3 DEF EndsWith, Hdlc, Flag
        <4>2. Holds(hdlc', line, 0)
          BY <3>3, HdlcAssumption DEF Holds, Hdlc, Room
        <4> QED
          BY <3>3, <4>1, <4>2 DEF Follows, Hdlc, Tx
      <3> QED
        BY <2>1, <3>1, <3>4 DEF HearInv, Follows, Enough, InStepAfter
    <2> QED
      BY <2>2, <2>3
  <1>2. ASSUME NEW raw \in Bit, Noise(raw) PROVE HearInv'
    BY <1>2 DEF Noise, HearInv
  <1>3. ASSUME NEW f \in Frames, SendFrame(f) PROVE HearInv'
    BY <1>3 DEF SendFrame, HearInv
  <1>4. CASE UNCHANGED linkVars
    BY <1>4 DEF linkVars, HearInv, Follows, Enough, InStepAfter
  <1> QED
    BY <1>1, <1>2, <1>3, <1>4 DEF LinkNext, LinkStep

LEMMA LinkInitial == LinkInit => LinkInv
  <1> SUFFICES ASSUME LinkInit PROVE LinkInv
    OBVIOUS
  <1>1. HdlcInv
    BY DEF LinkInit, HdlcInv, HdlcType, NewHdlc, Hdlc, Bit
  <1>2. LineInv /\ FlagInv /\ HearInv
    BY DEF LinkInit, LineInv, FlagInv, HearInv, TxIdle, Tx
  <1> QED
    BY <1>1, <1>2, StepInit DEF LinkInv

\* For any frames, any buffer and any scrambler: an undisturbed frame is
\* returned at the end of its closing flag if it is neither too short nor too
\* long for the decoder, and nothing else is returned until then.
THEOREM HeardExactlyAlways == LinkSpec => HeardExactly
  <1>1. LinkInit => LinkInv
    BY LinkInitial
  <1>2. LinkInv /\ [LinkNext]_linkVars => LinkInv'
    BY StepStep, LineStep, FlagStep, HearStep, HdlcStep DEF LinkInv
  <1>3. ASSUME LinkInv, [LinkNext]_linkVars
        PROVE  [LinkStep /\ intact /\ intact' =>
                  received' = IF Closing(tx) /\ FitsDecoder THEN Append(received, Data)
                              ELSE received]_linkVars
    <2> SUFFICES ASSUME LinkStep, intact, intact'
                 PROVE  received' = IF Closing(tx) /\ FitsDecoder THEN Append(received, Data)
                                    ELSE received
      OBVIOUS
    <2>1. PICK flip \in Bit : SendBit(flip)
      BY DEF LinkStep, Noise
    <2> QED
      BY <1>3, <2>1, HearBit
  <1> QED
    BY <1>1, <1>2, <1>3, PTL DEF LinkSpec, HeardExactly

-----------------------------------------------------------------------------
(* HostToAir *)

\* The function Expected is defined by, and its value.
HeardOf(frames, f, k) ==
    IF k = 0 THEN << >>
    ELSE IF Receivable(frames[k]) THEN Append(f[k - 1], OnAir(frames[k]))
    ELSE f[k - 1]
Heard(frames, f, n) == f = [k \in 0 .. n |-> HeardOf(frames, f, k)]

LEMMA HeardExists ==
    ASSUME NEW s, NEW n \in Nat
    PROVE  \E f : Heard(s, f, n)
<1>. DEFINE T == {m \in Nat : ~\E f : Heard(s, f, m)}
<1>1. ASSUME T # {} PROVE FALSE
  <2>1. PICK m \in T : \A k \in T : ~(k < m)
    BY <1>1, Least
  <2>2. m # 0
    <3>1. Heard(s, [k \in 0 .. 0 |-> << >>], 0)
      BY DEF Heard, HeardOf
    <3>. QED
      BY <2>1, <3>1
  <2>3. m - 1 \in Nat /\ m - 1 \notin T
    BY <2>1, <2>2
  <2>4. PICK f : Heard(s, f, m - 1)
    BY <2>3
  <2>. DEFINE g == [k \in 0 .. m |-> IF k = m THEN HeardOf(s, f, m) ELSE f[k]]
  <2>5. Heard(s, g, m)
    <3>1. \A k \in 0 .. m : g[k] = HeardOf(s, g, k)
      <4>. SUFFICES ASSUME NEW k \in 0 .. m PROVE g[k] = HeardOf(s, g, k)
        OBVIOUS
      <4>1. k # 0 => g[k - 1] = f[k - 1]
        OBVIOUS
      <4>2. HeardOf(s, g, k) = HeardOf(s, f, k)
        BY <4>1 DEF HeardOf
      <4>3. k # m => f[k] = HeardOf(s, f, k)
        BY <2>4 DEF Heard
      <4>. QED
        BY <4>2, <4>3
    <3>. QED
      BY <3>1 DEF Heard
  <2>. QED
    BY <2>1, <2>5
<1>. QED
  BY <1>1

\* Its value depends on the frames sent so far, and on nothing else.
LEMMA HeardSame ==
    ASSUME NEW s, NEW t, NEW n \in Nat, NEW m \in Nat, NEW f, NEW g,
           Heard(s, f, n), Heard(t, g, m),
           NEW j \in Nat, j <= n, j <= m, \A k \in 1 .. j : s[k] = t[k]
    PROVE  f[j] = g[j]
<1>. DEFINE T == {k \in 0 .. j : f[k] # g[k]}
<1>1. ASSUME T # {} PROVE FALSE
  <2>1. PICK k \in T : \A i \in T : ~(i < k)
    <3>1. T \in SUBSET Nat
      OBVIOUS
    <3>. HIDE DEF T
    <3>. QED
      BY <1>1, <3>1, Least
  <2>2. k \in 0 .. j /\ k \in 0 .. n /\ k \in 0 .. m
    OBVIOUS
  <2>3. f[k] = HeardOf(s, f, k) /\ g[k] = HeardOf(t, g, k)
    BY <2>2 DEF Heard
  <2>4. k # 0 => f[k - 1] = g[k - 1] /\ s[k] = t[k]
    BY <2>1, <2>2
  <2>5. HeardOf(s, f, k) = HeardOf(t, g, k)
    BY <2>4 DEF HeardOf
  <2>. QED
    BY <2>3, <2>5
<1>. QED
  BY <1>1

LEMMA ExpectedIs ==
    ASSUME NEW s, NEW n \in Nat
    PROVE  \E f : Heard(s, f, n) /\ Expected(s, n) = f[n]
<1>. DEFINE f == CHOOSE f : Heard(s, f, n)
<1>1. Heard(s, f, n)
  BY HeardExists
<1>2. Expected(s, n) = f[n]
  BY DEF Expected, Heard, HeardOf
<1>. QED
  BY <1>1, <1>2

\* What another station is to hear of no frame, and of one frame more.
LEMMA ExpectedGrows ==
    ASSUME NEW s, NEW n \in Nat
    PROVE  /\ Expected(s, 0) = << >>
           /\ Expected(s, n + 1) = IF Receivable(s[n + 1])
                                   THEN Append(Expected(s, n), OnAir(s[n + 1]))
                                   ELSE Expected(s, n)
<1>1. Expected(s, 0) = << >>
  <2>1. PICK f : Heard(s, f, 0) /\ Expected(s, 0) = f[0]
    BY ExpectedIs
  <2>. QED
    BY <2>1 DEF Heard, HeardOf
<1>2. PICK f : Heard(s, f, n) /\ Expected(s, n) = f[n]
  BY ExpectedIs
<1>3. n + 1 \in Nat
  OBVIOUS
<1>4. PICK g : Heard(s, g, n + 1) /\ Expected(s, n + 1) = g[n + 1]
  BY <1>3, ExpectedIs
<1>5. f[n] = g[n]
  BY <1>2, <1>3, <1>4, HeardSame
<1>6. g[n + 1] = HeardOf(s, g, n + 1)
  BY <1>4 DEF Heard
<1>7. HeardOf(s, g, n + 1) = IF Receivable(s[n + 1]) THEN Append(g[n], OnAir(s[n + 1]))
                             ELSE g[n]
  <2>1. n + 1 # 0 /\ (n + 1) - 1 = n
    OBVIOUS
  <2>. QED
    BY <2>1 DEF HeardOf
<1>. QED
  BY <1>1, <1>2, <1>4, <1>5, <1>6, <1>7

LEMMA ExpectedSame ==
    ASSUME NEW s, NEW t, NEW n \in Nat, \A k \in 1 .. n : s[k] = t[k]
    PROVE  Expected(s, n) = Expected(t, n)
<1>1. PICK f : Heard(s, f, n) /\ Expected(s, n) = f[n]
  BY ExpectedIs
<1>2. PICK g : Heard(t, g, n) /\ Expected(t, n) = g[n]
  BY ExpectedIs
<1>. QED
  BY <1>1, <1>2, HeardSame

-----------------------------------------------------------------------------
\* What a receiver can have collected (a bits) after i bits of flags, when it
\* sees those that end after the first e.
Collected(a, n, i, e) ==
    /\ i - (i % 8) >= e => a <= i % 8
    /\ ~(i - (i % 8) >= e) => a <= n + i

\* The queue holds what was accepted and not begun.
QueueInv ==
    /\ accepted \in Seq(Payloads) /\ tx_queue \in Seq(Payloads)
    /\ Begun \in Nat /\ Len(accepted) = Begun + Len(tx_queue)
    /\ \A k \in 1 .. Len(tx_queue) : tx_queue[k] = accepted[Begun + k]
    /\ Len(tx_queue) <= TX_QUEUE_SIZE
LossInv == ~overrun => accepted = sent

\* What is known of the sender, and of the receiver as long as no bit was turned
\* over: it comes into step in the flags, and what it heard before is too short
\* to be a frame; from then on it sees every flag.
SenderInv ==
    /\ count_sent \in 0 .. Len(accepted) /\ noise \in 0 .. MaxNoise /\ flips \in Nat
    /\ tx # TxIdle => count_sent > 0 /\ line = WithChecksum(OnAir(accepted[count_sent]))
ReceiverInv ==
    flips = 0 =>
      /\ received = Expected(accepted, Transmitted)
      /\ tx.st = "flags" => tx.i <= clean \/ clean = Enough
      /\ tx.st = "idle" => Len(hdlc.acc) <= noise
      /\ tx.st = "flags" => Collected(Len(hdlc.acc), noise, tx.i, Enough)
      /\ tx.st \in {"body", "stuff", "close"} => intact
AirInv == IInv /\ LinkInv /\ QueueInv /\ LossInv /\ SenderInv /\ ReceiverInv

\* A bit more is at most a bit more.
LEMMA AccGrows ==
    ASSUME NEW d \in HdlcType, NEW bit
    PROVE  /\ Len(feed_bit(d, bit).acc) <= Len(d.acc) + 1
           /\ IsFlag(d, bit) => Len(feed_bit(d, bit).acc) = 0
<1>1. d.acc \in Seq(Bit) /\ Len(d.acc) \in Nat /\ Len(Append(d.acc, bit)) = Len(d.acc) + 1
      /\ Len(<< >>) = 0
  BY DEF HdlcType
<1>2. feed_bit(d, bit).acc \in {<< >>, d.acc, Append(d.acc, bit)}
  BY DEF feed_bit, Accumulate, Hdlc
<1>3. IsFlag(d, bit) => feed_bit(d, bit).acc = << >>
  BY DEF feed_bit, Hdlc
<1>. QED
  BY <1>1, <1>2, <1>3

\* Too few bits make no frame.
LEMMA TooShort ==
    ASSUME HdlcInv, Len(hdlc.acc) < 8 * MIN_FRAME_LEN, NEW bit
    PROVE  ~Yields(hdlc, bit)
<1>1. Len(hdlc.acc) \in Nat
  BY DEF HdlcInv, HdlcType
<1>2. \A n \in Nat, m \in Nat : n < 8 * m => ~(n \div 8 >= m)
  OBVIOUS
<1>3. ~(FrameLen(hdlc) >= MIN_FRAME_LEN)
  BY <1>1, <1>2, HdlcAssumption DEF FrameLen
<1>. QED
  BY <1>3 DEF Yields

\* The data of the line is the frame.
LEMMA DataSent ==
    ASSUME NEW f \in Frames, line = WithChecksum(f)
    PROVE  Data = f
<1>1. f \in Seq(Bit) /\ Len(f) \in Nat
  BY FrameAssumption
<1>2. line \in Seq(Bit) /\ Len(line) = Len(f) + 16
  BY LineFacts
<1>3. \A k \in 1 .. Len(f) : line[k] = f[k]
  <2>1. PICK c \in Seq(Bit) : line = f \o c
    <3>1. crc16_ccitt(f) \in Seq(Bit)
      <4>1. crc16_ccitt(f) \in [1 .. 16 -> Bit]
        BY ChecksumAssumption
      <4>. QED
        BY <4>1, SeqDef
    <3>. QED
      BY <3>1 DEF WithChecksum
  <2>. QED
    BY <1>1, <2>1, ConcatProperties
<1>4. /\ SubSeq(line, 1, Len(f)) \in Seq(Bit) /\ Len(SubSeq(line, 1, Len(f))) = Len(f)
      /\ \A k \in 1 .. Len(f) : SubSeq(line, 1, Len(f))[k] = f[k]
  <2>1. \A k \in 1 .. Len(f) : line[k] \in Bit
    BY <1>1, <1>2
  <2>. QED
    BY <1>1, <1>2, <1>3, <2>1, SubSeqProperties
<1>5. SubSeq(line, 1, Len(f)) = f
  BY <1>1, <1>4, SeqEqual
<1>6. Len(line) - 16 = Len(f)
  BY <1>1, <1>2
<1>. QED
  BY <1>5, <1>6 DEF Data

\* The closing flag clears the decoder.
LEMMA ClosingClears ==
    ASSUME StepInv, LineInv, HdlcInv, HearInv, intact, SendBit(0), clean = Enough, Closing(tx)
    PROVE  Len(hdlc'.acc) = 0
<1>1. tx.st = "close" /\ tx.i = 7 /\ Follows(hdlc, tx)
  BY DEF Closing, HearInv
<1>2. NextBit(line, tx) = 0
  BY <1>1 DEF NextBit, Flag
<1>3. hdlc' = feed_bit(hdlc, 0)
  BY <1>2, BitHeard, LinkAssumption DEF Enough, InStepAfter
<1>4. IsFlag(hdlc, 0)
  <2>1. ASSUME NEW k \in 1 .. 7 PROVE hdlc.shift_reg[k + 1] = Flag[k]
    <3>1. 8 - 7 + k = k + 1
      OBVIOUS
    <3>2. tx.i > 0 /\ k \in 1 .. tx.i
      BY <1>1
    <3>3. hdlc.shift_reg[8 - tx.i + k] = Flag[k]
      BY <1>1, <3>2 DEF Follows
    <3>. QED
      BY <1>1, <3>1, <3>3
  <2>. QED
    BY <2>1 DEF IsFlag, ShiftIn, Flag
<1>. QED
  BY <1>3, <1>4, AccGrows DEF HdlcInv

\* What is left of a frame that the engine cuts.
LEMMA CutLen ==
    ASSUME NEW p \in Seq(Byte), p # << >>
    PROVE  /\ Len(Cut(p)) \in Nat
           /\ Len(Cut(p)) = IF Len(p) <= MAX_FRAME_LEN THEN Len(p) - 1 ELSE MAX_FRAME_LEN
<1>1. PICK n \in Nat \ {0} : n = Len(p)
  OBVIOUS
<1>2. PICK m \in Nat : m = MAX_FRAME_LEN
  BY HdlcAssumption
<1>3. PICK e \in Nat : e = (IF n <= m THEN n ELSE m + 1) /\ e <= n
  BY <1>1, <1>2
<1>4. SubSeq(p, 2, e) \in Seq(Byte) /\ Len(SubSeq(p, 2, e)) = e - 1
  <2>1. \A k \in 2 .. e : p[k] \in Byte
    BY <1>1, <1>3
  <2>2. e >= 1
    BY <1>1, <1>2, <1>3
  <2>. QED
    BY <1>1, <1>3, <2>1, <2>2, SubSeqProperties
<1>5. Cut(p) = SubSeq(p, 2, e)
  BY <1>1, <1>2, <1>3 DEF Cut
<1>. QED
  BY <1>1, <1>2, <1>3, <1>4, <1>5

LEMMA AirInitial == AirInit => AirInv
<1>. SUFFICES ASSUME AirInit PROVE AirInv
  OBVIOUS
<1>1. IInv /\ LinkInv
  BY InitIInv, LinkInitial DEF AirInit
<1>2. sent = << >> /\ count_sent = 0 /\ noise = 0 /\ flips = 0 /\ tx = TxIdle /\ received = << >>
      /\ hdlc.acc = << >> /\ clean = 0 /\ tx_queue = << >> /\ accepted = << >> /\ overrun = FALSE
  BY DEF AirInit, Init, LinkInit, NewHdlc, Hdlc
<1>3. tx.st = "idle" /\ tx.i = 0
  BY <1>2 DEF TxIdle, Tx
<1>4. Len(accepted) = 0 /\ Len(tx_queue) = 0 /\ accepted \in Seq(Payloads) /\ tx_queue \in Seq(Payloads)
  BY <1>2
<1>5. QueueInv /\ LossInv
  <2>1. QueueInv
    BY <1>2, <1>3, <1>4, PathAssumption DEF QueueInv, Begun
  <2>2. LossInv
    BY <1>2 DEF LossInv
  <2>. QED
    BY <2>1, <2>2
<1>6. SenderInv
  BY <1>2, <1>4, LinkAssumption DEF SenderInv
<1>7. received = Expected(accepted, Transmitted)
  BY <1>2, ExpectedGrows DEF Transmitted
<1>. QED
  BY <1>1, <1>2, <1>3, <1>5, <1>6, <1>7 DEF AirInv, ReceiverInv

\* A byte of the host adds a frame to what was sent, or none.
LEMMA HostSends ==
    ASSUME IInv, Host
    PROVE  \/ delivered' = delivered /\ sent' = sent
           \/ /\ delivered' # delivered
              /\ \E p \in Payloads : /\ sent' = Append(sent, p)
                                     /\ delivered'[Len(delivered')] = p
<1>1. delivered = sent /\ delivered' = sent' /\ sent \in Seq(Payloads)
  <2>1. IInv'
    BY NextIInv DEF Host
  <2>. QED
    BY <2>1 DEF IInv, DecodedIsSent, TypeOK
<1>2. sent' = sent \/ (payload # << >> /\ sent' = Append(sent, payload))
  BY DEF Host, Next, PassByte, Begin
<1>3. ASSUME payload # << >>, sent' = Append(sent, payload)
      PROVE  payload \in Payloads /\ sent' # sent /\ sent'[Len(sent')] = payload
  <2>1. payload \in Payloads
    BY <1>3, CodecMatches
  <2>2. Len(sent') = Len(sent) + 1 /\ Len(sent) \in Nat /\ sent'[Len(sent) + 1] = payload
    BY <1>1, <1>3, <2>1
  <2>. QED
    BY <2>1, <2>2
<1>. QED
  BY <1>1, <1>2, <1>3

\* The queue after it: a frame is lost only if the host ran ahead of it.
LEMMA EnqueueKeepsQueueInv ==
    ASSUME IInv, IInv', QueueInv, LossInv, NEW p \in Payloads, Enqueue(p),
           sent' = Append(sent, p), UNCHANGED linkVars
    PROVE  QueueInv' /\ LossInv'
<1>. DEFINE ahead == Len(delivered') > Begun + TX_QUEUE_SIZE
<1>1. /\ accepted \in Seq(Payloads) /\ tx_queue \in Seq(Payloads) /\ sent \in Seq(Payloads)
      /\ Len(accepted) \in Nat /\ Len(tx_queue) \in Nat /\ Begun \in Nat
      /\ Len(accepted) = Begun + Len(tx_queue) /\ Len(tx_queue) <= TX_QUEUE_SIZE
      /\ \A k \in 1 .. Len(tx_queue) : tx_queue[k] = accepted[Begun + k]
      /\ TX_QUEUE_SIZE \in Nat
  BY PathAssumption DEF IInv, TypeOK, QueueInv
<1>2. Begun' = Begun
  BY DEF linkVars, Begun
<1>3. ~overrun' => accepted = sent /\ ~ahead
  BY Zenon DEF Enqueue, LossInv
<1>4. CASE HasRoom
  <2>1. tx_queue' = Append(tx_queue, p) /\ accepted' = Append(accepted, p)
    BY <1>4 DEF Enqueue, Queued
  <2>2. /\ accepted' \in Seq(Payloads) /\ tx_queue' \in Seq(Payloads)
        /\ Len(accepted') = Len(accepted) + 1 /\ Len(tx_queue') = Len(tx_queue) + 1
        /\ accepted'[Len(accepted) + 1] = p /\ tx_queue'[Len(tx_queue) + 1] = p
        /\ \A k \in 1 .. Len(accepted) : accepted'[k] = accepted[k]
        /\ \A k \in 1 .. Len(tx_queue) : tx_queue'[k] = tx_queue[k]
    BY <1>1, <2>1
  <2>3. ASSUME NEW k \in 1 .. Len(tx_queue') PROVE tx_queue'[k] = accepted'[Begun + k]
    <3>1. CASE k = Len(tx_queue) + 1
      BY <1>1, <2>2, <3>1
    <3>2. CASE k \in 1 .. Len(tx_queue)
      BY <1>1, <2>2, <3>2
    <3>. QED
      BY <1>1, <2>2, <3>1, <3>2
  <2>4. Len(tx_queue') <= TX_QUEUE_SIZE
    BY <1>1, <1>4, <2>2 DEF HasRoom
  <2>5. LossInv'
    BY <1>3, <2>1, Zenon DEF LossInv
  <2>. QED
    BY <1>1, <1>2, <2>2, <2>3, <2>4, <2>5 DEF QueueInv
<1>5. CASE ~HasRoom
  <2>1. tx_queue' = tx_queue /\ accepted' = accepted
    BY <1>5 DEF Enqueue, Queued
  <2>2. accepted = sent => ahead
    <3>1. delivered' = sent' /\ Len(sent') = Len(sent) + 1
      BY <1>1 DEF IInv, DecodedIsSent
    <3>. QED
      BY <1>1, <1>5, <3>1 DEF HasRoom
  <2>3. LossInv'
    BY <1>3, <2>2, Zenon DEF LossInv
  <2>. QED
    BY <1>1, <1>2, <2>1, <2>3 DEF QueueInv
<1>. QED
  BY <1>4, <1>5

\* What was accepted so far stays what it is.
LEMMA HostKeepsAirInv ==
    ASSUME AirInv, Host
    PROVE  AirInv'
<1>1. IInv' /\ UNCHANGED linkVars
  BY NextIInv DEF AirInv, Host
<1>2. LinkInv'
  BY <1>1, StepStep, LineStep, FlagStep, HearStep, HdlcStep DEF AirInv, LinkInv
<1>3. accepted \in Seq(Payloads) /\ Len(accepted) \in Nat
  BY DEF AirInv, QueueInv
<1>4. /\ QueueInv' /\ LossInv'
      /\ accepted' = accepted \/ \E p \in Payloads : accepted' = Append(accepted, p)
  <2>1. CASE delivered' = delivered /\ sent' = sent
    <3>1. UNCHANGED queueVars
      BY <2>1 DEF Host
    <3>2. QueueInv'
      BY <1>1, <3>1 DEF AirInv, QueueInv, Begun, queueVars, linkVars
    <3>3. LossInv'
      BY <2>1, <3>1, Zenon DEF AirInv, LossInv, queueVars
    <3>. QED
      BY <3>1, <3>2, <3>3 DEF queueVars
  <2>2. CASE /\ delivered' # delivered
             /\ \E p \in Payloads : /\ sent' = Append(sent, p)
                                    /\ delivered'[Len(delivered')] = p
    <3>1. PICK p \in Payloads : sent' = Append(sent, p) /\ delivered'[Len(delivered')] = p
      BY <2>2
    <3>2. Enqueue(p)
      BY <2>2, <3>1 DEF Host
    <3>3. QueueInv' /\ LossInv'
      BY <1>1, <3>1, <3>2, EnqueueKeepsQueueInv DEF AirInv
    <3>. QED
      BY <3>2, <3>3 DEF Enqueue
  <2>. QED
    BY <2>1, <2>2, HostSends DEF AirInv
<1>5. /\ Len(accepted') \in Nat /\ Len(accepted') >= Len(accepted)
      /\ \A k \in 1 .. Len(accepted) : accepted'[k] = accepted[k]
  BY <1>3, <1>4
<1>6. UNCHANGED <<line, tx, hdlc, received, count_sent, noise, flips, clean, intact>>
  BY <1>1 DEF linkVars
<1>7. /\ count_sent \in 0 .. Len(accepted)
      /\ tx # TxIdle => count_sent \in 1 .. Len(accepted)
      /\ Transmitted \in Nat /\ Transmitted <= Len(accepted)
  BY <1>3 DEF AirInv, SenderInv, Transmitted
<1>8. SenderInv'
  BY <1>3, <1>5, <1>6, <1>7 DEF AirInv, SenderInv
<1>9. Transmitted' = Transmitted
  BY <1>6 DEF Transmitted
<1>10. Expected(accepted', Transmitted) = Expected(accepted, Transmitted)
  BY <1>3, <1>5, <1>7, ExpectedSame
<1>11. ReceiverInv'
  BY <1>6, <1>9, <1>10 DEF AirInv, ReceiverInv
<1>. QED
  BY <1>1, <1>2, <1>4, <1>8, <1>11 DEF AirInv

LEMMA TransmitKeepsAirInv ==
    ASSUME AirInv, Transmit
    PROVE  AirInv'
<1>. DEFINE p == accepted[count_sent + 1]
<1>1. /\ tx = TxIdle /\ UNCHANGED <<vars, queueVars>>
      /\ accepted \in Seq(Payloads) /\ count_sent \in Nat /\ Len(accepted) \in Nat
  BY DEF Transmit, SendFrame, AirInv, QueueInv, SenderInv
<1>2. tx.st = "idle" /\ tx.i = 0 /\ Begun = count_sent
  BY <1>1 DEF TxIdle, Tx, Begun
<1>3. count_sent < Len(accepted) /\ Head(tx_queue) = p /\ SendFrame(OnAir(p))
  <2>1. tx_queue \in Seq(Payloads) /\ tx_queue # << >>
    BY DEF Transmit, AirInv, QueueInv
  <2>2. Len(tx_queue) \in Nat \ {0} /\ Head(tx_queue) = tx_queue[1]
    BY <2>1
  <2>3. tx_queue[1] = accepted[Begun + 1] /\ Len(accepted) = Begun + Len(tx_queue)
    BY <2>2 DEF AirInv, QueueInv
  <2>. QED
    BY <1>1, <1>2, <2>2, <2>3 DEF Transmit
<1>4. p \in Payloads /\ OnAir(p) \in Frames
  BY <1>1, <1>3, PathAssumption
<1>5. IInv'
  BY <1>1, NextIInv DEF AirInv
<1>6. LinkInv'
  <2>1. LinkNext
    BY <1>3, <1>4 DEF LinkNext
  <2>. QED
    BY <2>1, StepStep, LineStep, FlagStep, HearStep, HdlcStep DEF AirInv, LinkInv
<1>7. /\ tx' = TxStart /\ line' = WithChecksum(OnAir(p))
      /\ count_sent' = count_sent + 1
      /\ UNCHANGED <<sent, tx_queue, accepted, overrun, hdlc, received, noise, flips, clean>>
  BY <1>1, <1>3 DEF SendFrame, vars, queueVars
<1>8. tx'.st = "flags" /\ tx'.i = 0 /\ tx' # TxIdle
  BY <1>7 DEF TxIdle, TxStart, Tx
<1>9. QueueInv' /\ LossInv'
  <2>1. Begun' = Begun
    BY <1>1, <1>2, <1>7, <1>8 DEF Begun
  <2>2. QueueInv'
    BY <1>7, <2>1 DEF AirInv, QueueInv
  <2>3. LossInv'
    BY <1>7, Zenon DEF AirInv, LossInv
  <2>. QED
    BY <2>2, <2>3
<1>10. SenderInv'
  BY <1>1, <1>3, <1>7 DEF AirInv, SenderInv
<1>11. Transmitted' = Transmitted
  BY <1>1, <1>7, <1>8 DEF Transmitted
<1>12. clean \in Nat /\ Enough \in Nat \ {0} /\ noise \in Nat
  BY LinkAssumption DEF AirInv, SenderInv, LinkInv, StepInv, Enough, InStepAfter
<1>13. flips = 0 => Collected(Len(hdlc.acc), noise, 0, Enough)
  BY <1>2, <1>12 DEF AirInv, ReceiverInv, Collected
<1>14. ReceiverInv'
  BY <1>7, <1>8, <1>11, <1>12, <1>13 DEF AirInv, ReceiverInv
<1>. QED
  BY <1>5, <1>6, <1>9, <1>10, <1>14 DEF AirInv

\* Noise adds at most a bit to what the decoder has.
LEMMA NoiseKeepsReceiverInv ==
    ASSUME AirInv, NEW raw \in Bit, Noise(raw), UNCHANGED accepted
    PROVE  SenderInv' /\ ReceiverInv'
<1>1. /\ tx = TxIdle /\ noise < MaxNoise /\ noise' = noise + 1
      /\ hdlc' = feed_bit(hdlc, Decoded(raw))
      /\ received' = IF Yields(hdlc, Decoded(raw)) THEN Append(received, Yielded(hdlc))
                     ELSE received
      /\ UNCHANGED <<line, tx, count_sent, flips, accepted>>
  BY DEF Noise, Hear
<1>2. tx.st = "idle" /\ tx.i = 0
  BY <1>1 DEF TxIdle, Tx
<1>3. noise \in Nat /\ MaxNoise \in Nat /\ Len(hdlc.acc) \in Nat /\ hdlc \in HdlcType
  BY LinkAssumption DEF AirInv, SenderInv, LinkInv, HdlcInv, HdlcType
<1>4. SenderInv'
  BY <1>1, <1>3 DEF AirInv, SenderInv
<1>5. ASSUME flips = 0
      PROVE  received' = received /\ Len(hdlc'.acc) <= noise'
  <2>1. Len(hdlc.acc) <= noise
    BY <1>2, <1>3, <1>5 DEF AirInv, ReceiverInv
  <2>2. Len(hdlc.acc) < 8 * MIN_FRAME_LEN
    <3>1. Enough \in Nat
      BY LinkAssumption DEF Enough, InStepAfter
    <3>. QED
      BY <1>1, <1>3, <2>1, <3>1, PathAssumption, HdlcAssumption
  <2>3. received' = received
    BY <1>1, <2>2, TooShort DEF AirInv, LinkInv
  <2>4. Len(hdlc'.acc) <= Len(hdlc.acc) + 1 /\ Len(hdlc'.acc) \in Nat
    <3>1. hdlc' \in HdlcType
      BY <1>1, <1>3, HdlcTyped, XorFacts DEF Decoded, Bit
    <3>. QED
      BY <1>1, <1>3, <3>1, AccGrows DEF HdlcType
  <2>. QED
    BY <1>1, <1>3, <2>1, <2>3, <2>4
<1>6. Transmitted' = Transmitted
  BY <1>1 DEF Transmitted
<1>7. ReceiverInv'
  BY <1>1, <1>2, <1>5, <1>6 DEF AirInv, ReceiverInv
<1>. QED
  BY <1>4, <1>7

LEMMA CollectsFew ==
    ASSUME NEW a \in Nat, NEW n \in Nat, NEW i \in Nat, NEW e \in Nat, Collected(a, n, i, e)
    PROVE  a <= 7 \/ a <= n + e + 6
<1>1. PICK r \in 0 .. 7, k \in Int : r = i % 8 /\ k = i - (i % 8)
  <2>1. i % 8 \in 0 .. 7 /\ i - (i % 8) \in Int
    OBVIOUS
  <2>. QED
    BY <2>1
<1>2. i = k + r
  BY <1>1
<1>3. k >= e => a <= r
  BY <1>1 DEF Collected
<1>4. ~(k >= e) => a <= n + i
  BY <1>1 DEF Collected
<1>. QED
  BY <1>2, <1>3, <1>4

LEMMA CollectsOn ==
    ASSUME NEW a \in Nat, NEW b \in Nat, NEW n \in Nat, NEW i \in Nat, NEW e \in Nat,
           Collected(a, n, i, e), b <= a + 1,
           i % 8 = 7 /\ i + 1 >= e => b = 0
    PROVE  Collected(b, n, i + 1, e)
<1>1. PICK r \in 0 .. 7, k \in Int : r = i % 8 /\ k = i - (i % 8)
  <2>1. i % 8 \in 0 .. 7 /\ i - (i % 8) \in Int
    OBVIOUS
  <2>. QED
    BY <2>1
<1>2. i = k + r
  BY <1>1
<1>3. k >= e => a <= r
  BY <1>1 DEF Collected
<1>4. ~(k >= e) => a <= n + i
  BY <1>1 DEF Collected
<1>5. CASE r = 7
  <2>1. (i + 1) % 8 = 0
    BY <1>1, <1>5
  <2>2. i + 1 >= e => b = 0
    BY <1>1, <1>5
  <2>3. ~(i + 1 >= e) => b <= n + (i + 1)
    BY <1>2, <1>3, <1>4
  <2>. QED
    BY <2>1, <2>2, <2>3 DEF Collected
<1>6. CASE r # 7
  <2>1. (i + 1) % 8 = r + 1
    BY <1>1, <1>6
  <2>2. (i + 1) - ((i + 1) % 8) = k
    BY <1>2, <2>1
  <2>3. (k >= e => b <= r + 1) /\ (~(k >= e) => b <= n + (i + 1))
    BY <1>2, <1>3, <1>4
  <2>. QED
    BY <2>1, <2>2, <2>3 DEF Collected
<1>. QED
  BY <1>5, <1>6

\* Before the body of a frame nothing is returned, and the receiver gets into
\* step.
LEMMA FlagKeepsReceiverInv ==
    ASSUME AirInv, SendBit(0), tx.st = "flags", UNCHANGED accepted, flips = 0, flips' = 0
    PROVE  ReceiverInv'
<1>1. /\ tx' = NextTx(line, tx) /\ line' = line /\ noise' = noise /\ count_sent' = count_sent
      /\ clean' = (IF clean < Enough THEN clean + 1 ELSE clean) /\ accepted' = accepted
      /\ tx'.st = "body" /\ clean' = Enough => intact'
      /\ tx # TxIdle
  <2>1. /\ tx' = NextTx(line, tx) /\ line' = line
        /\ count_sent' = count_sent /\ accepted' = accepted /\ tx # TxIdle
    BY DEF SendBit
  <2>4. tx' # TxIdle
    BY <2>1 DEF NextTx, Tx, TxIdle
  <2>5. noise' = noise
    BY <2>4 DEF SendBit
  <2>2. clean' = IF clean < Enough THEN clean + 1 ELSE clean
    BY DEF SendBit
  <2>3. tx'.st = "body" => intact' = (clean' = Enough)
    BY Zenon DEF SendBit
  <2>. QED
    BY <2>1, <2>2, <2>3, <2>5
<1>2. PICK b \in Bit : /\ hdlc' = feed_bit(hdlc, b)
                       /\ received' = IF Yields(hdlc, b) THEN Append(received, Yielded(hdlc))
                                      ELSE received
  <2>1. \A raw : Decoded(raw) \in Bit
    BY XorFacts DEF Decoded, Bit
  <2>. QED
    BY <2>1 DEF SendBit, Hear
<1>3. /\ noise \in 0 .. MaxNoise /\ MaxNoise \in Nat /\ Len(hdlc.acc) \in Nat /\ hdlc \in HdlcType
      /\ clean \in 0 .. Enough /\ Enough \in Nat /\ tx.i \in Nat /\ tx.i < 8 * Flags
      /\ Flags \in Nat /\ MIN_FRAME_LEN \in Nat
  BY LinkAssumption, HdlcAssumption
  DEF AirInv, SenderInv, LinkInv, HdlcInv, HdlcType, StepInv, LineInv, Enough, InStepAfter
<1>4. /\ Collected(Len(hdlc.acc), noise, tx.i, Enough)
      /\ tx.i <= clean \/ clean = Enough
      /\ received = Expected(accepted, Transmitted)
  BY DEF AirInv, ReceiverInv
<1>5. Len(hdlc.acc) < 8 * MIN_FRAME_LEN
  <2>1. Len(hdlc.acc) <= 7 \/ Len(hdlc.acc) <= noise + Enough + 6
    BY <1>3, <1>4, CollectsFew
  <2>2. MaxNoise + Enough + 6 < 8 * MIN_FRAME_LEN /\ MIN_FRAME_LEN > 1
    BY PathAssumption, HdlcAssumption
  <2>. QED
    BY <1>3, <2>1, <2>2
<1>6. received' = received
  BY <1>2, <1>5, TooShort DEF AirInv, LinkInv
<1>7. Len(hdlc'.acc) <= Len(hdlc.acc) + 1 /\ Len(hdlc'.acc) \in Nat
  <2>1. hdlc' \in HdlcType
    BY <1>2, <1>3, HdlcTyped
  <2>. QED
    BY <1>2, <1>3, <2>1, AccGrows DEF HdlcType
<1>8. CASE tx.i + 1 = 8 * Flags
  <2>1. tx' = Tx("body", 0, 0)
    BY <1>1, <1>8 DEF NextTx
  <2>2. tx'.st = "body" /\ tx' # TxIdle
    BY <2>1 DEF Tx, TxIdle
  <2>3. clean' = Enough
    BY <1>1, <1>3, <1>4, <1>8, PathAssumption
  <2>4. Transmitted' = Transmitted
    BY <1>1, <2>2 DEF Transmitted
  <2>. QED
    BY <1>1, <1>4, <1>6, <2>2, <2>3, <2>4 DEF ReceiverInv
<1>9. CASE tx.i + 1 # 8 * Flags
  <2>1. tx' = Tx("flags", tx.i + 1, 0)
    BY <1>1, <1>9 DEF NextTx
  <2>2. tx'.st = "flags" /\ tx'.i = tx.i + 1 /\ tx' # TxIdle
    BY <2>1 DEF Tx, TxIdle
  <2>3. tx'.i <= clean' \/ clean' = Enough
    BY <1>1, <1>3, <1>4, <2>2
  <2>4. Collected(Len(hdlc'.acc), noise', tx'.i, Enough)
    <3>1. ASSUME tx.i % 8 = 7, tx.i + 1 >= Enough PROVE Len(hdlc'.acc) = 0
      <4>1. PICK m \in Nat \ {0} : tx.i + 1 = 8 * m
        <5>1. (tx.i + 1) % 8 = 0
          BY <1>3, <3>1
        <5>2. tx.i + 1 = 8 * ((tx.i + 1) \div 8) /\ (tx.i + 1) \div 8 \in Nat \ {0}
          BY <1>3, <5>1
        <5>. QED
          BY <5>2
      <4>2. clean >= InStepAfter + 7
        BY <1>3, <1>4, <3>1, LinkAssumption DEF Enough, InStepAfter
      <4>3. IsFlag(hdlc, NextBit(line, tx)) /\ hdlc' = feed_bit(hdlc, NextBit(line, tx))
        BY <4>1, <4>2, FlagSeen DEF AirInv, LinkInv
      <4>. QED
        BY <1>3, <4>3, AccGrows
    <3>2. /\ Len(hdlc'.acc) \in Nat /\ Len(hdlc.acc) \in Nat /\ noise \in Nat
          /\ Len(hdlc'.acc) <= Len(hdlc.acc) + 1
      BY <1>3, <1>7
    <3>3. Collected(Len(hdlc'.acc), noise, tx.i + 1, Enough)
      BY <1>3, <1>4, <3>1, <3>2, CollectsOn
    <3>. QED
      BY <1>1, <2>2, <3>3
  <2>5. Transmitted' = Transmitted
    BY <1>1, <2>2 DEF Transmitted
  <2>. QED
    BY <1>1, <1>4, <1>6, <2>2, <2>3, <2>4, <2>5 DEF ReceiverInv
<1>. QED
  BY <1>8, <1>9

\* In a frame every bit is heard, and with the last one the frame is received.
LEMMA FrameKeepsReceiverInv ==
    ASSUME AirInv, SendBit(0), tx.st \in {"body", "stuff", "close"}, UNCHANGED accepted,
           flips = 0, flips' = 0
    PROVE  ReceiverInv'
<1>. DEFINE p == accepted[count_sent]
            f == OnAir(p)
<1>1. /\ tx' = NextTx(line, tx) /\ line' = line /\ count_sent' = count_sent
      /\ noise' = (IF tx' = TxIdle THEN 0 ELSE noise)
      /\ accepted' = accepted /\ tx # TxIdle /\ intact /\ intact'
      /\ received = Expected(accepted, Transmitted)
  BY DEF SendBit, AirInv, ReceiverInv
<1>2. 0 \in Bit
  BY DEF Bit
<1>3. /\ clean = Enough /\ tx'.st # "flags"
      /\ received' = IF Closing(tx) /\ FitsDecoder THEN Append(received, Data) ELSE received
  <2>1. /\ clean' = Enough /\ tx'.st # "flags"
        /\ received' = IF Closing(tx) /\ FitsDecoder THEN Append(received, Data) ELSE received
    BY <1>1, <1>2, HearBit DEF AirInv
  <2>2. clean = Enough
    BY <1>1, <1>2, HearBit DEF AirInv
  <2>. QED
    BY <2>1, <2>2
<1>4. /\ count_sent \in Nat /\ count_sent > 0 /\ line = WithChecksum(f)
      /\ accepted \in Seq(Payloads) /\ count_sent \in 1 .. Len(accepted)
      /\ Transmitted = count_sent - 1 /\ Transmitted \in Nat
  BY <1>1 DEF AirInv, SenderInv, QueueInv, Transmitted
<1>5. p \in Payloads /\ f \in Frames /\ p \in Seq(Byte) /\ p # << >>
  BY <1>4, PathAssumption, PayloadAssumption
<1>6. CASE ~Closing(tx)
  <2>1. tx' # TxIdle /\ tx'.st # "idle"
    <3>1. tx.i \in Nat
      BY DEF AirInv, LinkInv, LineInv
    <3>2. tx.st = "close" => tx.i + 1 # 8
      BY <1>6, <3>1 DEF Closing
    <3>. QED
      BY <1>1, <3>2 DEF NextTx, Onwards, Tx, TxIdle
  <2>2. Transmitted' = Transmitted
    BY <1>1, <2>1 DEF Transmitted
  <2>. QED
    BY <1>1, <1>3, <1>6, <2>1, <2>2 DEF ReceiverInv
<1>7. CASE Closing(tx)
  <2>1. tx' = TxIdle /\ tx'.st = "idle" /\ tx'.i = 0
    BY <1>1, <1>7 DEF NextTx, Closing, Tx, TxIdle
  <2>2. Transmitted' = Transmitted + 1 /\ Transmitted + 1 = count_sent
    BY <1>1, <1>4, <2>1 DEF Transmitted
  <2>3. Len(line) = Len(f) + 16 /\ Len(f) = 8 * Len(Cut(p)) /\ f \in Seq(Bit)
    <3>1. Len(line) = Len(f) + 16 /\ f \in Seq(Bit)
      BY <1>4, <1>5, LineFacts, FrameAssumption
    <3>2. Len(Cut(p)) \in Nat
      BY <1>5, CutLen
    <3>3. Len(f) = 8 * Len(Cut(p))
      BY <3>2 DEF OnAir, BitsOf
    <3>. QED
      BY <3>1, <3>3
  <2>4. FitsDecoder <=> Receivable(p)
    <3>1. /\ Len(p) \in Nat \ {0} /\ MAX_FRAME_LEN \in Nat /\ MIN_FRAME_LEN \in Nat
          /\ MIN_FRAME_LEN <= MAX_FRAME_LEN
      BY <1>5, HdlcAssumption
    <3>2. Len(Cut(p)) = IF Len(p) <= MAX_FRAME_LEN THEN Len(p) - 1 ELSE MAX_FRAME_LEN
      BY <1>5, CutLen
    <3>. QED
      BY <2>3, <3>1, <3>2 DEF FitsDecoder, Receivable
  <2>5. Data = f
    BY <1>4, <1>5, DataSent
  <2>6. received' = Expected(accepted, Transmitted + 1)
    BY <1>1, <1>3, <1>4, <1>7, <2>2, <2>4, <2>5, ExpectedGrows
  <2>7. Len(hdlc'.acc) = 0
    BY <1>1, <1>3, <1>7, ClosingClears DEF AirInv, LinkInv
  <2>8. noise' = 0
    BY <1>1, <2>1
  <2>. QED
    BY <1>1, <2>1, <2>2, <2>6, <2>7, <2>8 DEF ReceiverInv
<1>. QED
  BY <1>6, <1>7

\* When the flags are sent the oldest frame leaves the queue.
LEMMA AirKeepsQueueInv ==
    ASSUME AirInv, Air
    PROVE  QueueInv' /\ LossInv'
<1>1. /\ accepted \in Seq(Payloads) /\ tx_queue \in Seq(Payloads)
      /\ Len(accepted) \in Nat /\ Len(tx_queue) \in Nat /\ Begun \in Nat
      /\ Len(accepted) = Begun + Len(tx_queue) /\ Len(tx_queue) <= TX_QUEUE_SIZE
      /\ \A k \in 1 .. Len(tx_queue) : tx_queue[k] = accepted[Begun + k]
      /\ TX_QUEUE_SIZE \in Nat
  BY PathAssumption DEF AirInv, QueueInv
<1>2. /\ accepted' = accepted /\ begin_frame_tx /\ LinkStep
      /\ LossInv'
  <2>1. accepted' = accepted /\ overrun' = overrun /\ sent' = sent
    BY DEF Air, vars
  <2>2. LossInv'
    BY <2>1, Zenon DEF AirInv, LossInv
  <2>. QED
    BY <2>1, <2>2 DEF Air
<1>3. count_sent' = count_sent /\ (tx' = tx \/ (tx # TxIdle /\ tx' = NextTx(line, tx)))
  BY <1>2 DEF LinkStep, SendBit, Noise
<1>4. CASE tx.st = "flags" /\ tx'.st = "body"
  <2>1. tx' # tx /\ tx # TxIdle /\ count_sent \in Nat /\ count_sent > 0
        /\ count_sent \in 0 .. Len(accepted)
    BY <1>1, <1>4 DEF TxIdle, Tx, AirInv, SenderInv
  <2>2. Begun = count_sent - 1 /\ Begun' = Begun + 1
    BY <1>3, <1>4, <2>1 DEF Begun
  <2>3. tx_queue' = Tail(tx_queue) /\ Len(tx_queue) > 0
    BY <1>1, <1>2, <1>4, <2>1, <2>2 DEF begin_frame_tx
  <2>4. /\ tx_queue' \in Seq(Payloads) /\ Len(tx_queue') = Len(tx_queue) - 1
        /\ \A k \in 1 .. Len(tx_queue') : tx_queue'[k] = tx_queue[k + 1]
    <3>1. tx_queue # << >>
      BY <1>1, <2>3
    <3>. QED
      BY <1>1, <2>3, <3>1, HeadTailProperties
  <2>5. \A k \in 1 .. Len(tx_queue') : tx_queue'[k] = accepted'[Begun' + k]
    <3>. SUFFICES ASSUME NEW k \in 1 .. Len(tx_queue') PROVE tx_queue'[k] = accepted'[Begun' + k]
      OBVIOUS
    <3>1. k + 1 \in 1 .. Len(tx_queue) /\ Begun + (k + 1) = Begun' + k
      BY <1>1, <2>2, <2>4
    <3>2. tx_queue[k + 1] = accepted[Begun + (k + 1)]
      BY <1>1, <3>1
    <3>. QED
      BY <1>2, <2>4, <3>1, <3>2
  <2>. QED
    BY <1>1, <1>2, <2>2, <2>4, <2>5 DEF QueueInv
<1>5. CASE ~(tx.st = "flags" /\ tx'.st = "body")
  <2>1. tx_queue' = tx_queue
    BY <1>2, <1>5 DEF begin_frame_tx
  <2>2. Begun' = Begun
    <3>1. tx.st = "flags" <=> tx'.st = "flags"
      <4>1. CASE tx' = tx
        BY <4>1
      <4>2. CASE tx # TxIdle /\ tx' = NextTx(line, tx)
        <5>1. tx.st \in {"flags", "body", "stuff", "close"}
          BY <4>2, LineShape DEF AirInv, LinkInv
        <5>2. tx.st = "flags" => tx'.st \in {"flags", "body"}
          BY <4>2 DEF NextTx, Tx
        <5>3. tx.st \in {"body", "stuff", "close"} => tx'.st # "flags"
          BY <4>2 DEF NextTx, Onwards, Tx, TxIdle
        <5>. QED
          BY <1>5, <5>1, <5>2, <5>3
      <4>. QED
        BY <1>3, <4>1, <4>2
    <3>. QED
      BY <1>3, <3>1 DEF Begun
  <2>. QED
    BY <1>1, <1>2, <2>1, <2>2 DEF QueueInv
<1>. QED
  BY <1>4, <1>5

LEMMA AirKeepsAirInv ==
    ASSUME AirInv, Air
    PROVE  AirInv'
<1>1. LinkStep /\ UNCHANGED vars /\ LinkNext /\ UNCHANGED <<accepted, overrun>>
  BY DEF Air, LinkNext
<1>2. IInv'
  BY <1>1, NextIInv DEF AirInv
<1>3. LinkInv'
  BY <1>1, StepStep, LineStep, FlagStep, HearStep, HdlcStep DEF AirInv, LinkInv
<1>4. ASSUME NEW raw \in Bit, Noise(raw)
      PROVE  SenderInv' /\ ReceiverInv'
  BY <1>1, <1>4, NoiseKeepsReceiverInv
<1>5. ASSUME NEW flip \in Bit, SendBit(flip)
      PROVE  SenderInv' /\ ReceiverInv'
  <2>1. /\ tx # TxIdle /\ flips' = flips + flip /\ accepted' = accepted
        /\ UNCHANGED <<line, count_sent>> /\ noise' \in {0, noise}
    BY <1>1, <1>5 DEF SendBit
  <2>2. SenderInv'
    BY <2>1, LinkAssumption DEF AirInv, SenderInv, Bit
  <2>3. ASSUME flips' = 0 PROVE flips = 0 /\ flip = 0
    BY <2>1, <2>3 DEF AirInv, SenderInv, Bit
  <2>4. tx.st \in {"flags", "body", "stuff", "close"}
    BY <2>1, LineShape DEF AirInv, LinkInv
  <2>5. ASSUME flips' = 0 PROVE ReceiverInv'
    <3>1. flips = 0 /\ SendBit(0)
      BY <1>5, <2>3, <2>5
    <3>. QED
      BY <1>1, <2>4, <2>5, <3>1, FlagKeepsReceiverInv, FrameKeepsReceiverInv
  <2>6. flips' # 0 => ReceiverInv'
    BY DEF ReceiverInv
  <2>. QED
    BY <2>2, <2>5, <2>6
<1>. QED
  BY <1>1, <1>2, <1>3, <1>4, <1>5, AirKeepsQueueInv DEF AirInv, LinkStep

\* From a host's KISS bytes to another station, over a channel that turns no bit
\* over: the frames that got into the queue and that a decoder takes, each once,
\* unchanged and in order, and nothing else; and a host that never ran ahead of
\* the queue lost none there.  For any frames, buffers, queue and scrambler that
\* fulfil PathAssumption.
THEOREM HostHeardAlways == AirSpec => []HostIsHeard
<1>1. AirInv /\ [AirNext]_airVars => AirInv'
  <2>1. ASSUME AirInv, UNCHANGED airVars
        PROVE  AirInv'
    <3>1. UNCHANGED vars /\ UNCHANGED linkVars /\ UNCHANGED queueVars
      BY <2>1 DEF airVars
    <3>2. IInv' /\ LinkInv'
      BY <2>1, <3>1, NextIInv, StepStep, LineStep, FlagStep, HearStep, HdlcStep
      DEF AirInv, LinkInv
    <3>3. QueueInv' /\ SenderInv' /\ ReceiverInv'
      BY <2>1, <3>1
      DEF AirInv, QueueInv, Begun, SenderInv, ReceiverInv, Transmitted, vars, linkVars, queueVars
    <3>4. overrun' = overrun /\ accepted' = accepted /\ sent' = sent
      BY <3>1 DEF vars, queueVars
    <3>5. LossInv'
      BY <2>1, <3>4, Zenon DEF AirInv, LossInv
    <3>. QED
      BY <3>2, <3>3, <3>5 DEF AirInv
  <2>. QED
    BY <2>1, HostKeepsAirInv, AirKeepsAirInv, TransmitKeepsAirInv DEF AirNext
<1>2. AirInv => HostIsHeard
  BY Zenon DEF AirInv, LossInv, ReceiverInv, HostIsHeard
<1>. QED
  BY <1>1, <1>2, AirInitial, PTL DEF AirSpec
=============================================================================
