----------------------------- MODULE KissDecoder -----------------------------
(***************************************************************************)
(* KISS framing: core/src/kiss/mod.rs.  The decoder is a value, fed one    *)
(* byte at a time; the encoder is given as a walk over the bytes of a      *)
(* frame, so that a stream can be cut anywhere.                            *)
(*                                                                         *)
(* A byte on a link is a record with a field `byte`, its value.  Other     *)
(* fields (where the byte comes from) ride along and decide nothing.       *)
(***************************************************************************)
EXTENDS Integers, Sequences, FiniteSets

CONSTANT BUF_SIZE     \* bytes of KissDecoder::buf (512)

ASSUME BufSizeAssumption == BUF_SIZE \in Nat \ {0}

FEND  == 192
FESC  == 219
TFEND == 220
TFESC == 221
DataCommand == 0      \* Command::DataFrame.to_byte(0)

\* KissDecoder; buf holds the first `len` bytes of the code's array.
Decoder(buf, in_frame, escape, overflow) ==
    [buf |-> buf, in_frame |-> in_frame, escape |-> escape, overflow |-> overflow]

\* KissDecoder::new and reset.
NewDecoder == Decoder(<< >>, FALSE, FALSE, FALSE)

-----------------------------------------------------------------------------
(* feed_byte *)

\* Faulty variants: takes two FENDs in a row for a frame; hands on what is left
\* of a frame that did not fit; leaves an escaped FESC as it came.
TerminatesEmpty(d, x) == x.byte = FEND /\ d.in_frame
CompletesOverflowed(d, x) == x.byte = FEND /\ d.in_frame /\ d.buf # << >>
UnescapedFendOnly(d, x) ==
    IF d.escape /\ x.byte = TFEND THEN [x EXCEPT !.byte = FEND] ELSE x

\* push_byte, with the escape flag already cleared.
push_byte(d, x) ==
    IF Len(d.buf) < BUF_SIZE
    THEN Decoder(Append(d.buf, x), d.in_frame, FALSE, d.overflow)
    ELSE Decoder(d.buf, d.in_frame, FALSE, TRUE)

Terminates(d, x) == x.byte = FEND /\ d.in_frame /\ d.buf # << >>

\* feed_byte returns a frame: the command byte, then the data.
Completes(d, x) == Terminates(d, x) /\ ~d.overflow
FrameOf(d) == d.buf

Unescaped(d, x) ==
    IF d.escape /\ x.byte = TFEND THEN [x EXCEPT !.byte = FEND]
    ELSE IF d.escape /\ x.byte = TFESC THEN [x EXCEPT !.byte = FESC]
    ELSE x

\* The decoder after a byte.  The byte that closes a frame leaves the decoder
\* outside any frame: it does not open the next one.
feed_byte(d, x) ==
    CASE Completes(d, x) -> Decoder(d.buf, FALSE, d.escape, d.overflow)
      [] Terminates(d, x) /\ d.overflow -> NewDecoder
      [] x.byte = FEND /\ ~Terminates(d, x) -> Decoder(<< >>, TRUE, FALSE, d.overflow)
      [] x.byte = FESC /\ d.in_frame -> Decoder(d.buf, TRUE, TRUE, d.overflow)
      [] x.byte \notin {FEND, FESC} /\ d.in_frame -> push_byte(d, Unescaped(d, x))
      [] x.byte # FEND /\ ~d.in_frame -> d

-----------------------------------------------------------------------------
(* encode_frame, as the state of a walk over the frame <<command>> \o data.  *)
(* `i` payload bytes (the command is the first) are written.                 *)
Walk(st, i) == [st |-> st, i |-> i]
Opening == Walk("open", 0)

Special(b) == b \in {FEND, FESC}

\* The byte written next, and the walk after it.  The command byte is never
\* escaped.
NextByte(payload, w) ==
    CASE w.st = "open" \/ w.st = "close" -> FEND
      [] w.st = "escaped" -> IF payload[w.i + 1] = FEND THEN TFEND ELSE TFESC
      [] w.st = "body" -> IF w.i > 0 /\ Special(payload[w.i + 1]) THEN FESC
                          ELSE payload[w.i + 1]

AfterPayloadByte(payload, w) ==
    Walk(IF w.i + 1 = Len(payload) THEN "close" ELSE "body", w.i + 1)

NextWalk(payload, w) ==
    CASE w.st = "open" -> Walk("body", 0)
      [] w.st = "close" -> Opening
      [] w.st = "escaped" -> AfterPayloadByte(payload, w)
      [] w.st = "body" -> IF w.i > 0 /\ Special(payload[w.i + 1])
                          THEN Walk("escaped", w.i)
                          ELSE AfterPayloadByte(payload, w)

\* The whole encoding: the bytes of the walk, from the opening FEND to the
\* closing one.  (Faulty variant: leaves the closing FEND to the next frame.)
EncodedLenUnclosed(payload) ==
    Len(payload) + 1 + Cardinality({i \in 2 .. Len(payload) : Special(payload[i])})
EncodedLen(payload) ==
    Len(payload) + 2 + Cardinality({i \in 2 .. Len(payload) : Special(payload[i])})

encode_frame(payload) ==
    LET walk[k \in 0 .. EncodedLen(payload)] ==
            IF k = 0 THEN Opening ELSE NextWalk(payload, walk[k - 1])
    IN [k \in 1 .. EncodedLen(payload) |-> NextByte(payload, walk[k - 1])]
=============================================================================
