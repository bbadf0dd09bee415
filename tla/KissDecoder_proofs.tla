-------------------------- MODULE KissDecoder_proofs --------------------------
(***************************************************************************)
(* What the decoder does with the bytes of an encoding, and that the bytes *)
(* encode_frame writes are those of one whole walk.  KissCodec and         *)
(* TncReceive are proved on top of it.                                     *)
(***************************************************************************)
EXTENDS KissDecoder, FiniteSetTheorems, WellFoundedInduction, TLAPS

\* A byte of which only the value is known.
Plain(b) == [byte |-> b]

\* The walk is somewhere in the frame p.
WalkIn(p, w) ==
    \/ w = Opening
    \/ \E i \in 0 .. Len(p) - 1 : w = Walk("body", i)
    \/ \E i \in 1 .. Len(p) - 1 : w = Walk("escaped", i) /\ Special(p[i + 1])
    \/ w = Walk("close", Len(p))

\* The decoder holds the part of p that was written, as much of it as fits.
Kept(i) == IF i <= BUF_SIZE THEN i ELSE BUF_SIZE
Held(p, i) == [k \in 1 .. Kept(i) |-> Plain(p[k])]
Matches(d, p, w) ==
    d = IF w.st = "open" THEN Decoder(d.buf, FALSE, FALSE, FALSE)
        ELSE Decoder(Held(p, w.i), TRUE, w.st = "escaped", w.i > BUF_SIZE)

-----------------------------------------------------------------------------
(* feed_byte *)

\* The four special bytes are different values.
LEMMA Distinct ==
    FEND # FESC /\ TFEND \notin {FEND, FESC} /\ TFESC \notin {FEND, FESC, TFEND}
  BY DEF FEND, FESC, TFEND, TFESC

\* The fields of a decoder and of a walk.
LEMMA Fields ==
    /\ \A b, i, e, o : LET d == Decoder(b, i, e, o)
                       IN d.buf = b /\ d.in_frame = i /\ d.escape = e /\ d.overflow = o
    /\ \A st, i : Walk(st, i).st = st /\ Walk(st, i).i = i
    /\ \A b : Plain(b).byte = b
  BY DEF Decoder, Walk, Plain

LEMMA BufOf == \A d, b, i, e, o : d = Decoder(b, i, e, o) => d.buf = b
  BY DEF Decoder

LEMMA EmptyFits == Len(<< >>) <= BUF_SIZE
  BY BufSizeAssumption

\* What feed_byte does with each kind of byte: outside a frame,
LEMMA FeedOpen ==
    ASSUME NEW buf
    PROVE  LET d == Decoder(buf, FALSE, FALSE, FALSE)
           IN /\ feed_byte(d, Plain(FEND)) = Decoder(<< >>, TRUE, FALSE, FALSE)
              /\ ~Completes(d, Plain(FEND))
  BY Distinct DEF Plain, Decoder, Terminates, Completes, feed_byte

\* and inside.
LEMMA FeedPlain ==
    ASSUME NEW buf, NEW o, NEW b, b \notin {FEND, FESC}
    PROVE  LET d == Decoder(buf, TRUE, FALSE, o)
           IN /\ feed_byte(d, Plain(b)) = push_byte(d, Plain(b))
              /\ ~Completes(d, Plain(b))
<1>. DEFINE d == Decoder(buf, TRUE, FALSE, o)
<1>1. d.in_frame /\ ~d.escape /\ Plain(b).byte = b
  BY DEF Decoder, Plain
<1>. HIDE DEF d
<1>2. ~Terminates(d, Plain(b)) /\ ~Completes(d, Plain(b))
  BY <1>1 DEF Terminates, Completes
<1>3. Unescaped(d, Plain(b)) = Plain(b)
  BY <1>1 DEF Unescaped
<1>4. feed_byte(d, Plain(b)) = push_byte(d, Plain(b))
  BY <1>1, <1>2, <1>3 DEF feed_byte
<1>. QED
  BY <1>2, <1>4 DEF d

LEMMA FeedEscape ==
    ASSUME NEW buf, NEW o
    PROVE  LET d == Decoder(buf, TRUE, FALSE, o)
           IN /\ feed_byte(d, Plain(FESC)) = Decoder(buf, TRUE, TRUE, o)
              /\ ~Completes(d, Plain(FESC))
<1>. DEFINE d == Decoder(buf, TRUE, FALSE, o)
<1>1. d.in_frame /\ d.buf = buf /\ d.overflow = o /\ Plain(FESC).byte = FESC
  BY DEF Decoder, Plain
<1>. HIDE DEF d
<1>2. ~Terminates(d, Plain(FESC)) /\ ~Completes(d, Plain(FESC))
  BY <1>1, Distinct DEF Terminates, Completes
<1>3. feed_byte(d, Plain(FESC)) = Decoder(d.buf, TRUE, TRUE, d.overflow)
  BY <1>1, <1>2, Distinct DEF feed_byte
<1>. QED
  BY <1>1, <1>2, <1>3 DEF d

LEMMA FeedEscaped ==
    ASSUME NEW buf, NEW o, NEW b \in {FEND, FESC}
    PROVE  LET d == Decoder(buf, TRUE, TRUE, o)
               x == Plain(IF b = FEND THEN TFEND ELSE TFESC)
           IN feed_byte(d, x) = push_byte(d, Plain(b)) /\ ~Completes(d, x)
<1>. DEFINE d == Decoder(buf, TRUE, TRUE, o)
            c == IF b = FEND THEN TFEND ELSE TFESC
            x == Plain(c)
<1>1. d.in_frame /\ d.escape /\ x.byte = c
  BY DEF Decoder, Plain
<1>2. c \notin {FEND, FESC}
  BY Distinct
<1>. HIDE DEF d
<1>3. ~Terminates(d, x) /\ ~Completes(d, x)
  BY <1>1, <1>2 DEF Terminates, Completes
<1>4. Unescaped(d, x) = Plain(b)
  BY <1>1, Distinct DEF Unescaped, Plain
<1>. HIDE DEF x
<1>5. feed_byte(d, x) = push_byte(d, Unescaped(d, x))
  BY <1>1, <1>2, <1>3 DEF feed_byte
<1>. QED
  BY <1>3, <1>4, <1>5 DEF x, d

\* The FEND that closes a frame, when everything did fit and when not.
LEMMA FeedClose ==
    ASSUME NEW buf, buf # << >>
    PROVE  LET x == Plain(FEND)
               whole == Decoder(buf, TRUE, FALSE, FALSE)
               cut == Decoder(buf, TRUE, FALSE, TRUE)
           IN /\ Completes(whole, x)
              /\ feed_byte(whole, x) = Decoder(buf, FALSE, FALSE, FALSE)
              /\ ~Completes(cut, x)
              /\ feed_byte(cut, x) = Decoder(<< >>, FALSE, FALSE, FALSE)
  BY Distinct DEF Plain, Decoder, Completes, Terminates, feed_byte, NewDecoder

\* Storing the next byte of the frame.
LEMMA StoreNext ==
    ASSUME NEW S, NEW p \in Seq(S), NEW i \in 0 .. Len(p) - 1, NEW e \in BOOLEAN
    PROVE  push_byte(Decoder(Held(p, i), TRUE, e, i > BUF_SIZE), Plain(p[i + 1]))
             = Decoder(Held(p, i + 1), TRUE, FALSE, i + 1 > BUF_SIZE)
<1>. DEFINE s == Held(p, i)
            t == Held(p, i + 1)
            x == Plain(p[i + 1])
            o == i > BUF_SIZE
            d == Decoder(s, TRUE, e, o)
<1>1. BUF_SIZE \in Nat \ {0} /\ i \in Nat
  BY BufSizeAssumption
<1>2. Kept(i) \in Nat /\ Kept(i + 1) \in Nat
  BY <1>1 DEF Kept
<1>3. s \in Seq({Plain(p[k]) : k \in 1 .. Kept(i)}) /\ Len(s) = Kept(i)
  BY <1>2 DEF Held
<1>4. CASE i < BUF_SIZE
  <2>1. Kept(i) = i /\ Kept(i + 1) = i + 1
    BY <1>1, <1>4 DEF Kept
  <2>2. o = FALSE /\ (i + 1 > BUF_SIZE) = FALSE
    BY <1>1, <1>4
  <2>3. Append(s, x) = t
    BY <1>1, <2>1 DEF Held
  <2>4. Len(s) < BUF_SIZE
    BY <1>1, <1>3, <1>4, <2>1
  <2>. HIDE DEF s, t, x, o
  <2>5. push_byte(d, x) = Decoder(Append(s, x), TRUE, FALSE, o)
    BY <2>4 DEF push_byte, Decoder
  <2>. QED
    BY <2>2, <2>3, <2>5 DEF s, t, x, o
<1>5. CASE ~(i < BUF_SIZE)
  <2>1. Kept(i) = BUF_SIZE /\ Kept(i + 1) = BUF_SIZE
    BY <1>1, <1>5 DEF Kept
  <2>2. (i + 1 > BUF_SIZE) = TRUE
    BY <1>1, <1>5
  <2>3. s = t
    BY <2>1 DEF Held
  <2>4. ~(Len(s) < BUF_SIZE)
    BY <1>1, <1>3, <2>1
  <2>. HIDE DEF s, t, x, o
  <2>5. push_byte(d, x) = Decoder(s, TRUE, FALSE, TRUE)
    BY <2>4 DEF push_byte, Decoder
  <2>. QED
    BY <2>2, <2>3, <2>5 DEF s, t, x, o
<1>. QED
  BY <1>4, <1>5

\* What is held of a frame.
LEMMA HeldFacts ==
    ASSUME NEW S, NEW p \in Seq(S), NEW i \in Nat
    PROVE  /\ Len(Held(p, i)) \in Nat /\ Len(Held(p, i)) <= BUF_SIZE
           /\ DOMAIN Held(p, i) = 1 .. Len(Held(p, i))
           /\ i # 0 => Held(p, i) # << >>
           /\ i <= BUF_SIZE => Len(Held(p, i)) = i
           /\ i = Len(p) /\ i <= BUF_SIZE
                => [k \in DOMAIN Held(p, i) |-> Held(p, i)[k].byte] = p
<1>1. Kept(i) \in Nat /\ Kept(i) <= BUF_SIZE /\ (i # 0 => Kept(i) # 0)
  BY BufSizeAssumption DEF Kept
<1>2. Len(Held(p, i)) = Kept(i) /\ DOMAIN Held(p, i) = 1 .. Kept(i)
  BY <1>1 DEF Held
<1>3. ASSUME i = Len(p), i <= BUF_SIZE
      PROVE  [k \in DOMAIN Held(p, i) |-> Held(p, i)[k].byte] = p
  <2>1. Kept(i) = Len(p)
    BY <1>3 DEF Kept
  <2>2. \A k \in 1 .. Len(p) : Held(p, i)[k].byte = p[k]
    BY <2>1 DEF Held, Plain
  <2>. QED
    BY <1>2, <2>1, <2>2
<1>4. i # 0 => Held(p, i) # << >>
  BY <1>1, <1>2
<1>. QED
  BY <1>1, <1>2, <1>3, <1>4 DEF Kept

-----------------------------------------------------------------------------
(* The decoder in step with the encoder. *)

\* The walk stays in the frame.
LEMMA WalkGoesOn ==
    ASSUME NEW S, NEW p \in Seq(S), p # << >>, NEW w, WalkIn(p, w)
    PROVE  WalkIn(p, NextWalk(p, w))
<1>1. Len(p) \in Nat \ {0}
  OBVIOUS
<1>2. CASE w = Opening
  <2>1. NextWalk(p, w) = Walk("body", 0) /\ 0 \in 0 .. Len(p) - 1
    BY <1>1, <1>2 DEF NextWalk, Opening, Walk
  <2>. QED
    BY <2>1 DEF WalkIn
<1>3. ASSUME NEW i \in 0 .. Len(p) - 1, w = Walk("body", i)
      PROVE  WalkIn(p, NextWalk(p, w))
  <2>1. w.st = "body" /\ w.i = i
    BY <1>3, Fields
  <2>2. CASE i > 0 /\ Special(p[i + 1])
    BY <1>1, <2>1, <2>2 DEF WalkIn, NextWalk
  <2>3. CASE ~(i > 0 /\ Special(p[i + 1]))
    BY <1>1, <2>1, <2>3 DEF WalkIn, NextWalk, AfterPayloadByte
  <2>. QED
    BY <2>2, <2>3
<1>4. ASSUME NEW i \in 1 .. Len(p) - 1, w = Walk("escaped", i)
      PROVE  WalkIn(p, NextWalk(p, w))
  <2>1. w.st = "escaped" /\ w.i = i
    BY <1>4, Fields
  <2>. QED
    BY <1>1, <2>1 DEF WalkIn, NextWalk, AfterPayloadByte
<1>5. CASE w = Walk("close", Len(p))
  BY <1>5, Fields DEF WalkIn, NextWalk
<1>. QED
  BY <1>2, <1>3, <1>4, <1>5 DEF WalkIn

\* Byte for byte the decoder follows the encoder, and the closing FEND
\* completes the frame if all of it fits.
THEOREM ByteInStep ==
    ASSUME NEW S, NEW p \in Seq(S), p # << >>, ~Special(p[1]),
           NEW w, WalkIn(p, w), NEW d, Matches(d, p, w)
    PROVE  LET x == Plain(NextByte(p, w))
           IN /\ Matches(feed_byte(d, x), p, NextWalk(p, w))
              /\ Completes(d, x) <=> w.st = "close" /\ Len(p) <= BUF_SIZE
              /\ Completes(d, x) => [k \in DOMAIN d.buf |-> d.buf[k].byte] = p
              /\ Len(feed_byte(d, x).buf) <= BUF_SIZE
<1>. DEFINE x == Plain(NextByte(p, w))
<1>1. Len(p) \in Nat \ {0} /\ BUF_SIZE \in Nat \ {0}
  BY BufSizeAssumption
\* A byte of the frame is stored.
<1>2. ASSUME NEW i \in 0 .. Len(p) - 1, NEW e \in BOOLEAN,
             d = Decoder(Held(p, i), TRUE, e, i > BUF_SIZE),
             feed_byte(d, x) = push_byte(d, Plain(p[i + 1])),
             NextWalk(p, w) = AfterPayloadByte(p, Walk(w.st, i))
      PROVE  /\ Matches(feed_byte(d, x), p, NextWalk(p, w))
             /\ Len(feed_byte(d, x).buf) <= BUF_SIZE
  <2>1. feed_byte(d, x) = Decoder(Held(p, i + 1), TRUE, FALSE, i + 1 > BUF_SIZE)
    BY <1>2, StoreNext
  <2>2. NextWalk(p, w).i = i + 1 /\ NextWalk(p, w).st \in {"close", "body"}
    BY <1>2, Fields DEF AfterPayloadByte
  <2>3. (NextWalk(p, w).st = "escaped") = FALSE
    BY <2>2
  <2>4. feed_byte(d, x).buf = Held(p, i + 1)
    BY <2>1, BufOf
  <2>5. Len(Held(p, i + 1)) <= BUF_SIZE
    <3>1. i + 1 \in Nat
      OBVIOUS
    <3>. QED
      BY <3>1, HeldFacts
  <2>. QED
    BY <2>1, <2>2, <2>3, <2>4, <2>5 DEF Matches
<1>3. CASE w = Opening
  <2>1. w.st = "open" /\ NextByte(p, w) = FEND /\ NextWalk(p, w) = Walk("body", 0)
    BY <1>3 DEF Opening, Walk, NextByte, NextWalk
  <2>2. d = Decoder(d.buf, FALSE, FALSE, FALSE)
    BY <2>1 DEF Matches
  <2>3. ~Completes(d, x) /\ feed_byte(d, x) = Decoder(<< >>, TRUE, FALSE, FALSE)
    BY <2>1, <2>2, FeedOpen
  <2>4. Held(p, 0) = << >> /\ (0 > BUF_SIZE) = FALSE
    BY <1>1 DEF Held, Kept
  <2>5. /\ NextWalk(p, w).st = "body" /\ NextWalk(p, w).i = 0
        /\ (NextWalk(p, w).st = "escaped") = FALSE
    BY <2>1, Fields
  <2>6. Matches(feed_byte(d, x), p, NextWalk(p, w))
    BY <2>3, <2>4, <2>5 DEF Matches
  <2>7. Len(feed_byte(d, x).buf) <= BUF_SIZE
    <3>1. feed_byte(d, x).buf = << >>
      BY <2>3, BufOf
    <3>. QED
      BY <3>1, EmptyFits
  <2>. QED
    BY <2>1, <2>3, <2>6, <2>7
<1>4. ASSUME NEW i \in 0 .. Len(p) - 1, w = Walk("body", i)
      PROVE  /\ ~Completes(d, x) /\ Matches(feed_byte(d, x), p, NextWalk(p, w))
             /\ Len(feed_byte(d, x).buf) <= BUF_SIZE
  <2>1. w.st = "body" /\ w.i = i
    BY <1>4, Fields
  <2>2. d = Decoder(Held(p, i), TRUE, FALSE, i > BUF_SIZE)
    <3>1. (w.st = "escaped") = FALSE /\ w.st # "open"
      BY <2>1
    <3>. QED
      BY <2>1, <3>1 DEF Matches
  <2>3. CASE i > 0 /\ Special(p[i + 1])
    <3>1. NextByte(p, w) = FESC /\ NextWalk(p, w) = Walk("escaped", i)
      BY <2>1, <2>3 DEF NextByte, NextWalk
    <3>2. ~Completes(d, x) /\ feed_byte(d, x) = Decoder(Held(p, i), TRUE, TRUE, i > BUF_SIZE)
      BY <2>2, <3>1, FeedEscape
    <3>3. /\ NextWalk(p, w).st = "escaped" /\ NextWalk(p, w).i = i
          /\ (NextWalk(p, w).st = "escaped") = TRUE
      BY <3>1, Fields
    <3>5. i \in Nat
      OBVIOUS
    <3>4. feed_byte(d, x).buf = Held(p, i) /\ Len(Held(p, i)) <= BUF_SIZE
      BY <3>2, <3>5, BufOf, HeldFacts
    <3>. QED
      BY <3>2, <3>3, <3>4 DEF Matches
  <2>4. CASE ~(i > 0 /\ Special(p[i + 1]))
    <3>1. p[i + 1] \notin {FEND, FESC}
      BY <2>4 DEF Special
    <3>2. NextByte(p, w) = p[i + 1] /\ NextWalk(p, w) = AfterPayloadByte(p, w)
      BY <2>1, <2>4 DEF NextByte, NextWalk
    <3>3. ~Completes(d, x) /\ feed_byte(d, x) = push_byte(d, Plain(p[i + 1]))
      BY <2>2, <3>1, <3>2, FeedPlain
    <3>. QED
      BY <1>2, <1>4, <2>1, <2>2, <3>2, <3>3
  <2>. QED
    BY <2>3, <2>4
<1>5. ASSUME NEW i \in 1 .. Len(p) - 1, w = Walk("escaped", i), Special(p[i + 1])
      PROVE  /\ ~Completes(d, x) /\ Matches(feed_byte(d, x), p, NextWalk(p, w))
             /\ Len(feed_byte(d, x).buf) <= BUF_SIZE
  <2>1. w.st = "escaped" /\ w.i = i /\ i \in 0 .. Len(p) - 1
    BY <1>5, Fields
  <2>2. d = Decoder(Held(p, i), TRUE, TRUE, i > BUF_SIZE)
    <3>1. (w.st = "escaped") = TRUE /\ w.st # "open"
      BY <2>1
    <3>. QED
      BY <2>1, <3>1 DEF Matches
  <2>3. p[i + 1] \in {FEND, FESC}
    BY <1>5 DEF Special
  <2>4. /\ NextByte(p, w) = IF p[i + 1] = FEND THEN TFEND ELSE TFESC
        /\ NextWalk(p, w) = AfterPayloadByte(p, w)
    BY <2>1 DEF NextByte, NextWalk
  <2>5. ~Completes(d, x) /\ feed_byte(d, x) = push_byte(d, Plain(p[i + 1]))
    BY <2>2, <2>3, <2>4, FeedEscaped
  <2>. QED
    BY <1>2, <1>5, <2>1, <2>2, <2>4, <2>5
<1>6. ASSUME w = Walk("close", Len(p))
      PROVE  /\ Matches(feed_byte(d, x), p, NextWalk(p, w))
             /\ Completes(d, x) <=> Len(p) <= BUF_SIZE
             /\ Completes(d, x) => [k \in DOMAIN d.buf |-> d.buf[k].byte] = p
             /\ Len(feed_byte(d, x).buf) <= BUF_SIZE
  <2>. DEFINE h == Held(p, Len(p))
  <2>1. w.st = "close" /\ w.i = Len(p)
    BY <1>6, Fields
  <2>2. d = Decoder(h, TRUE, FALSE, Len(p) > BUF_SIZE)
    <3>1. (w.st = "escaped") = FALSE /\ w.st # "open"
      BY <2>1
    <3>. QED
      BY <2>1, <3>1 DEF Matches
  <2>3. h # << >> /\ Len(h) <= BUF_SIZE
    BY <1>1, HeldFacts
  <2>4. NextByte(p, w) = FEND /\ NextWalk(p, w) = Opening /\ Opening.st = "open"
    BY <2>1, Fields DEF NextByte, NextWalk, Opening
  <2>5. Len(p) <= BUF_SIZE => [k \in DOMAIN h |-> h[k].byte] = p
    BY <1>1, HeldFacts
  <2>6. d.buf = h
    BY <2>2, BufOf
  <2>. HIDE DEF h
  <2>7. CASE Len(p) <= BUF_SIZE
    <3>1. (Len(p) > BUF_SIZE) = FALSE
      BY <1>1, <2>7
    <3>2. Completes(d, x) /\ feed_byte(d, x) = Decoder(h, FALSE, FALSE, FALSE)
      BY <2>2, <2>3, <2>4, <3>1, FeedClose
    <3>3. feed_byte(d, x).buf = h
      BY <3>2, BufOf
    <3>. QED
      BY <2>3, <2>4, <2>5, <2>6, <2>7, <3>2, <3>3 DEF Matches
  <2>8. CASE ~(Len(p) <= BUF_SIZE)
    <3>1. (Len(p) > BUF_SIZE) = TRUE
      BY <1>1, <2>8
    <3>2. ~Completes(d, x) /\ feed_byte(d, x) = Decoder(<< >>, FALSE, FALSE, FALSE)
      BY <2>2, <2>3, <2>4, <3>1, FeedClose
    <3>3. feed_byte(d, x).buf = << >>
      BY <3>2, BufOf
    <3>. QED
      BY <2>4, <2>8, <3>2, <3>3, EmptyFits DEF Matches
  <2>. QED
    BY <2>7, <2>8
<1>7. \A st, i : st # "close" => Walk(st, i).st # "close"
  BY Fields
<1>. QED
  BY <1>3, <1>4, <1>5, <1>6, <1>7, Fields DEF WalkIn

-----------------------------------------------------------------------------
(* encode_frame *)

\* Every set of numbers that is not empty has a least one: what the inductions
\* below rest on.
LEMMA Least ==
    ASSUME NEW T \in SUBSET Nat, T # {}
    PROVE  \E n \in T : \A m \in T : ~(m < n)
<1>1. IsWellFoundedOn(OpToRel(<, Nat), Nat)
  BY NatLessThanWellFounded
<1>2. \E x \in T : \A y \in T : ~(<<y, x>> \in OpToRel(<, Nat))
  BY <1>1, WFMin
<1>. QED
  BY <1>2 DEF OpToRel

\* The function encode_frame is defined by.
StepOf(p, f, n) == IF n = 0 THEN Opening ELSE NextWalk(p, f[n - 1])
WalkOf(p, f, n) == f = [k \in 0 .. n |-> StepOf(p, f, k)]

LEMMA WalkOfExists ==
    ASSUME NEW p, NEW n \in Nat
    PROVE  \E f : WalkOf(p, f, n)
<1>. DEFINE T == {m \in Nat : ~\E f : WalkOf(p, f, m)}
<1>1. ASSUME T # {} PROVE FALSE
  <2>1. PICK m \in T : \A k \in T : ~(k < m)
    BY <1>1, Least
  <2>2. m # 0
    <3>1. WalkOf(p, [k \in 0 .. 0 |-> Opening], 0)
      BY DEF WalkOf, StepOf
    <3>. QED
      BY <2>1, <3>1
  <2>3. m - 1 \in Nat /\ m - 1 \notin T
    BY <2>1, <2>2
  <2>4. PICK f : WalkOf(p, f, m - 1)
    BY <2>3
  <2>. DEFINE g == [k \in 0 .. m |-> IF k = m THEN StepOf(p, f, m) ELSE f[k]]
  <2>5. WalkOf(p, g, m)
    <3>1. \A k \in 0 .. m : g[k] = StepOf(p, g, k)
      <4>. SUFFICES ASSUME NEW k \in 0 .. m PROVE g[k] = StepOf(p, g, k)
        OBVIOUS
      <4>1. k # 0 => g[k - 1] = f[k - 1]
        OBVIOUS
      <4>2. StepOf(p, g, k) = StepOf(p, f, k)
        BY <4>1 DEF StepOf
      <4>3. k # m => f[k] = StepOf(p, f, k)
        BY <2>4 DEF WalkOf
      <4>. QED
        BY <4>2, <4>3
    <3>. QED
      BY <3>1 DEF WalkOf
  <2>. QED
    BY <2>1, <2>5
<1>. QED
  BY <1>1

\* The bytes of p up to the i-th that need an escape.
Escapes(p, i) == {j \in 2 .. i : Special(p[j])}

LEMMA EscapeFacts ==
    ASSUME NEW p
    PROVE  /\ \A i \in Nat : Cardinality(Escapes(p, i)) \in Nat
           /\ Cardinality(Escapes(p, 0)) = 0
           /\ \A i \in Nat : Cardinality(Escapes(p, i + 1)) =
                 IF i > 0 /\ Special(p[i + 1]) THEN Cardinality(Escapes(p, i)) + 1
                 ELSE Cardinality(Escapes(p, i))
           /\ \A i, j \in Nat : i <= j => Cardinality(Escapes(p, i)) <= Cardinality(Escapes(p, j))
<1>1. \A i \in Nat : IsFiniteSet(Escapes(p, i))
  <2>1. ASSUME NEW i \in Nat PROVE IsFiniteSet(Escapes(p, i))
    <3>1. IsFiniteSet(2 .. i) /\ Escapes(p, i) \subseteq 2 .. i
      BY FS_Interval DEF Escapes
    <3>. QED
      BY <3>1, FS_Subset
  <2>. QED
    BY <2>1
<1>2. \A i \in Nat : Cardinality(Escapes(p, i)) \in Nat
  BY <1>1, FS_CardinalityType
<1>3. Cardinality(Escapes(p, 0)) = 0
  <2>1. Escapes(p, 0) = {}
    BY DEF Escapes
  <2>. QED
    BY <2>1, FS_EmptySet
<1>4. ASSUME NEW i \in Nat
      PROVE  Cardinality(Escapes(p, i + 1)) =
                 IF i > 0 /\ Special(p[i + 1]) THEN Cardinality(Escapes(p, i)) + 1
                 ELSE Cardinality(Escapes(p, i))
  <2>1. CASE i > 0 /\ Special(p[i + 1])
    <3>1. Escapes(p, i + 1) = Escapes(p, i) \cup {i + 1} /\ i + 1 \notin Escapes(p, i)
      BY <2>1 DEF Escapes
    <3>. QED
      BY <1>1, <2>1, <3>1, FS_AddElement
  <2>2. CASE ~(i > 0 /\ Special(p[i + 1]))
    <3>1. Escapes(p, i + 1) = Escapes(p, i)
      BY <2>2 DEF Escapes
    <3>. QED
      BY <2>2, <3>1
  <2>. QED
    BY <2>1, <2>2
<1>5. ASSUME NEW i \in Nat, NEW j \in Nat, i <= j
      PROVE  Cardinality(Escapes(p, i)) <= Cardinality(Escapes(p, j))
  <2>1. Escapes(p, i) \subseteq Escapes(p, j)
    BY <1>5 DEF Escapes
  <2>. QED
    BY <1>1, <2>1, FS_Subset
<1>. QED
  BY <1>2, <1>3, <1>4, <1>5

\* How many bytes are written when the walk is at w, after the opening FEND.
Written(p, w) ==
    1 + w.i + Cardinality(Escapes(p, w.i)) + (IF w.st = "escaped" THEN 1 ELSE 0)

\* One byte is written in a step.
LEMMA WrittenGrows ==
    ASSUME NEW S, NEW p \in Seq(S), p # << >>, NEW w, WalkIn(p, w), w.st # "close"
    PROVE  /\ w = Opening => Written(p, NextWalk(p, w)) = 1
           /\ w # Opening => Written(p, NextWalk(p, w)) = Written(p, w) + 1
           /\ NextWalk(p, w).st # "open"
<1>. DEFINE n == NextWalk(p, w)
            C(i) == Cardinality(Escapes(p, i))
<1>0. Len(p) \in Nat \ {0}
  OBVIOUS
<1>1. CASE w = Opening
  <2>1. n = Walk("body", 0) /\ n.st = "body" /\ n.i = 0
    BY <1>1 DEF NextWalk, Opening, Walk
  <2>2. C(0) = 0
    BY EscapeFacts
  <2>3. Written(p, n) = 1 + 0 + C(0) + 0
    BY <2>1 DEF Written
  <2>. QED
    BY <1>1, <2>1, <2>2, <2>3
<1>2. ASSUME NEW i \in 0 .. Len(p) - 1, w = Walk("body", i)
      PROVE  Written(p, n) = Written(p, w) + 1 /\ n.st # "open" /\ w # Opening
  <2>1. w.st = "body" /\ w.i = i /\ w # Opening
    BY <1>2, Fields DEF Opening
  <2>2. Written(p, w) = 1 + i + C(i) /\ C(i) \in Nat
    <3>1. i \in Nat /\ C(i) \in Nat
      <4>1. i \in Nat
        OBVIOUS
      <4>. QED
        BY <4>1, EscapeFacts
    <3>2. Written(p, w) = 1 + i + C(i) + 0
      BY <2>1 DEF Written
    <3>. QED
      BY <3>1, <3>2
  <2>3. CASE i > 0 /\ Special(p[i + 1])
    <3>1. n.st = "escaped" /\ n.i = i
      BY <2>1, <2>3 DEF NextWalk, Walk
    <3>2. Written(p, n) = 1 + i + C(i) + 1
      BY <3>1 DEF Written
    <3>. QED
      BY <2>1, <2>2, <3>1, <3>2
  <2>4. CASE ~(i > 0 /\ Special(p[i + 1]))
    <3>1. n.st \in {"body", "close"} /\ n.i = i + 1
      BY <2>1, <2>4 DEF NextWalk, AfterPayloadByte, Walk
    <3>2. Written(p, n) = 1 + (i + 1) + C(i + 1)
      <4>1. C(i + 1) \in Nat
        BY EscapeFacts
      <4>. QED
        BY <3>1, <4>1 DEF Written
    <3>3. C(i + 1) = C(i)
      BY <2>4, EscapeFacts
    <3>. QED
      BY <2>1, <2>2, <3>1, <3>2, <3>3
  <2>. QED
    BY <2>3, <2>4
<1>3. ASSUME NEW i \in 1 .. Len(p) - 1, w = Walk("escaped", i), Special(p[i + 1])
      PROVE  Written(p, n) = Written(p, w) + 1 /\ n.st # "open" /\ w # Opening
  <2>1. w.st = "escaped" /\ w.i = i /\ w # Opening
    BY <1>3, Fields DEF Opening
  <2>2. Written(p, w) = 1 + i + C(i) + 1 /\ C(i) \in Nat
    <3>1. i \in Nat /\ C(i) \in Nat
      <4>1. i \in Nat
        OBVIOUS
      <4>. QED
        BY <4>1, EscapeFacts
    <3>2. Written(p, w) = 1 + i + C(i) + 1
      BY <2>1 DEF Written
    <3>. QED
      BY <3>1, <3>2
  <2>3. n.st \in {"body", "close"} /\ n.i = i + 1
    BY <2>1 DEF NextWalk, AfterPayloadByte, Walk
  <2>4. Written(p, n) = 1 + (i + 1) + C(i + 1)
    <3>1. C(i + 1) \in Nat
      BY EscapeFacts
    <3>. QED
      BY <2>3, <3>1 DEF Written
  <2>5. C(i + 1) = C(i) + 1
    BY <1>3, EscapeFacts
  <2>. QED
    BY <2>1, <2>2, <2>3, <2>4, <2>5
<1>. QED
  BY <1>1, <1>2, <1>3, Fields DEF WalkIn

\* The encoding is one walk from the opening FEND to behind the closing one:
\* EncodedLen counts its bytes, whatever the frame holds.
THEOREM EncodingIsWalk ==
    ASSUME NEW S, NEW p \in Seq(S), p # << >>
    PROVE  /\ EncodedLen(p) \in Nat \ {0} /\ Len(encode_frame(p)) = EncodedLen(p)
           /\ \E walk :
                /\ walk[0] = Opening
                /\ \A k \in 1 .. EncodedLen(p) :
                      /\ walk[k] = NextWalk(p, walk[k - 1])
                      /\ encode_frame(p)[k] = NextByte(p, walk[k - 1])
                      /\ WalkIn(p, walk[k - 1])
                      /\ walk[k - 1].st = "close" <=> k = EncodedLen(p)
<1>. DEFINE N == EncodedLen(p)
            f == CHOOSE f : WalkOf(p, f, N)
            l == Len(p)
            C(i) == Cardinality(Escapes(p, i))
<1>1. l \in Nat \ {0} /\ C(l) \in Nat /\ N = l + 2 + C(l) /\ N \in Nat \ {0}
  <2>1. C(l) \in Nat
    BY EscapeFacts
  <2>. QED
    BY <2>1 DEF EncodedLen, Escapes
<1>2. WalkOf(p, f, N)
  BY <1>1, WalkOfExists
<1>3. encode_frame(p) = [k \in 1 .. N |-> NextByte(p, f[k - 1])]
  BY DEF encode_frame, WalkOf, StepOf
<1>. HIDE DEF N, f
<1>4. f[0] = Opening /\ \A k \in 1 .. N : f[k] = NextWalk(p, f[k - 1])
  <2>1. \A k \in 0 .. N : f[k] = StepOf(p, f, k)
    BY <1>2 DEF WalkOf
  <2>. QED
    BY <1>1, <2>1 DEF StepOf
\* Where the walk is after k bytes.
<1>. DEFINE Good(k) == /\ WalkIn(p, f[k]) /\ f[k].st # "open"
                       /\ Written(p, f[k]) = k
            T == {k \in 1 .. N - 1 : ~Good(k)}
<1>5. ASSUME NEW k \in 1 .. N - 1, Good(k)
      PROVE  (f[k].st = "close") <=> k = N - 1
  <2>1. ASSUME NEW i \in 0 .. l - 1, f[k] = Walk("body", i)
        PROVE  f[k].st # "close" /\ k # N - 1
    <3>0. i \in Nat /\ l \in Nat /\ i <= l
      BY <1>1
    <3>2. C(i) \in Nat /\ C(i) <= C(l)
      BY <3>0, EscapeFacts
    <3>1. k = 1 + i + C(i) /\ f[k].st # "close"
      <4>1. f[k].st = "body" /\ f[k].i = i
        BY <2>1, Fields
      <4>2. k = 1 + i + C(i) + 0
        BY <1>5, <4>1 DEF Written
      <4>. QED
        BY <3>0, <3>2, <4>1, <4>2
    <3>. HIDE DEF C, l
    <3>. QED
      BY <1>1, <3>1, <3>2
  <2>2. ASSUME NEW i \in 1 .. l - 1, f[k] = Walk("escaped", i), Special(p[i + 1])
        PROVE  f[k].st # "close" /\ k # N - 1
    <3>1. k = 1 + i + C(i) + 1 /\ f[k].st # "close"
      BY <1>5, <2>2, Fields DEF Written
    <3>2. C(i) \in Nat /\ C(i + 1) = C(i) + 1 /\ C(i + 1) <= C(l)
      <4>1. i \in Nat /\ i > 0 /\ i + 1 \in Nat /\ i + 1 <= l /\ l \in Nat
        BY <1>1
      <4>. QED
        BY <2>2, <4>1, EscapeFacts
    <3>3. PICK a, b \in Nat : a = C(i) /\ b = C(l) /\ a + 1 <= b
      <4>1. C(l) \in Nat
        BY <1>1
      <4>. QED
        BY <3>2, <4>1
    <3>4. N = 2 + l + b
      BY <1>1, <3>3
    <3>5. PICK m \in Nat : m = l /\ i \in 1 .. m - 1
      BY <1>1
    <3>6. 1 + i + a + 1 # (2 + m + b) - 1
      BY <3>3, <3>5
    <3>7. k = 1 + i + a + 1 /\ N = 2 + m + b
      BY <3>1, <3>3, <3>4, <3>5
    <3>. HIDE DEF C, l
    <3>. QED
      BY <3>1, <3>6, <3>7
  <2>3. ASSUME f[k] = Walk("close", l)
        PROVE  f[k].st = "close" /\ k = N - 1
    <3>1. f[k].st = "close" /\ f[k].i = l
      BY <2>3, Fields
    <3>2. k = 1 + l + C(l)
      BY <1>1, <1>5, <3>1 DEF Written
    <3>. QED
      BY <1>1, <3>1, <3>2
  <2>4. Opening.st = "open"
    BY Fields DEF Opening
  <2>. QED
    BY <1>5, <2>1, <2>2, <2>3, <2>4 DEF WalkIn
<1>6. ASSUME T # {} PROVE FALSE
  <2>1. T \in SUBSET Nat
    OBVIOUS
  <2>2. PICK k \in T : \A j \in T : ~(j < k)
    <3>. HIDE DEF T
    <3>. QED
      BY <1>6, <2>1, Least
  <2>3. k \in 1 .. N - 1 /\ f[k] = NextWalk(p, f[k - 1])
    BY <1>1, <1>4
  <2>4. CASE k = 1
    <3>1. WalkIn(p, f[0]) /\ f[0] = Opening /\ f[0].st # "close" /\ f[k] = NextWalk(p, f[0])
      BY <1>4, <2>3, <2>4, Fields DEF WalkIn, Opening
    <3>2. Good(k)
      BY <2>4, <3>1, WalkGoesOn, WrittenGrows
    <3>. QED
      BY <3>2
  <2>5. CASE k # 1
    <3>1. k - 1 \in 1 .. N - 1 /\ k - 1 \notin T
      BY <1>1, <2>2, <2>3, <2>5
    <3>2. Good(k - 1)
      BY <3>1
    <3>3. f[k - 1].st # "close"
      <4>1. k - 1 # N - 1
        BY <1>1, <2>3
      <4>. HIDE DEF Good
      <4>. QED
        BY <1>5, <3>1, <3>2, <4>1
    <3>4. f[k - 1] # Opening
      BY <3>2, Fields DEF Opening
    <3>5. Written(p, f[k]) = (k - 1) + 1 /\ WalkIn(p, f[k]) /\ f[k].st # "open"
      BY <2>3, <3>2, <3>3, <3>4, WalkGoesOn, WrittenGrows
    <3>6. Good(k)
      BY <2>3, <3>5
    <3>. QED
      BY <3>6
  <2>. QED
    BY <2>4, <2>5
<1>7. ASSUME NEW k \in 1 .. N
      PROVE  WalkIn(p, f[k - 1]) /\ (f[k - 1].st = "close" <=> k = N)
  <2>1. CASE k = 1
    <3>1. WalkIn(p, f[0]) /\ f[0].st = "open" /\ N # 1
      BY <1>1, <1>4, Fields DEF WalkIn, Opening
    <3>. QED
      BY <2>1, <3>1
  <2>2. CASE k # 1
    <3>1. k - 1 \in 1 .. N - 1
      BY <1>1, <2>2
    <3>2. Good(k - 1)
      BY <1>6, <3>1
    <3>3. (f[k - 1].st = "close") <=> k - 1 = N - 1
      <4>. HIDE DEF Good
      <4>. QED
        BY <1>5, <3>1, <3>2
    <3>4. (k - 1 = N - 1) <=> k = N
      BY <1>1
    <3>. QED
      BY <3>2, <3>3, <3>4
  <2>. QED
    BY <2>1, <2>2
<1>8. /\ Len(encode_frame(p)) = N
      /\ \A k \in 1 .. N : encode_frame(p)[k] = NextByte(p, f[k - 1])
  BY <1>1, <1>3
<1>. QED
  BY <1>1, <1>4, <1>7, <1>8 DEF N
=============================================================================
