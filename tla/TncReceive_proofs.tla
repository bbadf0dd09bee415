--------------------------- MODULE TncReceive_proofs ---------------------------
(***************************************************************************)
(* The outbox is a first-in first-out stream of bytes: first for the ring  *)
(* as a value, then for the engine's use of it.  And the host that decodes *)
(* the stream sees the frames the outbox took.                             *)
(***************************************************************************)
EXTENDS TncReceive, KissDecoder_proofs, SequenceTheorems

-----------------------------------------------------------------------------
(* Positions in a ring of n cells, numbered 0 .. n - 1. *)

\* Every number has its place in the ring, and one lap more is the same place.
LEMMA InRing ==
    ASSUME NEW n \in Nat \ {0}, NEW x \in Int
    PROVE  x % n \in 0 .. n - 1
  OBVIOUS

LEMMA OneLap ==
    ASSUME NEW n \in Nat \ {0}, NEW t \in 0 .. n - 1
    PROVE  t % n = t /\ (n + t) % n = t
  OBVIOUS

\* Moving on by k and then by j is moving on by k + j.
LEMMA Shift ==
    ASSUME NEW n \in Nat \ {0}, NEW a \in 0 .. n - 1,
           NEW k \in 0 .. n - 1, NEW j \in 0 .. n - 1, k + j <= n - 1
    PROVE  (((a + k) % n) + j) % n = (a + (k + j)) % n
<1>1. (a + k) % n = IF a + k < n THEN a + k ELSE a + k - n
  OBVIOUS
<1>2. (a + (k + j)) % n = IF a + (k + j) < n THEN a + (k + j) ELSE a + (k + j) - n
  OBVIOUS
<1>3. CASE a + k < n
  <2>1. ((a + k) + j) % n = IF (a + k) + j < n THEN (a + k) + j ELSE (a + k) + j - n
    BY <1>3
  <2>. QED
    BY <1>1, <1>2, <1>3, <2>1
<1>4. CASE ~(a + k < n)
  <2>1. ((a + k - n) + j) % n = (a + k - n) + j
    BY <1>4
  <2>. QED
    BY <1>1, <1>2, <1>4, <2>1
<1>. QED
  BY <1>3, <1>4

\* How far the i-th cell from a lies ahead of the u-th one.
LEMMA Distance ==
    ASSUME NEW n \in Nat \ {0}, NEW a \in 0 .. n - 1,
           NEW i \in 0 .. n - 1, NEW u \in 0 .. n - 1
    PROVE  (((a + i) % n) - ((a + u) % n)) % n = IF i >= u THEN i - u ELSE n - (u - i)
<1>1. (a + i) % n = IF a + i < n THEN a + i ELSE a + i - n
  OBVIOUS
<1>2. (a + u) % n = IF a + u < n THEN a + u ELSE a + u - n
  OBVIOUS
<1>3. \A x \in 0 .. n - 1 : x % n = x /\ (x - n) % n = x
  OBVIOUS
<1>4. ((a + i) % n) - ((a + u) % n) \in {i - u, i - u - n, i - u + n}
  BY <1>1, <1>2
<1>5. ((a + i) % n) - ((a + u) % n) \in -(n - 1) .. n - 1
  BY <1>1, <1>2
<1>6. CASE i >= u
  <2>1. i - u \in 0 .. n - 1
    BY <1>6
  <2>2. ((a + i) % n) - ((a + u) % n) \in {i - u, i - u - n}
    BY <1>4, <1>5, <1>6
  <2>. QED
    BY <1>3, <1>6, <2>1, <2>2
<1>7. CASE i < u
  <2>1. n - (u - i) \in 0 .. n - 1
    BY <1>7
  <2>2. ((a + i) % n) - ((a + u) % n) \in {i - u, i - u + n}
    BY <1>4, <1>5, <1>7
  <2>3. (n - (u - i)) % n = n - (u - i) /\ ((n - (u - i)) - n) % n = n - (u - i)
    BY <1>3, <2>1
  <2>4. /\ i - u = (n - (u - i)) - n
        /\ i - u + n = n - (u - i)
    OBVIOUS
  <2>. QED
    BY <1>7, <2>2, <2>3, <2>4
<1>. QED
  BY <1>6, <1>7

-----------------------------------------------------------------------------
(* The outbox. *)

\* The tail is as many cells ahead of the head as there are bytes.
LEMMA UsedFacts ==
    ASSUME NEW B, NEW q \in KissOutboxOf(B)
    PROVE  /\ Used(q) \in 0 .. KISS_OUTBOX_SIZE - 1
           /\ q.tail = (q.head + Used(q)) % KISS_OUTBOX_SIZE
<1>1. /\ KISS_OUTBOX_SIZE \in Nat \ {0}
      /\ q.head \in 0 .. KISS_OUTBOX_SIZE - 1 /\ q.tail \in 0 .. KISS_OUTBOX_SIZE - 1
  BY OutboxSizeAssumption DEF KissOutboxOf, Cells
<1>2. CASE q.tail >= q.head
  <2>1. Used(q) = q.tail - q.head
    BY <1>2 DEF Used
  <2>2. Used(q) \in 0 .. KISS_OUTBOX_SIZE - 1 /\ q.head + Used(q) = q.tail
    BY <1>1, <1>2, <2>1
  <2>. QED
    BY <1>1, <2>2
<1>3. CASE ~(q.tail >= q.head)
  <2>1. Used(q) = KISS_OUTBOX_SIZE - q.head + q.tail
    BY <1>3 DEF Used
  <2>2. /\ Used(q) \in 0 .. KISS_OUTBOX_SIZE - 1
        /\ q.head + Used(q) = KISS_OUTBOX_SIZE + q.tail
    BY <1>1, <1>3, <2>1
  <2>3. (KISS_OUTBOX_SIZE + q.tail) % KISS_OUTBOX_SIZE = q.tail
    BY <1>1, OneLap
  <2>. QED
    BY <1>1, <2>2, <2>3
<1>. QED
  BY <1>2, <1>3

\* And no other number of bytes fits the two.
LEMMA UsedUnique ==
    ASSUME NEW B, NEW q \in KissOutboxOf(B), NEW u \in 0 .. KISS_OUTBOX_SIZE - 1,
           q.tail = (q.head + u) % KISS_OUTBOX_SIZE
    PROVE  Used(q) = u
<1>1. /\ KISS_OUTBOX_SIZE \in Nat \ {0}
      /\ q.head \in 0 .. KISS_OUTBOX_SIZE - 1
  BY OutboxSizeAssumption DEF KissOutboxOf, Cells
<1>2. Used(q) \in 0 .. KISS_OUTBOX_SIZE - 1
      /\ (q.head + Used(q)) % KISS_OUTBOX_SIZE = (q.head + u) % KISS_OUTBOX_SIZE
  BY UsedFacts
<1>3. Used(q) \in 0 .. KISS_OUTBOX_SIZE - 1 /\ u \in 0 .. KISS_OUTBOX_SIZE - 1
  BY <1>2
<1>. DEFINE v == Used(q)
            z == (q.head + u) % KISS_OUTBOX_SIZE
<1>4. (((q.head + v) % KISS_OUTBOX_SIZE) - z) % KISS_OUTBOX_SIZE
        = IF v >= u THEN v - u ELSE KISS_OUTBOX_SIZE - (u - v)
  BY <1>1, <1>3, Distance
<1>5. z \in Int /\ (q.head + v) % KISS_OUTBOX_SIZE = z
  <2>1. q.head + u \in Int
    BY <1>1
  <2>. QED
    BY <1>1, <1>2, <2>1, InRing
<1>. HIDE DEF v, z
<1>6. (z - z) % KISS_OUTBOX_SIZE = 0
  BY <1>1, <1>5
<1>7. v = u
  BY <1>1, <1>3, <1>4, <1>5, <1>6 DEF v
<1>. QED
  BY <1>7 DEF v

\* The waiting bytes are a sequence.
LEMMA WaitingLen ==
    ASSUME NEW B, NEW q \in KissOutboxOf(B)
    PROVE  /\ Waiting(q) \in Seq(B)
           /\ Len(Waiting(q)) = Used(q) /\ DOMAIN Waiting(q) = 1 .. Used(q)
<1>1. /\ KISS_OUTBOX_SIZE \in Nat \ {0}
      /\ q.head \in 0 .. KISS_OUTBOX_SIZE - 1 /\ q.buf \in [Cells -> B]
  BY OutboxSizeAssumption DEF KissOutboxOf, Cells
<1>2. Used(q) \in 0 .. KISS_OUTBOX_SIZE - 1
  BY UsedFacts
<1>3. \A i \in 1 .. Used(q) : (q.head + (i - 1)) % KISS_OUTBOX_SIZE \in Cells
  BY <1>1, <1>2 DEF Cells
<1>. QED
  BY <1>1, <1>2, <1>3 DEF Waiting

\* A new outbox is empty.
LEMMA NewOutboxIsEmpty ==
    NewOutbox \in KissOutboxOf(Byte) /\ Waiting(NewOutbox) = << >>
  BY OutboxSizeAssumption DEF NewOutbox, KissOutboxOf, Waiting, Used, Cells, Byte

-----------------------------------------------------------------------------
\* write appends all of the data when there is room for it.
LEMMA WriteAppends ==
    ASSUME NEW B, NEW q \in KissOutboxOf(B), NEW data \in Seq(B),
           Len(data) <= free_space(q)
    PROVE  /\ write(q, data) \in KissOutboxOf(B)
           /\ Waiting(write(q, data)) = Waiting(q) \o data
<1>. DEFINE N == KISS_OUTBOX_SIZE
            r == write(q, data)
            u == Used(q)
            L == Len(data)
            at(c) == (c - q.tail) % N
<1>1. /\ N \in Nat \ {0} /\ q.head \in 0 .. N - 1 /\ q.tail \in 0 .. N - 1
      /\ q.buf \in [Cells -> B] /\ Cells = 0 .. N - 1
      /\ data \in Seq(B) /\ L \in Nat
  BY OutboxSizeAssumption DEF KissOutboxOf, Cells
<1>2. u \in 0 .. N - 1 /\ q.tail = (q.head + u) % N
  BY UsedFacts
<1>3. L <= N - 1 - u /\ u + L \in 0 .. N - 1 /\ L \in 0 .. N - 1
  BY <1>1, <1>2 DEF free_space
<1>4. /\ r.head = q.head /\ r.tail = (q.tail + L) % N
      /\ r.buf = [c \in Cells |-> IF at(c) < L THEN data[at(c) + 1] ELSE q.buf[c]]
      /\ r = [buf |-> r.buf, head |-> r.head, tail |-> r.tail]
  <2>1. ~(L > free_space(q))
    BY <1>1, <1>2 DEF free_space
  <2>. QED
    BY <2>1 DEF write
<1>5. \A c \in Cells : at(c) \in 0 .. N - 1
  <2>1. ASSUME NEW c \in Cells PROVE c - q.tail \in Int
    BY <1>1, <2>1
  <2>. QED
    BY <1>1, <2>1, InRing
<1>6. r \in KissOutboxOf(B)
  <2>1. r.buf \in [Cells -> B]
    <3>1. ASSUME NEW c \in Cells, at(c) < L
          PROVE  data[at(c) + 1] \in B
      <4>. HIDE DEF at, L
      <4>1. at(c) + 1 \in 1 .. L
        <5>1. L \in Nat /\ N \in Nat
          BY <1>1 DEF L
        <5>2. at(c) \in 0 .. N - 1 /\ at(c) < L
          BY <1>5, <3>1
        <5>. QED
          BY <5>1, <5>2
      <4>. QED
        BY <1>1, <4>1, ElementOfSeq DEF L
    <3>. QED
      BY <1>1, <1>4, <3>1
  <2>2. r.tail \in Cells
    BY <1>1, <1>4
  <2>. QED
    BY <1>1, <1>4, <2>1, <2>2 DEF KissOutboxOf
<1>7. Used(r) = u + L
  <2>1. (((q.head + u) % N) + L) % N = (q.head + (u + L)) % N
    <3>1. \A k, j \in 0 .. N - 1 :
             k + j <= N - 1 => (((q.head + k) % N) + j) % N = (q.head + (k + j)) % N
      BY <1>1, Shift
    <3>2. u + L <= N - 1
      BY <1>1, <1>2, <1>3
    <3>. HIDE DEF u, L, N
    <3>. QED
      BY <1>2, <1>3, <3>1, <3>2
  <2>2. r.tail = (r.head + (u + L)) % N
    BY <1>2, <1>4, <2>1
  <2>. QED
    BY <1>3, <1>6, <2>2, UsedUnique
<1>8. ASSUME NEW i \in 1 .. u + L
      PROVE  Waiting(r)[i] = (Waiting(q) \o data)[i]
  <2>. DEFINE c == (q.head + (i - 1)) % N
  <2>0. i \in Int /\ i - 1 \in 0 .. N - 1 /\ q.head + (i - 1) \in Int
    <3>. HIDE DEF u, L, N
    <3>. QED
      BY <1>1, <1>2, <1>3
  <2>1. c \in Cells
    BY <1>1, <2>0, InRing
  <2>2. at(c) = IF i - 1 >= u THEN i - 1 - u ELSE N - (u - (i - 1))
    <3>1. (((q.head + (i - 1)) % N) - ((q.head + u) % N)) % N
            = IF i - 1 >= u THEN i - 1 - u ELSE N - (u - (i - 1))
      <4>1. \A j, k \in 0 .. N - 1 :
               (((q.head + j) % N) - ((q.head + k) % N)) % N
                 = IF j >= k THEN j - k ELSE N - (k - j)
        BY <1>1, Distance
      <4>. HIDE DEF u, L, N
      <4>. QED
        BY <1>2, <2>0, <4>1
    <3>. QED
      BY <1>2, <3>1
  <2>3. Waiting(r)[i] = r.buf[c]
    BY <1>4, <1>7 DEF Waiting
  <2>4. CASE i <= u
    <3>1. ~(at(c) < L)
      BY <1>1, <1>2, <1>3, <2>2, <2>4
    <3>2. r.buf[c] = q.buf[c]
      BY <1>4, <2>1, <3>1
    <3>3. Waiting(q)[i] = q.buf[c]
      BY <1>2, <2>4 DEF Waiting
    <3>4. (Waiting(q) \o data)[i] = Waiting(q)[i]
      BY <1>1, <1>2, <2>4, WaitingLen
    <3>. QED
      BY <2>3, <3>2, <3>3, <3>4
  <2>5. CASE i > u
    <3>1. at(c) = i - 1 - u /\ at(c) < L
      BY <1>1, <1>2, <1>3, <2>2, <2>5
    <3>2. r.buf[c] = data[i - u]
      <4>1. at(c) + 1 = i - u
        BY <1>2, <2>0, <3>1
      <4>. QED
        BY <1>4, <2>1, <3>1, <4>1
    <3>3. (Waiting(q) \o data)[i] = data[i - u]
      <4>1. PICK v : v = Waiting(q) /\ v \in Seq(B) /\ Len(v) = u
        BY WaitingLen
      <4>2. u \in Nat /\ i \in u + 1 .. u + L /\ data \in Seq(B) /\ L = Len(data)
        BY <1>1, <1>2, <2>5
      <4>. HIDE DEF u, L
      <4>. QED
        BY <4>1, <4>2
    <3>. QED
      BY <2>3, <3>2, <3>3
  <2>6. i <= u \/ i > u
    BY <1>2, <2>0
  <2>. QED
    BY <2>4, <2>5, <2>6
<1>9. /\ Waiting(r) \in Seq(B) /\ Len(Waiting(r)) = u + L
      /\ Waiting(q) \in Seq(B) /\ Len(Waiting(q)) = u
  BY <1>6, <1>7, WaitingLen
<1>10. Waiting(r) = Waiting(q) \o data
  <2>1. Waiting(q) \o data \in Seq(B) /\ Len(Waiting(q) \o data) = u + L
    BY <1>1, <1>9, ConcatProperties
  <2>. QED
    BY <1>8, <1>9, <2>1, SeqEqual
<1>. QED
  BY <1>6, <1>10

\* read hands out a prefix of the waiting bytes and keeps the rest.
LEMMA ReadSplits ==
    ASSUME NEW B, NEW q \in KissOutboxOf(B), NEW n \in Nat
    PROVE  /\ read(q, n) \in KissOutboxOf(B)
           /\ Handed(q, n) \in Seq(B)
           /\ Handed(q, n) \o Waiting(read(q, n)) = Waiting(q)
<1>. DEFINE N == KISS_OUTBOX_SIZE
            r == read(q, n)
            u == Used(q)
            k == ReadSize(q, n)
<1>1. /\ N \in Nat \ {0} /\ q.head \in 0 .. N - 1 /\ q.tail \in 0 .. N - 1
      /\ q.buf \in [Cells -> B] /\ Cells = 0 .. N - 1
      /\ q = [buf |-> q.buf, head |-> q.head, tail |-> q.tail]
  BY OutboxSizeAssumption DEF KissOutboxOf, Cells
<1>2. u \in 0 .. N - 1 /\ q.tail = (q.head + u) % N
  BY UsedFacts
<1>3. k \in 0 .. u
  BY <1>2 DEF ReadSize
<1>4. r.head = (q.head + k) % N /\ r.tail = q.tail /\ r.buf = q.buf
  BY <1>1 DEF read
<1>5. r \in KissOutboxOf(B)
  <2>1. (q.head + k) % N \in Cells
    <3>1. q.head + k \in Int
      <4>. HIDE DEF u, k, N
      <4>. QED
        BY <1>1, <1>2, <1>3
    <3>. QED
      BY <1>1, <3>1, InRing
  <2>. QED
    BY <1>1, <2>1 DEF KissOutboxOf, read
<1>6. Used(r) = u - k
  <2>1. u - k \in 0 .. N - 1 /\ k \in 0 .. N - 1 /\ k + (u - k) = u
    <3>. HIDE DEF u, k, N
    <3>. QED
      BY <1>1, <1>2, <1>3
  <2>2. r.tail = (r.head + (u - k)) % N
    <3>1. \A j, m \in 0 .. N - 1 :
             j + m <= N - 1 => (((q.head + j) % N) + m) % N = (q.head + (j + m)) % N
      BY <1>1, Shift
    <3>. HIDE DEF u, k, r, N
    <3>. QED
      BY <1>2, <1>4, <2>1, <3>1
  <2>. QED
    BY <1>5, <2>1, <2>2, UsedUnique
<1>7. /\ Waiting(r) \in Seq(B) /\ Len(Waiting(r)) = u - k
      /\ Waiting(q) \in Seq(B) /\ Len(Waiting(q)) = u
  BY <1>5, <1>6, WaitingLen
<1>8. \A i \in 1 .. k : Handed(q, n)[i] = Waiting(q)[i]
  BY <1>2, <1>3 DEF Handed, Waiting
<1>9. Handed(q, n) \in Seq(B) /\ Len(Handed(q, n)) = k
  <2>1. ASSUME NEW i \in 1 .. k
        PROVE  (q.head + (i - 1)) % N \in Cells
    <3>1. q.head + (i - 1) \in Int
      BY <1>1, <1>2, <1>3
    <3>. QED
      BY <1>1, <3>1, InRing
  <2>2. k \in Nat
    BY <1>2, <1>3
  <2>3. \A i \in 1 .. k : Handed(q, n)[i] \in B
    BY <1>1, <2>1 DEF Handed
  <2>4. Handed(q, n) = [i \in 1 .. k |-> Handed(q, n)[i]]
    BY DEF Handed
  <2>5. PICK h : h = Handed(q, n)
    OBVIOUS
  <2>6. k \in Nat /\ h \in [1 .. k -> B]
    BY <2>2, <2>3, <2>4, <2>5
  <2>. HIDE DEF k
  <2>7. h \in Seq(B) /\ Len(h) = k
    BY <2>6
  <2>. QED
    BY <2>5, <2>7
<1>10. ASSUME NEW i \in 1 .. u - k
       PROVE  Waiting(r)[i] = Waiting(q)[k + i]
  <2>1. /\ k \in 0 .. N - 1 /\ i - 1 \in 0 .. N - 1 /\ k + (i - 1) <= N - 1
        /\ k + (i - 1) = (k + i) - 1 /\ k + i \in 1 .. u
    <3>1. PICK x, y, z : x = u /\ y = k /\ z = N
      OBVIOUS
    <3>2. z \in Nat \ {0} /\ x \in 0 .. z - 1 /\ y \in 0 .. x /\ i \in 1 .. x - y
      BY <1>1, <1>2, <1>3, <3>1
    <3>3. /\ y \in 0 .. z - 1 /\ i - 1 \in 0 .. z - 1 /\ y + (i - 1) <= z - 1
          /\ y + (i - 1) = (y + i) - 1 /\ y + i \in 1 .. x
      BY <3>2
    <3>. HIDE DEF u, k, N
    <3>. QED
      BY <3>1, <3>3
  <2>2. (r.head + (i - 1)) % N = (q.head + ((k + i) - 1)) % N
    <3>1. \A j, m \in 0 .. N - 1 :
             j + m <= N - 1 => (((q.head + j) % N) + m) % N = (q.head + (j + m)) % N
      BY <1>1, Shift
    <3>. HIDE DEF u, k, r, N
    <3>. QED
      BY <1>4, <2>1, <3>1
  <2>. QED
    BY <1>4, <1>6, <2>1, <2>2 DEF Waiting
<1>11. Handed(q, n) \o Waiting(r) = Waiting(q)
  <2>. DEFINE hw == Handed(q, n) \o Waiting(r)
  <2>1. /\ hw \in Seq(B) /\ Len(hw) = u
        /\ \A i \in 1 .. u : hw[i] = IF i <= k THEN Handed(q, n)[i] ELSE Waiting(r)[i - k]
    <3>1. k + (u - k) = u
      BY <1>2, <1>3
    <3>2. \A s, t \in Seq(B) :
             /\ s \o t \in Seq(B) /\ Len(s \o t) = Len(s) + Len(t)
             /\ \A i \in 1 .. Len(s) + Len(t) :
                   (s \o t)[i] = IF i <= Len(s) THEN s[i] ELSE t[i - Len(s)]
      BY ConcatProperties
    <3>3. hw \in Seq(B) /\ Len(hw) = Len(Handed(q, n)) + Len(Waiting(r))
      BY <1>7, <1>9, <3>2
    <3>4. \A i \in 1 .. Len(Handed(q, n)) + Len(Waiting(r)) :
             hw[i] = IF i <= Len(Handed(q, n)) THEN Handed(q, n)[i]
                     ELSE Waiting(r)[i - Len(Handed(q, n))]
      BY <1>7, <1>9, <3>2
    <3>. HIDE DEF hw, k, u
    <3>. QED
      BY <1>7, <1>9, <3>1, <3>3, <3>4
  <2>2. ASSUME NEW i \in 1 .. u
        PROVE  hw[i] = Waiting(q)[i]
    <3>1. CASE i <= k
      BY <1>2, <1>3, <1>8, <2>1, <3>1
    <3>2. CASE ~(i <= k)
      <4>1. i - k \in 1 .. u - k /\ k + (i - k) = i
        BY <1>2, <1>3, <3>2
      <4>. QED
        BY <1>10, <2>1, <3>2, <4>1
    <3>. QED
      BY <3>1, <3>2
  <2>. QED
    BY <1>7, <2>1, <2>2, SeqEqual
<1>. QED
  BY <1>5, <1>9, <1>11

-----------------------------------------------------------------------------
LEMMA Associative ==
    \A a, b, c \in Seq(Byte) : (a \o b) \o c = a \o (b \o c)
  BY ConcatAssociative

LEMMA InitIInv == Init => IInv
  BY NewOutboxIsEmpty DEF Init, IInv, TypeOK, OutboxIsStream

\* A received frame adds its whole encoding to the stream, or nothing.
LEMMA PollRxKeepsIInv ==
    ASSUME IInv, NEW f \in Frames, PollRx(f)
    PROVE  IInv'
<1>1. /\ Encoding[f] \in Seq(Byte) /\ Len(Encoding[f]) \in Nat
      /\ kiss_out \in KissOutboxOf(Byte)
      /\ TypeOK /\ OutboxIsStream
      /\ Waiting(kiss_out) \in Seq(Byte)
  BY ReceiveAssumption, WaitingLen DEF IInv, TypeOK
<1>2. CASE Takes(f)
  <2>1. kiss_out' = write(kiss_out, Encoding[f])
    BY <1>2 DEF PollRx, Takes
  <2>2. /\ kiss_out' \in KissOutboxOf(Byte)
        /\ Waiting(kiss_out') = Waiting(kiss_out) \o Encoding[f]
    BY <1>1, <1>2, <2>1, WriteAppends DEF Takes
  <2>3. stream' = stream \o Encoding[f] /\ accepted' = Append(accepted, f)
    BY <1>2 DEF PollRx
  <2>4. TypeOK'
    BY <1>1, <2>2, <2>3 DEF TypeOK, PollRx
  <2>5. (handed \o Waiting(kiss_out)) \o Encoding[f]
          = handed \o (Waiting(kiss_out) \o Encoding[f])
    <3>1. handed \in Seq(Byte)
      BY <1>1 DEF TypeOK
    <3>. QED
      BY <1>1, <3>1, Associative
  <2>6. OutboxIsStream'
    BY <1>1, <2>2, <2>3, <2>5 DEF OutboxIsStream, PollRx
  <2>. QED
    BY <2>4, <2>6 DEF IInv
<1>3. CASE ~Takes(f)
  <2>1. kiss_out' = kiss_out
    <3>1. free_space(kiss_out) \in Int
      BY <1>1, UsedFacts, OutboxSizeAssumption DEF free_space
    <3>2. CASE Len(Encoding[f]) > free_space(kiss_out)
      BY <3>2 DEF PollRx, write
    <3>3. CASE ~(Len(Encoding[f]) <= TMP_SIZE)
      BY <3>3 DEF PollRx
    <3>. QED
      BY <1>1, <1>3, <3>1, <3>2, <3>3 DEF Takes
  <2>2. UNCHANGED <<accepted, stream, handed, wire>>
    BY <1>3 DEF PollRx
  <2>3. received' \in Nat
    BY <1>1 DEF PollRx, TypeOK
  <2>. QED
    BY <1>1, <2>1, <2>2, <2>3 DEF IInv, TypeOK, OutboxIsStream
<1>. QED
  BY <1>2, <1>3

\* Reading moves bytes from the outbox to the platform.
LEMMA ReadKissKeepsIInv ==
    ASSUME IInv, NEW n \in ReadSizes, ReadKiss(n)
    PROVE  IInv'
<1>1. n \in Nat /\ kiss_out \in KissOutboxOf(Byte) /\ TypeOK /\ OutboxIsStream
  BY ReceiveAssumption DEF IInv, TypeOK
<1>2. /\ kiss_out' \in KissOutboxOf(Byte)
      /\ Handed(kiss_out, n) \in Seq(Byte)
      /\ Handed(kiss_out, n) \o Waiting(kiss_out') = Waiting(kiss_out)
  BY <1>1, ReadSplits DEF ReadKiss
<1>3. Waiting(kiss_out') \in Seq(Byte)
  BY <1>2, WaitingLen
<1>4. TypeOK'
  BY <1>1, <1>2 DEF TypeOK, ReadKiss
<1>5. (handed \o Handed(kiss_out, n)) \o Waiting(kiss_out')
        = handed \o (Handed(kiss_out, n) \o Waiting(kiss_out'))
  <2>1. handed \in Seq(Byte)
    BY <1>1 DEF TypeOK
  <2>. QED
    BY <1>2, <1>3, <2>1, Associative
<1>6. OutboxIsStream'
  BY <1>1, <1>2, <1>5 DEF OutboxIsStream, ReadKiss
<1>. QED
  BY <1>4, <1>6 DEF IInv

LEMMA HostByteKeepsIInv ==
    ASSUME IInv, HostByte
    PROVE  IInv'
  BY DEF IInv, TypeOK, OutboxIsStream, HostByte

LEMMA NextIInv == IInv /\ [Next]_vars => IInv'
<1>1. ASSUME IInv, UNCHANGED vars
      PROVE  IInv'
  BY <1>1 DEF IInv, TypeOK, OutboxIsStream, vars
<1>. QED
  BY <1>1, PollRxKeepsIInv, ReadKissKeepsIInv, HostByteKeepsIInv DEF Next

LEMMA Invariance == Spec => []IInv
  BY InitIInv, NextIInv, PTL DEF Spec

\* The receive side's variables keep their types: the ring's head and tail
\* never leave its array.
THEOREM ReceiveTypeCorrect == Spec => []TypeOK
<1>1. IInv => TypeOK
  BY DEF IInv
<1>. QED
  BY <1>1, Invariance, PTL

\* Whatever is received and read, in pieces of any size, from an outbox of any
\* size: the host gets the encodings of the accepted frames, byte for byte.
THEOREM OutboxIsFifo == Spec => []OutboxIsStream
<1>1. IInv => OutboxIsStream
  BY DEF IInv
<1>. QED
  BY <1>1, Invariance, PTL

-----------------------------------------------------------------------------
(* The host. *)

\* A walk through the encoding of f.
IsWalk(f, walk) ==
    /\ walk[0] = Opening
    /\ \A k \in 1 .. Len(Encoding[f]) :
          /\ walk[k] = NextWalk(f, walk[k - 1])
          /\ Encoding[f][k] = NextByte(f, walk[k - 1])
          /\ WalkIn(f, walk[k - 1])
          /\ walk[k - 1].st = "close" <=> k = Len(Encoding[f])
Steps(f) == CHOOSE walk : IsWalk(f, walk)

LEMMA EncodedAsWalk ==
    ASSUME NEW f \in Frames
    PROVE  Len(Encoding[f]) \in Nat \ {0} /\ IsWalk(f, Steps(f))
<1>1. f \in Seq(Byte) /\ f # << >> /\ Encoding[f] = encode_frame(f)
  BY EncodingAssumption
<1>2. \E walk : IsWalk(f, walk)
  BY <1>1, EncodingIsWalk DEF IsWalk
<1>3. Len(Encoding[f]) \in Nat \ {0}
  BY <1>1, EncodingIsWalk
<1>. QED
  BY <1>2, <1>3 DEF Steps

\* Where the encodings of the accepted frames end in the stream.
Ends(end) ==
    /\ end \in [0 .. Len(accepted) -> 0 .. Len(stream)]
    /\ end[0] = 0 /\ end[Len(accepted)] = Len(stream)
    /\ \A k \in 1 .. Len(accepted) :
          /\ end[k] = end[k - 1] + Len(Encoding[accepted[k]])
          /\ \A i \in 1 .. Len(Encoding[accepted[k]]) :
                stream[end[k - 1] + i] = Encoding[accepted[k]][i]

\* How many bytes the host has taken.
Taken == Len(handed) - Len(wire)

\* What is on the wire are the last bytes that were read.
WireIsTail ==
    /\ Len(wire) <= Len(handed)
    /\ \A i \in 1 .. Len(wire) : wire[i] = handed[Taken + i]

\* The host is inside the frame after the last one it has decoded, in step
\* with its encoding, or at the end of the stream.
InFrame(end) ==
    LET m == Len(delivered)
        f == accepted[m + 1]
    IN /\ end[m] <= Taken
       /\ Taken = end[m] => Matches(host, f, Opening)
       /\ m = Len(accepted) => Taken = end[m]
       /\ m < Len(accepted) => /\ Taken < end[m] + Len(Encoding[f])
                               /\ Matches(host, f, Steps(f)[Taken - end[m]])

HostInv ==
    /\ IInv /\ WireIsTail /\ HostSeesAccepted /\ delivered \in Seq(Frames)
    /\ \E end : Ends(end) /\ InFrame(end)

\* Outside a frame the decoder waits for any frame.
LEMMA AnyFrame ==
    ASSUME NEW d, NEW f, NEW g, Matches(d, f, Opening)
    PROVE  Matches(d, g, Opening) /\ Opening.st = "open"
  BY Fields DEF Matches, Opening

LEMMA InitHostInv == Init => HostInv
<1>. SUFFICES ASSUME Init PROVE HostInv
  OBVIOUS
<1>1. IInv
  BY InitIInv
<1>2. WireIsTail /\ HostSeesAccepted /\ delivered \in Seq(Frames)
  BY DEF Init, WireIsTail, HostSeesAccepted
<1>. DEFINE end == [k \in 0 .. 0 |-> 0]
<1>3. Ends(end)
  BY DEF Init, Ends
<1>4. \A f : Matches(NewDecoder, f, Opening)
  BY Fields DEF Matches, Opening, NewDecoder, Decoder
<1>5. InFrame(end)
  BY <1>4 DEF Init, InFrame, Taken
<1>. QED
  BY <1>1, <1>2, <1>3, <1>5 DEF HostInv

\* A frame more in the stream.
LEMMA EndsGrow ==
    ASSUME TypeOK, NEW end, Ends(end), NEW f \in Frames,
           accepted' = Append(accepted, f), stream' = stream \o Encoding[f]
    PROVE  \E more : Ends(more)' /\ \A k \in 0 .. Len(accepted) : more[k] = end[k]
<1>. DEFINE n == Len(accepted)
            e == Encoding[f]
<1>0. PICK more : more = [k \in 0 .. n + 1 |-> IF k = n + 1 THEN Len(stream) + Len(e) ELSE end[k]]
  OBVIOUS
<1>1. /\ n \in Nat /\ e \in Seq(Byte) /\ Len(e) \in Nat /\ stream \in Seq(Byte)
      /\ Len(stream) \in Nat /\ accepted \in Seq(Frames)
  BY ReceiveAssumption DEF TypeOK
<1>2. /\ Len(accepted') = n + 1 /\ accepted'[n + 1] = f
      /\ \A k \in 1 .. n : accepted'[k] = accepted[k]
  BY <1>1
<1>3. /\ Len(stream') = Len(stream) + Len(e)
      /\ \A i \in 1 .. Len(stream) : stream'[i] = stream[i]
      /\ \A i \in 1 .. Len(e) : stream'[Len(stream) + i] = e[i]
  BY <1>1, ConcatProperties
<1>4. /\ end \in [0 .. n -> 0 .. Len(stream)] /\ end[0] = 0 /\ end[n] = Len(stream)
      /\ \A k \in 1 .. n :
            /\ end[k] = end[k - 1] + Len(Encoding[accepted[k]])
            /\ \A i \in 1 .. Len(Encoding[accepted[k]]) :
                  stream[end[k - 1] + i] = Encoding[accepted[k]][i]
  BY DEF Ends
<1>5. more \in [0 .. n + 1 -> 0 .. Len(stream')] /\ more[0] = 0 /\ more[n + 1] = Len(stream')
  BY <1>0, <1>1, <1>3, <1>4
<1>6. \A k \in 0 .. n : more[k] = end[k]
  BY <1>0, <1>1
<1>7. more[n + 1] = more[n] + Len(e)
  <2>1. more[n] = Len(stream) /\ more[n + 1] = Len(stream) + Len(e)
    BY <1>0, <1>1, <1>4
  <2>. QED
    BY <2>1
<1>8. ASSUME NEW k \in 1 .. n + 1
      PROVE  /\ more[k] = more[k - 1] + Len(Encoding[accepted'[k]])
             /\ \A i \in 1 .. Len(Encoding[accepted'[k]]) :
                   stream'[more[k - 1] + i] = Encoding[accepted'[k]][i]
  <2>1. CASE k = n + 1
    <3>1. k - 1 = n /\ accepted'[k] = f /\ more[k - 1] = Len(stream)
      BY <1>1, <1>2, <1>4, <1>6, <2>1
    <3>. QED
      BY <1>3, <1>7, <2>1, <3>1
  <2>2. CASE k \in 1 .. n
    <3>. DEFINE g == Encoding[accepted[k]]
    <3>0. k - 1 \in 0 .. n /\ k \in 0 .. n
      BY <1>1, <2>2
    <3>1. accepted'[k] = accepted[k] /\ more[k] = end[k] /\ more[k - 1] = end[k - 1]
      BY <1>1, <1>2, <1>6, <2>2
    <3>2. /\ end[k] = end[k - 1] + Len(g) /\ end[k] \in 0 .. Len(stream)
          /\ end[k - 1] \in Nat
          /\ \A i \in 1 .. Len(g) : stream[end[k - 1] + i] = g[i]
      <4>1. end[k] \in 0 .. Len(stream) /\ end[k - 1] \in 0 .. Len(stream)
        BY <1>4, <3>0
      <4>2. end[k] = end[k - 1] + Len(g) /\ \A i \in 1 .. Len(g) : stream[end[k - 1] + i] = g[i]
        BY <1>4, <2>2
      <4>3. end[k - 1] \in Nat
        <5>. HIDE DEF n
        <5>. QED
          BY <1>1, <4>1
      <4>. QED
        BY <4>1, <4>2, <4>3
    <3>3. Len(g) \in Nat
      BY <1>1, <2>2, ReceiveAssumption
    <3>. HIDE DEF g, n
    <3>4. \A i \in 1 .. Len(g) : end[k - 1] + i \in 1 .. Len(stream)
      <4>1. PICK a, b, c : a = end[k - 1] /\ b = end[k] /\ c = Len(stream)
        OBVIOUS
      <4>2. a \in Nat /\ b \in 0 .. c /\ c \in Nat /\ b = a + Len(g)
        BY <1>1, <3>2, <4>1
      <4>3. \A i \in 1 .. Len(g) : a + i \in 1 .. c
        BY <3>3, <4>2
      <4>. QED
        BY <4>1, <4>3
    <3>5. \A i \in 1 .. Len(g) : stream'[end[k - 1] + i] = g[i]
      BY <1>3, <3>2, <3>4
    <3>. QED
      BY <3>1, <3>2, <3>5 DEF g
  <2>3. k = n + 1 \/ k \in 1 .. n
    BY <1>1
  <2>. QED
    BY <2>1, <2>2, <2>3
<1>9. Ends(more)'
  <2>1. more \in [0 .. Len(accepted') -> 0 .. Len(stream')]
        /\ more[0] = 0 /\ more[Len(accepted')] = Len(stream')
    BY <1>2, <1>5
  <2>2. \A k \in 1 .. Len(accepted') :
           /\ more[k] = more[k - 1] + Len(Encoding[accepted'[k]])
           /\ \A i \in 1 .. Len(Encoding[accepted'[k]]) :
                 stream'[more[k - 1] + i] = Encoding[accepted'[k]][i]
    <3>1. \A k \in 1 .. n + 1 :
             /\ more[k] = more[k - 1] + Len(Encoding[accepted'[k]])
             /\ \A i \in 1 .. Len(Encoding[accepted'[k]]) :
                   stream'[more[k - 1] + i] = Encoding[accepted'[k]][i]
      BY <1>8
    <3>2. Len(accepted') = n + 1
      BY <1>2
    <3>. HIDE DEF n
    <3>. QED
      BY <3>1, <3>2, Zenon
  <2>. QED
    BY <2>1, <2>2 DEF Ends
<1>. QED
  BY <1>6, <1>9

LEMMA PollRxKeepsHostInv ==
    ASSUME HostInv, NEW f \in Frames, PollRx(f)
    PROVE  HostInv'
<1>1. IInv' /\ IInv
  BY PollRxKeepsIInv DEF HostInv
<1>2. UNCHANGED <<wire, host, handed, delivered>>
  BY DEF PollRx
<1>3. WireIsTail'
  BY <1>2 DEF HostInv, WireIsTail, Taken
<1>4. PICK end : Ends(end) /\ InFrame(end)
  BY DEF HostInv
<1>5. CASE ~Takes(f)
  <2>1. UNCHANGED <<accepted, stream>>
    BY <1>5 DEF PollRx
  <2>2. HostSeesAccepted' /\ delivered' \in Seq(Frames)
    BY <1>2, <2>1 DEF HostInv, HostSeesAccepted
  <2>3. Ends(end)' /\ InFrame(end)'
    BY <1>2, <1>4, <2>1 DEF Ends, InFrame, Taken
  <2>. QED
    BY <1>1, <1>3, <2>2, <2>3 DEF HostInv
<1>6. CASE Takes(f)
  <2>. DEFINE n == Len(accepted)
              m == Len(delivered)
  <2>1. accepted' = Append(accepted, f) /\ stream' = stream \o Encoding[f]
    BY <1>6 DEF PollRx
  <2>2. TypeOK /\ accepted \in Seq(Frames) /\ n \in Nat
    BY <1>1 DEF IInv, TypeOK
  <2>3. PICK more : Ends(more)' /\ \A k \in 0 .. n : more[k] = end[k]
    BY <1>4, <2>1, <2>2, EndsGrow
  <2>4. /\ Len(accepted') = n + 1 /\ accepted'[n + 1] = f
        /\ \A k \in 1 .. n : accepted'[k] = accepted[k]
    BY <2>1, <2>2
  <2>5. m \in 0 .. n /\ delivered \in Seq(Frames)
    BY <2>2 DEF HostInv, HostSeesAccepted
  <2>6. HostSeesAccepted' /\ delivered' \in Seq(Frames)
    BY <1>2, <2>2, <2>4, <2>5 DEF HostInv, HostSeesAccepted
  <2>7. InFrame(more)'
    <3>1. more[m] = end[m] /\ m' = m /\ Taken' = Taken /\ host' = host
      BY <1>2, <2>3, <2>5 DEF Taken
    <3>2. m < Len(accepted') /\ ~(m = Len(accepted'))
      BY <2>2, <2>4, <2>5
    <3>3. CASE m = n
      <4>1. Taken = end[m] /\ accepted'[m + 1] = f
        BY <1>4, <2>4, <3>3 DEF InFrame
      <4>2. Matches(host, f, Opening)
        BY <1>4, <4>1, AnyFrame DEF InFrame
      <4>3. Steps(f)[0] = Opening /\ Len(Encoding[f]) \in Nat \ {0}
        BY EncodedAsWalk DEF IsWalk
      <4>4. end[m] \in Int
        BY <1>4, <2>2, <2>5 DEF Ends
      <4>5. Taken - end[m] = 0 /\ Taken < end[m] + Len(Encoding[f])
        BY <4>1, <4>3, <4>4
      <4>. QED
        BY <3>1, <3>2, <4>1, <4>2, <4>3, <4>4, <4>5 DEF InFrame
    <3>4. CASE m # n
      <4>1. m < n /\ accepted'[m + 1] = accepted[m + 1]
        BY <2>2, <2>4, <2>5, <3>4
      <4>. QED
        BY <1>4, <3>1, <3>2, <4>1 DEF InFrame
    <3>. QED
      BY <3>3, <3>4
  <2>. QED
    BY <1>1, <1>3, <2>3, <2>6, <2>7 DEF HostInv
<1>. QED
  BY <1>5, <1>6

\* What is read goes on the wire behind what is there.
LEMMA ReadKissKeepsHostInv ==
    ASSUME HostInv, NEW n \in ReadSizes, ReadKiss(n)
    PROVE  HostInv'
<1>. DEFINE h == Handed(kiss_out, n)
<1>1. IInv' /\ IInv
  BY ReadKissKeepsIInv DEF HostInv
<1>2. /\ handed' = handed \o h /\ wire' = wire \o h
      /\ UNCHANGED <<host, accepted, stream, delivered>>
  BY DEF ReadKiss
<1>3. h \in Seq(Byte) /\ handed \in Seq(Byte) /\ wire \in Seq(Byte)
  <2>1. n \in Nat /\ kiss_out \in KissOutboxOf(Byte)
    BY <1>1, ReceiveAssumption DEF IInv, TypeOK
  <2>. QED
    BY <1>1, <2>1, ReadSplits DEF IInv, TypeOK
<1>. HIDE DEF h
<1>4. /\ Len(h) \in Nat /\ Len(handed) \in Nat /\ Len(wire) \in Nat
      /\ Len(handed') = Len(handed) + Len(h) /\ Len(wire') = Len(wire) + Len(h)
      /\ \A i \in 1 .. Len(wire') :
            wire'[i] = IF i <= Len(wire) THEN wire[i] ELSE h[i - Len(wire)]
      /\ \A i \in 1 .. Len(handed') :
            handed'[i] = IF i <= Len(handed) THEN handed[i] ELSE h[i - Len(handed)]
  BY <1>2, <1>3
<1>5. Taken' = Taken /\ Taken \in Int
  BY <1>4 DEF Taken
<1>6. WireIsTail'
  <2>1. Len(wire) <= Len(handed) /\ \A i \in 1 .. Len(wire) : wire[i] = handed[Taken + i]
    BY DEF HostInv, WireIsTail
  <2>2. ASSUME NEW i \in 1 .. Len(wire')
        PROVE  wire'[i] = handed'[Taken + i]
    <3>1. Taken + i \in 1 .. Len(handed')
      BY <1>4, <2>1 DEF Taken
    <3>2. CASE i <= Len(wire)
      <4>1. Taken + i <= Len(handed) /\ i \in 1 .. Len(wire)
        BY <1>4, <3>2 DEF Taken
      <4>2. wire'[i] = wire[i]
        BY <1>4, <3>2
      <4>3. handed'[Taken + i] = handed[Taken + i]
        <5>. HIDE DEF Taken
        <5>. QED
          BY <1>4, <3>1, <4>1
      <4>. QED
        BY <2>1, <4>1, <4>2, <4>3
    <3>3. CASE i > Len(wire)
      <4>1. ~(Taken + i <= Len(handed)) /\ (Taken + i) - Len(handed) = i - Len(wire)
        BY <1>4, <3>3 DEF Taken
      <4>2. wire'[i] = h[i - Len(wire)]
        BY <1>4, <3>3
      <4>3. handed'[Taken + i] = h[(Taken + i) - Len(handed)]
        <5>1. PICK q : q = Taken + i
          OBVIOUS
        <5>2. q \in 1 .. Len(handed') /\ ~(q <= Len(handed))
          BY <3>1, <4>1, <5>1
        <5>3. handed'[q] = h[q - Len(handed)]
          BY <1>4, <5>2
        <5>. QED
          BY <5>1, <5>3, Zenon
      <4>. QED
        BY <4>1, <4>2, <4>3
    <3>. QED
      BY <1>4, <3>2, <3>3
  <2>3. Len(wire') <= Len(handed')
    BY <1>4, <2>1
  <2>. QED
    BY <1>5, <2>2, <2>3 DEF WireIsTail
<1>7. HostSeesAccepted' /\ delivered' \in Seq(Frames)
  BY <1>2 DEF HostInv, HostSeesAccepted
<1>8. \A end : Ends(end) /\ InFrame(end) => Ends(end)' /\ InFrame(end)'
  BY <1>2, <1>5 DEF Ends, InFrame
<1>. QED
  BY <1>1, <1>6, <1>7, <1>8 DEF HostInv

\* What has been read is the beginning of the stream.
LEMMA HandedIsStream ==
    ASSUME IInv
    PROVE  /\ Len(handed) \in Nat /\ Len(stream) \in Nat /\ Len(handed) <= Len(stream)
           /\ \A i \in 1 .. Len(handed) : handed[i] = stream[i]
<1>1. /\ handed \in Seq(Byte) /\ stream \in Seq(Byte) /\ Waiting(kiss_out) \in Seq(Byte)
      /\ stream = handed \o Waiting(kiss_out)
  BY WaitingLen DEF IInv, TypeOK, OutboxIsStream
<1>. QED
  BY <1>1

LEMMA HostByteKeepsHostInv ==
    ASSUME HostInv, HostByte
    PROVE  HostInv'
<1>. DEFINE x == OnWire(Head(wire))
            m == Len(delivered)
            f == accepted[m + 1]
            t == Taken
<1>1. IInv' /\ IInv
  BY HostByteKeepsIInv DEF HostInv
<1>2. /\ wire # << >> /\ wire' = Tail(wire) /\ host' = feed_byte(host, x)
      /\ delivered' = IF Completes(host, x)
                      THEN Append(delivered, [k \in DOMAIN host.buf |-> host.buf[k].byte])
                      ELSE delivered
      /\ UNCHANGED <<accepted, stream, handed>>
  BY DEF HostByte
<1>3. /\ wire \in Seq(Byte) /\ accepted \in Seq(Frames) /\ delivered \in Seq(Frames)
      /\ Len(wire) \in Nat \ {0} /\ Len(accepted) \in Nat /\ m \in 0 .. Len(accepted)
      /\ \A k \in 1 .. m : delivered[k] = accepted[k]
      /\ Len(handed) \in Nat /\ Len(stream) \in Nat /\ Len(handed) <= Len(stream)
      /\ Len(wire) <= Len(handed)
  BY <1>1, <1>2, HandedIsStream DEF HostInv, IInv, TypeOK, HostSeesAccepted, WireIsTail
<1>4. PICK end : Ends(end) /\ InFrame(end)
  BY DEF HostInv
<1>5. /\ t \in Nat /\ t + 1 \in 1 .. Len(handed) /\ t + 1 \in 1 .. Len(stream)
      /\ Head(wire) = stream[t + 1] /\ Taken' = t + 1
  <2>1. t \in Nat /\ t + 1 \in 1 .. Len(handed) /\ t + 1 \in 1 .. Len(stream)
    BY <1>3 DEF Taken
  <2>2. Head(wire) = wire[1] /\ wire[1] = handed[t + 1]
    BY <1>2, <1>3 DEF HostInv, WireIsTail
  <2>3. handed[t + 1] = stream[t + 1]
    BY <1>1, <2>1, HandedIsStream
  <2>4. Taken' = t + 1
    <3>1. Len(wire') = Len(wire) - 1 /\ handed' = handed
      BY <1>2, <1>3
    <3>. QED
      BY <1>3, <3>1 DEF Taken
  <2>. QED
    BY <2>1, <2>2, <2>3, <2>4
<1>6. WireIsTail'
  <2>1. /\ Len(wire') = Len(wire) - 1 /\ handed' = handed
        /\ \A i \in 1 .. Len(wire') : wire'[i] = wire[i + 1]
    BY <1>2, <1>3
  <2>2. \A i \in 1 .. Len(wire) : wire[i] = handed[t + i]
    BY DEF HostInv, WireIsTail
  <2>3. ASSUME NEW i \in 1 .. Len(wire') PROVE wire'[i] = handed[(t + 1) + i]
    <3>1. i + 1 \in 1 .. Len(wire) /\ t + (i + 1) = (t + 1) + i
      BY <1>3, <1>5, <2>1
    <3>. QED
      BY <2>1, <2>2, <3>1
  <2>4. Len(wire') <= Len(handed')
    BY <1>3, <2>1
  <2>5. \A i \in 1 .. Len(wire') : wire'[i] = handed'[Taken' + i]
    BY <1>5, <2>1, <2>3
  <2>. QED
    BY <2>4, <2>5 DEF WireIsTail
<1>. HIDE DEF t
\* The frame it is in, and where in that frame.
<1>7. /\ m < Len(accepted) /\ end[m] \in Nat /\ t >= end[m] /\ t < end[m] + Len(Encoding[f])
      /\ Matches(host, f, Steps(f)[t - end[m]])
      /\ f \in Frames /\ m + 1 \in 1 .. Len(accepted)
  <2>1. end[m] \in Nat /\ end[Len(accepted)] = Len(stream)
    BY <1>3, <1>4 DEF Ends
  <2>2. m # Len(accepted)
    BY <1>3, <1>4, <1>5, <2>1 DEF InFrame, t
  <2>3. m < Len(accepted) /\ m + 1 \in 1 .. Len(accepted)
    BY <1>3, <2>2
  <2>4. f \in Frames
    BY <1>3, <2>3
  <2>. QED
    BY <1>4, <2>1, <2>3, <2>4 DEF InFrame, t
<1>. DEFINE j == t - end[m]
            N == Len(Encoding[f])
            w == Steps(f)[j]
<1>8. /\ f \in Seq(Byte) /\ f # << >> /\ ~Special(f[1]) /\ Len(f) <= BUF_SIZE
      /\ N \in Nat \ {0} /\ IsWalk(f, Steps(f))
  BY <1>7, EncodingAssumption, EncodedAsWalk
<1>9. j \in 0 .. N - 1 /\ j + 1 \in 1 .. N /\ (j + 1) - 1 = j /\ end[m] + (j + 1) = t + 1
  <2>. DEFINE a == end[m]
  <2>1. t \in Nat /\ a \in Nat /\ N \in Nat /\ t >= a /\ t < a + N
    BY <1>5, <1>7, <1>8
  <2>. HIDE DEF a, N
  <2>2. t - a \in 0 .. N - 1 /\ (t - a) + 1 \in 1 .. N /\ ((t - a) + 1) - 1 = t - a
        /\ a + ((t - a) + 1) = t + 1
    BY <2>1
  <2>. QED
    BY <2>2 DEF a
<1>10. /\ end[m + 1] = end[m] + N
       /\ \A i \in 1 .. N : stream[end[m] + i] = Encoding[f][i]
  <2>1. (m + 1) - 1 = m
    BY <1>3
  <2>. QED
    BY <1>4, <1>7, <2>1 DEF Ends
<1>. HIDE DEF j, N
<1>11. /\ Head(wire) = NextByte(f, w) /\ WalkIn(f, w)
       /\ Steps(f)[j + 1] = NextWalk(f, w) /\ (w.st = "close" <=> j + 1 = N)
  <2>1. Head(wire) = Encoding[f][j + 1]
    BY <1>5, <1>9, <1>10
  <2>2. /\ Steps(f)[j + 1] = NextWalk(f, Steps(f)[(j + 1) - 1])
        /\ Encoding[f][j + 1] = NextByte(f, Steps(f)[(j + 1) - 1])
        /\ WalkIn(f, Steps(f)[(j + 1) - 1])
        /\ Steps(f)[(j + 1) - 1].st = "close" <=> j + 1 = N
    BY <1>8, <1>9 DEF IsWalk, N
  <2>. QED
    BY <1>9, <2>1, <2>2
<1>. HIDE DEF w
<1>12. /\ Matches(host', f, NextWalk(f, w))
       /\ Completes(host, x) <=> j + 1 = N
       /\ Completes(host, x) => [k \in DOMAIN host.buf |-> host.buf[k].byte] = f
  <2>1. x = Plain(NextByte(f, w))
    BY <1>11 DEF OnWire, Plain
  <2>2. Matches(host, f, w)
    BY <1>7 DEF w, j
  <2>. HIDE DEF x, f
  <2>. QED
    BY <1>2, <1>8, <1>11, <2>1, <2>2, ByteInStep
<1>. HIDE DEF x
\* The closing byte, and any other.
<1>13. CASE j + 1 = N
  <2>1. delivered' = Append(delivered, f)
    BY <1>2, <1>12, <1>13
  <2>2. /\ Len(delivered') = m + 1 /\ delivered'[m + 1] = f
        /\ \A k \in 1 .. m : delivered'[k] = delivered[k]
        /\ delivered' \in Seq(Frames)
    BY <1>3, <1>7, <2>1
  <2>3. HostSeesAccepted'
    <3>1. ASSUME NEW k \in DOMAIN delivered' PROVE delivered'[k] = accepted[k]
      <4>1. k \in 1 .. m + 1
        BY <2>2
      <4>2. k \in 1 .. m \/ k = m + 1
        BY <1>3, <4>1
      <4>. QED
        BY <1>3, <2>2, <4>2
    <3>2. accepted' = accepted
      BY <1>2
    <3>3. Len(delivered') <= Len(accepted)
      BY <1>3, <1>7, <2>2
    <3>. QED
      BY <3>1, <3>2, <3>3 DEF HostSeesAccepted
  <2>4. Ends(end)'
    BY <1>2, <1>4 DEF Ends
  <2>5. Taken' = end[m + 1]
    BY <1>5, <1>9, <1>10, <1>13
  <2>6. \A g : Matches(host', g, Opening)
    <3>1. w.st = "close"
      BY <1>11, <1>13
    <3>2. NextWalk(f, w) = Opening
      BY <3>1 DEF NextWalk
    <3>. QED
      BY <1>12, <3>2, AnyFrame
  <2>7. InFrame(end)'
    <3>. DEFINE g == accepted[m + 2]
    <3>1. end[m + 1] \in Int
      BY <1>7, <1>8, <1>10
    <3>2. ASSUME m + 1 < Len(accepted)
          PROVE  /\ Taken' < end[m + 1] + Len(Encoding[g])
                 /\ Matches(host', g, Steps(g)[Taken' - end[m + 1]])
      <4>1. g \in Frames
        <5>1. m + 2 \in 1 .. Len(accepted)
          BY <1>3, <3>2
        <5>. QED
          BY <1>3, <5>1
      <4>2. Len(Encoding[g]) \in Nat \ {0} /\ Steps(g)[0] = Opening
        BY <4>1, EncodedAsWalk DEF IsWalk
      <4>3. Taken' - end[m + 1] = 0
        BY <2>5, <3>1
      <4>. HIDE DEF g
      <4>. QED
        BY <2>5, <2>6, <3>1, <4>2, <4>3
    <3>3. (m + 1) + 1 = m + 2
      BY <1>3
    <3>4. end[m + 1] <= Taken'
      BY <2>5, <3>1
    <3>. QED
      BY <1>2, <2>2, <2>5, <2>6, <3>2, <3>3, <3>4 DEF InFrame
  <2>. QED
    BY <1>1, <1>6, <2>2, <2>3, <2>4, <2>7 DEF HostInv
<1>14. CASE j + 1 # N
  <2>1. delivered' = delivered
    BY <1>2, <1>12, <1>14
  <2>2. HostSeesAccepted' /\ delivered' \in Seq(Frames)
    BY <1>2, <2>1 DEF HostInv, HostSeesAccepted
  <2>3. Ends(end)'
    BY <1>2, <1>4 DEF Ends
  <2>4. /\ Taken' = end[m] + (j + 1) /\ Taken' # end[m] /\ end[m] <= Taken'
        /\ Taken' < end[m] + N /\ Taken' - end[m] = j + 1
    <3>1. PICK a, b, n : a = end[m] /\ b = j + 1 /\ n = N
      OBVIOUS
    <3>2. a \in Nat /\ b \in 1 .. n /\ b # n /\ n \in Nat
      BY <1>7, <1>8, <1>9, <1>14, <3>1
    <3>3. Taken' = a + b
      BY <1>5, <1>9, <3>1
    <3>4. /\ a + b # a /\ a <= a + b /\ a + b < a + n /\ (a + b) - a = b
      BY <3>2
    <3>. QED
      BY <3>1, <3>3, <3>4
  <2>5. Matches(host', f, Steps(f)[j + 1])
    BY <1>11, <1>12
  <2>6. m' = m /\ accepted' = accepted /\ m # Len(accepted)
    BY <1>2, <1>3, <1>7, <2>1
  <2>7. InFrame(end)'
    BY <2>4, <2>5, <2>6 DEF InFrame, N
  <2>. QED
    BY <1>1, <1>6, <2>2, <2>3, <2>7 DEF HostInv
<1>. QED
  BY <1>13, <1>14

LEMMA NextHostInv == HostInv /\ [Next]_vars => HostInv'
<1>1. ASSUME HostInv, UNCHANGED vars
      PROVE  HostInv'
  <2>1. IInv'
    BY <1>1, NextIInv DEF HostInv
  <2>2. WireIsTail' /\ HostSeesAccepted' /\ delivered' \in Seq(Frames)
    BY <1>1 DEF HostInv, WireIsTail, Taken, HostSeesAccepted, vars
  <2>3. \A end : Ends(end) /\ InFrame(end) => Ends(end)' /\ InFrame(end)'
    BY <1>1 DEF Ends, InFrame, Taken, vars
  <2>. QED
    BY <1>1, <2>1, <2>2, <2>3 DEF HostInv
<1>. QED
  BY <1>1, PollRxKeepsHostInv, ReadKissKeepsHostInv, HostByteKeepsHostInv DEF Next

\* However the outbox is filled and read, and wherever the reads cut the
\* stream: the frames the host decodes are the accepted ones, from the first
\* on, whatever bytes they hold.
THEOREM HostGetsFrames == Spec => []HostSeesAccepted
<1>1. HostInv => HostSeesAccepted
  BY DEF HostInv
<1>. QED
  BY <1>1, InitHostInv, NextHostInv, PTL DEF Spec

-----------------------------------------------------------------------------
(* Nothing stays behind: the safety half of AcceptedArrives. *)

\* When the outbox and the wire are empty, the host has every accepted frame:
\* its decoder keeps none back for want of a byte.
DrainedIsDelivered == Waiting(kiss_out) = << >> /\ wire = << >> => delivered = accepted

LEMMA DrainedHasAll == HostInv => DrainedIsDelivered
<1>. SUFFICES ASSUME HostInv, Waiting(kiss_out) = << >>, wire = << >>
              PROVE  delivered = accepted
  BY DEF DrainedIsDelivered
<1>1. /\ accepted \in Seq(Frames) /\ delivered \in Seq(Frames)
      /\ Len(delivered) <= Len(accepted)
      /\ \A k \in 1 .. Len(delivered) : delivered[k] = accepted[k]
  BY DEF HostInv, IInv, TypeOK, HostSeesAccepted
<1>2. Len(stream) \in Nat /\ Taken = Len(stream)
  <2>1. handed \in Seq(Byte) /\ stream = handed \o << >>
    BY DEF HostInv, IInv, TypeOK, OutboxIsStream
  <2>2. stream = handed /\ Len(handed) \in Nat /\ Len(wire) = 0
    BY <2>1
  <2>. QED
    BY <2>2 DEF Taken
<1>3. PICK end : Ends(end) /\ InFrame(end)
  BY DEF HostInv
<1>4. PICK m \in Nat, n \in Nat : m = Len(delivered) /\ n = Len(accepted) /\ m <= n
  BY <1>1
<1>5. m = n
  <2>1. SUFFICES ASSUME m < n PROVE FALSE
    BY <1>4
  <2>2. m + 1 \in 1 .. n /\ (m + 1) - 1 = m
    BY <2>1
  <2>3. Taken < end[m] + Len(Encoding[accepted[m + 1]])
    BY <1>3, <1>4, <2>1 DEF InFrame
  <2>4. end[m + 1] = end[m] + Len(Encoding[accepted[m + 1]])
    BY <1>3, <1>4, <2>2 DEF Ends
  <2>5. end[m + 1] \in 0 .. Len(stream)
    BY <1>3, <1>4, <2>2 DEF Ends
  <2>6. Taken < end[m + 1]
    BY <2>3, <2>4
  <2>. QED
    BY <1>2, <2>5, <2>6
<1>. QED
  BY <1>1, <1>4, <1>5, SeqEqual

\* Once what was read has come to the host and the outbox is empty, the host
\* has decoded exactly the frames the outbox took.
THEOREM HostGetsAll == Spec => []DrainedIsDelivered
  BY DrainedHasAll, InitHostInv, NextHostInv, PTL DEF Spec

\* What the platform and the host still have to do, in steps: a byte that
\* waits is read, then taken.
LeftToTake == 2 * Used(kiss_out) + Len(wire)

LEMMA ReadTakes ==
    ASSUME IInv, NEW n \in ReadSizes, ReadKiss(n)
    PROVE  LeftToTake' < LeftToTake \/ UNCHANGED vars
<1>1. /\ n \in Nat \ {0} /\ kiss_out \in KissOutboxOf(Byte) /\ wire \in Seq(Byte)
      /\ handed \in Seq(Byte)
  BY ReceiveAssumption DEF IInv, TypeOK
<1>2. PICK h : h = Handed(kiss_out, n)
  OBVIOUS
<1>3. /\ kiss_out' = read(kiss_out, n) /\ handed' = handed \o h /\ wire' = wire \o h
      /\ UNCHANGED <<host, received, accepted, stream, delivered>>
  BY <1>2 DEF ReadKiss
<1>4. kiss_out' \in KissOutboxOf(Byte) /\ h \in Seq(Byte) /\ h \o Waiting(kiss_out') = Waiting(kiss_out)
  BY <1>1, <1>2, <1>3, ReadSplits
<1>5. PICK a \in Nat, b \in Nat : a = Used(kiss_out) /\ b = Used(kiss_out')
  BY <1>1, <1>4, OutboxSizeAssumption, UsedFacts
<1>6. a = Len(h) + b
  <2>1. PICK v \in Seq(Byte), w \in Seq(Byte) :
           v = Waiting(kiss_out') /\ w = Waiting(kiss_out) /\ Len(v) = b /\ Len(w) = a
    BY <1>1, <1>4, <1>5, WaitingLen
  <2>2. h \o v = w
    BY <1>4, <2>1
  <2>3. Len(h \o v) = Len(h) + Len(v)
    BY <1>4
  <2>. QED
    BY <2>1, <2>2, <2>3
<1>7. Len(wire') = Len(wire) + Len(h) /\ Len(wire) \in Nat /\ Len(h) \in Nat
  BY <1>1, <1>3, <1>4
<1>8. CASE a = 0
  <2>1. Len(h) = 0
    BY <1>5, <1>6, <1>7, <1>8
  <2>2. h = << >>
    BY <1>4, <2>1
  <2>3. handed' = handed /\ wire' = wire
    BY <1>1, <1>3, <2>2
  <2>4. kiss_out' = kiss_out
    <3>1. ReadSize(kiss_out, n) = 0
      BY <1>1, <1>5, <1>8 DEF ReadSize
    <3>2. PICK x, y : x = kiss_out.head /\ y = KISS_OUTBOX_SIZE
      OBVIOUS
    <3>3. y \in Nat \ {0} /\ x \in 0 .. y - 1
      BY <1>1, <3>2, OutboxSizeAssumption DEF KissOutboxOf, Cells
    <3>4. (x + 0) % y = x
      BY <3>3
    <3>5. kiss_out' = [kiss_out EXCEPT !.head = kiss_out.head]
      BY <1>3, <3>1, <3>2, <3>4 DEF read
    <3>. QED
      BY <1>1, <3>5 DEF KissOutboxOf
  <2>. QED
    BY <1>3, <2>3, <2>4 DEF vars
<1>9. CASE a # 0
  <2>1. ReadSize(kiss_out, n) \in Nat \ {0}
    BY <1>1, <1>5, <1>9 DEF ReadSize
  <2>2. DOMAIN h = 1 .. ReadSize(kiss_out, n)
    BY <1>2 DEF Handed
  <2>3. 1 \in DOMAIN h
    BY <2>1, <2>2
  <2>4. Len(h) >= 1
    BY <1>4, <2>3
  <2>5. PICK x \in Nat, y \in Nat, z \in Nat : x = Len(h) /\ y = Len(wire) /\ z = Len(wire')
    BY <1>7
  <2>6. a = x + b /\ z = y + x /\ x >= 1
    BY <1>6, <1>7, <2>4, <2>5
  <2>7. 2 * b + z < 2 * a + y
    <3>1. b \in Nat /\ x \in Nat /\ y \in Nat
      BY <1>5, <2>5
    <3>2. 2 * b + (y + x) < 2 * (x + b) + y
      BY <2>6, <3>1
    <3>. QED
      BY <2>6, <3>2
  <2>. QED
    BY <1>5, <2>5, <2>7 DEF LeftToTake
<1>. QED
  BY <1>5, <1>8, <1>9

\* Every step but the reception of another frame brings the host nearer to the
\* end of what was accepted: no read and no byte is spent in vain.
TakesLess == [][(\E f \in Frames : PollRx(f)) \/ LeftToTake' < LeftToTake]_vars

\* For every size of the outbox and of the reads; AcceptedArrives, the liveness
\* property, rests on it and on HostGetsAll.
THEOREM HostIsServed == Spec => TakesLess
<1>1. ASSUME IInv, [Next]_vars
      PROVE  [(\E f \in Frames : PollRx(f)) \/ LeftToTake' < LeftToTake]_vars
  <2>1. CASE UNCHANGED vars
    BY <2>1
  <2>2. CASE \E f \in Frames : PollRx(f)
    BY <2>2
  <2>3. CASE \E n \in ReadSizes : ReadKiss(n)
    BY <1>1, <2>3, ReadTakes
  <2>4. CASE HostByte
    <3>1. wire \in Seq(Byte) /\ wire # << >> /\ wire' = Tail(wire) /\ kiss_out' = kiss_out
      BY <1>1, <2>4 DEF HostByte, IInv, TypeOK
    <3>2. Len(wire') < Len(wire) /\ Len(wire) \in Nat /\ Len(wire') \in Nat
      BY <3>1
    <3>3. PICK a \in Nat : a = Used(kiss_out) /\ a = Used(kiss_out')
      BY <1>1, <3>1, OutboxSizeAssumption, UsedFacts DEF IInv, TypeOK
    <3>4. 2 * a + Len(wire') < 2 * a + Len(wire)
      BY <3>2, <3>3
    <3>. QED
      BY <3>3, <3>4 DEF LeftToTake
  <2>. QED
    BY <1>1, <2>1, <2>2, <2>3, <2>4 DEF Next
<1>. QED
  BY <1>1, Invariance, PTL DEF Spec, TakesLess
=============================================================================
