-------------------------- MODULE MultiDecoder_proofs --------------------------
(***************************************************************************)
(* Which transmissions are reported once and with their best decode, for   *)
(* any transmissions, decoders, costs and buffers, any turns of the count  *)
(* of samples, and any ring that holds the frames of two buffers.          *)
(***************************************************************************)
EXTENDS MultiDecoder, FiniteSetTheorems, SequenceTheorems, WellFoundedInduction, TLAPS

\* The entry is of what was heard as h.
Owns(h, e) ==
    /\ e.heard \in Span(h.of) /\ Turn(e.heard) = h.turn
    /\ e.start = SampleIdx(e.heard) /\ e.hash \in Hashes(h.of)

\* A decoder may still meet it.
Live(h) == base < Air[h.of].at + Jitter

\* How many entries were written after the i-th.
Age(ring, i) == IF i < ring.write_idx THEN ring.write_idx - 1 - i
                ELSE (ring.write_idx - 1 - i) + N

Hash == UNION {Hashes(t) : t \in DOMAIN Air}
EntryType == [hash : Hash, start : Nat, cost : Nat, slot : 1 .. MAX_OUTPUT_FRAMES, heard : Nat]
FrameType == [tx : Hearings, cost : Nat]
RingOK(ring) ==
    /\ ring \in [entries : Seq(EntryType), write_idx : 1 .. N]
    /\ Len(ring.entries) <= N
    /\ Len(ring.entries) < N => ring.write_idx = Len(ring.entries) + 1

TypeOK ==
    /\ RingOK(dedup)
    /\ output \in Seq(FrameType) /\ Len(output) <= MAX_OUTPUT_FRAMES
    /\ handed \in Seq(Hearings)
    /\ base \in Nat
    /\ first \in [Hearings -> Nat \cup {NoCost}] /\ lowest \in [Hearings -> Nat \cup {NoCost}]
    /\ found \subseteq Hearings

\* The entries are of different hearings, and none is of a buffer to come.
EntriesApart ==
    /\ \A i \in DOMAIN dedup.entries :
         /\ \E h \in Hearings : Owns(h, dedup.entries[i])
         /\ dedup.entries[i].heard <= base + BufferLen
    /\ \A h \in Hearings : \A i, j \in DOMAIN dedup.entries :
         Owns(h, dedup.entries[i]) /\ Owns(h, dedup.entries[j]) => i = j

\* The entries of this buffer are those that were written for the slots of the
\* output, in the order of the slots.
InSlot(k, i) ==
    LET e == dedup.entries[i]
    IN e.heard > base /\ e.slot = k /\ Age(dedup, i) = Len(output) - k
InPlace ==
    /\ \A k \in DOMAIN output : \E i \in DOMAIN dedup.entries : InSlot(k, i)
    /\ \A i \in DOMAIN dedup.entries : dedup.entries[i].heard > base =>
         LET k == dedup.entries[i].slot IN k \in DOMAIN output /\ InSlot(k, i)

\* In its slot is a frame of what the entry is of, unless frames were mixed.
Unmixed ==
    \A i \in DOMAIN dedup.entries, h \in Hearings :
        dedup.entries[i].heard > base /\ Owns(h, dedup.entries[i]) =>
            LET g == output[dedup.entries[i].slot].tx IN g = h \/ {g, h} \subseteq mixed

\* Each frame is of another hearing, and of each that was decoded there is one.
FramesApart ==
    /\ \A i, j \in DOMAIN All : All[i] = All[j] /\ All[i] \notin mixed => i = j
    /\ \A h \in found \ mixed : FramesOf(h) # {} \/ h \in refused \/ Shadowed(h.of)

\* The ring knows of frames only, and of each one as long as its transmission
\* may be met again.
Remembered ==
    /\ \A h \in Hearings \ mixed, i \in DOMAIN dedup.entries :
         Owns(h, dedup.entries[i]) => FramesOf(h) # {}
    /\ \A k \in DOMAIN All : Live(All[k]) /\ All[k] \notin mixed =>
         \E i \in DOMAIN dedup.entries : /\ Owns(All[k], dedup.entries[i])
                                         /\ Age(dedup, i) < MAX_OUTPUT_FRAMES + Len(output)

\* The entry in the k-th slot is never cheaper than the frame there, and not
\* dearer than the first decode; it is as dear as the frame unless the cost of a
\* better one went elsewhere.
Best(h, k) ==
    /\ first[h] \in Nat /\ lowest[h] \in Nat /\ lowest[h] <= output[k].cost
    /\ IF h \in misled THEN output[k].cost < first[h] ELSE output[k].cost = lowest[h]
    /\ \A i \in DOMAIN dedup.entries : InSlot(k, i) =>
         /\ output[k].cost <= dedup.entries[i].cost /\ dedup.entries[i].cost <= first[h]
         /\ h \notin misled => dedup.entries[i].cost = output[k].cost
BestFrames ==
    \A k \in DOMAIN output :
        LET h == output[k].tx IN h \in mixed \/ Shadowed(h.of) \/ Best(h, k)

\* There is a frame for each decode.
Noted ==
    /\ \A h \in Hearings \ mixed :
         lowest[h] = NoCost \/ Shadowed(h.of) \/ FramesOf(h) # {} \/ IsFull(output)
    /\ \A h \in Hearings : lowest[h] = NoCost => first[h] = NoCost /\ h \notin misled

IInv ==
    /\ TypeOK /\ EntriesApart /\ InPlace /\ Unmixed
    /\ FramesApart /\ Remembered /\ BestFrames /\ Noted

-----------------------------------------------------------------------------
(* Sets of numbers *)

\* Every set of numbers that is not empty has a least one.
LEMMA Least ==
    ASSUME NEW T \in SUBSET Nat, T # {}
    PROVE  \E n \in T : \A m \in T : ~(m < n)
<1>1. IsWellFoundedOn(OpToRel(<, Nat), Nat)
  BY NatLessThanWellFounded
<1>2. \E x \in T : \A y \in T : ~(<<y, x>> \in OpToRel(<, Nat))
  BY <1>1, WFMin
<1>. QED
  BY <1>2 DEF OpToRel

LEMMA FirstIsLeast ==
    ASSUME NEW T \in SUBSET Nat, NEW n \in T, \A m \in T : n <= m
    PROVE  First(T) = n
<1>1. \A i \in T : (\A j \in T : i <= j) => i = n
  <2>1. \A i, j \in Nat : i <= j /\ j <= i => i = j
    OBVIOUS
  <2>. QED
    BY <2>1
<1>. QED
  BY <1>1 DEF First

LEMMA FirstIsMember ==
    ASSUME NEW T \in SUBSET Nat, T # {}
    PROVE  First(T) \in T
<1>1. PICK n \in T : \A m \in T : ~(m < n)
  BY Least
<1>2. \A m \in T : n <= m
  BY <1>1
<1>. QED
  BY <1>2, FirstIsLeast

\* A set without two members has at most one.
LEMMA NoTwo ==
    ASSUME NEW S, \A i, j \in S : i = j
    PROVE  Cardinality(S) <= 1
<1>1. CASE S = {}
  BY <1>1, FS_EmptySet
<1>2. ASSUME S # {} PROVE Cardinality(S) = 1
  <2>1. PICK i \in S : TRUE
    BY <1>2
  <2>2. S = {i}
    BY <2>1
  <2>. QED
    BY <2>2, FS_Singleton
<1>. QED
  BY <1>1, <1>2

-----------------------------------------------------------------------------
(* The count of samples *)

\* A sample is so many turns of the count and its place in the last one.
LEMMA DivMod ==
    ASSUME NEW a \in Nat
    PROVE  /\ SampleIdx(a) \in Nat /\ SampleIdx(a) < SampleMod /\ Turn(a) \in Nat
           /\ a = SampleMod * Turn(a) + SampleIdx(a)
<1>1. SampleMod \in Nat /\ SampleMod > 0
  BY AirAssumption, RingAssumption
<1>. QED
  BY <1>1 DEF SampleIdx, Turn

\* Within a turn of the count distances are right.
LEMMA SameTurn ==
    ASSUME NEW a \in Nat, NEW b \in Nat, Turn(a) = Turn(b)
    PROVE  Distance(SampleIdx(a), SampleIdx(b)) = Distance(a, b)
<1>1. PICK p \in Nat, q \in Nat : p = SampleIdx(a) /\ q = SampleIdx(b)
  BY DivMod
<1>2. PICK M \in Nat, i \in Nat : M = SampleMod /\ i = Turn(a)
  BY DivMod, AirAssumption
<1>3. PICK n \in Nat : n = M * i
  BY <1>2
<1>4. a = n + p /\ b = n + q
  BY <1>1, <1>2, <1>3, DivMod
<1>. QED
  BY <1>1, <1>4 DEF Distance

\* The later of two times, less than a turn after the other but in the next turn.
LEMMA NextTurn ==
    ASSUME NEW a \in Nat, NEW b \in Nat, a <= b, b - a <= BufferLen, Turn(a) # Turn(b)
    PROVE  SampleIdx(a) - SampleIdx(b) >= SampleMod - BufferLen
<1>1. PICK p \in Nat, q \in Nat : p = SampleIdx(a) /\ q = SampleIdx(b)
  BY DivMod
<1>2. PICK i \in Nat, j \in Nat : i = Turn(a) /\ j = Turn(b)
  BY DivMod
<1>3. PICK M \in Nat : M = SampleMod /\ M > BufferLen /\ M > 0
  BY AirAssumption, RingAssumption
<1>4. a = M * i + p /\ b = M * j + q /\ p < M /\ q < M
  BY <1>1, <1>2, <1>3, DivMod
<1>5. i # j
  BY <1>2
<1>6. BufferLen \in Nat
  BY AirAssumption
<1>7. j > i
  <2>1. CASE j < i
    <3>1. M * i >= M * (j + 1) /\ M * (j + 1) = M * j + M
      BY <1>3, <2>1
    <3>2. PICK v \in Nat, w \in Nat : v = M * i /\ w = M * j
      BY <1>3
    <3>3. v >= w + M /\ a = v + p /\ b = w + q
      BY <1>4, <3>1, <3>2
    <3>. QED
      BY <1>3, <1>4, <3>3
  <2>. QED
    BY <1>5, <2>1
<1>8. j = i + 1
  <2>1. CASE j > i + 1
    <3>1. M * j >= M * (i + 2) /\ M * (i + 2) = M * i + M + M
      BY <1>3, <2>1
    <3>2. PICK v \in Nat, w \in Nat : v = M * i /\ w = M * j
      BY <1>3
    <3>3. w >= v + M + M /\ a = v + p /\ b = w + q
      BY <1>4, <3>1, <3>2
    <3>. QED
      BY <1>3, <1>4, <1>6, <3>3
  <2>. QED
    BY <1>7, <2>1
<1>9. PICK v \in Nat, w \in Nat : v = M * i /\ w = M * j /\ w = v + M
  BY <1>3, <1>8
<1>10. a = v + p /\ b = w + q
  BY <1>4, <1>9
<1>. QED
  BY <1>1, <1>3, <1>6, <1>9, <1>10

-----------------------------------------------------------------------------
(* What is heard *)

LEMMA HearingParts ==
    ASSUME NEW h \in Hearings
    PROVE  /\ h.of \in DOMAIN Air /\ Air[h.of].at \in Nat
           /\ \A t, s : h = Hearing(t, s) <=> h.of = t /\ h.turn = Turn(s)
<1>1. PICK t \in DOMAIN Air : h \in {Hearing(t, sample) : sample \in Span(t)}
  BY DEF Hearings
<1>2. PICK s \in Span(t) : h = [of |-> t, turn |-> Turn(s)]
  BY <1>1 DEF Hearing
<1>3. h.of = t /\ h.turn = Turn(s)
  BY <1>2
<1>. QED
  BY <1>2, <1>3, AirAssumption DEF Hearing

LEMMA HearingIsOne ==
    ASSUME NEW t \in DOMAIN Air, NEW s \in Span(t)
    PROVE  Hearing(t, s) \in Hearings /\ Hearing(t, s).of = t /\ Hearing(t, s).turn = Turn(s)
  BY DEF Hearings, Hearing

\* Two times that the count tells apart: in one turn by their distance, and in
\* two turns unless one is shadowed.
LEMMA TimesApart ==
    ASSUME NEW t \in DOMAIN Air, NEW u \in DOMAIN Air, NEW s \in Span(t), NEW r \in Span(u),
           t # u, Turn(s) = Turn(r),
           NEW d, d = Distance(SampleIdx(s), SampleIdx(r))
    PROVE  d >= overlap_window /\ (Air[t].content = Air[u].content => d > EXPIRY_SAMPLES)
<1>1. /\ Air[t].at \in Nat /\ Air[u].at \in Nat /\ Jitter \in Nat /\ t \in Nat /\ u \in Nat
      /\ overlap_window \in Nat /\ EXPIRY_SAMPLES \in Nat
  BY AirAssumption, RingAssumption
<1>2. /\ s \in Nat /\ Air[t].at <= s /\ s <= Air[t].at + Jitter
      /\ r \in Nat /\ Air[u].at <= r /\ r <= Air[u].at + Jitter
  BY <1>1 DEF Span
<1>3. d = Distance(s, r)
  BY <1>2, SameTurn
<1>4. CASE t < u
  <2>1. /\ Air[u].at >= Air[t].at + overlap_window + Jitter
        /\ Air[t].content = Air[u].content => Air[u].at > Air[t].at + Jitter + EXPIRY_SAMPLES
    BY <1>4, AirAssumption
  <2>. QED
    BY <1>1, <1>2, <1>3, <2>1 DEF Distance
<1>5. CASE u < t
  <2>1. /\ Air[t].at >= Air[u].at + overlap_window + Jitter
        /\ Air[u].content = Air[t].content => Air[t].at > Air[u].at + Jitter + EXPIRY_SAMPLES
    BY <1>5, AirAssumption
  <2>. QED
    BY <1>1, <1>2, <1>3, <2>1 DEF Distance
<1>. QED
  BY <1>1, <1>4, <1>5

\* Two times at most a buffer apart, in two turns.
LEMMA TurnsApart ==
    ASSUME NEW s \in Nat, NEW r \in Nat, Turn(s) # Turn(r), Distance(s, r) <= BufferLen,
           NEW d, d = Distance(SampleIdx(s), SampleIdx(r))
    PROVE  d >= overlap_window /\ d > EXPIRY_SAMPLES
<1>1. PICK p \in Nat, q \in Nat : p = SampleIdx(s) /\ q = SampleIdx(r)
  BY DivMod
<1>2. /\ SampleMod \in Nat /\ BufferLen \in Nat /\ overlap_window \in Nat /\ EXPIRY_SAMPLES \in Nat
      /\ SampleMod > BufferLen + overlap_window + EXPIRY_SAMPLES
  BY AirAssumption, RingAssumption
<1>3. CASE s <= r
  <2>1. p - q >= SampleMod - BufferLen
    BY <1>1, <1>3, NextTurn DEF Distance
  <2>. QED
    BY <1>1, <1>2, <2>1 DEF Distance
<1>4. CASE ~(s <= r)
  <2>1. q - p >= SampleMod - BufferLen
    <3>1. r <= s /\ s - r <= BufferLen
      BY <1>4 DEF Distance
    <3>. QED
      BY <1>1, <3>1, NextTurn
  <2>. QED
    BY <1>1, <1>2, <2>1 DEF Distance
<1>. QED
  BY <1>3, <1>4

LEMMA SameHash ==
    ASSUME NEW t \in DOMAIN Air, NEW u \in DOMAIN Air, t # u,
           NEW hash, hash \in Hashes(t), hash \in Hashes(u)
    PROVE  Air[t].content = Air[u].content
<1>1. hash \in {<<Air[t].content, 0>>, <<"wrong", t>>}
      /\ hash \in {<<Air[u].content, 0>>, <<"wrong", u>>}
  BY DEF Hashes
<1>2. t # 0 /\ u # 0
  BY AirAssumption
<1>. QED
  BY <1>1, <1>2

\* A decode matches the entry of what was heard.
LEMMA MatchesOwn ==
    ASSUME NEW t \in DOMAIN Air, NEW sample \in Span(t), NEW hash,
           NEW e \in EntryType, Owns(Hearing(t, sample), e)
    PROVE  Matches(e, hash, SampleIdx(sample))
<1>1. /\ Air[t].at \in Nat /\ Jitter \in Nat /\ overlap_window \in Nat /\ EXPIRY_SAMPLES \in Nat
      /\ Jitter < overlap_window /\ Jitter <= EXPIRY_SAMPLES
  BY AirAssumption, RingAssumption
<1>2. e.heard \in Span(t) /\ Turn(e.heard) = Turn(sample) /\ e.start = SampleIdx(e.heard)
  BY DEF Owns, Hearing
<1>3. /\ sample \in Nat /\ Air[t].at <= sample /\ sample <= Air[t].at + Jitter
      /\ e.heard \in Nat /\ Air[t].at <= e.heard /\ e.heard <= Air[t].at + Jitter
  BY <1>1, <1>2 DEF Span
<1>4. Distance(SampleIdx(sample), e.start) = Distance(sample, e.heard)
  BY <1>2, <1>3, SameTurn
<1>5. Distance(sample, e.heard) <= Jitter /\ Distance(sample, e.heard) \in Nat
  BY <1>1, <1>3 DEF Distance
<1>. QED
  BY <1>1, <1>4, <1>5 DEF Matches

\* One that matches the entry of something else is shadowed by it, and that was
\* heard before this buffer.
LEMMA MatchesOther ==
    ASSUME NEW t \in DOMAIN Air, NEW sample \in Span(t), NEW hash \in Hashes(t),
           NEW h \in Hearings, NEW e \in EntryType, Owns(h, e), h # Hearing(t, sample),
           base \in Nat, sample > base, sample <= base + BufferLen,
           e.heard <= base + BufferLen,
           Matches(e, hash, SampleIdx(sample))
    PROVE  Shadowed(t) /\ ~(e.heard > base)
<1>1. PICK u, r, d : u = h.of /\ r = e.heard /\ d = Distance(SampleIdx(sample), SampleIdx(r))
  OBVIOUS
<1>2. /\ u \in DOMAIN Air /\ r \in Span(u) /\ Turn(r) = h.turn /\ e.start = SampleIdx(r)
      /\ e.hash \in Hashes(u) /\ (u # t \/ Turn(r) # Turn(sample))
  BY <1>1, HearingParts DEF Owns
<1>3. /\ Air[t].at \in Nat /\ Air[u].at \in Nat /\ Jitter \in Nat /\ t \in Nat /\ u \in Nat
      /\ overlap_window \in Nat /\ EXPIRY_SAMPLES \in Nat /\ BufferLen \in Nat /\ Jitter <= BufferLen
      /\ DOMAIN Air = 1 .. Len(Air) /\ Len(Air) \in Nat
  BY <1>2, AirAssumption, RingAssumption
<1>4. /\ sample \in Nat /\ Air[t].at <= sample /\ sample <= Air[t].at + Jitter
      /\ r \in Nat /\ Air[u].at <= r /\ r <= Air[u].at + Jitter
  BY <1>2, <1>3 DEF Span
<1>5. d \in Nat /\ d <= EXPIRY_SAMPLES /\ (e.hash = hash \/ d < overlap_window)
  <2>1. PICK p \in Nat, q \in Nat : p = SampleIdx(sample) /\ q = SampleIdx(r)
    BY <1>4, DivMod
  <2>2. d \in Nat
    BY <1>1, <2>1 DEF Distance
  <2>. QED
    BY <1>1, <1>2, <2>2 DEF Matches
<1>6. Turn(r) # Turn(sample)
  <2>1. ASSUME Turn(r) = Turn(sample) PROVE FALSE
    <3>1. u # t
      BY <1>2, <2>1
    <3>2. d >= overlap_window /\ (Air[t].content = Air[u].content => d > EXPIRY_SAMPLES)
      BY <1>1, <1>2, <2>1, <3>1, TimesApart
    <3>3. e.hash = hash => Air[t].content = Air[u].content
      BY <1>2, <3>1, SameHash
    <3>. QED
      BY <1>3, <1>5, <3>2, <3>3
  <2>. QED
    BY <2>1
<1>7. Distance(sample, r) > BufferLen
  <2>1. CASE Distance(sample, r) <= BufferLen
    <3>1. d > EXPIRY_SAMPLES
      BY <1>1, <1>4, <1>6, <2>1, TurnsApart
    <3>. QED
      BY <1>3, <1>5, <3>1
  <2>. QED
    BY <1>3, <1>4, <2>1 DEF Distance
<1>8. ~(e.heard > base)
  BY <1>1, <1>3, <1>4, <1>7 DEF Distance
<1>9. u \in 1 .. t - 1
  <2>1. u # t
    <3>1. ASSUME u = t PROVE Distance(sample, r) <= Jitter
      <4>1. PICK a \in Nat, j \in Nat : a = Air[t].at /\ j = Jitter
        BY <1>3
      <4>2. a <= sample /\ sample <= a + j /\ a <= r /\ r <= a + j
        BY <1>4, <3>1, <4>1
      <4>3. sample \in Nat /\ r \in Nat
        BY <1>4
      <4>. QED
        BY <4>1, <4>2, <4>3 DEF Distance
    <3>2. Distance(sample, r) \in Nat
      BY <1>4 DEF Distance
    <3>. QED
      BY <1>3, <1>7, <3>1, <3>2
  <2>2. ~(t < u)
    <3>1. t < u => Air[u].at >= Air[t].at + overlap_window + Jitter
      BY <1>2, AirAssumption
    <3>2. PICK a \in Nat, b \in Nat : a = Air[t].at /\ b = Air[u].at
      BY <1>3
    <3>3. r <= base /\ base < sample /\ sample <= a + Jitter /\ b <= r
      BY <1>1, <1>4, <1>8, <3>2
    <3>4. PICK j \in Nat, n \in Nat : j = Jitter /\ n = overlap_window
      BY <1>3
    <3>5. r \in Nat /\ sample \in Nat
      BY <1>4
    <3>6. t < u => b >= a + n + j
      BY <3>1, <3>2, <3>4
    <3>7. r <= base /\ base < sample /\ sample <= a + j /\ b <= r
      BY <3>3, <3>4
    <3>8. ~(b >= a + n + j)
      BY <3>2, <3>4, <3>5, <3>7
    <3>. QED
      BY <3>6, <3>8
  <2>. QED
    BY <1>2, <1>3, <2>1, <2>2
<1>10. Shadowed(t)
  <2>1. d < overlap_window \/ (d <= EXPIRY_SAMPLES /\ Air[t].content = Air[u].content)
    <3>1. e.hash = hash => Air[t].content = Air[u].content
      <4>1. u # t
        BY <1>3, <1>9
      <4>. QED
        BY <1>2, <4>1, SameHash
    <3>. QED
      BY <1>5, <3>1
  <2>2. Distance(SampleIdx(r), SampleIdx(sample)) = d
    <3>1. PICK p \in Nat, q \in Nat : p = SampleIdx(sample) /\ q = SampleIdx(r)
      BY <1>4, DivMod
    <3>. QED
      BY <1>1, <3>1 DEF Distance
  <2>. QED
    BY <1>2, <1>6, <1>9, <2>1, <2>2 DEF Shadowed
<1>. QED
  BY <1>8, <1>10

\* An entry is of one hearing.
LEMMA OneOwner ==
    ASSUME NEW h \in Hearings, NEW g \in Hearings, NEW e \in EntryType,
           Owns(h, e), Owns(g, e)
    PROVE  h = g
<1>1. h.of \in DOMAIN Air /\ g.of \in DOMAIN Air
  BY HearingParts
<1>2. e.heard \in Span(h.of) /\ e.heard \in Span(g.of) /\ h.turn = g.turn
  BY DEF Owns
<1>3. h.of = g.of
  <2>1. ASSUME h.of # g.of PROVE FALSE
    <3>1. Distance(SampleIdx(e.heard), SampleIdx(e.heard)) >= overlap_window
      BY <1>1, <1>2, <2>1, TimesApart
    <3>2. Distance(SampleIdx(e.heard), SampleIdx(e.heard)) = 0
      <4>1. SampleIdx(e.heard) \in Nat
        <5>1. e.heard \in Nat
          BY DEF EntryType
        <5>. QED
          BY <5>1, DivMod
      <4>. QED
        BY <4>1 DEF Distance
    <3>. QED
      BY <3>1, <3>2, AirAssumption, RingAssumption
  <2>. QED
    BY <2>1
<1>4. PICK t, s : t = h.of /\ s = e.heard
  OBVIOUS
<1>5. h.turn = Turn(s) /\ g.turn = Turn(s)
  BY <1>4 DEF Owns
<1>6. h = Hearing(t, s) /\ g = Hearing(t, s)
  BY <1>3, <1>4, <1>5, HearingParts
<1>. QED
  BY <1>6

-----------------------------------------------------------------------------
(* The ring *)

\* Recording overwrites the oldest entry, and all others are one older.
LEMMA Recorded ==
    ASSUME NEW ring, RingOK(ring), NEW e \in EntryType,
           NEW more, more = record_with_info(ring, e)
    PROVE  /\ RingOK(more)
           /\ ring.write_idx \in DOMAIN more.entries
           /\ more.entries[ring.write_idx] = e /\ Age(more, ring.write_idx) = 0
           /\ \A i \in DOMAIN ring.entries : i # ring.write_idx =>
                /\ i \in DOMAIN more.entries /\ more.entries[i] = ring.entries[i]
                /\ Age(more, i) = Age(ring, i) + 1
           /\ \A i \in DOMAIN more.entries : i # ring.write_idx => i \in DOMAIN ring.entries
           /\ ring.write_idx \in DOMAIN ring.entries => Age(ring, ring.write_idx) = N - 1
<1>. DEFINE w == ring.write_idx
            n == Len(ring.entries)
            m == IF w > n THEN w ELSE n
<1>1. /\ N \in Nat /\ N >= 2 /\ w \in 1 .. N /\ n \in Nat /\ n <= N /\ (n < N => w = n + 1)
      /\ ring.entries \in Seq(EntryType) /\ DOMAIN ring.entries = 1 .. n
  BY RingAssumption DEF RingOK
<1>2. /\ more.entries = [i \in 1 .. m |-> IF i = w THEN e ELSE ring.entries[i]]
      /\ more.write_idx = (IF w = N THEN 1 ELSE w + 1)
      /\ more = [entries |-> more.entries, write_idx |-> more.write_idx]
  BY DEF record_with_info, Ring
<1>3. m \in Nat /\ w \in 1 .. m /\ n <= m /\ m <= N /\ (m < N => w = m)
      /\ \A i \in 1 .. m : i # w => i \in 1 .. n
  BY <1>1
<1>. HIDE DEF m, n, w
<1>4. more.entries \in Seq(EntryType) /\ Len(more.entries) = m /\ DOMAIN more.entries = 1 .. m
  <2>1. \A i \in 1 .. n : ring.entries[i] \in EntryType
    BY <1>1
  <2>2. more.entries \in [1 .. m -> EntryType]
    BY <1>2, <1>3, <2>1
  <2>. QED
    BY <1>2, <1>3, <2>2
<1>5. more.write_idx \in 1 .. N /\ (m < N => more.write_idx = m + 1)
  BY <1>1, <1>2, <1>3
<1>6. RingOK(more)
  BY <1>2, <1>4, <1>5, <1>3 DEF RingOK
<1>7. Age(more, w) = 0
  BY <1>1, <1>2, <1>3 DEF Age, w
<1>8. ASSUME NEW i \in 1 .. n, i # w
      PROVE  Age(more, i) = Age(ring, i) + 1
  <2>1. ring.write_idx = w
    BY DEF w
  <2>2. CASE w = N
    BY <1>1, <1>2, <1>8, <2>1, <2>2 DEF Age
  <2>3. CASE w # N
    <3>1. more.write_idx = w + 1 /\ w \in Nat /\ i \in Nat /\ N \in Nat
      BY <1>1, <1>2, <2>3
    <3>2. i < w + 1 <=> i < w
      BY <1>8, <3>1
    <3>3. (w + 1) - 1 = (w - 1) + 1
      BY <3>1
    <3>. QED
      BY <2>1, <3>1, <3>2, <3>3 DEF Age
  <2>. QED
    BY <2>2, <2>3
<1>9. Age(ring, w) = N - 1
  BY <1>1 DEF Age, w
<1>. QED
  BY <1>1, <1>2, <1>3, <1>4, <1>6, <1>7, <1>8, <1>9 DEF w

\* An update changes a cost.
LEMMA Updated ==
    ASSUME NEW ring, RingOK(ring), NEW slot, NEW cost \in Nat,
           NEW q \in DOMAIN ring.entries, q = First(WithSlot(ring, slot)),
           NEW other, other = update_entry(ring, slot, cost)
    PROVE  /\ RingOK(other) /\ other.write_idx = ring.write_idx
           /\ DOMAIN other.entries = DOMAIN ring.entries
           /\ \A i \in DOMAIN ring.entries :
                /\ other.entries[i].hash = ring.entries[i].hash
                /\ other.entries[i].start = ring.entries[i].start
                /\ other.entries[i].heard = ring.entries[i].heard
                /\ other.entries[i].slot = ring.entries[i].slot
                /\ other.entries[i].cost = IF i = q THEN cost ELSE ring.entries[i].cost
                /\ Age(other, i) = Age(ring, i)
<1>1. /\ ring.entries \in Seq(EntryType) /\ ring \in [entries : Seq(EntryType), write_idx : 1 .. N]
      /\ \A i \in DOMAIN ring.entries : ring.entries[i] \in EntryType
  BY DEF RingOK
<1>2. /\ other = [ring EXCEPT !.entries = other.entries]
      /\ other.entries = [ring.entries EXCEPT ![q] = [ring.entries[q] EXCEPT !.cost = cost]]
      /\ other.write_idx = ring.write_idx
  BY <1>1 DEF update_entry
<1>3. [ring.entries[q] EXCEPT !.cost = cost] \in EntryType
  BY <1>1 DEF EntryType
<1>4. /\ other.entries \in Seq(EntryType) /\ Len(other.entries) = Len(ring.entries)
      /\ DOMAIN other.entries = DOMAIN ring.entries
  BY <1>1, <1>2, <1>3
<1>5. RingOK(other)
  BY <1>1, <1>2, <1>4 DEF RingOK
<1>6. ASSUME NEW i \in DOMAIN ring.entries
      PROVE  /\ other.entries[i].hash = ring.entries[i].hash
             /\ other.entries[i].start = ring.entries[i].start
             /\ other.entries[i].heard = ring.entries[i].heard
             /\ other.entries[i].slot = ring.entries[i].slot
             /\ other.entries[i].cost = IF i = q THEN cost ELSE ring.entries[i].cost
  <2>1. CASE i = q
    <3>1. other.entries[i] = [ring.entries[q] EXCEPT !.cost = cost]
      BY <1>2, <2>1
    <3>. QED
      BY <1>1, <2>1, <3>1 DEF EntryType
  <2>2. CASE i # q
    BY <1>2, <2>2
  <2>. QED
    BY <2>1, <2>2
<1>. QED
  BY <1>2, <1>4, <1>5, <1>6 DEF Age

-----------------------------------------------------------------------------
(* A decode *)

Meets(t, sample, x) ==
    /\ sample \in base + 1 .. base + BufferLen /\ sample \in Span(t)
    /\ x \in Possible(t, sample)
    /\ Note(x)
    /\ UNCHANGED <<base, handed>>

LEMMA FrameParts ==
    ASSUME NEW f \in FrameType
    PROVE  f.tx \in Hearings /\ f.cost \in Nat
  BY DEF FrameType

\* What the frames of an output are of.
LEMMA OutputParts ==
    ASSUME NEW o \in Seq(FrameType), NEW q, q = Transmitted(o)
    PROVE  q \in Seq(Hearings) /\ Len(q) = Len(o) /\ \A i \in 1 .. Len(o) : q[i] = o[i].tx
<1>1. Len(o) \in Nat /\ DOMAIN o = 1 .. Len(o)
  OBVIOUS
<1>2. \A i \in 1 .. Len(o) : o[i].tx \in Hearings
  BY <1>1, FrameParts
<1>3. q \in [1 .. Len(o) -> Hearings] /\ \A i \in 1 .. Len(o) : q[i] = o[i].tx
  BY <1>1, <1>2 DEF Transmitted
<1>. QED
  BY <1>1, <1>3

\* Those of the buffers before, and then those of an output.
LEMMA Parts ==
    ASSUME NEW b \in Seq(Hearings), NEW o \in Seq(FrameType), NEW q \in Seq(Hearings),
           Len(q) = Len(o), \A i \in 1 .. Len(o) : q[i] = o[i].tx
    PROVE  /\ b \o q \in Seq(Hearings) /\ Len(b) \in Nat /\ Len(o) \in Nat
           /\ DOMAIN (b \o q) = 1 .. Len(b) + Len(o) /\ DOMAIN o = 1 .. Len(o)
           /\ \A i \in 1 .. Len(b) : (b \o q)[i] = b[i]
           /\ \A i \in 1 .. Len(o) : (b \o q)[Len(b) + i] = o[i].tx
<1>1. Len(b) \in Nat /\ Len(o) \in Nat /\ DOMAIN o = 1 .. Len(o)
  OBVIOUS
<1>2. b \o q \in Seq(Hearings)
  BY ConcatProperties
<1>3. DOMAIN (b \o q) = 1 .. Len(b) + Len(o)
  <2>1. Len(b \o q) = Len(b) + Len(q)
    BY ConcatProperties
  <2>. QED
    BY <1>2, <2>1
<1>4. \A i \in 1 .. Len(b) : (b \o q)[i] = b[i]
  BY <1>1, ConcatProperties
<1>5. ASSUME NEW i \in 1 .. Len(o) PROVE (b \o q)[Len(b) + i] = o[i].tx
  BY <1>1, ConcatProperties
<1>. QED
  BY <1>1, <1>2, <1>3, <1>4, <1>5

LEMMA AllParts ==
    ASSUME TypeOK
    PROVE  /\ All \in Seq(Hearings) /\ Len(handed) \in Nat /\ Len(output) \in Nat
           /\ DOMAIN All = 1 .. Len(handed) + Len(output) /\ DOMAIN output = 1 .. Len(output)
           /\ \A i \in 1 .. Len(handed) : All[i] = handed[i]
           /\ \A i \in 1 .. Len(output) : All[Len(handed) + i] = output[i].tx
           /\ \A k \in DOMAIN output : /\ Len(handed) + k \in DOMAIN All
                                       /\ output[k].tx \in Hearings /\ output[k].cost \in Nat
<1>1. handed \in Seq(Hearings) /\ output \in Seq(FrameType)
  BY DEF TypeOK
<1>2. /\ All \in Seq(Hearings) /\ Len(handed) \in Nat /\ Len(output) \in Nat
      /\ DOMAIN All = 1 .. Len(handed) + Len(output) /\ DOMAIN output = 1 .. Len(output)
      /\ \A i \in 1 .. Len(handed) : All[i] = handed[i]
      /\ \A i \in 1 .. Len(output) : All[Len(handed) + i] = output[i].tx
  <2>1. PICK a, b, o, q : a = All /\ b = handed /\ o = output /\ q = Transmitted(o)
    OBVIOUS
  <2>2. b \in Seq(Hearings) /\ o \in Seq(FrameType) /\ a = b \o q
    BY <1>1, <2>1 DEF All
  <2>3. q \in Seq(Hearings) /\ Len(q) = Len(o) /\ \A i \in 1 .. Len(o) : q[i] = o[i].tx
    BY <2>1, <2>2, OutputParts
  <2>4. /\ a \in Seq(Hearings) /\ Len(b) \in Nat /\ Len(o) \in Nat
        /\ DOMAIN a = 1 .. Len(b) + Len(o) /\ DOMAIN o = 1 .. Len(o)
        /\ \A i \in 1 .. Len(b) : a[i] = b[i]
        /\ \A i \in 1 .. Len(o) : a[Len(b) + i] = o[i].tx
    BY <2>2, <2>3, Parts
  <2>. QED
    BY <2>1, <2>4
<1>3. \A k \in DOMAIN output : output[k] \in FrameType
  BY <1>1
<1>4. \A k \in DOMAIN output : Len(handed) + k \in DOMAIN All
  BY <1>2
<1>. QED
  BY <1>2, <1>3, <1>4, FrameParts

\* What a decode is, and what is noted of it.
LEMMA Decoded ==
    ASSUME TypeOK, NEW t \in DOMAIN Air, NEW sample, NEW x, Meets(t, sample, x)
    PROVE  /\ x.tx = Hearing(t, sample) /\ x.tx \in Hearings /\ x.tx.of = t
           /\ x.hash \in Hashes(t) /\ x.hash \in Hash
           /\ x.start = SampleIdx(sample) /\ x.start \in Nat /\ x.heard = sample /\ x.cost \in Nat
           /\ sample \in Nat /\ sample > base /\ sample <= base + BufferLen /\ sample \in Span(t)
           /\ Live(x.tx)
           /\ Frame(x) \in FrameType /\ Frame(x).tx = x.tx /\ Frame(x).cost = x.cost
           /\ \A slot : Owns(x.tx, Entry(x.hash, x.start, x.cost, slot, x.heard))
<1>1. /\ Air[t].at \in Nat /\ Jitter \in Nat /\ base \in Nat /\ BufferLen \in Nat /\ Costs \subseteq Nat
  BY AirAssumption DEF TypeOK
<1>2. /\ x.tx = Hearing(t, sample) /\ x.hash \in Hashes(t) /\ x.start = SampleIdx(sample)
      /\ x.heard = sample /\ x.cost \in Costs
  BY DEF Meets, Possible, Decode
<1>3. /\ sample \in Nat /\ sample > base /\ sample <= base + BufferLen /\ sample \in Span(t)
      /\ Air[t].at <= sample /\ sample <= Air[t].at + Jitter
  BY <1>1 DEF Meets, Span
<1>4. x.tx \in Hearings /\ x.tx.of = t /\ x.tx.turn = Turn(sample)
  BY <1>2, <1>3, HearingIsOne
<1>5. Live(x.tx)
  BY <1>1, <1>3, <1>4 DEF Live
<1>6. x.hash \in Hash /\ x.start \in Nat
  BY <1>2, <1>3, DivMod DEF Hash
<1>7. Frame(x) \in FrameType /\ Frame(x).tx = x.tx /\ Frame(x).cost = x.cost
  BY <1>1, <1>2, <1>4 DEF Frame, FrameType
<1>8. \A slot : Owns(x.tx, Entry(x.hash, x.start, x.cost, slot, x.heard))
  BY <1>2, <1>3, <1>4 DEF Owns, Entry
<1>. QED
  BY <1>1, <1>2, <1>3, <1>4, <1>5, <1>6, <1>7, <1>8

LEMMA Taken ==
    ASSUME TypeOK, NEW t \in DOMAIN Air, NEW sample, NEW x, Meets(t, sample, x)
    PROVE  /\ first' \in [Hearings -> Nat \cup {NoCost}] /\ lowest' \in [Hearings -> Nat \cup {NoCost}]
           /\ \A g \in Hearings : g # x.tx => first'[g] = first[g] /\ lowest'[g] = lowest[g]
           /\ first'[x.tx] = IF first[x.tx] = NoCost THEN x.cost ELSE first[x.tx]
           /\ lowest'[x.tx] = IF lowest[x.tx] = NoCost \/ x.cost < lowest[x.tx]
                              THEN x.cost ELSE lowest[x.tx]
           /\ lowest'[x.tx] # NoCost
           /\ found' = found \cup {x.tx} /\ found' \subseteq Hearings
           /\ UNCHANGED <<base, handed>>
<1>1. x.tx \in Hearings /\ x.cost \in Nat
  BY Decoded
<1>2. Note(x) /\ UNCHANGED <<base, handed>>
  BY DEF Meets
<1>3. /\ first \in [Hearings -> Nat \cup {NoCost}] /\ lowest \in [Hearings -> Nat \cup {NoCost}]
      /\ found \subseteq Hearings
  BY DEF TypeOK
<1>4. /\ first' = [first EXCEPT ![x.tx] = IF first[x.tx] = NoCost THEN x.cost ELSE first[x.tx]]
      /\ lowest' = [lowest EXCEPT ![x.tx] = IF lowest[x.tx] = NoCost \/ x.cost < lowest[x.tx]
                                            THEN x.cost ELSE lowest[x.tx]]
      /\ found' = found \cup {x.tx}
  BY <1>2 DEF Note
<1>5. \A c \in Nat : c # NoCost
  BY DEF NoCost
<1>. QED
  BY <1>1, <1>2, <1>3, <1>4, <1>5

\* It matches its own entry, and others only if it is shadowed.
LEMMA Matching ==
    ASSUME TypeOK, EntriesApart, NEW t \in DOMAIN Air, NEW sample, NEW x, Meets(t, sample, x),
           NEW i \in DOMAIN dedup.entries
    PROVE  /\ Owns(x.tx, dedup.entries[i]) => i \in Match(x)
           /\ i \in Match(x) => \/ Owns(x.tx, dedup.entries[i])
                                \/ Shadowed(t) /\ ~(dedup.entries[i].heard > base)
<1>1. /\ x.tx = Hearing(t, sample) /\ x.hash \in Hashes(t) /\ x.start = SampleIdx(sample)
      /\ sample > base /\ sample <= base + BufferLen /\ sample \in Span(t)
  BY Decoded
<1>2. i \in Match(x) <=> Matches(dedup.entries[i], x.hash, SampleIdx(sample))
  BY <1>1 DEF Match, Found
<1>3. dedup.entries[i] \in EntryType /\ base \in Nat
  BY DEF TypeOK, RingOK
<1>4. PICK h \in Hearings : Owns(h, dedup.entries[i])
  BY DEF EntriesApart
<1>5. dedup.entries[i].heard <= base + BufferLen
  BY DEF EntriesApart
<1>6. Owns(x.tx, dedup.entries[i]) => i \in Match(x)
  BY <1>1, <1>2, <1>3, MatchesOwn
<1>7. ASSUME i \in Match(x), h # x.tx
      PROVE  Shadowed(t) /\ ~(dedup.entries[i].heard > base)
  BY <1>1, <1>2, <1>3, <1>4, <1>5, <1>7, MatchesOther
<1>. QED
  BY <1>4, <1>6, <1>7

LEMMA Known ==
    ASSUME TypeOK, EntriesApart, NEW t \in DOMAIN Air, NEW sample, NEW x, Meets(t, sample, x),
           Match(x) # {}
    PROVE  \E m \in DOMAIN dedup.entries :
              /\ m = First(Match(x)) /\ m \in Match(x) /\ dedup.entries[m] \in EntryType
              /\ Owns(x.tx, dedup.entries[m]) \/ (Shadowed(t) /\ ~(dedup.entries[m].heard > base))
<1>1. Match(x) \subseteq DOMAIN dedup.entries /\ DOMAIN dedup.entries \in SUBSET Nat
  BY DEF Match, Found, TypeOK, RingOK
<1>2. First(Match(x)) \in Match(x)
  BY <1>1, FirstIsMember
<1>3. dedup.entries[First(Match(x))] \in EntryType
  BY <1>1, <1>2 DEF TypeOK, RingOK
<1>. QED
  BY <1>1, <1>2, <1>3, Matching

\* Nothing is known of what is new to the ring.
LEMMA Unknown ==
    ASSUME IInv, NEW t \in DOMAIN Air, NEW sample, NEW x, Meets(t, sample, x), Match(x) = {}
    PROVE  /\ \A i \in DOMAIN dedup.entries : ~Owns(x.tx, dedup.entries[i])
           /\ x.tx \notin mixed => /\ \A k \in DOMAIN All : All[k] # x.tx
                                   /\ FramesOf(x.tx) = {}
                                   /\ \A k \in DOMAIN output : output[k].tx # x.tx
<1>1. \A i \in DOMAIN dedup.entries : ~Owns(x.tx, dedup.entries[i])
  BY Matching DEF IInv
<1>2. Live(x.tx)
  BY Decoded DEF IInv
<1>3. ASSUME x.tx \notin mixed PROVE \A k \in DOMAIN All : All[k] # x.tx
  BY <1>1, <1>2, <1>3 DEF IInv, Remembered
<1>4. ASSUME x.tx \notin mixed PROVE \A k \in DOMAIN output : output[k].tx # x.tx
  BY <1>3, <1>4, AllParts DEF IInv
<1>. QED
  BY <1>1, <1>3, <1>4 DEF FramesOf

\* A slot has one entry.
LEMMA OneInSlot ==
    ASSUME TypeOK, NEW k, NEW i \in DOMAIN dedup.entries, NEW j \in DOMAIN dedup.entries,
           InSlot(k, i), InSlot(k, j)
    PROVE  i = j
<1>1. Age(dedup, i) = Age(dedup, j)
  BY DEF InSlot
<1>2. PICK w \in 1 .. N : w = dedup.write_idx
  BY DEF TypeOK, RingOK
<1>3. i \in 1 .. N /\ j \in 1 .. N /\ N \in Nat
  BY RingAssumption DEF TypeOK, RingOK
<1>. QED
  BY <1>1, <1>2, <1>3 DEF Age

\* The entry of a slot is of what the frame there is of, unless frames were mixed.
LEMMA SlotIsOwn ==
    ASSUME IInv, NEW k \in DOMAIN output, output[k].tx \notin mixed,
           NEW i \in DOMAIN dedup.entries, InSlot(k, i)
    PROVE  Owns(output[k].tx, dedup.entries[i])
<1>1. PICK h \in Hearings : Owns(h, dedup.entries[i])
  BY DEF IInv, EntriesApart
<1>2. dedup.entries[i].heard > base /\ dedup.entries[i].slot = k
  BY DEF InSlot
<1>3. output[k].tx = h
  BY <1>1, <1>2 DEF IInv, Unmixed
<1>. QED
  BY <1>1, <1>3

\* A frame that is put into the output.
LEMMA PushKeepsIInv ==
    ASSUME IInv, NEW t \in DOMAIN Air, NEW sample, NEW x, Meets(t, sample, x),
           New(x), ~IsFull(output)
    PROVE  IInv'
<1>. DEFINE E == dedup.entries
<1>0. PICK H \in Nat, L \in Nat : H = Len(handed) /\ L = Len(output)
  BY AllParts DEF IInv
<1>1. PICK e : e = Entry(x.hash, x.start, x.cost, Len(output) + 1, x.heard)
  OBVIOUS
<1>2. PICK w, h, F :
         /\ H = Len(handed) /\ L = Len(output)
         /\ w = dedup.write_idx /\ h = x.tx /\ F = dedup'.entries
  BY <1>0
<1>3. /\ Match(x) = {} /\ output' = Append(output, Frame(x))
      /\ dedup' = record_with_info(dedup, e)
      /\ refused' = refused /\ mixed' = mixed /\ misled' = misled
      /\ base' = base /\ handed' = handed /\ found' = found \cup {h}
  BY <1>1, <1>2 DEF New, push_with_cost, Meets, Note
<1>4. /\ TypeOK /\ EntriesApart /\ InPlace /\ Unmixed /\ FramesApart /\ Remembered
      /\ BestFrames /\ Noted
  BY DEF IInv
<1>5. /\ RingOK(dedup) /\ output \in Seq(FrameType) /\ handed \in Seq(Hearings)
      /\ L + 1 <= MAX_OUTPUT_FRAMES /\ base \in Nat
      /\ MAX_OUTPUT_FRAMES \in Nat /\ N \in Nat /\ N >= 2 * MAX_OUTPUT_FRAMES
  BY <1>2, <1>4, RingAssumption DEF TypeOK, IsFull
<1>6. /\ h \in Hearings /\ h.of = t /\ x.hash \in Hash /\ x.start \in Nat /\ x.heard = sample
      /\ x.cost \in Nat /\ sample \in Nat /\ sample > base /\ sample <= base + BufferLen
      /\ Frame(x) \in FrameType /\ Frame(x).tx = h /\ Frame(x).cost = x.cost
      /\ Owns(h, e)
  BY <1>1, <1>2, <1>4, Decoded
<1>7. e \in EntryType /\ e.slot = L + 1 /\ e.heard = sample /\ e.cost = x.cost
  BY <1>1, <1>2, <1>5, <1>6 DEF EntryType, Entry
<1>8. /\ RingOK(dedup') /\ w \in DOMAIN F /\ F[w] = e /\ Age(dedup', w) = 0
      /\ \A i \in DOMAIN E : i # w => /\ i \in DOMAIN F /\ F[i] = E[i]
                                     /\ Age(dedup', i) = Age(dedup, i) + 1
      /\ \A i \in DOMAIN F : i # w => i \in DOMAIN E /\ F[i] = E[i]
      /\ w \in DOMAIN E => Age(dedup, w) = N - 1
  BY <1>2, <1>3, <1>5, <1>7, Recorded
<1>9. \A i \in DOMAIN E : Age(dedup, i) \in Int
  BY <1>5 DEF Age, RingOK
<1>10. /\ output' \in Seq(FrameType) /\ Len(output') = L + 1 /\ output'[L + 1] = Frame(x)
       /\ DOMAIN output' = 1 .. L + 1 /\ DOMAIN output = 1 .. L
       /\ \A k \in 1 .. L : output'[k] = output[k]
  BY <1>2, <1>3, <1>5, <1>6
<1>11. TypeOK'
  BY <1>3, <1>4, <1>5, <1>8, <1>10, Taken DEF TypeOK
<1>12. /\ \A i \in DOMAIN E : ~Owns(h, E[i])
       /\ h \notin mixed => /\ \A k \in DOMAIN All : All[k] # h
                            /\ FramesOf(h) = {}
                            /\ \A k \in DOMAIN output : output[k].tx # h
  BY <1>2, <1>3, Unknown
<1>13. EntriesApart'
  <2>1. ASSUME NEW i \in DOMAIN F
        PROVE  /\ \E g \in Hearings : Owns(g, F[i])
               /\ F[i].heard <= base + BufferLen
    <3>1. CASE i = w
      BY <1>6, <1>7, <1>8, <3>1
    <3>2. CASE i # w
      BY <1>4, <1>8, <3>2 DEF EntriesApart
    <3>. QED
      BY <3>1, <3>2
  <2>2. ASSUME NEW g \in Hearings, NEW i \in DOMAIN F, i # w, Owns(g, F[i]), Owns(g, e)
        PROVE  FALSE
    <3>1. g = h
      BY <1>6, <1>7, <2>2, OneOwner
    <3>. QED
      BY <1>8, <1>12, <2>2, <3>1
  <2>3. ASSUME NEW g \in Hearings, NEW i \in DOMAIN F, NEW j \in DOMAIN F,
               Owns(g, F[i]), Owns(g, F[j])
        PROVE  i = j
    <3>1. CASE i # w /\ j # w
      BY <1>4, <1>8, <2>3, <3>1 DEF EntriesApart
    <3>. QED
      BY <1>8, <2>2, <2>3, <3>1
  <2>. QED
    BY <1>2, <1>3, <2>1, <2>3 DEF EntriesApart, Owns
<1>14. ASSUME NEW k \in 1 .. L, NEW i \in DOMAIN F
       PROVE  InSlot(k, i)' <=> i # w /\ i \in DOMAIN E /\ InSlot(k, i)
  <2>1. CASE i = w
    <3>1. F[i].slot # k
      BY <1>7, <1>8, <2>1
    <3>. QED
      BY <1>2, <2>1, <3>1 DEF InSlot
  <2>2. CASE i # w
    <3>1. i \in DOMAIN E /\ F[i] = E[i] /\ Age(dedup', i) = Age(dedup, i) + 1
      BY <1>8, <2>2
    <3>2. Age(dedup', i) = Len(output') - k <=> Age(dedup, i) = Len(output) - k
      BY <1>2, <1>9, <1>10, <3>1
    <3>. QED
      BY <1>2, <1>3, <2>2, <3>1, <3>2 DEF InSlot
  <2>. QED
    BY <2>1, <2>2
<1>15. \A k \in DOMAIN output, i \in DOMAIN E : InSlot(k, i) => i # w
  <2>1. ASSUME NEW k \in DOMAIN output, NEW i \in DOMAIN E, InSlot(k, i), i = w PROVE FALSE
    <3>1. N - 1 = L - k /\ k \in 1 .. L
      BY <1>2, <1>8, <1>10, <2>1 DEF InSlot
    <3>. QED
      BY <1>5, <3>1
  <2>. QED
    BY <2>1
<1>16. InSlot(L + 1, w)'
  <2>1. Age(dedup', w) = Len(output') - (L + 1)
    BY <1>8, <1>10
  <2>. QED
    BY <1>2, <1>3, <1>6, <1>7, <1>8, <2>1 DEF InSlot
<1>17. InPlace'
  <2>1. ASSUME NEW k \in DOMAIN output' PROVE \E i \in DOMAIN F : InSlot(k, i)'
    <3>1. CASE k \in 1 .. L
      <4>1. PICK i \in DOMAIN E : InSlot(k, i)
        BY <1>4, <1>10, <3>1 DEF InPlace
      <4>2. i # w /\ i \in DOMAIN F
        BY <1>8, <1>10, <1>15, <3>1, <4>1
      <4>. QED
        BY <1>14, <3>1, <4>1, <4>2
    <3>2. CASE k = L + 1
      BY <1>8, <1>16, <3>2
    <3>. QED
      BY <1>10, <3>1, <3>2
  <2>2. ASSUME NEW i \in DOMAIN F, F[i].heard > base
        PROVE  F[i].slot \in DOMAIN output' /\ InSlot(F[i].slot, i)'
    <3>1. CASE i = w
      BY <1>7, <1>8, <1>10, <1>16, <3>1
    <3>2. CASE i # w
      <4>1. PICK k \in 1 .. L : k = E[i].slot /\ InSlot(k, i) /\ F[i].slot = k /\ i \in DOMAIN E
        BY <1>4, <1>8, <1>10, <2>2, <3>2 DEF InPlace
      <4>2. k \in DOMAIN output' /\ InSlot(k, i)'
        BY <1>10, <1>14, <3>2, <4>1
      <4>. QED
        BY <4>1, <4>2
    <3>. QED
      BY <3>1, <3>2
  <2>. QED
    BY <1>2, <1>3, <2>1, <2>2 DEF InPlace
<1>18. Unmixed'
  <2>1. ASSUME NEW i \in DOMAIN F, NEW g \in Hearings, F[i].heard > base, Owns(g, F[i]),
               NEW f, f = output'[F[i].slot].tx
        PROVE  f = g \/ {f, g} \subseteq mixed
    <3>1. CASE i = w
      <4>1. g = h
        BY <1>6, <1>7, <1>8, <2>1, <3>1, OneOwner
      <4>. QED
        BY <1>6, <1>7, <1>8, <1>10, <2>1, <3>1, <4>1
    <3>2. CASE i # w
      <4>1. i \in DOMAIN E /\ F[i] = E[i] /\ E[i].slot \in DOMAIN output
        BY <1>4, <1>8, <2>1, <3>2 DEF InPlace
      <4>2. output'[E[i].slot] = output[E[i].slot]
        BY <1>10, <4>1
      <4>. QED
        BY <1>4, <2>1, <4>1, <4>2 DEF Unmixed
    <3>. QED
      BY <3>1, <3>2
  <2>2. \A i \in DOMAIN F, g \in Hearings : F[i].heard > base /\ Owns(g, F[i]) =>
          output'[F[i].slot].tx = g \/ {output'[F[i].slot].tx, g} \subseteq mixed
    BY <2>1
  <2>. QED
    BY <1>2, <1>3, <2>2 DEF Unmixed, Owns
<1>19. /\ DOMAIN All = 1 .. H + L /\ DOMAIN All' = 1 .. H + L + 1
       /\ All'[H + L + 1] = h /\ H + L + 1 \in Nat
       /\ \A k \in 1 .. H + L : All'[k] = All[k]
  <2>1. /\ DOMAIN All = 1 .. H + L
        /\ \A i \in 1 .. H : All[i] = handed[i]
        /\ \A i \in 1 .. L : All[H + i] = output[i].tx
    BY <1>2, <1>4, AllParts
  <2>2. /\ DOMAIN All' = 1 .. H + (L + 1)
        /\ \A i \in 1 .. H : All'[i] = handed[i]
        /\ \A i \in 1 .. L + 1 : All'[H + i] = output'[i].tx
    <3>1. PICK a, b, o, q : a = All' /\ b = handed /\ o = output' /\ q = Transmitted(o)
      OBVIOUS
    <3>2. b \in Seq(Hearings) /\ o \in Seq(FrameType) /\ a = b \o q
      BY <1>3, <1>5, <1>10, <3>1 DEF All, Transmitted
    <3>3. q \in Seq(Hearings) /\ Len(q) = Len(o) /\ \A i \in 1 .. Len(o) : q[i] = o[i].tx
      BY <3>1, <3>2, OutputParts
    <3>4. /\ Len(b) \in Nat /\ Len(o) \in Nat /\ DOMAIN a = 1 .. Len(b) + Len(o)
          /\ \A i \in 1 .. Len(b) : a[i] = b[i]
          /\ \A i \in 1 .. Len(o) : a[Len(b) + i] = o[i].tx
      BY <3>2, <3>3, Parts
    <3>. QED
      BY <1>2, <1>10, <3>1, <3>4
  <2>3. ASSUME NEW i \in 1 .. L PROVE All'[H + i] = All[H + i]
    <3>1. i \in 1 .. L + 1 /\ output'[i] = output[i]
      BY <1>2, <1>10
    <3>2. All'[H + i] = output'[i].tx
      BY <2>2, <3>1
    <3>. QED
      BY <2>1, <3>1, <3>2
  <2>4. \A k \in 1 .. H + L : k \in 1 .. H \/ \E i \in 1 .. L : k = H + i
    <3>1. \A k \in 1 .. H + L : k \notin 1 .. H => k - H \in 1 .. L /\ k = H + (k - H)
      OBVIOUS
    <3>. QED
      BY <3>1
  <2>5. All'[H + (L + 1)] = h /\ H + (L + 1) = H + L + 1
    BY <1>6, <1>10, <2>2
  <2>. QED
    BY <2>1, <2>2, <2>3, <2>4, <2>5
<1>20. /\ \A g : FramesOf(g) \subseteq FramesOf(g)'
       /\ FramesOf(h)' # {}
       /\ \A k \in DOMAIN All' : k \in DOMAIN All \/ k = H + L + 1
  BY <1>19 DEF FramesOf
<1>21. FramesApart'
  <2>1. ASSUME NEW i \in DOMAIN All', NEW j \in DOMAIN All', All'[i] = All'[j], All'[i] \notin mixed
        PROVE  i = j
    <3>1. CASE i \in DOMAIN All /\ j \in DOMAIN All
      BY <1>4, <1>19, <2>1, <3>1 DEF FramesApart
    <3>2. CASE i = H + L + 1 \/ j = H + L + 1
      <4>1. All'[i] = h /\ h \notin mixed
        BY <1>19, <2>1, <3>2
      <4>2. i \notin DOMAIN All /\ j \notin DOMAIN All
        BY <1>12, <1>19, <2>1, <4>1
      <4>. QED
        BY <1>20, <4>2
    <3>. QED
      BY <1>20, <3>1, <3>2
  <2>2. ASSUME NEW g \in found' \ mixed
        PROVE  FramesOf(g)' # {} \/ g \in refused \/ Shadowed(g.of)
    BY <1>3, <1>4, <1>20 DEF FramesApart
  <2>. QED
    BY <1>3, <2>1, <2>2 DEF FramesApart, Shadowed
<1>22. Remembered'
  <2>1. ASSUME NEW g \in Hearings, g \notin mixed, NEW i \in DOMAIN F, Owns(g, F[i])
        PROVE  FramesOf(g)' # {}
    <3>1. CASE i = w
      BY <1>6, <1>7, <1>8, <1>20, <2>1, <3>1, OneOwner
    <3>2. CASE i # w
      BY <1>4, <1>8, <1>20, <2>1, <3>2 DEF Remembered
    <3>. QED
      BY <3>1, <3>2
  <2>2. ASSUME NEW k \in DOMAIN All', Live(All'[k]), All'[k] \notin mixed
        PROVE  \E i \in DOMAIN F : /\ Owns(All'[k], F[i])
                                   /\ Age(dedup', i) < MAX_OUTPUT_FRAMES + (L + 1)
    <3>1. CASE k \in DOMAIN All
      <4>1. PICK i \in DOMAIN E : /\ Owns(All[k], E[i])
                                  /\ Age(dedup, i) < MAX_OUTPUT_FRAMES + L
        BY <1>2, <1>4, <1>19, <2>2, <3>1 DEF Remembered
      <4>2. i # w
        BY <1>5, <1>8, <4>1
      <4>3. Age(dedup', i) < MAX_OUTPUT_FRAMES + (L + 1)
        BY <1>5, <1>8, <1>9, <4>1, <4>2
      <4>. QED
        BY <1>8, <1>19, <3>1, <4>1, <4>2, <4>3
    <3>2. CASE k = H + L + 1
      BY <1>5, <1>6, <1>8, <1>19, <3>2
    <3>. QED
      BY <1>20, <3>1, <3>2
  <2>. QED
    BY <1>2, <1>3, <1>10, <2>1, <2>2 DEF Remembered, Live, Owns
<1>23. /\ \A g \in Hearings : g # h => first'[g] = first[g] /\ lowest'[g] = lowest[g]
       /\ first'[h] = IF first[h] = NoCost THEN x.cost ELSE first[h]
       /\ lowest'[h] = IF lowest[h] = NoCost \/ x.cost < lowest[h] THEN x.cost ELSE lowest[h]
       /\ lowest'[h] # NoCost
  BY <1>2, <1>4, Taken
<1>24. h \notin mixed /\ ~Shadowed(h.of) =>
         first'[h] = x.cost /\ lowest'[h] = x.cost /\ h \notin misled
  BY <1>4, <1>6, <1>12, <1>23 DEF Noted
<1>25. ASSUME NEW k \in DOMAIN output', NEW g, g = output'[k].tx, g \notin mixed, ~Shadowed(g.of)
       PROVE  /\ first'[g] \in Nat /\ lowest'[g] \in Nat /\ lowest'[g] <= output'[k].cost
              /\ IF g \in misled THEN output'[k].cost < first'[g] ELSE output'[k].cost = lowest'[g]
              /\ \A i \in DOMAIN F : InSlot(k, i)' =>
                   /\ output'[k].cost <= F[i].cost /\ F[i].cost <= first'[g]
                   /\ g \notin misled => F[i].cost = output'[k].cost
  <2>1. CASE k = L + 1
    <3>1. g = h /\ output'[k].cost = x.cost
      BY <1>6, <1>10, <1>25, <2>1
    <3>2. ASSUME NEW i \in DOMAIN F, InSlot(k, i)' PROVE i = w
      <4>1. F[i].slot = L + 1 /\ F[i].heard > base
        BY <1>2, <1>3, <2>1, <3>2 DEF InSlot
      <4>2. i # w => E[i].slot \in 1 .. L /\ F[i] = E[i]
        BY <1>4, <1>8, <1>10, <4>1 DEF InPlace
      <4>. QED
        BY <4>1, <4>2
    <3>. QED
      BY <1>6, <1>7, <1>8, <1>24, <1>25, <3>1, <3>2
  <2>2. CASE k \in 1 .. L
    <3>1. k \in DOMAIN output /\ output'[k] = output[k] /\ g # h
      BY <1>10, <1>12, <1>25, <2>2
    <3>2. g \in Hearings
      BY <1>4, <1>25, <3>1, AllParts
    <3>3. Best(g, k)
      BY <1>4, <1>25, <3>1 DEF BestFrames
    <3>4. \A i \in DOMAIN F : InSlot(k, i)' => i \in DOMAIN E /\ F[i] = E[i] /\ InSlot(k, i)
      BY <1>8, <1>14, <2>2
    <3>. QED
      BY <1>23, <3>1, <3>2, <3>3, <3>4 DEF Best
  <2>. QED
    BY <1>10, <2>1, <2>2
<1>26. BestFrames'
  BY <1>2, <1>3, <1>25 DEF BestFrames, Best, Shadowed
<1>27. Noted'
  <2>1. ASSUME NEW g \in Hearings, g \notin mixed
        PROVE  lowest'[g] = NoCost \/ Shadowed(g.of) \/ FramesOf(g)' # {}
    <3>1. CASE g = h
      BY <1>20, <3>1
    <3>2. CASE g # h
      BY <1>4, <1>20, <1>23, <2>1, <3>2 DEF Noted
    <3>. QED
      BY <3>1, <3>2
  <2>2. \A g \in Hearings : lowest'[g] = NoCost => first'[g] = NoCost /\ g \notin misled
    BY <1>4, <1>23 DEF Noted
  <2>. QED
    BY <1>3, <2>1, <2>2 DEF Noted, Shadowed
<1>. QED
  BY <1>11, <1>13, <1>17, <1>18, <1>21, <1>22, <1>26, <1>27 DEF IInv

\* The entries of a ring in which costs changed at most are where they were.
LEMMA Kept ==
    ASSUME IInv, base' = base, Len(output') = Len(output), DOMAIN output' = DOMAIN output,
           DOMAIN dedup'.entries = DOMAIN dedup.entries,
           \A i \in DOMAIN dedup.entries :
             /\ dedup'.entries[i].hash = dedup.entries[i].hash
             /\ dedup'.entries[i].start = dedup.entries[i].start
             /\ dedup'.entries[i].heard = dedup.entries[i].heard
             /\ dedup'.entries[i].slot = dedup.entries[i].slot
             /\ Age(dedup', i) = Age(dedup, i)
    PROVE  /\ \A h : \A i \in DOMAIN dedup.entries :
                Owns(h, dedup'.entries[i]) <=> Owns(h, dedup.entries[i])
           /\ \A k : \A i \in DOMAIN dedup.entries : InSlot(k, i)' <=> InSlot(k, i)
           /\ EntriesApart' /\ InPlace'
<1>. DEFINE E == dedup.entries
            F == dedup'.entries
<1>1. EntriesApart /\ InPlace
  BY DEF IInv
<1>2. ASSUME NEW h, NEW i \in DOMAIN E PROVE Owns(h, F[i]) <=> Owns(h, E[i])
  BY <1>2 DEF Owns
<1>3. ASSUME NEW k, NEW i \in DOMAIN E PROVE InSlot(k, i)' <=> InSlot(k, i)
  BY <1>3 DEF InSlot
<1>4. EntriesApart'
  <2>1. ASSUME NEW i \in DOMAIN F
        PROVE  (\E h \in Hearings : Owns(h, F[i])) /\ F[i].heard <= base + BufferLen
    BY <1>1, <1>2 DEF EntriesApart
  <2>2. ASSUME NEW h \in Hearings, NEW i \in DOMAIN F, NEW j \in DOMAIN F,
               Owns(h, F[i]), Owns(h, F[j])
        PROVE  i = j
    BY <1>1, <1>2, <2>2 DEF EntriesApart
  <2>. QED
    BY <2>1, <2>2 DEF EntriesApart, Owns
<1>5. InPlace'
  <2>1. \A k \in DOMAIN output : \E i \in DOMAIN F : InSlot(k, i)'
    BY <1>1, <1>3 DEF InPlace
  <2>2. ASSUME NEW i \in DOMAIN F, F[i].heard > base
        PROVE  \E k \in DOMAIN output : k = F[i].slot /\ InSlot(k, i)'
    <3>1. PICK k \in DOMAIN output : k = E[i].slot /\ InSlot(k, i)
      BY <1>1, <2>2 DEF InPlace
    <3>. QED
      BY <1>3, <3>1
  <2>. QED
    BY <2>1, <2>2 DEF InPlace
<1>. QED
  BY <1>2, <1>3, <1>4, <1>5

\* A decode that changes neither the output nor the ring.
LEMMA IgnoredKeepsIInv ==
    ASSUME IInv, NEW t \in DOMAIN Air, NEW sample, NEW x, Meets(t, sample, x),
           UNCHANGED <<dedup, output, mixed, misled>>, refused \subseteq refused',
           NEW h, h = x.tx,
           h \notin mixed =>
             /\ FramesOf(h) # {} \/ h \in refused' \/ Shadowed(t)
             /\ FramesOf(h) # {} \/ IsFull(output) \/ Shadowed(t),
           \A k \in DOMAIN output : output[k].tx = h /\ h \notin mixed /\ ~Shadowed(t) =>
             first'[h] = first[h] /\ lowest'[h] = lowest[h]
    PROVE  IInv'
<1>1. /\ TypeOK /\ EntriesApart /\ InPlace /\ Unmixed /\ FramesApart /\ Remembered
      /\ BestFrames /\ Noted
  BY DEF IInv
<1>2. h \in Hearings /\ h.of = t
  BY <1>1, Decoded
<1>3. /\ first' \in [Hearings -> Nat \cup {NoCost}] /\ lowest' \in [Hearings -> Nat \cup {NoCost}]
      /\ \A g \in Hearings : g # h => first'[g] = first[g] /\ lowest'[g] = lowest[g]
      /\ lowest'[h] # NoCost
      /\ found' = found \cup {h} /\ found' \subseteq Hearings
      /\ base' = base /\ handed' = handed
  BY <1>1, Taken
<1>4. /\ dedup' = dedup /\ output' = output /\ mixed' = mixed /\ misled' = misled
      /\ refused \subseteq refused'
  OBVIOUS
<1>5. TypeOK'
  BY <1>1, <1>3, <1>4 DEF TypeOK
<1>6. EntriesApart' /\ InPlace' /\ Unmixed'
  BY <1>1, <1>3, <1>4 DEF EntriesApart, InPlace, InSlot, Unmixed, Owns
<1>7. All' = All /\ \A g : FramesOf(g)' = FramesOf(g)
  BY <1>3, <1>4 DEF All, Transmitted, FramesOf
<1>8. FramesApart'
  <2>1. ASSUME NEW g \in found' \ mixed
        PROVE  FramesOf(g) # {} \/ g \in refused' \/ Shadowed(g.of)
    BY <1>1, <1>2, <1>3, <1>4 DEF FramesApart
  <2>. QED
    BY <1>1, <1>4, <1>7, <2>1 DEF FramesApart, Shadowed
<1>9. Remembered'
  BY <1>1, <1>3, <1>4, <1>7 DEF Remembered, Live, Owns
<1>10. BestFrames'
  <2>1. ASSUME NEW k \in DOMAIN output, NEW g, g = output[k].tx, g \notin mixed, ~Shadowed(g.of)
        PROVE  Best(g, k)'
    <3>1. g \in Hearings
      BY <1>1, <2>1, AllParts
    <3>2. first'[g] = first[g] /\ lowest'[g] = lowest[g]
      BY <1>2, <1>3, <2>1, <3>1
    <3>3. Best(g, k)
      BY <1>1, <2>1 DEF BestFrames
    <3>. QED
      BY <1>3, <1>4, <3>2, <3>3 DEF Best, InSlot
  <2>. QED
    BY <1>4, <2>1 DEF BestFrames, Shadowed
<1>11. Noted'
  <2>1. ASSUME NEW g \in Hearings, g \notin mixed
        PROVE  lowest'[g] = NoCost \/ Shadowed(g.of) \/ FramesOf(g) # {} \/ IsFull(output)
    BY <1>1, <1>2, <1>3, <2>1 DEF Noted
  <2>2. \A g \in Hearings : lowest'[g] = NoCost => first'[g] = NoCost /\ g \notin misled
    BY <1>1, <1>3 DEF Noted
  <2>. QED
    BY <1>4, <1>7, <2>1, <2>2 DEF Noted, Shadowed
<1>. QED
  BY <1>5, <1>6, <1>8, <1>9, <1>10, <1>11 DEF IInv

\* A frame for which there is no room.
LEMMA RefuseKeepsIInv ==
    ASSUME IInv, NEW t \in DOMAIN Air, NEW sample, NEW x, Meets(t, sample, x),
           New(x), IsFull(output)
    PROVE  IInv'
<1>1. /\ Match(x) = {} /\ refused' = refused \cup {x.tx}
      /\ UNCHANGED <<dedup, output, mixed, misled>>
  BY DEF New
<1>2. x.tx \notin mixed => \A k \in DOMAIN output : output[k].tx # x.tx
  BY <1>1, Unknown
<1>. QED
  BY <1>1, <1>2, IgnoredKeepsIInv

\* A decode that is not better than the one that is known.
LEMMA DuplicateKeepsIInv ==
    ASSUME IInv, NEW t \in DOMAIN Air, NEW sample, NEW x, Meets(t, sample, x), Duplicate(x)
    PROVE  IInv'
<1>1. /\ Match(x) # {} /\ ~Better(x, dedup.entries[First(Match(x))])
      /\ UNCHANGED <<dedup, output, refused, mixed, misled>>
  BY DEF Duplicate
<1>2. TypeOK /\ EntriesApart /\ InPlace /\ Remembered /\ BestFrames
  BY DEF IInv
<1>3. PICK h, c : h = x.tx /\ c = x.cost
  OBVIOUS
<1>4. h \in Hearings /\ c \in Nat /\ h.of = t
  BY <1>2, <1>3, Decoded
<1>5. PICK m \in DOMAIN dedup.entries :
        /\ m = First(Match(x)) /\ dedup.entries[m] \in EntryType
        /\ Owns(h, dedup.entries[m]) \/ Shadowed(t)
  BY <1>1, <1>2, <1>3, Known
<1>6. h \notin mixed => FramesOf(h) # {} \/ Shadowed(t)
  BY <1>2, <1>4, <1>5 DEF Remembered
<1>7. ASSUME NEW k \in DOMAIN output, output[k].tx = h, h \notin mixed, ~Shadowed(t)
      PROVE  first'[h] = first[h] /\ lowest'[h] = lowest[h]
  <2>1. PICK i \in DOMAIN dedup.entries : InSlot(k, i)
    BY <1>2 DEF InPlace
  <2>2. i = m
    <3>1. Owns(h, dedup.entries[i])
      BY <1>7, <2>1, SlotIsOwn
    <3>. QED
      BY <1>2, <1>4, <1>5, <1>7, <3>1 DEF EntriesApart
  <2>3. Best(h, k)
    BY <1>2, <1>4, <1>7 DEF BestFrames
  <2>4. /\ first[h] \in Nat /\ lowest[h] \in Nat /\ lowest[h] <= output[k].cost
        /\ output[k].cost <= dedup.entries[m].cost
    BY <2>1, <2>2, <2>3 DEF Best
  <2>5. output[k].cost \in Nat /\ dedup.entries[m].cost \in Nat
    BY <1>2, <1>5, AllParts DEF EntryType
  <2>6. ~(c < dedup.entries[m].cost)
    BY <1>1, <1>3, <1>5 DEF Better
  <2>7. ~(c < lowest[h])
    BY <1>4, <2>4, <2>5, <2>6
  <2>8. first[h] # NoCost /\ lowest[h] # NoCost
    BY <2>4 DEF NoCost
  <2>9. /\ first'[h] = IF first[h] = NoCost THEN c ELSE first[h]
        /\ lowest'[h] = IF lowest[h] = NoCost \/ c < lowest[h] THEN c ELSE lowest[h]
    BY <1>2, <1>3, Taken
  <2>. QED
    BY <2>7, <2>8, <2>9
<1>. QED
  BY <1>1, <1>3, <1>6, <1>7, IgnoredKeepsIInv

\* The entry that takes the new cost is in the ring, with the slot.
LEMMA Target ==
    ASSUME TypeOK, NEW m \in DOMAIN dedup.entries, NEW s, s = dedup.entries[m].slot
    PROVE  \E q \in DOMAIN dedup.entries :
              q = First(WithSlot(dedup, s)) /\ dedup.entries[q].slot = s
<1>1. WithSlot(dedup, s) \subseteq DOMAIN dedup.entries /\ DOMAIN dedup.entries \in SUBSET Nat
  BY DEF WithSlot, TypeOK, RingOK
<1>2. m \in WithSlot(dedup, s)
  BY DEF WithSlot
<1>3. First(WithSlot(dedup, s)) \in WithSlot(dedup, s)
  BY <1>1, <1>2, FirstIsMember
<1>. QED
  BY <1>3 DEF WithSlot

\* A better decode.  An entry of this buffer is its own; one of an earlier buffer
\* may have the slot of another frame, and then both are mixed up.
LEMMA ReplaceKeepsIInv ==
    ASSUME IInv, NEW t \in DOMAIN Air, NEW sample, NEW x, Meets(t, sample, x), Replace(x)
    PROVE  IInv'
<1>. DEFINE E == dedup.entries
<1>0. PICK H \in Nat, L \in Nat : H = Len(handed) /\ L = Len(output)
  BY AllParts DEF IInv
<1>1. /\ TypeOK /\ EntriesApart /\ InPlace /\ Unmixed /\ FramesApart /\ Remembered
      /\ BestFrames /\ Noted
  BY DEF IInv
<1>2. PICK h, c, F :
         /\ H = Len(handed) /\ L = Len(output)
         /\ h = x.tx /\ c = x.cost /\ F = dedup'.entries
  BY <1>0
<1>3. Match(x) # {}
  BY DEF Replace
<1>4. PICK m \in DOMAIN E :
        /\ m = First(Match(x)) /\ E[m] \in EntryType
        /\ Owns(h, E[m]) \/ (Shadowed(t) /\ ~(E[m].heard > base))
  BY <1>1, <1>2, <1>3, Known
<1>5. PICK s : s = E[m].slot
  OBVIOUS
<1>6. PICK q \in DOMAIN E : q = First(WithSlot(dedup, s)) /\ E[q].slot = s
  BY <1>1, <1>5, Target
<1>7. /\ c < E[m].cost
      /\ output' = replace(output, s, Frame(x))
      /\ dedup' = update_entry(dedup, s, c)
      /\ mixed' = IF E[m].heard > base \/ s \notin DOMAIN output THEN mixed
                  ELSE mixed \cup {h, output[s].tx}
      /\ misled' = IF E[q].heard > base THEN misled ELSE misled \cup {h}
      /\ refused' = refused
  BY <1>2, <1>4, <1>5, <1>6 DEF Replace, Better, OfThisBuffer
<1>8. /\ h \in Hearings /\ h.of = t /\ c \in Nat /\ Frame(x) \in FrameType
      /\ Frame(x).tx = h /\ Frame(x).cost = c
  BY <1>1, <1>2, Decoded
<1>9. /\ first' \in [Hearings -> Nat \cup {NoCost}] /\ lowest' \in [Hearings -> Nat \cup {NoCost}]
      /\ \A g \in Hearings : g # h => first'[g] = first[g] /\ lowest'[g] = lowest[g]
      /\ first'[h] = IF first[h] = NoCost THEN c ELSE first[h]
      /\ lowest'[h] = IF lowest[h] = NoCost \/ c < lowest[h] THEN c ELSE lowest[h]
      /\ lowest'[h] # NoCost
      /\ found' = found \cup {h} /\ found' \subseteq Hearings
      /\ base' = base /\ handed' = handed
  BY <1>1, <1>2, Taken
<1>10. RingOK(dedup) /\ output \in Seq(FrameType) /\ s \in Nat /\ s >= 1
  BY <1>1, <1>4, <1>5 DEF TypeOK, EntryType
<1>11. /\ RingOK(dedup') /\ DOMAIN F = DOMAIN E
       /\ \A i \in DOMAIN E :
            /\ F[i].hash = E[i].hash /\ F[i].start = E[i].start
            /\ F[i].heard = E[i].heard /\ F[i].slot = E[i].slot
            /\ F[i].cost = (IF i = q THEN c ELSE E[i].cost)
            /\ Age(dedup', i) = Age(dedup, i)
  BY <1>2, <1>6, <1>7, <1>8, <1>10, Updated
<1>12. /\ output' \in Seq(FrameType) /\ Len(output') = L
       /\ DOMAIN output = 1 .. L /\ DOMAIN output' = 1 .. L
       /\ \A k \in 1 .. L : k # s => output'[k] = output[k]
       /\ s \in 1 .. L => output'[s] = Frame(x)
       /\ s \notin 1 .. L => output' = output
  <2>1. DOMAIN output = 1 .. L /\ L = Len(output)
    BY <1>2, <1>10
  <2>2. CASE s \in 1 .. L
    <3>1. output' = [output EXCEPT ![s] = Frame(x)]
      BY <1>7, <1>10, <2>1, <2>2 DEF replace
    <3>. QED
      BY <1>8, <1>10, <2>1, <2>2, <3>1
  <2>3. CASE s \notin 1 .. L
    <3>1. output' = output
      BY <1>7, <1>10, <2>1, <2>3 DEF replace
    <3>. QED
      BY <1>10, <2>1, <2>3, <3>1
  <2>. QED
    BY <2>2, <2>3
<1>13. /\ \A g : \A i \in DOMAIN E : Owns(g, F[i]) <=> Owns(g, E[i])
       /\ \A k : \A i \in DOMAIN E : InSlot(k, i)' <=> InSlot(k, i)
       /\ EntriesApart' /\ InPlace'
  BY <1>2, <1>9, <1>11, <1>12, Kept
<1>14. TypeOK'
  BY <1>1, <1>9, <1>11, <1>12, <1>2 DEF TypeOK
<1>15. E[m].heard > base =>
         /\ Owns(h, E[m]) /\ InSlot(s, m) /\ s \in 1 .. L
         /\ output[s].tx = h \/ {output[s].tx, h} \subseteq mixed
  BY <1>1, <1>4, <1>5, <1>8, <1>12 DEF InPlace, Unmixed
<1>16. s \in 1 .. L => output[s].tx = h \/ {output[s].tx, h} \subseteq mixed'
  BY <1>7, <1>12, <1>15
<1>17. mixed \subseteq mixed'
  BY <1>7
<1>18. Unmixed'
  <2>1. ASSUME NEW i \in DOMAIN E, NEW g \in Hearings, E[i].heard > base, Owns(g, E[i]),
               NEW k, k = E[i].slot
        PROVE  output'[k].tx = g \/ {output'[k].tx, g} \subseteq mixed'
    <3>1. /\ k \in 1 .. L /\ InSlot(k, i)
          /\ output[k].tx = g \/ {output[k].tx, g} \subseteq mixed
      BY <1>1, <1>12, <2>1 DEF InPlace, Unmixed
    <3>2. CASE k # s
      BY <1>12, <1>17, <3>1, <3>2
    <3>3. CASE k = s /\ E[m].heard > base
      <4>1. i = m
        BY <1>1, <1>15, <3>1, <3>3, OneInSlot
      <4>2. g = h
        BY <1>4, <1>8, <1>15, <2>1, <3>3, <4>1, OneOwner
      <4>. QED
        BY <1>8, <1>12, <3>1, <3>3, <4>2
    <3>4. CASE k = s /\ ~(E[m].heard > base)
      <4>1. {h, output[s].tx} \subseteq mixed' /\ output'[s].tx = h
        BY <1>7, <1>8, <1>12, <3>1, <3>4
      <4>. QED
        BY <1>17, <3>1, <3>4, <4>1
    <3>. QED
      BY <3>2, <3>3, <3>4
  <2>2. \A i \in DOMAIN F, g \in Hearings : F[i].heard > base /\ Owns(g, F[i]) =>
          output'[F[i].slot].tx = g \/ {output'[F[i].slot].tx, g} \subseteq mixed'
    <3>1. ASSUME NEW i \in DOMAIN E, NEW g \in Hearings, F[i].heard > base, Owns(g, F[i])
          PROVE  output'[F[i].slot].tx = g \/ {output'[F[i].slot].tx, g} \subseteq mixed'
      <4>1. PICK k : k = E[i].slot /\ k = F[i].slot
        BY <1>11
      <4>2. E[i].heard > base /\ Owns(g, E[i])
        BY <1>11, <1>13, <3>1
      <4>3. output'[k].tx = g \/ {output'[k].tx, g} \subseteq mixed'
        BY <2>1, <4>1, <4>2
      <4>. QED
        BY <4>1, <4>3
    <3>. QED
      BY <1>11, <3>1
  <2>. QED
    BY <1>2, <1>9, <2>2 DEF Unmixed, Owns
<1>19. /\ DOMAIN All = 1 .. H + L /\ DOMAIN All' = 1 .. H + L
       /\ \A k \in 1 .. H + L : All'[k] = All[k] \/ {All[k], All'[k]} \subseteq mixed'
  <2>1. /\ DOMAIN All = 1 .. H + L
        /\ \A i \in 1 .. H : All[i] = handed[i]
        /\ \A i \in 1 .. L : All[H + i] = output[i].tx
    BY <1>1, <1>2, AllParts
  <2>2. /\ DOMAIN All' = 1 .. H + L
        /\ \A i \in 1 .. H : All'[i] = handed[i]
        /\ \A i \in 1 .. L : All'[H + i] = output'[i].tx
    <3>1. PICK a, b, o, v : a = All' /\ b = handed /\ o = output' /\ v = Transmitted(o)
      OBVIOUS
    <3>2. b \in Seq(Hearings) /\ o \in Seq(FrameType) /\ a = b \o v
      BY <1>1, <1>9, <1>12, <3>1 DEF All, Transmitted, TypeOK
    <3>3. v \in Seq(Hearings) /\ Len(v) = Len(o) /\ \A i \in 1 .. Len(o) : v[i] = o[i].tx
      BY <3>1, <3>2, OutputParts
    <3>4. /\ Len(b) \in Nat /\ Len(o) \in Nat /\ DOMAIN a = 1 .. Len(b) + Len(o)
          /\ \A i \in 1 .. Len(b) : a[i] = b[i]
          /\ \A i \in 1 .. Len(o) : a[Len(b) + i] = o[i].tx
      BY <3>2, <3>3, Parts
    <3>. QED
      BY <1>2, <1>12, <3>1, <3>4
  <2>3. ASSUME NEW i \in 1 .. L
        PROVE  All'[H + i] = All[H + i] \/ {All[H + i], All'[H + i]} \subseteq mixed'
    <3>1. All'[H + i] = output'[i].tx /\ All[H + i] = output[i].tx
      BY <2>1, <2>2
    <3>2. CASE i # s
      BY <1>12, <3>1, <3>2
    <3>3. CASE i = s
      BY <1>8, <1>12, <1>16, <3>1, <3>3
    <3>. QED
      BY <3>2, <3>3
  <2>4. \A k \in 1 .. H + L : k \in 1 .. H \/ \E i \in 1 .. L : k = H + i
    <3>1. \A k \in 1 .. H + L : k \notin 1 .. H => k - H \in 1 .. L /\ k = H + (k - H)
      OBVIOUS
    <3>. QED
      BY <3>1
  <2>5. ASSUME NEW k \in 1 .. H + L
        PROVE  All'[k] = All[k] \/ {All[k], All'[k]} \subseteq mixed'
    <3>1. CASE k \in 1 .. H
      BY <2>1, <2>2, <3>1
    <3>2. CASE k \notin 1 .. H
      <4>1. PICK i \in 1 .. L : k = H + i
        BY <2>4, <3>2
      <4>. QED
        BY <2>3, <4>1
    <3>. QED
      BY <3>1, <3>2
  <2>. QED
    BY <2>1, <2>2, <2>5
<1>20. ASSUME NEW g, g \notin mixed' PROVE FramesOf(g)' = FramesOf(g)
  BY <1>19, <1>20 DEF FramesOf
<1>21. h \notin mixed => FramesOf(h) # {} \/ Shadowed(t)
  BY <1>1, <1>4, <1>8 DEF Remembered
<1>22. FramesApart'
  <2>1. ASSUME NEW i \in DOMAIN All', NEW j \in DOMAIN All', All'[i] = All'[j], All'[i] \notin mixed'
        PROVE  i = j
    <3>1. All[i] = All'[i] /\ All[j] = All'[j]
      BY <1>19, <2>1
    <3>. QED
      BY <1>1, <1>17, <1>19, <2>1, <3>1 DEF FramesApart
  <2>2. ASSUME NEW g \in found' \ mixed'
        PROVE  FramesOf(g)' # {} \/ g \in refused \/ Shadowed(g.of)
    BY <1>1, <1>8, <1>9, <1>17, <1>20, <1>21 DEF FramesApart
  <2>. QED
    BY <1>7, <2>1, <2>2 DEF FramesApart, Shadowed
<1>23. Remembered'
  <2>1. ASSUME NEW g \in Hearings, g \notin mixed', NEW i \in DOMAIN F, Owns(g, F[i])
        PROVE  FramesOf(g)' # {}
    BY <1>1, <1>11, <1>13, <1>17, <1>20, <2>1 DEF Remembered
  <2>2. ASSUME NEW k \in DOMAIN All', Live(All'[k]), All'[k] \notin mixed'
        PROVE  \E i \in DOMAIN F : /\ Owns(All'[k], F[i])
                                   /\ Age(dedup', i) < MAX_OUTPUT_FRAMES + L
    <3>1. k \in DOMAIN All /\ All[k] = All'[k] /\ All[k] \notin mixed
      BY <1>17, <1>19, <2>2
    <3>2. PICK i \in DOMAIN E : Owns(All[k], E[i]) /\ Age(dedup, i) < MAX_OUTPUT_FRAMES + L
      BY <1>1, <1>2, <2>2, <3>1 DEF Remembered
    <3>. QED
      BY <1>11, <1>13, <3>1, <3>2
  <2>. QED
    BY <1>2, <1>9, <1>12, <2>1, <2>2 DEF Remembered, Live, Owns
<1>24. ASSUME NEW k \in 1 .. L, k # s, NEW g, g = output[k].tx, g \notin mixed', ~Shadowed(g.of)
       PROVE  Best(g, k)'
  <2>1. g \in Hearings /\ g \notin mixed /\ k \in DOMAIN output /\ Best(g, k)
    BY <1>1, <1>12, <1>17, <1>24, AllParts DEF BestFrames
  <2>2. g # h
    <3>1. ASSUME g = h PROVE FALSE
      <4>1. Owns(h, E[m])
        BY <1>4, <1>8, <1>24, <3>1
      <4>2. PICK i \in DOMAIN E : InSlot(k, i)
        BY <1>1, <2>1 DEF InPlace
      <4>3. Owns(h, E[i])
        BY <1>24, <2>1, <3>1, <4>2, SlotIsOwn
      <4>4. i = m
        BY <1>1, <1>8, <4>1, <4>3 DEF EntriesApart
      <4>. QED
        BY <1>5, <1>24, <4>2, <4>4 DEF InSlot
    <3>. QED
      BY <3>1
  <2>3. first'[g] = first[g] /\ lowest'[g] = lowest[g] /\ (g \in misled' <=> g \in misled)
    BY <1>7, <1>9, <2>1, <2>2
  <2>4. ASSUME NEW i \in DOMAIN F, InSlot(k, i)' PROVE InSlot(k, i) /\ F[i].cost = E[i].cost
    <3>1. InSlot(k, i) /\ i \in DOMAIN E
      BY <1>11, <1>13, <2>4
    <3>2. i # q
      BY <1>6, <1>24, <3>1 DEF InSlot
    <3>. QED
      BY <1>11, <3>1, <3>2
  <2>5. output'[k] = output[k]
    BY <1>12, <1>24
  <2>6. /\ first'[g] \in Nat /\ lowest'[g] \in Nat /\ lowest'[g] <= output'[k].cost
        /\ IF g \in misled' THEN output'[k].cost < first'[g] ELSE output'[k].cost = lowest'[g]
    BY <2>1, <2>3, <2>5 DEF Best
  <2>7. ASSUME NEW i \in DOMAIN F, InSlot(k, i)'
        PROVE  /\ output'[k].cost <= F[i].cost /\ F[i].cost <= first'[g]
               /\ g \notin misled' => F[i].cost = output'[k].cost
    BY <1>11, <2>1, <2>3, <2>4, <2>5, <2>7 DEF Best
  <2>. QED
    BY <1>2, <2>6, <2>7 DEF Best
<1>25. ASSUME s \in 1 .. L, h \notin mixed', ~Shadowed(h.of)
       PROVE  Best(h, s)'
  <2>1. E[m].heard > base
    BY <1>7, <1>12, <1>25
  <2>2. Owns(h, E[m]) /\ InSlot(s, m) /\ output[s].tx = h /\ s \in DOMAIN output
    BY <1>12, <1>15, <1>17, <1>25, <2>1
  <2>3. Best(h, s)
    BY <1>1, <1>17, <1>25, <2>2 DEF BestFrames
  <2>4. PICK a, b, d, e : a = first[h] /\ b = lowest[h] /\ d = output[s].cost /\ e = E[m].cost
    OBVIOUS
  <2>5. /\ a \in Nat /\ b \in Nat /\ c \in Nat /\ d \in Nat /\ e \in Nat /\ c < e /\ b <= d /\ d <= e /\ e <= a
        /\ (h \in misled => d < a) /\ (h \notin misled => d = b /\ e = d)
    BY <1>1, <1>4, <1>7, <1>8, <2>2, <2>3, <2>4, AllParts DEF Best, EntryType
  <2>6. first'[h] = a /\ lowest'[h] = (IF c < b THEN c ELSE b) /\ output'[s].cost = c
    BY <1>8, <1>9, <1>12, <1>25, <2>4, <2>5 DEF NoCost
  <2>7. h \notin misled' => q = m /\ h \notin misled
    <3>1. E[q].heard > base => InSlot(s, q)
      BY <1>1, <1>6 DEF InPlace
    <3>2. E[q].heard > base => q = m
      BY <1>1, <2>2, <3>1, OneInSlot
    <3>. QED
      BY <1>7, <3>2
  <2>8. ASSUME NEW i \in DOMAIN F, InSlot(s, i)'
        PROVE  c <= F[i].cost /\ F[i].cost <= a /\ (q = m => F[i].cost = c)
    <3>1. i = m
      BY <1>1, <1>11, <1>13, <2>2, <2>8, OneInSlot
    <3>2. F[i].cost = (IF m = q THEN c ELSE e)
      BY <1>11, <2>4, <3>1
    <3>. QED
      BY <2>5, <3>2
  <2>9. /\ first'[h] \in Nat /\ lowest'[h] \in Nat /\ lowest'[h] <= output'[s].cost
        /\ IF h \in misled' THEN output'[s].cost < first'[h] ELSE output'[s].cost = lowest'[h]
    BY <2>5, <2>6, <2>7
  <2>10. ASSUME NEW i \in DOMAIN F, InSlot(s, i)'
         PROVE  /\ output'[s].cost <= F[i].cost /\ F[i].cost <= first'[h]
                /\ h \notin misled' => F[i].cost = output'[s].cost
    BY <2>6, <2>7, <2>8, <2>10
  <2>. QED
    BY <1>2, <2>9, <2>10 DEF Best
<1>26. BestFrames'
  <2>1. ASSUME NEW k \in 1 .. L, NEW g, g = output'[k].tx, g \notin mixed', ~Shadowed(g.of)
        PROVE  Best(g, k)'
    <3>1. CASE k = s
      <4>1. g = h
        BY <1>8, <1>12, <2>1, <3>1
      <4>. QED
        BY <1>25, <2>1, <3>1, <4>1
    <3>2. CASE k # s
      BY <1>12, <1>24, <2>1, <3>2
    <3>. QED
      BY <3>1, <3>2
  <2>. QED
    BY <1>12, <2>1 DEF BestFrames, Shadowed
<1>27. Noted'
  <2>1. ASSUME NEW g \in Hearings, g \notin mixed'
        PROVE  lowest'[g] = NoCost \/ Shadowed(g.of) \/ FramesOf(g)' # {} \/ IsFull(output)
    <3>1. CASE g = h
      BY <1>8, <1>17, <1>20, <1>21, <2>1, <3>1
    <3>2. CASE g # h
      BY <1>1, <1>9, <1>17, <1>20, <2>1, <3>2 DEF Noted
    <3>. QED
      BY <3>1, <3>2
  <2>2. \A g \in Hearings : lowest'[g] = NoCost => first'[g] = NoCost /\ g \notin misled'
    BY <1>1, <1>7, <1>9 DEF Noted
  <2>3. IsFull(output)' <=> IsFull(output)
    BY <1>2, <1>12 DEF IsFull
  <2>. QED
    BY <2>1, <2>2, <2>3 DEF Noted, Shadowed
<1>. QED
  BY <1>13, <1>14, <1>18, <1>22, <1>23, <1>26, <1>27 DEF IInv

\* The next buffer.  What may be met again in it was heard in this one.
LEMMA NextBufferKeepsIInv ==
    ASSUME IInv, NextBuffer
    PROVE  IInv'
<1>. DEFINE E == dedup.entries
<1>1. /\ TypeOK /\ EntriesApart /\ InPlace /\ FramesApart /\ Remembered
  BY DEF IInv
<1>2. /\ base' = base + BufferLen /\ handed' = handed \o Transmitted(output) /\ output' = << >>
      /\ first' = [h \in Hearings |-> NoCost] /\ lowest' = [h \in Hearings |-> NoCost]
      /\ misled' = {} /\ dedup' = dedup /\ found' = found /\ refused' = refused /\ mixed' = mixed
  BY DEF NextBuffer
<1>3. /\ base \in Nat /\ BufferLen \in Nat /\ Jitter \in Nat /\ Jitter <= BufferLen
      /\ MAX_OUTPUT_FRAMES \in Nat /\ MAX_OUTPUT_FRAMES >= 1
      /\ \A t \in DOMAIN Air : Air[t].at \in Nat
      /\ \A i \in DOMAIN E : E[i] \in EntryType
  <2>1. /\ BufferLen \in Nat /\ Jitter \in Nat /\ Jitter <= BufferLen
        /\ \A t \in DOMAIN Air : Air[t].at \in Nat
    BY AirAssumption
  <2>2. MAX_OUTPUT_FRAMES \in Nat /\ MAX_OUTPUT_FRAMES >= 1
    BY RingAssumption
  <2>3. base \in Nat /\ \A i \in DOMAIN E : E[i] \in EntryType
    BY <1>1 DEF TypeOK, RingOK
  <2>. QED
    BY <2>1, <2>2, <2>3
<1>4. base' \in Nat /\ base <= base'
  BY <1>2, <1>3
<1>5. All \in Seq(Hearings) /\ All' = All
  <2>1. All \in Seq(Hearings) /\ handed' = All
    BY <1>1, <1>2, AllParts DEF All
  <2>2. Transmitted(output)' = << >>
    BY <1>2 DEF Transmitted
  <2>3. All' = All \o << >>
    BY <2>1, <2>2 DEF All
  <2>. QED
    BY <2>1, <2>3
<1>6. output' \in Seq(FrameType) /\ DOMAIN output' = {} /\ Len(output') = 0
  BY <1>2
<1>7. TypeOK'
  BY <1>1, <1>2, <1>3, <1>4, <1>5, <1>6 DEF TypeOK, All
<1>8. ASSUME NEW i \in DOMAIN E
      PROVE  E[i].heard <= base + BufferLen /\ ~(E[i].heard > base') /\ E[i].heard <= base' + BufferLen
  BY <1>1, <1>2, <1>3, <1>8 DEF EntriesApart, EntryType
<1>9. EntriesApart'
  BY <1>1, <1>2, <1>8 DEF EntriesApart, Owns
<1>10. InPlace' /\ Unmixed' /\ BestFrames'
  BY <1>2, <1>6, <1>8 DEF InPlace, Unmixed, BestFrames
<1>11. \A g : FramesOf(g)' = FramesOf(g)
  BY <1>5 DEF FramesOf
<1>12. FramesApart'
  BY <1>1, <1>2, <1>5, <1>11 DEF FramesApart, Shadowed
<1>13. Remembered'
  <2>1. ASSUME NEW k \in DOMAIN All, NEW h, h = All[k], h \notin mixed, Live(h)'
        PROVE  \E i \in DOMAIN E : Owns(h, E[i]) /\ Age(dedup, i) < MAX_OUTPUT_FRAMES
    <3>1. h \in Hearings /\ Air[h.of].at \in Nat /\ base + BufferLen < Air[h.of].at + Jitter
      BY <1>2, <1>5, <2>1, HearingParts DEF Live
    <3>2. base < Air[h.of].at /\ Live(h)
      BY <1>3, <3>1 DEF Live
    <3>3. PICK i \in DOMAIN E : Owns(h, E[i])
      BY <1>1, <2>1, <3>2 DEF Remembered
    <3>4. E[i].heard > base
      <4>1. Air[h.of].at <= E[i].heard /\ E[i].heard \in Nat
        BY <1>3, <3>1, <3>3 DEF Owns, Span
      <4>. QED
        BY <1>3, <3>1, <3>2, <4>1
    <3>5. PICK s : s \in DOMAIN output /\ Age(dedup, i) = Len(output) - s
      BY <1>1, <3>4 DEF InPlace, InSlot
    <3>6. /\ Len(output) \in Nat /\ Len(output) <= MAX_OUTPUT_FRAMES /\ DOMAIN output = 1 .. Len(output)
      BY <1>1 DEF TypeOK
    <3>7. Age(dedup, i) < MAX_OUTPUT_FRAMES
      BY <1>3, <3>5, <3>6
    <3>. QED
      BY <3>3, <3>7
  <2>2. MAX_OUTPUT_FRAMES + 0 = MAX_OUTPUT_FRAMES
    BY <1>3
  <2>. QED
    BY <1>1, <1>2, <1>5, <1>6, <1>11, <2>1, <2>2 DEF Remembered, Owns
<1>14. Noted'
  BY <1>2 DEF Noted
<1>. QED
  BY <1>7, <1>9, <1>10, <1>12, <1>13, <1>14 DEF IInv

LEMMA InitIInv ==
    ASSUME Init
    PROVE  IInv
<1>1. /\ dedup = [entries |-> << >>, write_idx |-> 1] /\ output = << >> /\ handed = << >> /\ base = 0
      /\ first = [h \in Hearings |-> NoCost] /\ lowest = [h \in Hearings |-> NoCost]
      /\ found = {} /\ misled = {}
  BY DEF Init, NewRing, Ring
<1>2. N \in Nat /\ N >= 1
  BY RingAssumption
<1>3. RingOK(dedup) /\ DOMAIN dedup.entries = {}
  BY <1>1, <1>2 DEF RingOK
<1>4. TypeOK
  BY <1>1, <1>3, RingAssumption DEF TypeOK
<1>5. DOMAIN All = {}
  <2>1. Transmitted(output) = << >>
    BY <1>1 DEF Transmitted
  <2>. QED
    BY <1>1, <2>1 DEF All
<1>6. EntriesApart /\ InPlace /\ Unmixed /\ BestFrames
  BY <1>1, <1>3 DEF EntriesApart, InPlace, Unmixed, BestFrames
<1>7. FramesApart /\ Remembered
  BY <1>1, <1>3, <1>5 DEF FramesApart, Remembered
<1>8. Noted
  BY <1>1 DEF Noted
<1>. QED
  BY <1>4, <1>6, <1>7, <1>8 DEF IInv

LEMMA NextIInv == IInv /\ [Next]_vars => IInv'
<1>. SUFFICES ASSUME IInv, [Next]_vars PROVE IInv'
  OBVIOUS
<1>1. ASSUME NEW d \in Decoders, NEW t \in DOMAIN Air, NEW sample, Feed(d, t, sample)
      PROVE  IInv'
  <2>1. PICK x : Meets(t, sample, x) /\ (New(x) \/ Replace(x) \/ Duplicate(x))
    BY <1>1 DEF Feed, Meets
  <2>2. CASE New(x) /\ ~IsFull(output)
    BY <2>1, <2>2, PushKeepsIInv
  <2>3. CASE New(x) /\ IsFull(output)
    BY <2>1, <2>3, RefuseKeepsIInv
  <2>4. CASE Replace(x)
    BY <2>1, <2>4, ReplaceKeepsIInv
  <2>5. CASE Duplicate(x)
    BY <2>1, <2>5, DuplicateKeepsIInv
  <2>. QED
    BY <2>1, <2>2, <2>3, <2>4, <2>5
<1>2. CASE NextBuffer
  BY <1>2, NextBufferKeepsIInv
<1>3. CASE UNCHANGED vars
  <2>1. UNCHANGED vars
    BY <1>3
  <2>2. TypeOK' /\ EntriesApart' /\ InPlace' /\ Unmixed'
    BY <2>1 DEF IInv, TypeOK, EntriesApart, InPlace, InSlot, Unmixed, Owns, vars
  <2>3. All' = All /\ \A g : FramesOf(g)' = FramesOf(g)
    BY <2>1 DEF All, FramesOf, Transmitted, vars
  <2>4. FramesApart'
    BY <2>1, <2>3 DEF IInv, FramesApart, Shadowed, vars
  <2>5. Remembered'
    BY <2>1, <2>3 DEF IInv, Remembered, Owns, Live, vars
  <2>6. Noted'
    BY <2>1, <2>3 DEF IInv, Noted, Shadowed, IsFull, vars
  <2>7. \A h, k : Best(h, k)' <=> Best(h, k)
    BY <2>1 DEF Best, InSlot, vars
  <2>8. BestFrames'
    BY <2>1, <2>7 DEF IInv, BestFrames, Shadowed, vars
  <2>. QED
    BY <2>2, <2>4, <2>5, <2>6, <2>8 DEF IInv
<1>. QED
  BY <1>1, <1>2, <1>3 DEF Next

LEMMA Invariance == Spec => []IInv
<1>1. Init => IInv
  BY InitIInv
<1>. QED
  BY <1>1, NextIInv, PTL DEF Spec

-----------------------------------------------------------------------------
\* Each transmission that was decoded is reported once, by whichever decoders, in
\* whatever variants and on whichever side of the edge of a buffer, unless the
\* output was full, a better decode in a later buffer went into the slot of
\* another frame, or the count of samples wrapped and put it over an earlier one.
\* One that ends while the count wraps is reported once in each turn (the calls
\* of the ring in MultiDecoder::process_samples, with sample_idx as it is).
THEOREM OnceEach == Spec => []ReportedOnce
<1>1. IInv => ReportedOnce
  <2>. SUFFICES ASSUME IInv, NEW h \in found \ mixed
                PROVE  /\ Cardinality(FramesOf(h)) <= 1
                       /\ FramesOf(h) # {} \/ h \in refused \/ Shadowed(h.of)
    BY DEF ReportedOnce
  <2>1. \A i, j \in FramesOf(h) : i = j
    BY DEF IInv, FramesApart, FramesOf
  <2>2. Cardinality(FramesOf(h)) <= 1
    BY <2>1, NoTwo
  <2>. QED
    BY <2>2 DEF IInv, FramesApart
<1>. QED
  BY <1>1, Invariance, PTL

\* Of the decodes in one buffer the output has the cheapest, as long as each
\* improvement found the entry it was for; when it found an older one with the
\* same slot, what the output has is still cheaper than the first decode (replace,
\* and update_entry, which takes the first entry with the slot).
THEOREM LowestCost == Spec => []BestIsKept
<1>1. IInv => BestIsKept
  BY DEF IInv, BestFrames, Best, BestIsKept
<1>. QED
  BY <1>1, Invariance, PTL
=============================================================================
