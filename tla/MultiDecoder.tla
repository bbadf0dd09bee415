----------------------------- MODULE MultiDecoder -----------------------------
(***************************************************************************)
(* Several decoders of one signal: core/src/modem/multi.rs,                *)
(* MultiDecoder::process_samples (MiniDecoder, CorrSlicerDecoder and       *)
(* Multi9600Decoder do the same with their decodes).                       *)
(*                                                                         *)
(* The audio comes in buffers.  For each buffer one decoder after the      *)
(* other is run over it, and each frame a decoder finds goes through the   *)
(* duplicate ring into the output of the buffer; the output starts empty   *)
(* with each buffer, the ring does not.  A transmission is found by some   *)
(* of the decoders, at about the same sample but not always in the same    *)
(* buffer, correctly or with wrong bits that the checksum did not show;    *)
(* the cost says how sure the decoder is.  The desktop programs build the   *)
(* library without FX.25; so does this model.                              *)
(***************************************************************************)
EXTENDS DedupRing

CONSTANTS
    Decoders,          \* 1 .. num_active + dm_active
    Air,               \* the transmissions: when each one ends, and its content
    Jitter,            \* by how much the decoders differ in that
    Costs,             \* of HDLC decodes
    BufferLen,         \* samples of a buffer
    SampleMod          \* 2^32: where the count of samples wraps

\* Two transmissions are farther apart than two decodes of one: the shortest
\* frame has 17 bytes, the window is 89 bits wide.  A content sent again within
\* EXPIRY_SAMPLES is taken for the same frame, as it is meant to be.  The
\* decoders differ by a few bits, and a buffer has many.  The count of samples
\* wraps after days.
ASSUME AirAssumption ==
    /\ Decoders \subseteq Nat /\ Jitter \in Nat /\ Costs \subseteq Nat
    /\ BufferLen \in Nat \ {0} /\ Jitter <= BufferLen
    /\ Jitter < overlap_window /\ Jitter <= EXPIRY_SAMPLES
    /\ SampleMod \in Nat /\ SampleMod > BufferLen + overlap_window + EXPIRY_SAMPLES
    /\ Len(Air) \in Nat /\ DOMAIN Air = 1 .. Len(Air)
    /\ \A t \in DOMAIN Air : Air[t].at \in Nat
    /\ \A t, u \in DOMAIN Air :
         t < u => /\ Air[u].at >= Air[t].at + overlap_window + Jitter
                  /\ Air[t].content = Air[u].content =>
                       Air[u].at > Air[t].at + Jitter + EXPIRY_SAMPLES

\* DemodSymbol::sample_idx is a u32, and the ring compares the u64 that is made
\* of it.  A transmission that ends just as the count wraps is heard in two turns
\* of the count, as far as the ring can tell: so what is heard is a transmission
\* in a turn.
SampleIdx(sample) == sample % SampleMod
Turn(sample) == sample \div SampleMod
Span(t) == Air[t].at .. Air[t].at + Jitter
Hearing(t, sample) == [of |-> t, turn |-> Turn(sample)]
Hearings == UNION {{Hearing(t, sample) : sample \in Span(t)} : t \in DOMAIN Air}

VARIABLES
    dedup,         \* the ring
    output,        \* the output of the buffer
    base,          \* samples before the buffer
    at,            \* the decoder that runs, and how far it is in the buffer
    handed,        \* history: what the frames of the buffers before are of
    first,         \* history: the cost of this buffer's first decode, per hearing
    lowest,        \* history: the lowest cost of this buffer's decodes, per hearing
    found,         \* history: what was heard so far
    refused,       \* history: what was not pushed, for want of room
    mixed,         \* history: frames put in the place of another, and those others
    misled         \* history: what was improved in this buffer without its entry

vars == <<dedup, output, base, at, handed, first, lowest, found, refused, mixed, misled>>

\* Not decoded in this buffer.
NoCost == -1

Init ==
    /\ dedup = NewRing /\ output = << >> /\ base = 0
    /\ at = [decoder |-> 0, sample |-> 0]
    /\ handed = << >>
    /\ first = [h \in Hearings |-> NoCost] /\ lowest = [h \in Hearings |-> NoCost]
    /\ found = {} /\ refused = {} /\ mixed = {} /\ misled = {}

\* A decode: hash, start, cost.  `tx' (what it is a decode of) and `heard' are
\* for the properties only.
Hashes(t) == {<<Air[t].content, 0>>, <<"wrong", t>>}
Decode(t, hash, sample, cost) ==
    [tx |-> Hearing(t, sample), hash |-> hash, start |-> SampleIdx(sample), cost |-> cost,
     heard |-> sample]
Possible(t, sample) == {Decode(t, h, sample, c) : h \in Hashes(t), c \in Costs}

Match(x) == Found(dedup, x.hash, x.start)
Frame(x) == [tx |-> x.tx, cost |-> x.cost]

New(x) ==
    /\ Match(x) = {}
    /\ IF IsFull(output)
       THEN UNCHANGED <<dedup, output>> /\ refused' = refused \cup {x.tx}
       ELSE /\ output' = push_with_cost(output, Frame(x))
            /\ dedup' = record_with_info(dedup,
                          Entry(x.hash, x.start, x.cost, Len(output) + 1, x.heard))
            /\ UNCHANGED refused
    /\ UNCHANGED <<mixed, misled>>

Better(x, e) == x.cost < e.cost

\* An entry is of this buffer when its slot is where its frame was put in it.
OfThisBuffer(e) == e.heard > base

\* A better decode goes into the slot of the entry it matches, whosever frame is
\* there now, and its cost to the first entry with that slot.
Replace(x) ==
    /\ Match(x) # {}
    /\ LET e == dedup.entries[First(Match(x))]
           u == dedup.entries[First(WithSlot(dedup, e.slot))]
       IN /\ Better(x, e)
          /\ output' = replace(output, e.slot, Frame(x))
          /\ dedup' = update_entry(dedup, e.slot, x.cost)
          /\ mixed' = IF OfThisBuffer(e) \/ e.slot \notin DOMAIN output THEN mixed
                      ELSE mixed \cup {x.tx, output[e.slot].tx}
          /\ misled' = IF OfThisBuffer(u) THEN misled ELSE misled \cup {x.tx}
    /\ UNCHANGED refused

Duplicate(x) ==
    /\ Match(x) # {} /\ ~Better(x, dedup.entries[First(Match(x))])
    /\ UNCHANGED <<dedup, output, refused, mixed, misled>>

Note(x) ==
    /\ first' = [first EXCEPT ![x.tx] = IF @ = NoCost THEN x.cost ELSE @]
    /\ lowest' = [lowest EXCEPT ![x.tx] = IF @ = NoCost \/ x.cost < @ THEN x.cost ELSE @]
    /\ found' = found \cup {x.tx}

\* The decoder d finds transmission t.
Feed(d, t, sample) ==
    /\ sample \in base + 1 .. base + BufferLen
    /\ sample \in Span(t)
    /\ d > at.decoder \/ (d = at.decoder /\ sample > at.sample)
    /\ at' = [decoder |-> d, sample |-> sample]
    /\ \E x \in Possible(t, sample) :
         /\ New(x) \/ Replace(x) \/ Duplicate(x)
         /\ Note(x)
    /\ UNCHANGED <<base, handed>>

\* What the frames of an output are of.
Transmitted(frames) == [i \in DOMAIN frames |-> frames[i].tx]

\* process_samples returns, and is called with the next buffer.
NextBuffer ==
    /\ \E t \in DOMAIN Air : base + BufferLen < Air[t].at + Jitter
    /\ base' = base + BufferLen
    /\ handed' = handed \o Transmitted(output)
    /\ output' = << >>
    /\ at' = [decoder |-> 0, sample |-> 0]
    /\ first' = [h \in Hearings |-> NoCost] /\ lowest' = [h \in Hearings |-> NoCost]
    /\ misled' = {}
    /\ UNCHANGED <<dedup, found, refused, mixed>>

Next ==
    \/ \E d \in Decoders, t \in DOMAIN Air : \E j \in 0 .. Jitter : Feed(d, t, Air[t].at + j)
    \/ NextBuffer

Spec == Init /\ [][Next]_vars

-----------------------------------------------------------------------------
All == handed \o Transmitted(output)
FramesOf(h) == {i \in DOMAIN All : All[i] = h}

\* Whole turns of the count after an earlier transmission, at about the same
\* place of it: if the ring still holds that one, this one is taken for it.
Shadowed(t) ==
    \E u \in 1 .. t - 1 : \E r \in Span(u), s \in Span(t) :
        /\ Turn(r) # Turn(s)
        /\ LET d == Distance(SampleIdx(r), SampleIdx(s))
           IN d < overlap_window \/ (d <= EXPIRY_SAMPLES /\ Air[t].content = Air[u].content)

\* Each transmission that was decoded is reported once, whichever decoders found
\* it, in however many variants and on whichever side of the edge of a buffer,
\* and once more when its content is sent once more, unless the output was full.
\* Three exceptions, none of which spreads to the other transmissions.  A
\* better decode in the next buffer that falls on the slot of another frame there
\* replaces that one, so it is reported twice and the other one not at all.  A
\* transmission that ends while the count of samples wraps is reported once in
\* each turn.  And a shadowed one may not be reported.
ReportedOnce ==
    \A h \in found \ mixed :
        /\ Cardinality(FramesOf(h)) <= 1
        /\ FramesOf(h) # {} \/ h \in refused \/ Shadowed(h.of)

\* "Keeping the lowest-cost decode": of the decodes in one buffer the output has
\* the best one, as long as each improvement finds the entry it is for.  When
\* an entry of an earlier buffer with the same slot comes first in the ring, it
\* takes the new cost instead, and then the output has a decode that is better
\* than the first one, and no more: a worse one may replace a better one.
BestIsKept ==
    \A i \in DOMAIN output :
        LET h == output[i].tx
        IN h \in mixed \/ Shadowed(h.of)
           \/ (IF h \in misled THEN output[i].cost < first[h]
                               ELSE output[i].cost = lowest[h])
=============================================================================
