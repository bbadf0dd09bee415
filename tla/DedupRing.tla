------------------------------ MODULE DedupRing ------------------------------
(***************************************************************************)
(* The ring with which several decoders of one signal keep a frame from    *)
(* being reported twice (core/src/modem/mod.rs, DedupRing) and the bounded *)
(* buffer of the frames found in one piece of audio (modem/frame_output.rs,*)
(* FrameOutputBuffer).  Both are values.                                   *)
(***************************************************************************)
EXTENDS Integers, Sequences, FiniteSets

CONSTANTS
    N,                 \* entries of the ring (64)
    MAX_OUTPUT_FRAMES, \* frames of a buffer (16)
    overlap_window,    \* samples within which two decodes are of one transmission
    EXPIRY_SAMPLES     \* samples after which an entry is ignored

\* The ring outlives the buffers, and the decoders write to it one after the
\* other: a frame at the end of a buffer is met again in the next one, after the
\* rest of one output and the beginning of another.
ASSUME RingAssumption ==
    /\ MAX_OUTPUT_FRAMES \in Nat \ {0} /\ N \in Nat /\ N >= 2 * MAX_OUTPUT_FRAMES
    /\ overlap_window \in Nat /\ EXPIRY_SAMPLES \in Nat

\* `heard' is for the properties only: the sample that start was made of.
Entry(hash, start, cost, slot, heard) ==
    [hash |-> hash, start |-> start, cost |-> cost, slot |-> slot, heard |-> heard]

\* The entries that were written (`count' of them), and write_idx.
Ring(entries, write_idx) == [entries |-> entries, write_idx |-> write_idx]
NewRing == Ring(<< >>, 1)

Distance(a, b) == IF a >= b THEN a - b ELSE b - a

\* check: the first entry, in the order of the array, that is not too old and
\* is of the same content or of about the same time.  (Faulty variant: only the
\* content counts.)
SameContent(e, hash, start) ==
    /\ Distance(start, e.start) <= EXPIRY_SAMPLES
    /\ e.hash = hash
Matches(e, hash, start) ==
    /\ Distance(start, e.start) <= EXPIRY_SAMPLES
    /\ e.hash = hash \/ Distance(start, e.start) < overlap_window
Found(ring, hash, start) == {i \in DOMAIN ring.entries : Matches(ring.entries[i], hash, start)}
First(S) == CHOOSE i \in S : \A j \in S : i <= j

\* record_with_info
record_with_info(ring, entry) ==
    LET w == ring.write_idx
    IN Ring([i \in 1 .. IF w > Len(ring.entries) THEN w ELSE Len(ring.entries) |->
                IF i = w THEN entry ELSE ring.entries[i]],
            IF w = N THEN 1 ELSE w + 1)

\* update_entry: the first entry with the slot.  (Faulty variant: the better
\* cost is not remembered.)
KeepsCost(ring, slot, cost) == ring
WithSlot(ring, slot) == {i \in DOMAIN ring.entries : ring.entries[i].slot = slot}
update_entry(ring, slot, cost) ==
    [ring EXCEPT !.entries = [@ EXCEPT ![First(WithSlot(ring, slot))].cost = cost]]

-----------------------------------------------------------------------------
\* push_with_cost answers the slot, counted from 1 here, or fails when full.
IsFull(output) == Len(output) >= MAX_OUTPUT_FRAMES
push_with_cost(output, frame) == Append(output, frame)

\* replace, which does nothing when the slot is not in use.  Its answer is not
\* looked at.
replace(output, slot, frame) ==
    IF slot > Len(output) THEN output ELSE [output EXCEPT ![slot] = frame]
=============================================================================
