------------------------------ MODULE KissOutbox ------------------------------
(***************************************************************************)
(* The bytes that wait for the host: core/src/tnc.rs, struct KissOutbox.   *)
(* An array of KISS_OUTBOX_SIZE bytes is used as a ring between `head`,    *)
(* the next byte to read, and `tail`, the next to write.  The two are      *)
(* equal exactly when the ring is empty, so one byte always stays unused.  *)
(*                                                                         *)
(* An outbox is a value; the module that owns one keeps it in a variable.  *)
(***************************************************************************)
EXTENDS Integers, Sequences

CONSTANT KISS_OUTBOX_SIZE     \* bytes of the array (2048)

ASSUME OutboxSizeAssumption == KISS_OUTBOX_SIZE \in Nat \ {0}

Cells == 0 .. KISS_OUTBOX_SIZE - 1

\* The outboxes whose array holds members of B.
KissOutboxOf(B) == [buf : [Cells -> B], head : Cells, tail : Cells]

\* KissOutbox::new: zeroed bytes.
NewOutbox == [buf |-> [c \in Cells |-> 0], head |-> 0, tail |-> 0]

\* KissOutbox::len
Used(q) == IF q.tail >= q.head THEN q.tail - q.head
           ELSE (KISS_OUTBOX_SIZE - q.head) + q.tail

\* Faulty variants, for the mutation runs: uses the last byte too, so that a
\* full ring looks empty; writes the part of the data that fits.
free_space_all(q) == KISS_OUTBOX_SIZE - Used(q)
write_in_part(q, data) ==
    LET room == KISS_OUTBOX_SIZE - 1 - Used(q)
        n    == IF Len(data) > room THEN room ELSE Len(data)
    IN [buf  |-> [c \in Cells |->
                    LET i == (c - q.tail) % KISS_OUTBOX_SIZE
                    IN IF i < n THEN data[i + 1] ELSE q.buf[c]],
        head |-> q.head,
        tail |-> (q.tail + n) % KISS_OUTBOX_SIZE]

free_space(q) == KISS_OUTBOX_SIZE - 1 - Used(q)

\* KissOutbox::write: all of the data, or none of it.
write(q, data) ==
    IF Len(data) > free_space(q) THEN q
    ELSE [buf  |-> [c \in Cells |->
                      LET i == (c - q.tail) % KISS_OUTBOX_SIZE
                      IN IF i < Len(data) THEN data[i + 1] ELSE q.buf[c]],
          head |-> q.head,
          tail |-> (q.tail + Len(data)) % KISS_OUTBOX_SIZE]

\* KissOutbox::read into a buffer of n bytes: the bytes it hands out, and the
\* outbox it leaves behind.
ReadSize(q, n) == IF n < Used(q) THEN n ELSE Used(q)
Handed(q, n) ==
    [i \in 1 .. ReadSize(q, n) |-> q.buf[(q.head + (i - 1)) % KISS_OUTBOX_SIZE]]
read(q, n) == [q EXCEPT !.head = (@ + ReadSize(q, n)) % KISS_OUTBOX_SIZE]

\* What the outbox means: its bytes, oldest first.
Waiting(q) == [i \in 1 .. Used(q) |-> q.buf[(q.head + (i - 1)) % KISS_OUTBOX_SIZE]]
=============================================================================
