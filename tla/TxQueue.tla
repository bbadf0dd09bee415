------------------------------- MODULE TxQueue -------------------------------
(***************************************************************************)
(* The queue of frames that wait for the transmitter: core/src/tnc.rs,     *)
(* struct TxQueue.  A fixed array of TX_QUEUE_SIZE slots is used as a      *)
(* ring; `head` is the slot of the oldest frame and `count` the number of  *)
(* frames.  A slot keeps its old contents after a dequeue, as in the code. *)
(*                                                                         *)
(* A queue is a value; the module that owns one keeps it in a variable.    *)
(***************************************************************************)
EXTENDS Integers, Sequences

CONSTANTS
    TX_QUEUE_SIZE,   \* number of slots
    Blank            \* what a slot holds before its first use (zeroed bytes)

ASSUME QueueSizeAssumption == TX_QUEUE_SIZE \in Nat \ {0}

Slots == 0 .. TX_QUEUE_SIZE - 1

\* The queues whose slots hold members of S.
TxQueueOf(S) ==
    [frames : [Slots -> S \cup {Blank}], head : Slots, count : 0 .. TX_QUEUE_SIZE]

\* TxQueue::new
NewQueue == [frames |-> [i \in Slots |-> Blank], head |-> 0, count |-> 0]

\* Faulty variants, for the mutation runs: the queue that takes one frame too
\* many, and the dequeue that leaves the head where it is.
is_full_late(q) == q.count > TX_QUEUE_SIZE
dequeue_keeping_head(q) == [frames |-> q.frames, head |-> q.head, count |-> q.count - 1]

is_empty(q) == q.count = 0
is_full(q)  == q.count >= TX_QUEUE_SIZE

\* Slot of the i-th frame of the queue, counted from the oldest (i = 0).
SlotOf(q, i) == (q.head + i) % TX_QUEUE_SIZE

\* TxQueue::enqueue when it accepts: the frame goes to the first free slot.
enqueue(q, f) ==
    [frames |-> [q.frames EXCEPT ![SlotOf(q, q.count)] = f],
     head |-> q.head, count |-> q.count + 1]

\* TxQueue::dequeue_into: the frame handed out, and the queue left behind.
front(q)   == q.frames[q.head]
dequeue(q) ==
    [frames |-> q.frames, head |-> (q.head + 1) % TX_QUEUE_SIZE, count |-> q.count - 1]

\* What the queue means: its frames, oldest first.
Contents(q) == [i \in 1 .. q.count |-> q.frames[SlotOf(q, i - 1)]]
=============================================================================
