------------------------------ MODULE HostToAir ------------------------------
(***************************************************************************)
(* A frame's way from a host to another station: KissCodec joined to       *)
(* HdlcLink by the engine's queue (core/src/tnc.rs, feed_kiss to           *)
(* begin_frame_tx).  The queue is a sequence here, which TncEngine shows   *)
(* its ring to be; TncEngine also models when the engine sends.            *)
(***************************************************************************)
EXTENDS KissCodec, HdlcLink

CONSTANT TX_QUEUE_SIZE   \* frames that can wait (4)

VARIABLES
    tx_queue,      \* TncEngine::tx_queue, oldest first
    accepted,      \* history: the frames that got into it
    overrun        \* history: were there ever more to wait than it takes?

queueVars == <<tx_queue, accepted, overrun>>
airVars == <<vars, linkVars, queueVars>>

\* The data of a frame as feed_kiss copies it: without the command byte, and
\* no more of it than MAX_FRAME_LEN bytes.
Cut(p) == SubSeq(p, 2, IF Len(p) <= MAX_FRAME_LEN THEN Len(p) ELSE MAX_FRAME_LEN + 1)
OnAir(p) == BitsOf(Cut(p))

\* The frames are data frames (other commands set the engine's parameters and
\* are TncEngine's).  The flags before a frame are enough for the receiver to
\* get into step (4 flags, 26 bits).  And the noise before a transmission and
\* what is heard of it until the receiver sees a flag are together too short to
\* be a frame: of longer noise one part in 65536 has the checksum of a frame,
\* as on any channel.
ASSUME PathAssumption ==
    /\ TX_QUEUE_SIZE \in Nat \ {0}
    /\ \A p \in Payloads : p[1] = DataCommand /\ OnAir(p) \in Frames
    /\ Enough <= 8 * Flags
    /\ MaxNoise + Enough + 6 < 8 * MIN_FRAME_LEN

\* The frames that are on the air or were: one is dequeued when the flags
\* before it are sent.
Begun == IF tx.st = "flags" THEN count_sent - 1 ELSE count_sent

\* feed_kiss: the frame a byte completes goes to the queue, and is lost if that
\* is full (`let _ = self.tx_queue.enqueue(..)`).  (Faulty variant: a full ring
\* is not looked for, and the frame falls on the oldest one.)
HasRoom == Len(tx_queue) < TX_QUEUE_SIZE
QueuedOver(f) == IF HasRoom THEN Append(tx_queue, f) ELSE [tx_queue EXCEPT ![1] = f]
Queued(f) == IF HasRoom THEN Append(tx_queue, f) ELSE tx_queue
Enqueue(f) ==
    /\ tx_queue' = Queued(f)
    /\ accepted' = IF HasRoom THEN Append(accepted, f) ELSE accepted
    /\ overrun' = (overrun \/ Len(delivered') > Begun + TX_QUEUE_SIZE)

\* The host's bytes come while frames are on the air.
Host ==
    /\ Next /\ UNCHANGED linkVars
    /\ IF delivered' = delivered THEN UNCHANGED queueVars
       ELSE Enqueue(delivered'[Len(delivered')])

\* The transmitter is keyed for the oldest frame of the queue, and when the
\* flags are sent begin_frame_tx takes it out.
Transmit ==
    /\ tx_queue # << >>
    /\ SendFrame(OnAir(Head(tx_queue)))
    /\ UNCHANGED <<vars, queueVars>>

begin_frame_tx ==
    tx_queue' = IF tx.st = "flags" /\ tx'.st = "body" THEN Tail(tx_queue) ELSE tx_queue
Air ==
    /\ LinkStep /\ begin_frame_tx
    /\ UNCHANGED <<vars, accepted, overrun>>

AirInit ==
    /\ Init /\ LinkInit
    /\ tx_queue = << >> /\ accepted = << >> /\ overrun = FALSE
AirNext == Host \/ Air \/ Transmit
AirSpec == AirInit /\ [][AirNext]_airVars

\* The other station's frames, when the first n have been sent.
Transmitted == IF tx = TxIdle THEN count_sent ELSE count_sent - 1
Receivable(p) == Len(p) + 1 \in MIN_FRAME_LEN .. MAX_FRAME_LEN
Expected(frames, n) ==
    LET heard[k \in 0 .. n] ==
            IF k = 0 THEN << >>
            ELSE IF Receivable(frames[k]) THEN Append(heard[k - 1], OnAir(frames[k]))
            ELSE heard[k - 1]
    IN heard[n]

\* On a channel that turns no bit over, the other station gets the host's
\* frames, those that got into the queue and that its decoder takes, each once,
\* unchanged and in order, and nothing else: whatever bytes they hold, whatever
\* was heard before and between them.  And a host that never gave the engine
\* more than TX_QUEUE_SIZE frames beyond those begun lost none at the queue.
HostIsHeard ==
    /\ flips = 0 => received = Expected(accepted, Transmitted)
    /\ ~overrun => accepted = sent
=============================================================================
