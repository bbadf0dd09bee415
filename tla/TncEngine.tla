------------------------------ MODULE TncEngine ------------------------------
(***************************************************************************)
(* The transmit side of the TNC engine: core/src/tnc.rs, TncEngine.        *)
(*                                                                         *)
(* The host sends KISS commands (feed_kiss); the platform calls poll_tx    *)
(* again and again, with an audio buffer that has room for some number of  *)
(* symbols.  poll_tx runs a p-persistent CSMA state machine: it waits for  *)
(* a clear channel and a winning random byte, keys the transmitter, and    *)
(* writes preamble flags, the frame, and tail flags; a frame queued in the *)
(* meantime follows in the same transmission.                              *)
(*                                                                         *)
(* One call of poll_tx is a run of loop iterations.  `room` is the number  *)
(* of symbols that still fit in the caller's buffer, and 0 when no call is *)
(* in progress: the loop ends when it is used up or at a `break`.  The     *)
(* engine is `&mut self`, so nothing else touches it during a call, but    *)
(* the clock and the channel it asks about move.                           *)
(***************************************************************************)
EXTENDS TxQueue

CONSTANTS
    Ids,             \* one value per frame the host sends (bounds the host)
    Sizes,           \* the lengths of those frames, in bytes
    MAX_FRAME_LEN,   \* longest frame the engine stores
    FrameBits,       \* the possible numbers of encoded bits of a frame
    FlagLen,         \* bits of a flag (8: FLAG_BITS)
    BaudRate,        \* TncConfig::baud_rate
    SlotUnit,        \* clock ticks in one unit of slottime (10 ms)
    ClockMod,        \* now_ms is a counter modulo ClockMod (2^32)
    PollGap,         \* most clock ticks between two calls of poll_tx
    ClockStart,      \* what now_ms may answer first
    ClockRuns,       \* FALSE: the platform's now_ms always answers the same
    Rooms,           \* the buffer sizes poll_tx is called with, in symbols
    Draws,           \* what the platform's random_byte may answer
    Bytes,           \* the parameter bytes the host may send
    Settable,        \* the parameters it sends them for
    InitConfig       \* the TncConfig the engine is built with

Half == ClockMod \div 2
Clock == 0 .. ClockMod - 1
Byte == 0 .. 255
Params == {"txdelay", "persistence", "slottime", "txtail"}
Frame == [id : Ids, len : 0 .. MAX_FRAME_LEN]
HostFrame == [id : Ids, len : Sizes]
TncConfig == [txdelay : Byte, persistence : Byte, slottime : Byte,
              txtail : Byte, full_duplex : BOOLEAN]

ASSUME EngineAssumption ==
    /\ MAX_FRAME_LEN \in Nat /\ Sizes \subseteq Nat
    /\ FrameBits \subseteq Nat \ {0}
    /\ FlagLen \in Nat \ {0} /\ BaudRate \in Nat
    /\ SlotUnit \in Nat /\ ClockMod \in Nat \ {0} /\ ClockMod = 2 * Half
    /\ PollGap \in Nat \ {0} /\ ClockRuns \in BOOLEAN
    /\ ClockStart \subseteq Clock
    /\ Rooms \subseteq Nat \ {0}
    /\ Draws \subseteq Byte /\ Bytes \subseteq Byte
    /\ Settable \subseteq Params \cup {"full_duplex"}
    /\ InitConfig \in TncConfig

\* Every slot time the host sets fits in half of the clock's range (in the
\* code 255 * 10 against 2^31).
ASSUME SlotAssumption ==
    \A b \in Bytes \cup {InitConfig.slottime} : b * SlotUnit <= Half

VARIABLES
    config,       \* TncEngine::config
    tx_queue,     \* TncEngine::tx_queue
    tx_state,     \* TncEngine::tx_state
    tx_frame,     \* the frame that tx_bits encodes
    tx_bit_count, \* TncEngine::tx_bit_count
    room,         \* see above
    ptt,          \* the platform's push-to-talk line
    now,          \* the platform's now_ms
    gap,          \* clock ticks since poll_tx was last called
    given,        \* history: the data frames the host has sent
    sent,         \* history: the frames completely sent
    line,         \* history: what the last key-up put on the air
    owed          \* history: ticks left of the slot that was lost

engineVars == <<config, tx_queue, tx_state, tx_frame, tx_bit_count, room, ptt>>
clockVars == <<now, gap>>
historyVars == <<given, sent, line, owed>>
vars == <<engineVars, clockVars, historyVars>>

-----------------------------------------------------------------------------
(* enum TxState *)
Idle == [st |-> "Idle"]
WaitCsma == [st |-> "WaitCsma"]
SlotWait(next) == [st |-> "SlotWait", next_check_ms |-> next]
Flags(st, done, total, bit) ==
    [st |-> st, flags_sent |-> done, flags_total |-> total, bit_in_flag |-> bit]
Transmitting(i) == [st |-> "Transmitting", bit_index |-> i]

TxState ==
    [st : {"Idle", "WaitCsma"}]
      \cup [st : {"SlotWait"}, next_check_ms : Clock]
      \cup [st : {"TxDelay", "TxTail"}, flags_sent : Nat, flags_total : Nat \ {0},
            bit_in_flag : 0 .. FlagLen - 1]
      \cup [st : {"Transmitting"}, bit_index : Nat]

In(st) == tx_state.st = st

\* txdelay_flags, txtail_flags: how many flags fill t * 10 ms, at least one.
FlagCount(t) == LET n == (t * BaudRate) \div 800 IN IF n >= 1 THEN n ELSE 1

\* What the air carries, in order.
Key(n)   == [kind |-> "key", flags |-> n]            \* PTT on, n flags to send
Flag     == [kind |-> "flag"]
Sent(f, n) == [kind |-> "frame", frame |-> f, flags |-> n]  \* n tail flags to send
Unkey    == [kind |-> "unkey"]

Init ==
    /\ config = InitConfig
    /\ tx_queue = NewQueue
    /\ tx_state = Idle
    /\ tx_frame = Blank /\ tx_bit_count = 0
    /\ room = 0
    /\ ptt = FALSE
    /\ now \in ClockStart /\ gap = 0
    /\ given = {} /\ sent = << >> /\ line = << >> /\ owed = 0

-----------------------------------------------------------------------------
(* The platform's clock.  PollGap bounds how long poll_tx may go uncalled. *)
Tick ==
    /\ ClockRuns
    /\ gap < PollGap
    /\ now' = (now + 1) % ClockMod
    /\ gap' = gap + 1
    /\ owed' = IF owed > 0 THEN owed - 1 ELSE 0
    /\ UNCHANGED <<engineVars, given, sent, line>>

(***************************************************************************)
(* feed_kiss, for the byte that completes a KISS frame.                    *)
(***************************************************************************)
\* A data frame: cut to MAX_FRAME_LEN, and dropped when the queue is full.
Cut(f) ==
    [id |-> f.id, len |-> IF f.len > MAX_FRAME_LEN THEN MAX_FRAME_LEN ELSE f.len]

DataFrame(f) ==
    /\ room = 0
    /\ \A g \in given : g.id # f.id
    /\ given' = given \cup {f}
    /\ tx_queue' = IF is_full(tx_queue) THEN tx_queue ELSE enqueue(tx_queue, Cut(f))
    /\ UNCHANGED <<config, tx_state, tx_frame, tx_bit_count, room, ptt,
                   clockVars, sent, line, owed>>

SetConfig(newConfig) ==
    /\ room = 0
    /\ config' = newConfig
    /\ UNCHANGED <<tx_queue, tx_state, tx_frame, tx_bit_count, room, ptt,
                   clockVars, historyVars>>

\* TxDelay, Persistence, SlotTime and TxTail commands with a data byte.
SetParam(p, b) == SetConfig([config EXCEPT ![p] = b])

\* FullDuplex command with a data byte.
SetFullDuplex(b) == SetConfig([config EXCEPT !.full_duplex = (b # 0)])

FeedKiss ==
    \/ \E f \in HostFrame : DataFrame(f)
    \/ \E p \in Settable \cap Params, b \in Bytes : SetParam(p, b)
    \/ "full_duplex" \in Settable /\ \E b \in Bytes : SetFullDuplex(b)

-----------------------------------------------------------------------------
(***************************************************************************)
(* poll_tx: the call, and one action per arm of the loop's match.          *)
(***************************************************************************)
PollTx(n) ==
    /\ room = 0
    /\ room' = n
    /\ gap' = 0
    /\ UNCHANGED <<config, tx_queue, tx_state, tx_frame, tx_bit_count, ptt,
                   now, historyVars>>

\* An arm that moves the state machine without writing a symbol.
Goto(next) ==
    /\ tx_state' = next
    /\ UNCHANGED <<config, tx_queue, tx_frame, tx_bit_count, room, ptt,
                   clockVars, historyVars>>

\* `break`: poll_tx returns.
Return ==
    /\ room' = 0
    /\ UNCHANGED <<config, tx_queue, tx_state, tx_frame, tx_bit_count, ptt,
                   clockVars, historyVars>>

\* Faulty variant: asks for the channel without looking at the queue.
IdleArmUnchecked == room > 0 /\ In("Idle") /\ Goto(WaitCsma)

IdleArm ==
    /\ room > 0 /\ In("Idle")
    /\ IF is_empty(tx_queue) THEN Return ELSE Goto(WaitCsma)

ChannelClear(busy) == config.full_duplex \/ ~busy

WaitBusy(busy) ==
    /\ room > 0 /\ In("WaitCsma")
    /\ ~ChannelClear(busy)
    /\ Return

WinSlot(busy, r) ==
    /\ room > 0 /\ In("WaitCsma")
    /\ ChannelClear(busy)
    /\ r <= config.persistence
    /\ ptt' = TRUE
    /\ tx_state' = Flags("TxDelay", 0, FlagCount(config.txdelay), 0)
    /\ line' = <<Key(FlagCount(config.txdelay))>>
    /\ UNCHANGED <<config, tx_queue, tx_frame, tx_bit_count, room, clockVars,
                   given, sent, owed>>

LoseSlot(busy, r) ==
    /\ room > 0 /\ In("WaitCsma")
    /\ ChannelClear(busy)
    /\ r > config.persistence
    /\ tx_state' = SlotWait((now + config.slottime * SlotUnit) % ClockMod)
    /\ room' = 0
    /\ owed' = config.slottime * SlotUnit
    /\ UNCHANGED <<config, tx_queue, tx_frame, tx_bit_count, ptt, clockVars,
                   given, sent, line>>

WaitCsmaArm ==
    \E busy \in BOOLEAN :
        \/ WaitBusy(busy)
        \/ \E r \in Draws : WinSlot(busy, r) \/ LoseSlot(busy, r)

\* Faulty variants: compares the wrapping clock as a number; waits for one
\* particular tick.
SlotExpiredNoWrap(next) == now >= next
SlotExpiredExactly(next) == now = next

\* now_ms.wrapping_sub(next_check_ms) < 0x8000_0000
SlotExpired(next) == (now - next) % ClockMod < Half

SlotWaitArm ==
    /\ room > 0 /\ In("SlotWait")
    /\ IF SlotExpired(tx_state.next_check_ms) THEN Goto(WaitCsma) ELSE Return

\* begin_frame_tx: dequeue and encode, HDLC or FX.25; only the number of bits
\* of the encoding matters here.  `log` is the air log so far.
BeginFrameTx(log) ==
    \/ /\ ~is_empty(tx_queue)
       /\ tx_frame' = front(tx_queue)
       /\ tx_queue' = dequeue(tx_queue)
       /\ tx_bit_count' \in FrameBits
       /\ tx_state' = Transmitting(0)
       /\ line' = log
    \/ /\ is_empty(tx_queue)
       /\ tx_state' = Flags("TxTail", 0, FlagCount(config.txtail), 0)
       /\ line' = log
       /\ UNCHANGED <<tx_frame, tx_queue, tx_bit_count>>

\* One bit of a flag, in the preamble or in the tail.
\* Faulty variant: one flag too many.
LastFlagLate == tx_state.flags_sent >= tx_state.flags_total

LastBit == tx_state.bit_in_flag + 1 >= FlagLen
LastFlag == tx_state.flags_sent + 1 >= tx_state.flags_total

FlagBit ==
    /\ room > 0 /\ (In("TxDelay") \/ In("TxTail"))
    /\ ~(LastBit /\ LastFlag)
    /\ room' = room - 1
    /\ IF LastBit
       THEN /\ tx_state' = Flags(tx_state.st, tx_state.flags_sent + 1,
                                 tx_state.flags_total, 0)
            /\ line' = Append(line, Flag)
       ELSE /\ tx_state' = Flags(tx_state.st, tx_state.flags_sent,
                                 tx_state.flags_total, tx_state.bit_in_flag + 1)
            /\ UNCHANGED line
    /\ UNCHANGED <<config, tx_queue, tx_frame, tx_bit_count, ptt, clockVars,
                   given, sent, owed>>

EndPreamble ==
    /\ room > 0 /\ In("TxDelay")
    /\ LastBit /\ LastFlag
    /\ room' = room - 1
    /\ BeginFrameTx(Append(line, Flag))
    /\ UNCHANGED <<config, ptt, clockVars, given, sent, owed>>

\* Faulty variant: goes idle with the transmitter on.
ReleaseKeepingPtt ==
    /\ tx_state' = Idle
    /\ line' = line \o <<Flag, Unkey>>
    /\ UNCHANGED <<tx_queue, tx_frame, tx_bit_count, ptt>>

\* The queue is empty: switch the transmitter off.
Release ==
    /\ ptt' = FALSE
    /\ tx_state' = Idle
    /\ line' = line \o <<Flag, Unkey>>
    /\ UNCHANGED <<tx_queue, tx_frame, tx_bit_count>>

EndTail ==
    /\ room > 0 /\ In("TxTail")
    /\ LastBit /\ LastFlag
    /\ room' = room - 1
    /\ IF ~is_empty(tx_queue)
       THEN BeginFrameTx(Append(line, Flag)) /\ UNCHANGED ptt
       ELSE Release
    /\ UNCHANGED <<config, clockVars, given, sent, owed>>

SendBit ==
    /\ room > 0 /\ In("Transmitting")
    /\ tx_state.bit_index < tx_bit_count
    /\ room' = room - 1
    /\ tx_state' = Transmitting(tx_state.bit_index + 1)
    /\ UNCHANGED <<config, tx_queue, tx_frame, tx_bit_count, ptt, clockVars,
                   historyVars>>

EndFrame ==
    /\ room > 0 /\ In("Transmitting")
    /\ tx_state.bit_index >= tx_bit_count
    /\ tx_state' = Flags("TxTail", 0, FlagCount(config.txtail), 0)
    /\ line' = Append(line, Sent(tx_frame, FlagCount(config.txtail)))
    /\ sent' = Append(sent, tx_frame)
    /\ UNCHANGED <<config, tx_queue, tx_frame, tx_bit_count, room, ptt,
                   clockVars, given, owed>>

LoopStep ==
    \/ IdleArm \/ WaitCsmaArm \/ SlotWaitArm
    \/ FlagBit \/ EndPreamble \/ SendBit \/ EndFrame \/ EndTail

Next == Tick \/ FeedKiss \/ (\E n \in Rooms : PollTx(n)) \/ LoopStep

Spec == Init /\ [][Next]_vars

(***************************************************************************)
(* The platform keeps calling poll_tx, a call runs to its end, time        *)
(* passes, and a channel that is looked at again and again is some time    *)
(* found clear on a winning draw: the chance of a win is at least 1/256.   *)
(***************************************************************************)
FairSpec ==
    /\ Spec
    /\ WF_vars(\E n \in Rooms : PollTx(n))
    /\ WF_vars(LoopStep)
    /\ WF_vars(Tick)
    /\ SF_vars(\E r \in Draws : WinSlot(FALSE, r))

-----------------------------------------------------------------------------
Keyed == {"TxDelay", "Transmitting", "TxTail"}

TypeOK ==
    /\ config \in TncConfig
    /\ tx_queue \in TxQueueOf(Frame)
    /\ tx_state \in TxState
    /\ tx_frame \in Frame \cup {Blank}
    /\ tx_bit_count \in Nat
    /\ room \in Nat
    /\ ptt \in BOOLEAN
    /\ now \in Clock /\ gap \in 0 .. PollGap
    /\ given \subseteq HostFrame
    /\ sent \in Seq(Frame \cup {Blank})
    /\ owed \in Nat

\* The transmitter is keyed exactly while the state machine puts symbols on
\* the air: PTT is never left on in Idle or in a CSMA wait, where nothing
\* would switch it off again, and no symbol is sent with PTT off.
PttMatchesState == ptt <=> tx_state.st \in Keyed

\* Whoever waits for the channel, or sends a preamble, has a frame to send:
\* the engine never keys up for nothing, and begin_frame_tx never takes its
\* empty-queue branch.
WaitingHasFrame ==
    tx_state.st \in {"WaitCsma", "SlotWait", "TxDelay"} => ~is_empty(tx_queue)

\* A lost draw costs a whole slot: the engine does not look at the channel
\* again before slottime has passed, wherever the 32-bit clock wraps.
NoEarlyRedraw == owed > 0 => In("SlotWait")

\* The inductive form of the three invariants above: what is left of a lost
\* slot is the distance from the clock to the deadline, and it fits in half
\* of the clock's range, so that the deadline still lies ahead.
SlotTimes == Bytes \cup {InitConfig.slottime}
SlotOwed ==
    owed > 0 => owed <= Half /\ (now + owed) % ClockMod = tx_state.next_check_ms
IInv ==
    /\ TypeOK
    /\ PttMatchesState
    /\ WaitingHasFrame
    /\ NoEarlyRedraw
    /\ SlotOwed
    /\ config.slottime \in SlotTimes

\* The flags that follow position i of the air log, up to the next event.
NextEvent(i) == CHOOSE j \in i + 1 .. Len(line) + 1 :
                    /\ j <= Len(line) => line[j] # Flag
                    /\ \A k \in i + 1 .. j - 1 : line[k] = Flag

\* On the air, a key-up is followed by as many flags as the txdelay in force
\* then asks for, and every frame by as many as txtail asks for, before the
\* next frame or the end: flags delimit every frame, back-to-back ones too,
\* and a transmission carries at least one frame.
LineWellFormed ==
    /\ ptt => line # << >>
    /\ line # << >> =>
         /\ line[1].kind = "key"
         /\ ptt <=> line[Len(line)] # Unkey
         /\ \A i \in DOMAIN line :
              /\ line[i].kind = "key" => i = 1
              /\ line[i].kind = "unkey" => i = Len(line)
              /\ line[i].kind \in {"key", "frame"} =>
                   LET j == NextEvent(i)
                   IN IF j <= Len(line)
                      THEN /\ j - i - 1 = line[i].flags
                           /\ i = 1 => line[j].kind = "frame"
                      ELSE j - i - 1 <= line[i].flags

\* What the engine holds for the host: the frame on the air, then the queue.
Pending == (IF In("Transmitting") THEN <<tx_frame>> ELSE << >>) \o Contents(tx_queue)

Service == INSTANCE TxService WITH
    Capacity <- TX_QUEUE_SIZE + 1, pending <- Pending

\* The frames that enter the queue go on the air once each and in order, and
\* each one eventually does: the engine implements the TNC's promise.
ImplementsService == Service!FairSpec
ImplementsFifo == Service!Spec

\* A transmission ends once the host has no more frames: PTT is not left on.
TransmissionEnds == ptt ~> ~ptt

\* "Drain KISS channel and generate TX audio" (TxPipeline::poll, with its
\* platform that is always clear, full duplex and without a clock): a frame
\* that was queued is eventually sent.
QueuedIsSent ==
    \A i \in Ids : (\E k \in DOMAIN Pending : Pending[k].id = i)
                     ~> (\E k \in DOMAIN sent : sent[k].id = i)
=============================================================================
