--------------------------- MODULE TncEngine_proofs ---------------------------
(***************************************************************************)
(* Proofs about TncEngine: the ring of TxQueue is a first-in first-out     *)
(* queue; types, the push-to-talk line, the slot wait on a clock that      *)
(* wraps; that the engine is a first-in first-out transmitter (TxService)  *)
(* and that what it puts on the air is well formed.                        *)
(***************************************************************************)
EXTENDS TncEngine, TLAPS

-----------------------------------------------------------------------------
(* The ring. *)

\* The slots of a ring are distinct over one lap.
LEMMA SlotsDistinct ==
    ASSUME NEW n \in Nat \ {0}, NEW a \in 0 .. n - 1,
           NEW i \in 0 .. n - 1, NEW j \in 0 .. n - 1, i # j
    PROVE  (a + i) % n # (a + j) % n
<1>1. (a + i) % n = IF a + i < n THEN a + i ELSE a + i - n
  OBVIOUS
<1>2. (a + j) % n = IF a + j < n THEN a + j ELSE a + j - n
  OBVIOUS
<1>. QED
  BY <1>1, <1>2

\* Moving the head on by one shifts every position by one.
LEMMA NextLap ==
    ASSUME NEW n \in Nat \ {0}, NEW a \in 0 .. n - 1, NEW i \in 0 .. n - 1
    PROVE  (((a + 1) % n) + i) % n = (a + (i + 1)) % n
<1>1. (a + 1) % n = IF a + 1 < n THEN a + 1 ELSE 0
  OBVIOUS
<1>2. (a + (i + 1)) % n = IF a + (i + 1) < n THEN a + (i + 1) ELSE a + (i + 1) - n
  OBVIOUS
<1>3. CASE a + 1 < n
  <2>1. ((a + 1) + i) % n = IF (a + 1) + i < n THEN (a + 1) + i ELSE (a + 1) + i - n
    BY <1>3
  <2>. QED
    BY <1>1, <1>2, <1>3, <2>1
<1>4. CASE ~(a + 1 < n)
  <2>1. (0 + i) % n = i
    OBVIOUS
  <2>. QED
    BY <1>1, <1>2, <1>4, <2>1
<1>. QED
  BY <1>3, <1>4

\* A new queue is empty.
LEMMA NewQueueIsEmpty ==
    ASSUME NEW S
    PROVE  NewQueue \in TxQueueOf(S) /\ is_empty(NewQueue) /\ Contents(NewQueue) = << >>
  BY QueueSizeAssumption DEF NewQueue, TxQueueOf, is_empty, Contents, Slots

\* The contents of a queue are a sequence of as many values as it counts.
LEMMA ContentsLen ==
    ASSUME NEW S, NEW q \in TxQueueOf(S)
    PROVE  /\ Contents(q) \in Seq(S \cup {Blank})
           /\ Len(Contents(q)) = q.count
           /\ DOMAIN Contents(q) = 1 .. q.count
           /\ is_empty(q) <=> Contents(q) = << >>
<1>1. \A i \in 1 .. q.count : SlotOf(q, i - 1) \in Slots
  BY QueueSizeAssumption DEF SlotOf, TxQueueOf, Slots
<1>. QED
  BY <1>1 DEF Contents, TxQueueOf, is_empty

\* enqueue appends, when the queue is not full.
LEMMA EnqueueAppends ==
    ASSUME NEW S, NEW q \in TxQueueOf(S), NEW f \in S, ~is_full(q)
    PROVE  /\ enqueue(q, f) \in TxQueueOf(S)
           /\ Contents(enqueue(q, f)) = Append(Contents(q), f)
<1>. DEFINE r == enqueue(q, f)
            s == SlotOf(q, q.count)
<1>1. /\ q.count \in 0 .. TX_QUEUE_SIZE - 1
      /\ q.head \in 0 .. TX_QUEUE_SIZE - 1
      /\ TX_QUEUE_SIZE \in Nat \ {0}
      /\ q.frames \in [Slots -> S \cup {Blank}]
  BY QueueSizeAssumption DEF is_full, TxQueueOf, Slots
<1>2. s \in Slots
  BY <1>1 DEF SlotOf, Slots
<1>3. /\ r.head = q.head /\ r.count = q.count + 1
      /\ r.frames = [q.frames EXCEPT ![s] = f]
  BY DEF enqueue
<1>4. r \in TxQueueOf(S)
  BY <1>1, <1>2, <1>3 DEF TxQueueOf, Slots, enqueue
<1>5. ASSUME NEW i \in 1 .. q.count
      PROVE  Contents(r)[i] = Contents(q)[i]
  <2>1. SlotOf(q, i - 1) # s
    <3>1. /\ i - 1 \in 0 .. TX_QUEUE_SIZE - 1 /\ i - 1 # q.count
          /\ q.count \in 0 .. TX_QUEUE_SIZE - 1
          /\ q.head \in 0 .. TX_QUEUE_SIZE - 1
      BY <1>1
    <3>. QED
      BY <1>1, <3>1, SlotsDistinct DEF SlotOf
  <2>2. SlotOf(q, i - 1) \in Slots
    BY <1>1 DEF SlotOf, Slots
  <2>. QED
    BY <1>1, <1>3, <2>1, <2>2 DEF Contents, SlotOf
<1>6. Contents(r)[q.count + 1] = f
  <2>1. SlotOf(r, q.count) = s /\ r.frames[s] = f
    BY <1>1, <1>2, <1>3 DEF SlotOf
  <2>2. q.count + 1 \in 1 .. r.count /\ (q.count + 1) - 1 = q.count
    BY <1>1, <1>3
  <2>3. Contents(r)[q.count + 1] = r.frames[SlotOf(r, (q.count + 1) - 1)]
    BY <2>2 DEF Contents
  <2>. QED
    BY <2>1, <2>2, <2>3
<1>7. /\ Contents(r) \in Seq(S \cup {Blank}) /\ Len(Contents(r)) = q.count + 1
      /\ Contents(q) \in Seq(S \cup {Blank}) /\ Len(Contents(q)) = q.count
  BY <1>3, <1>4, ContentsLen
<1>8. Contents(r) = Append(Contents(q), f)
  BY <1>1, <1>5, <1>6, <1>7
<1>. QED
  BY <1>4, <1>8

\* dequeue hands out the oldest frame and keeps the others in order.
LEMMA DequeueTakesHead ==
    ASSUME NEW S, NEW q \in TxQueueOf(S), ~is_empty(q)
    PROVE  /\ dequeue(q) \in TxQueueOf(S)
           /\ front(q) = Head(Contents(q))
           /\ Contents(dequeue(q)) = Tail(Contents(q))
<1>. DEFINE r == dequeue(q)
<1>1. /\ q.count \in 1 .. TX_QUEUE_SIZE
      /\ q.head \in 0 .. TX_QUEUE_SIZE - 1
      /\ TX_QUEUE_SIZE \in Nat \ {0}
      /\ q.frames \in [Slots -> S \cup {Blank}]
  BY QueueSizeAssumption DEF is_empty, TxQueueOf, Slots
<1>2. /\ r.head = (q.head + 1) % TX_QUEUE_SIZE /\ r.count = q.count - 1
      /\ r.frames = q.frames
  BY DEF dequeue
<1>3. r \in TxQueueOf(S)
  <2>1. (q.head + 1) % TX_QUEUE_SIZE \in Slots
    BY <1>1 DEF Slots
  <2>. QED
    BY <1>1, <2>1 DEF TxQueueOf, dequeue
<1>4. front(q) = Head(Contents(q))
  <2>1. (q.head + 0) % TX_QUEUE_SIZE = q.head
    BY <1>1
  <2>. QED
    BY <1>1, <2>1 DEF front, Contents, SlotOf
<1>5. ASSUME NEW i \in 1 .. r.count
      PROVE  Contents(r)[i] = Contents(q)[i + 1]
  <2>1. SlotOf(r, i - 1) = SlotOf(q, i)
    BY <1>1, <1>2, NextLap DEF SlotOf
  <2>2. i \in 1 .. q.count /\ i + 1 \in 1 .. q.count /\ i + 1 - 1 = i
    BY <1>1, <1>2
  <2>3. Contents(r)[i] = r.frames[SlotOf(r, i - 1)]
    BY DEF Contents
  <2>4. Contents(q)[i + 1] = q.frames[SlotOf(q, i)]
    BY <2>2 DEF Contents
  <2>. QED
    BY <1>2, <2>1, <2>3, <2>4
<1>6. /\ Contents(r) \in Seq(S \cup {Blank}) /\ Len(Contents(r)) = q.count - 1
      /\ Contents(q) \in Seq(S \cup {Blank}) /\ Len(Contents(q)) = q.count
  BY <1>2, <1>3, ContentsLen
<1>7. Contents(r) = Tail(Contents(q))
  BY <1>1, <1>2, <1>5, <1>6
<1>. QED
  BY <1>3, <1>4, <1>7

-----------------------------------------------------------------------------
(* The engine. *)

LEMMA FlagCountPositive ==
    ASSUME NEW t \in Byte
    PROVE  FlagCount(t) \in Nat \ {0}
  BY EngineAssumption DEF FlagCount, Byte

LEMMA CutIsFrame ==
    ASSUME NEW f \in HostFrame
    PROVE  Cut(f) \in Frame
<1>1. f.id \in Ids /\ f.len \in Nat
  BY EngineAssumption DEF HostFrame
<1>2. (IF f.len > MAX_FRAME_LEN THEN MAX_FRAME_LEN ELSE f.len) \in 0 .. MAX_FRAME_LEN
  BY <1>1, EngineAssumption
<1>. QED
  BY <1>1, <1>2 DEF Cut, Frame

LEMMA SlotLengthNat == \A b \in Byte : b * SlotUnit \in Nat
  BY EngineAssumption DEF Byte

LEMMA ClockFacts == ClockMod \in Nat \ {0} /\ Half \in Nat \ {0} /\ ClockMod = 2 * Half
  BY EngineAssumption DEF Half

-----------------------------------------------------------------------------
LEMMA InitTypeOK == Init => TypeOK
<1>. SUFFICES ASSUME Init PROVE TypeOK
  OBVIOUS
<1>1. tx_queue \in TxQueueOf(Frame)
  BY NewQueueIsEmpty DEF Init
<1>2. tx_state \in TxState
  BY DEF Init, Idle, TxState
<1>3. gap \in 0 .. PollGap /\ now \in Clock /\ config \in TncConfig
  BY EngineAssumption DEF Init
<1>4. /\ room \in Nat /\ tx_bit_count \in Nat /\ owed \in Nat
      /\ given \subseteq HostFrame /\ tx_frame \in Frame \cup {Blank}
  BY DEF Init
<1>5. ptt \in BOOLEAN
  BY DEF Init
<1>6. sent \in Seq(Frame \cup {Blank})
  BY DEF Init
<1>. QED
  BY <1>1, <1>2, <1>3, <1>4, <1>5, <1>6 DEF TypeOK

LEMMA StepTypeOK == TypeOK /\ [Next]_vars => TypeOK'
<1>. SUFFICES ASSUME TypeOK, [Next]_vars PROVE TypeOK'
  OBVIOUS
<1>. USE DEF TypeOK
<1>1. CASE Tick
  BY <1>1, ClockFacts, EngineAssumption DEF Tick, Clock, engineVars
<1>2. ASSUME NEW f \in HostFrame, DataFrame(f) PROVE TypeOK'
  <2>1. tx_queue' \in TxQueueOf(Frame)
    BY <1>2, CutIsFrame, EnqueueAppends DEF DataFrame
  <2>. QED
    BY <1>2, <2>1 DEF DataFrame, clockVars
<1>3. ASSUME NEW p \in Settable \cap Params, NEW b \in Bytes, SetParam(p, b)
      PROVE TypeOK'
  <2>1. config' \in TncConfig
    BY <1>3, EngineAssumption DEF SetParam, SetConfig, Params, TncConfig
  <2>. QED
    BY <1>3, <2>1 DEF SetParam, SetConfig, clockVars, historyVars
<1>4. ASSUME NEW b \in Bytes, SetFullDuplex(b) PROVE TypeOK'
  <2>1. config' \in TncConfig
    BY <1>4 DEF SetFullDuplex, SetConfig, TncConfig
  <2>. QED
    BY <1>4, <2>1 DEF SetFullDuplex, SetConfig, clockVars, historyVars
<1>5. ASSUME NEW n \in Rooms, PollTx(n) PROVE TypeOK'
  BY <1>5, EngineAssumption DEF PollTx, historyVars
<1>6. CASE IdleArm
  BY <1>6 DEF IdleArm, Return, Goto, WaitCsma, TxState, clockVars, historyVars
<1>7. CASE WaitCsmaArm
  <2>1. ASSUME NEW busy \in BOOLEAN, WaitBusy(busy) PROVE TypeOK'
    BY <2>1 DEF WaitBusy, Return, clockVars, historyVars
  <2>2. ASSUME NEW busy \in BOOLEAN, NEW r \in Draws, WinSlot(busy, r) PROVE TypeOK'
    <3>1. FlagCount(config.txdelay) \in Nat \ {0}
      BY FlagCountPositive DEF TncConfig
    <3>2. tx_state' \in TxState
      BY <2>2, <3>1, EngineAssumption DEF WinSlot, Flags, TxState
    <3>. QED
      BY <2>2, <3>2 DEF WinSlot, clockVars
  <2>3. ASSUME NEW busy \in BOOLEAN, NEW r \in Draws, LoseSlot(busy, r) PROVE TypeOK'
    <3>1. config.slottime * SlotUnit \in Nat
      <4>1. config.slottime \in Byte
        BY DEF TncConfig
      <4>. QED
        BY <4>1, SlotLengthNat
    <3>2. (now + config.slottime * SlotUnit) % ClockMod \in Clock
      <4>. DEFINE k == config.slottime * SlotUnit
      <4>. HIDE DEF k
      <4>1. now \in Nat /\ k \in Nat
        BY <3>1 DEF Clock, k
      <4>. QED
        BY <4>1, ClockFacts DEF Clock, k
    <3>3. tx_state' \in TxState
      BY <2>3, <3>2 DEF LoseSlot, SlotWait, TxState
    <3>. QED
      BY <2>3, <3>1, <3>3 DEF LoseSlot, clockVars
  <2>. QED
    BY <1>7, <2>1, <2>2, <2>3 DEF WaitCsmaArm
<1>8. CASE SlotWaitArm
  BY <1>8 DEF SlotWaitArm, Return, Goto, WaitCsma, TxState, clockVars, historyVars
<1>9. CASE FlagBit
  <2>1. /\ tx_state.flags_sent \in Nat /\ tx_state.flags_total \in Nat \ {0}
        /\ tx_state.bit_in_flag \in 0 .. FlagLen - 1
        /\ tx_state \in [st : {"TxDelay", "TxTail"}, flags_sent : Nat,
                         flags_total : Nat \ {0}, bit_in_flag : 0 .. FlagLen - 1]
    BY <1>9 DEF FlagBit, In, TxState
  <2>2. tx_state' \in TxState
    <3>1. CASE LastBit
      BY <1>9, <2>1, <3>1, EngineAssumption DEF FlagBit, LastBit, Flags, TxState
    <3>2. CASE ~LastBit
      BY <1>9, <2>1, <3>2, EngineAssumption DEF FlagBit, LastBit, Flags, TxState
    <3>. QED
      BY <3>1, <3>2
  <2>. QED
    BY <1>9, <2>2 DEF FlagBit, clockVars
<1>10. ASSUME NEW log, BeginFrameTx(log)
       PROVE  /\ tx_queue' \in TxQueueOf(Frame) /\ tx_state' \in TxState
              /\ tx_frame' \in Frame \cup {Blank} /\ tx_bit_count' \in Nat
  <2>1. CASE is_empty(tx_queue)
    <3>1. FlagCount(config.txtail) \in Nat \ {0}
      BY FlagCountPositive DEF TncConfig
    <3>. QED
      BY <1>10, <2>1, <3>1, EngineAssumption DEF BeginFrameTx, Flags, TxState
  <2>2. CASE ~is_empty(tx_queue)
    <3>1. front(tx_queue) \in Frame \cup {Blank}
      BY DEF front, TxQueueOf
    <3>2. dequeue(tx_queue) \in TxQueueOf(Frame)
      BY <2>2, DequeueTakesHead
    <3>3. /\ tx_frame' = front(tx_queue) /\ tx_queue' = dequeue(tx_queue)
          /\ tx_bit_count' \in FrameBits /\ tx_state' = Transmitting(0)
      BY <1>10, <2>2 DEF BeginFrameTx
    <3>4. tx_state' \in TxState
      BY <3>3 DEF Transmitting, TxState
    <3>. QED
      BY <3>1, <3>2, <3>3, <3>4, EngineAssumption
  <2>. QED
    BY <2>1, <2>2
<1>11. CASE EndPreamble
  BY <1>10, <1>11 DEF EndPreamble, clockVars
<1>12. CASE EndTail
  <2>1. CASE is_empty(tx_queue)
    <3>1. Release /\ room' = room - 1 /\ room > 0
          /\ UNCHANGED <<config, clockVars, given, sent, owed>>
      BY <1>12, <2>1 DEF EndTail
    <3>2. tx_state' \in TxState
      BY <3>1 DEF Release, Idle, TxState
    <3>3. room' \in Nat
      BY <3>1
    <3>5. ptt' \in BOOLEAN
      BY <3>1 DEF Release
    <3>4. /\ UNCHANGED <<tx_queue, tx_frame, tx_bit_count>>
          /\ UNCHANGED <<config, now, gap, given, sent, owed>>
      BY <3>1 DEF Release, clockVars
    <3>. QED
      BY <3>2, <3>3, <3>4, <3>5
  <2>2. CASE ~is_empty(tx_queue)
    BY <1>10, <1>12, <2>2 DEF EndTail, clockVars
  <2>. QED
    BY <2>1, <2>2
<1>13. CASE SendBit
  BY <1>13 DEF SendBit, In, Transmitting, TxState, clockVars, historyVars
<1>14. CASE EndFrame
  <2>1. FlagCount(config.txtail) \in Nat \ {0}
    BY FlagCountPositive DEF TncConfig
  <2>2. tx_state' \in TxState
    BY <1>14, <2>1, EngineAssumption DEF EndFrame, Flags, TxState
  <2>. QED
    BY <1>14, <2>2 DEF EndFrame, clockVars
<1>15. CASE UNCHANGED vars
  BY <1>15 DEF vars, engineVars, clockVars, historyVars
<1>. QED
  BY <1>1, <1>2, <1>3, <1>4, <1>5, <1>6, <1>7, <1>8, <1>9, <1>11, <1>12, <1>13,
     <1>14, <1>15
  DEF Next, FeedKiss, LoopStep

\* The engine's state is well typed: for every queue size, clock width, frame
\* size and parameter the host can set.
THEOREM TypeCorrect == Spec => []TypeOK
  BY InitTypeOK, StepTypeOK, PTL DEF Spec

-----------------------------------------------------------------------------
(* The inductive invariant, one conjunct at a time. *)

LEMMA StepPtt == IInv /\ [Next]_vars => PttMatchesState'
<1>. SUFFICES ASSUME IInv, [Next]_vars PROVE PttMatchesState'
  OBVIOUS
<1>. USE DEF IInv, PttMatchesState, Keyed, In
<1>1. CASE UNCHANGED <<tx_state, ptt>>
  BY <1>1
<1>2. CASE Tick
  BY <1>1, <1>2 DEF Tick, engineVars
<1>3. CASE FeedKiss
  BY <1>1, <1>3 DEF FeedKiss, DataFrame, SetParam, SetFullDuplex, SetConfig
<1>4. ASSUME NEW n \in Rooms, PollTx(n) PROVE PttMatchesState'
  BY <1>1, <1>4 DEF PollTx
<1>5. CASE IdleArm
  BY <1>5 DEF IdleArm, Return, Goto, WaitCsma
<1>6. CASE WaitCsmaArm
  <2>1. ASSUME NEW busy \in BOOLEAN, WaitBusy(busy) PROVE PttMatchesState'
    BY <1>1, <2>1 DEF WaitBusy, Return
  <2>2. ASSUME NEW busy \in BOOLEAN, NEW r \in Draws, WinSlot(busy, r)
        PROVE PttMatchesState'
    BY <2>2 DEF WinSlot, Flags
  <2>3. ASSUME NEW busy \in BOOLEAN, NEW r \in Draws, LoseSlot(busy, r)
        PROVE PttMatchesState'
    BY <2>3 DEF LoseSlot, SlotWait
  <2>. QED
    BY <1>6, <2>1, <2>2, <2>3 DEF WaitCsmaArm
<1>7. CASE SlotWaitArm
  BY <1>7 DEF SlotWaitArm, Return, Goto, WaitCsma
<1>8. CASE FlagBit
  BY <1>8 DEF FlagBit, Flags
<1>9. ASSUME NEW log, BeginFrameTx(log) PROVE tx_state'.st \in Keyed
  BY <1>9 DEF BeginFrameTx, Flags, Transmitting
<1>10. CASE EndPreamble
  BY <1>9, <1>10 DEF EndPreamble
<1>11. CASE EndTail
  <2>1. CASE is_empty(tx_queue)
    <3>1. ptt' = FALSE /\ tx_state' = Idle
      BY <1>11, <2>1 DEF EndTail, Release
    <3>. QED
      BY <3>1 DEF Idle
  <2>2. CASE ~is_empty(tx_queue)
    <3>1. tx_state'.st \in Keyed /\ UNCHANGED ptt
      BY <1>9, <1>11, <2>2 DEF EndTail
    <3>2. ptt
      BY <1>11 DEF EndTail
    <3>. QED
      BY <3>1, <3>2
  <2>. QED
    BY <2>1, <2>2
<1>12. CASE SendBit
  BY <1>12 DEF SendBit, Transmitting
<1>13. CASE EndFrame
  BY <1>13 DEF EndFrame, Flags
<1>14. CASE UNCHANGED vars
  BY <1>1, <1>14 DEF vars, engineVars
<1>. QED
  BY <1>2, <1>3, <1>4, <1>5, <1>6, <1>7, <1>8, <1>10, <1>11, <1>12, <1>13, <1>14
  DEF Next, LoopStep

LEMMA StepWaiting == IInv /\ [Next]_vars => WaitingHasFrame'
<1>. SUFFICES ASSUME IInv, [Next]_vars PROVE WaitingHasFrame'
  OBVIOUS
<1>. USE DEF IInv, WaitingHasFrame, In
<1>1. CASE UNCHANGED <<tx_state, tx_queue>>
  BY <1>1
<1>2. CASE Tick
  BY <1>1, <1>2 DEF Tick, engineVars
<1>3. ASSUME NEW f \in HostFrame, DataFrame(f) PROVE WaitingHasFrame'
  <2>1. CASE is_full(tx_queue)
    BY <1>1, <1>3, <2>1 DEF DataFrame
  <2>2. CASE ~is_full(tx_queue)
    <3>1. tx_queue'.count = tx_queue.count + 1 /\ UNCHANGED tx_state
      BY <1>3, <2>2 DEF DataFrame, enqueue
    <3>2. tx_queue.count \in Nat
      BY DEF TypeOK, TxQueueOf
    <3>. QED
      BY <3>1, <3>2 DEF is_empty
  <2>. QED
    BY <2>1, <2>2
<1>4. ASSUME NEW newConfig, SetConfig(newConfig) PROVE WaitingHasFrame'
  BY <1>1, <1>4 DEF SetConfig
<1>5. ASSUME NEW n \in Rooms, PollTx(n) PROVE WaitingHasFrame'
  BY <1>1, <1>5 DEF PollTx
<1>6. CASE IdleArm
  <2>1. UNCHANGED tx_queue
    BY <1>6 DEF IdleArm, Return, Goto
  <2>. QED
    BY <1>1, <1>6, <2>1 DEF IdleArm, Return
<1>7. CASE WaitCsmaArm
  BY <1>7 DEF WaitCsmaArm, WaitBusy, Return, WinSlot, LoseSlot
<1>8. CASE SlotWaitArm
  BY <1>8 DEF SlotWaitArm, Return, Goto
<1>9. CASE FlagBit
  BY <1>9 DEF FlagBit, Flags
<1>10. ASSUME NEW log, BeginFrameTx(log)
       PROVE  tx_state'.st \in {"Transmitting", "TxTail"}
  BY <1>10 DEF BeginFrameTx, Flags, Transmitting
<1>11. CASE EndPreamble
  BY <1>10, <1>11 DEF EndPreamble
<1>12. CASE EndTail
  BY <1>10, <1>12 DEF EndTail, Release, Idle
<1>13. CASE SendBit
  BY <1>13 DEF SendBit, Transmitting
<1>14. CASE EndFrame
  BY <1>14 DEF EndFrame, Flags
<1>15. CASE UNCHANGED vars
  BY <1>1, <1>15 DEF vars, engineVars
<1>. QED
  BY <1>2, <1>3, <1>4, <1>5, <1>6, <1>7, <1>8, <1>9, <1>11, <1>12, <1>13, <1>14, <1>15
  DEF Next, FeedKiss, SetParam, SetFullDuplex, LoopStep

\* One tick brings the end of the lost slot one tick nearer.
LEMMA TickShift ==
    ASSUME NEW a \in Clock, NEW k \in Nat, 0 < k, k <= Half
    PROVE  (((a + 1) % ClockMod) + (k - 1)) % ClockMod = (a + k) % ClockMod
<1>1. /\ ClockMod \in Nat \ {0} /\ a \in 0 .. ClockMod - 1
      /\ k - 1 \in 0 .. ClockMod - 1
  BY ClockFacts DEF Clock
<1>2. (k - 1) + 1 = k
  OBVIOUS
<1>. QED
  BY <1>1, <1>2, NextLap

\* While a deadline lies at most half the clock's range ahead, the wrapping
\* comparison of poll_tx says that it has not expired.
LEMMA NotExpired ==
    ASSUME NEW a \in Clock, NEW k \in Nat, 0 < k, k <= Half
    PROVE  (a - ((a + k) % ClockMod)) % ClockMod >= Half
<1>1. /\ ClockMod \in Nat \ {0} /\ a \in 0 .. ClockMod - 1
      /\ k \in 0 .. ClockMod - 1 /\ ClockMod = 2 * Half /\ Half \in Nat \ {0}
  BY ClockFacts DEF Clock
<1>2. CASE a + k < ClockMod
  <2>1. (a + k) % ClockMod = a + k
    BY <1>1, <1>2
  <2>2. (a - (a + k)) % ClockMod = ClockMod - k
    BY <1>1
  <2>. QED
    BY <1>1, <2>1, <2>2
<1>3. CASE a + k >= ClockMod
  <2>1. (a + k) % ClockMod = a + k - ClockMod
    BY <1>1, <1>3
  <2>2. (a - (a + k - ClockMod)) % ClockMod = ClockMod - k
    BY <1>1
  <2>. QED
    BY <1>1, <2>1, <2>2
<1>. QED
  BY <1>1, <1>2, <1>3

SlotInv == NoEarlyRedraw /\ SlotOwed /\ config.slottime \in SlotTimes

LEMMA StepSlot == IInv /\ [Next]_vars => SlotInv'
<1>. SUFFICES ASSUME IInv, [Next]_vars PROVE SlotInv'
  OBVIOUS
<1>. USE DEF IInv, SlotInv, NoEarlyRedraw, SlotOwed, In
<1>0. SlotTimes' = SlotTimes /\ Half' = Half
  BY DEF SlotTimes, Half
<1>1. CASE UNCHANGED <<tx_state, owed, now, config>>
  BY <1>0, <1>1
<1>2. CASE Tick
  <2>1. UNCHANGED <<tx_state, config>>
    BY <1>2 DEF Tick, engineVars
  <2>2. CASE owed = 0
    BY <1>0, <1>2, <2>1, <2>2 DEF Tick
  <2>3. CASE owed > 0
    <3>1. owed \in Nat /\ now \in Clock /\ owed <= Half
      BY <2>3 DEF TypeOK
    <3>2. owed' = owed - 1 /\ now' = (now + 1) % ClockMod
      BY <1>2, <2>3 DEF Tick
    <3>3. (now' + owed') % ClockMod = (now + owed) % ClockMod
      BY <2>3, <3>1, <3>2, TickShift
    <3>4. owed' <= Half
      BY <3>1, <3>2, ClockFacts
    <3>. QED
      BY <1>0, <2>1, <2>3, <3>3, <3>4
  <2>. QED
    BY <2>2, <2>3 DEF TypeOK
<1>3. ASSUME NEW f \in HostFrame, DataFrame(f) PROVE SlotInv'
  BY <1>1, <1>3 DEF DataFrame, clockVars
<1>4. ASSUME NEW p \in Settable \cap Params, NEW b \in Bytes, SetParam(p, b)
      PROVE SlotInv'
  <2>1. config'.slottime \in SlotTimes
    BY <1>4 DEF SetParam, SetConfig, SlotTimes, TypeOK, TncConfig, Params
  <2>. QED
    BY <1>0, <1>4, <2>1 DEF SetParam, SetConfig, clockVars, historyVars
<1>5. ASSUME NEW b \in Bytes, SetFullDuplex(b) PROVE SlotInv'
  <2>1. config'.slottime \in SlotTimes
    BY <1>5 DEF SetFullDuplex, SetConfig, TypeOK, TncConfig
  <2>. QED
    BY <1>0, <1>5, <2>1 DEF SetFullDuplex, SetConfig, clockVars, historyVars
<1>6. ASSUME NEW n \in Rooms, PollTx(n) PROVE SlotInv'
  BY <1>1, <1>6 DEF PollTx, historyVars
<1>7. ASSUME ~In("SlotWait"), UNCHANGED <<owed, config>> PROVE SlotInv'
  <2>1. owed = 0
    BY <1>7 DEF TypeOK
  <2>. QED
    BY <1>0, <1>7, <2>1
<1>8. CASE IdleArm
  BY <1>7, <1>8 DEF IdleArm, Return, Goto, historyVars
<1>9. CASE WaitCsmaArm
  <2>1. ASSUME NEW busy \in BOOLEAN, WaitBusy(busy) PROVE SlotInv'
    BY <1>7, <2>1 DEF WaitBusy, Return, historyVars
  <2>2. ASSUME NEW busy \in BOOLEAN, NEW r \in Draws, WinSlot(busy, r)
        PROVE SlotInv'
    BY <1>7, <2>2 DEF WinSlot
  <2>3. ASSUME NEW busy \in BOOLEAN, NEW r \in Draws, LoseSlot(busy, r)
        PROVE SlotInv'
    <3>1. /\ tx_state' = SlotWait((now + config.slottime * SlotUnit) % ClockMod)
          /\ owed' = config.slottime * SlotUnit
          /\ UNCHANGED <<now, config>>
      BY <2>3 DEF LoseSlot, clockVars
    <3>2. config.slottime * SlotUnit <= Half
      BY SlotAssumption DEF SlotTimes
    <3>. QED
      BY <1>0, <3>1, <3>2 DEF SlotWait
  <2>. QED
    BY <1>9, <2>1, <2>2, <2>3 DEF WaitCsmaArm
<1>10. CASE SlotWaitArm
  <2>1. CASE SlotExpired(tx_state.next_check_ms)
    <3>1. owed = 0
      <4>1. SUFFICES ASSUME owed > 0 PROVE FALSE
        BY DEF TypeOK
      <4>2. now \in Clock /\ owed \in Nat
        BY DEF TypeOK
      <4>3. owed <= Half /\ tx_state.next_check_ms = (now + owed) % ClockMod
        BY <4>1
      <4>4. (now - ((now + owed) % ClockMod)) % ClockMod >= Half
        BY <4>1, <4>2, <4>3, NotExpired
      <4>5. (now - ((now + owed) % ClockMod)) % ClockMod < Half
        BY <2>1, <4>3 DEF SlotExpired
      <4>6. (now - ((now + owed) % ClockMod)) % ClockMod \in Int /\ Half \in Int
        BY <4>2, ClockFacts DEF Clock
      <4>. QED
        BY <4>4, <4>5, <4>6
    <3>2. UNCHANGED <<owed, config>>
      BY <1>10, <2>1 DEF SlotWaitArm, Goto, historyVars
    <3>. QED
      BY <1>0, <3>1, <3>2
  <2>2. CASE ~SlotExpired(tx_state.next_check_ms)
    BY <1>1, <1>10, <2>2 DEF SlotWaitArm, Return, clockVars, historyVars
  <2>. QED
    BY <2>1, <2>2
<1>11. CASE FlagBit
  BY <1>7, <1>11 DEF FlagBit
<1>12. CASE EndPreamble
  BY <1>7, <1>12 DEF EndPreamble
<1>13. CASE EndTail
  BY <1>7, <1>13 DEF EndTail
<1>14. CASE SendBit
  BY <1>7, <1>14 DEF SendBit, historyVars
<1>15. CASE EndFrame
  BY <1>7, <1>15 DEF EndFrame
<1>16. CASE UNCHANGED vars
  BY <1>1, <1>16 DEF vars, engineVars, clockVars, historyVars
<1>. QED
  BY <1>2, <1>3, <1>4, <1>5, <1>6, <1>8, <1>9, <1>10, <1>11, <1>12, <1>13,
     <1>14, <1>15, <1>16
  DEF Next, FeedKiss, LoopStep

-----------------------------------------------------------------------------
LEMMA InitIInv == Init => IInv
<1>. SUFFICES ASSUME Init PROVE IInv
  OBVIOUS
<1>1. TypeOK
  BY InitTypeOK
<1>2. PttMatchesState
  BY DEF Init, PttMatchesState, Keyed, Idle
<1>3. WaitingHasFrame
  BY DEF Init, WaitingHasFrame, Idle
<1>4. NoEarlyRedraw /\ SlotOwed
  BY DEF Init, NoEarlyRedraw, SlotOwed
<1>5. config.slottime \in SlotTimes
  BY DEF Init, SlotTimes
<1>. QED
  BY <1>1, <1>2, <1>3, <1>4, <1>5 DEF IInv

LEMMA StepIInv == IInv /\ [Next]_vars => IInv'
  BY StepTypeOK, StepPtt, StepWaiting, StepSlot DEF IInv, SlotInv

LEMMA Invariance == Spec => []IInv
  BY InitIInv, StepIInv, PTL DEF Spec

\* PTT is on exactly while symbols are put on the air.
THEOREM PttCorrect == Spec => []PttMatchesState
<1>1. IInv => PttMatchesState
  BY DEF IInv
<1>. QED
  BY <1>1, Invariance, PTL

\* The engine only waits for the channel, or keys up, when it has a frame.
THEOREM NeverKeysForNothing == Spec => []WaitingHasFrame
<1>1. IInv => WaitingHasFrame
  BY DEF IInv
<1>. QED
  BY <1>1, Invariance, PTL

\* A lost draw costs a whole slot, for every clock width and slot time that
\* satisfy SlotAssumption and however the clock wraps.
THEOREM SlotRespected == Spec => []NoEarlyRedraw
<1>1. IInv => NoEarlyRedraw
  BY DEF IInv
<1>. QED
  BY <1>1, Invariance, PTL

-----------------------------------------------------------------------------
(* The refinement of TxService. *)

LEMMA InitService == Init => Service!Init
<1>. SUFFICES ASSUME Init PROVE Service!Init
  OBVIOUS
<1>1. Contents(tx_queue) = << >>
  BY NewQueueIsEmpty DEF Init
<1>2. ~In("Transmitting")
  BY DEF Init, In, Idle
<1>. QED
  BY <1>1, <1>2 DEF Service!Init, Pending, Init

LEMMA LenConcat ==
    ASSUME NEW S, NEW s \in Seq(S), NEW t \in Seq(S)
    PROVE  Len(s \o t) = Len(s) + Len(t) /\ Len(s) \in Nat /\ Len(t) \in Nat
  OBVIOUS

\* Dequeueing the frame that goes on the air moves it to the front of what
\* the engine holds, and nothing else.
LEMMA BeginKeepsPending ==
    ASSUME IInv, ~In("Transmitting"), NEW log, BeginFrameTx(log)
    PROVE  Pending' = Pending
<1>1. CASE is_empty(tx_queue)
  BY <1>1 DEF BeginFrameTx, Pending, In, Flags
<1>2. CASE ~is_empty(tx_queue)
  <2>1. /\ tx_frame' = front(tx_queue) /\ tx_queue' = dequeue(tx_queue)
        /\ tx_state' = Transmitting(0)
    BY <1>2 DEF BeginFrameTx
  <2>2. /\ front(tx_queue) = Head(Contents(tx_queue))
        /\ Contents(dequeue(tx_queue)) = Tail(Contents(tx_queue))
    BY <1>2, DequeueTakesHead DEF IInv, TypeOK
  <2>3. /\ Contents(tx_queue) \in Seq(Frame \cup {Blank})
        /\ Contents(tx_queue) # << >>
    BY <1>2, ContentsLen DEF IInv, TypeOK
  <2>4. <<Head(Contents(tx_queue))>> \o Tail(Contents(tx_queue)) = Contents(tx_queue)
    BY <2>3
  <2>5. Pending' = <<tx_frame'>> \o Contents(tx_queue')
    BY <2>1 DEF Pending, In, Transmitting
  <2>6. Pending = << >> \o Contents(tx_queue)
    BY DEF Pending
  <2>7. << >> \o Contents(tx_queue) = Contents(tx_queue)
    BY <2>3
  <2>8. tx_frame' = Head(Contents(tx_queue)) /\ Contents(tx_queue') = Tail(Contents(tx_queue))
    BY <2>1, <2>2, Zenon
  <2>. QED
    BY <2>4, <2>5, <2>6, <2>7, <2>8, Zenon
<1>. QED
  BY <1>1, <1>2

LEMMA StepService == IInv /\ [Next]_vars => [Service!Next]_(Service!vars)
<1>. SUFFICES ASSUME IInv, [Next]_vars PROVE [Service!Next]_(Service!vars)
  OBVIOUS
<1>. DEFINE C == Contents(tx_queue)
<1>0. C \in Seq(Frame \cup {Blank}) /\ Len(C) = tx_queue.count /\ tx_queue.count \in Nat
  <2>1. tx_queue \in TxQueueOf(Frame)
    BY DEF IInv, TypeOK
  <2>2. C \in Seq(Frame \cup {Blank}) /\ Len(C) = tx_queue.count
    BY <2>1, ContentsLen
  <2>3. tx_queue.count \in 0 .. TX_QUEUE_SIZE
    BY <2>1 DEF TxQueueOf
  <2>. QED
    BY <2>2, <2>3
<1>1. ASSUME UNCHANGED <<tx_state, tx_frame, tx_queue, sent>>
      PROVE  UNCHANGED Service!vars
  BY <1>1 DEF Service!vars, Pending, In
<1>2. ASSUME UNCHANGED <<tx_queue, sent>>, ~In("Transmitting"), ~In("Transmitting")'
      PROVE  UNCHANGED Service!vars
  BY <1>2 DEF Service!vars, Pending, In
<1>3. CASE Tick
  BY <1>1, <1>3 DEF Tick, engineVars
<1>4. ASSUME NEW f \in HostFrame, DataFrame(f) PROVE [Service!Next]_(Service!vars)
  <2>1. CASE is_full(tx_queue)
    BY <1>1, <1>4, <2>1 DEF DataFrame
  <2>2. CASE ~is_full(tx_queue)
    <3>. DEFINE inflight == IF In("Transmitting") THEN <<tx_frame>> ELSE << >>
    <3>1. Contents(tx_queue') = Append(C, Cut(f)) /\ Cut(f) \in Frame
      BY <1>4, <2>2, CutIsFrame, EnqueueAppends DEF DataFrame, IInv, TypeOK
    <3>2. inflight \in Seq(Frame \cup {Blank}) /\ Len(inflight) \in {0, 1}
      <4>1. tx_frame \in Frame \cup {Blank}
        BY DEF IInv, TypeOK
      <4>2. CASE In("Transmitting")
        <5>1. inflight = <<tx_frame>>
          BY <4>2, Zenon
        <5>. HIDE DEF inflight
        <5>. QED
          BY <4>1, <5>1
      <4>3. CASE ~In("Transmitting")
        <5>1. inflight = << >>
          BY <4>3, Zenon
        <5>. HIDE DEF inflight
        <5>. QED
          BY <5>1
      <4>. QED
        BY <4>2, <4>3, Zenon
    <3>3. Pending = inflight \o C /\ Pending' = inflight \o Contents(tx_queue')
      BY <1>4 DEF Pending, DataFrame, In
    <3>. HIDE DEF inflight, C
    <3>4. Pending' = Append(Pending, Cut(f))
      BY <1>0, <3>1, <3>2, <3>3
    <3>5. Len(Pending) < TX_QUEUE_SIZE + 1
      <4>1. Len(Pending) = Len(inflight) + Len(C)
        <5>1. Len(inflight \o C) = Len(inflight) + Len(C)
          BY <1>0, <3>2, LenConcat
        <5>. QED
          BY <3>3, <5>1, Zenon
      <4>2. ~(tx_queue.count >= TX_QUEUE_SIZE) /\ TX_QUEUE_SIZE \in Nat
        BY <2>2, QueueSizeAssumption DEF is_full
      <4>. QED
        <5>. HIDE DEF Pending
        <5>1. Len(C) = tx_queue.count /\ tx_queue.count \in Nat
          BY <1>0, Zenon
        <5>2. Len(inflight) = 0 \/ Len(inflight) = 1
          BY <3>2, Zenon
        <5>3. tx_queue.count < TX_QUEUE_SIZE
          BY <4>2, <5>1
        <5>4. Len(Pending) = Len(inflight) + tx_queue.count
          BY <4>1, <5>1, Zenon
        <5>5. Len(inflight) + tx_queue.count < TX_QUEUE_SIZE + 1
          <6>. DEFINE k == Len(inflight)
                      n == tx_queue.count
          <6>. HIDE DEF k, n
          <6>1. (k = 0 \/ k = 1) /\ n \in Nat /\ n < TX_QUEUE_SIZE /\ TX_QUEUE_SIZE \in Nat
            BY <4>2, <5>1, <5>2, <5>3, Zenon DEF k, n
          <6>2. k + n < TX_QUEUE_SIZE + 1
            BY <6>1
          <6>. QED
            BY <6>2, Zenon DEF k, n
        <5>. QED
          BY <5>4, <5>5, Zenon
    <3>6. Service!Accept(Cut(f))
      BY <1>4, <3>4, <3>5 DEF Service!Accept, DataFrame
    <3>. QED
      BY <3>1, <3>6 DEF Service!Next
  <2>. QED
    BY <2>1, <2>2
<1>5. ASSUME NEW newConfig, SetConfig(newConfig) PROVE UNCHANGED Service!vars
  BY <1>1, <1>5 DEF SetConfig, historyVars
<1>6. ASSUME NEW n \in Rooms, PollTx(n) PROVE UNCHANGED Service!vars
  BY <1>1, <1>6 DEF PollTx, historyVars
<1>7. CASE IdleArm
  BY <1>2, <1>7 DEF IdleArm, Return, Goto, In, WaitCsma, historyVars
<1>8. CASE WaitCsmaArm
  <2>1. UNCHANGED <<tx_queue, sent>> /\ ~In("Transmitting")
    BY <1>8 DEF WaitCsmaArm, WaitBusy, WinSlot, LoseSlot, Return, In, historyVars
  <2>2. ~In("Transmitting")'
    BY <1>8 DEF WaitCsmaArm, WaitBusy, WinSlot, LoseSlot, Return, In, Flags, SlotWait
  <2>. QED
    BY <1>2, <2>1, <2>2
<1>9. CASE SlotWaitArm
  BY <1>2, <1>9 DEF SlotWaitArm, Return, Goto, In, WaitCsma, historyVars
<1>10. CASE FlagBit
  BY <1>2, <1>10 DEF FlagBit, In, Flags
<1>11. CASE EndPreamble
  BY <1>11, BeginKeepsPending DEF EndPreamble, In, Service!vars
<1>12. CASE EndTail
  <2>1. CASE is_empty(tx_queue)
    BY <1>2, <1>12, <2>1 DEF EndTail, Release, In, Idle
  <2>2. CASE ~is_empty(tx_queue)
    BY <1>12, <2>2, BeginKeepsPending DEF EndTail, In, Service!vars
  <2>. QED
    BY <2>1, <2>2
<1>13. CASE SendBit
  <2>1. UNCHANGED <<tx_queue, tx_frame, sent>> /\ In("Transmitting") /\ In("Transmitting")'
    BY <1>13 DEF SendBit, In, Transmitting, historyVars
  <2>. QED
    BY <2>1 DEF Service!vars, Pending
<1>14. CASE EndFrame
  <2>1. /\ In("Transmitting") /\ ~In("Transmitting")'
        /\ sent' = Append(sent, tx_frame) /\ UNCHANGED tx_queue
    BY <1>14 DEF EndFrame, In, Flags
  <2>2. Pending = <<tx_frame>> \o C /\ Pending' = << >> \o C
    BY <2>1 DEF Pending
  <2>. HIDE DEF C
  <2>3. Pending # << >> /\ Head(Pending) = tx_frame /\ Tail(Pending) = C /\ Pending' = C
    BY <1>0, <2>2
  <2>4. Service!Transmit
    BY <2>1, <2>3 DEF Service!Transmit
  <2>. QED
    BY <2>4 DEF Service!Next
<1>15. CASE UNCHANGED vars
  BY <1>1, <1>15 DEF vars, engineVars, historyVars
<1>. QED
  BY <1>3, <1>4, <1>5, <1>6, <1>7, <1>8, <1>9, <1>10, <1>11, <1>12, <1>13,
     <1>14, <1>15
  DEF Next, FeedKiss, SetParam, SetFullDuplex, LoopStep

\* The engine sends the frames it accepts once each and in the order of
\* acceptance, and holds at most one more than its queue has slots.
THEOREM EngineIsFifo == Spec => ImplementsFifo
  BY InitService, Invariance, StepService, PTL DEF Spec, ImplementsFifo, Service!Spec

-----------------------------------------------------------------------------
(* What is on the air is well formed. *)

\* The elements of the air log.
Element ==
    [kind : {"key"}, flags : Nat] \cup {Flag, Unkey}
      \cup [kind : {"frame"}, frame : Frame \cup {Blank}, flags : Nat]
WithFlags == {"key", "frame"}

\* NextEvent and what LineWellFormed says of it, as relations of any log: flags
\* from position i up to j, as many as i asks for.
FlagsUpTo(s, i, j) ==
    /\ j \in i + 1 .. Len(s) + 1
    /\ j <= Len(s) => s[j] # Flag
    /\ \A k \in i + 1 .. j - 1 : s[k] = Flag
Counted(s, i, j) ==
    IF j <= Len(s)
    THEN j - i - 1 = s[i].flags /\ (i = 1 => s[j].kind = "frame")
    ELSE j - i - 1 <= s[i].flags
Delimited(s, i) ==
    s[i].kind \in WithFlags => \E j \in Nat : FlagsUpTo(s, i, j) /\ Counted(s, i, j)

\* The last event of a log whose transmission goes on, and where the state
\* machine is after it.
LastEvent(s, p) ==
    /\ p \in 1 .. Len(s) /\ s[p].kind \in WithFlags
    /\ \A k \in p + 1 .. Len(s) : s[k] = Flag
Counting(p) ==
    /\ tx_state.flags_sent < tx_state.flags_total
    /\ line[p].flags = tx_state.flags_total
    /\ Len(line) - p = tx_state.flags_sent
Follows(p) ==
    /\ In("TxDelay") => p = 1 /\ Counting(p)
    /\ In("TxTail") => line[p].kind = "frame" /\ Counting(p)
    /\ In("Transmitting") => Len(line) - p = line[p].flags

WellKeyed(s) ==
    /\ s # << >> => s[1].kind = "key"
    /\ \A i \in 1 .. Len(s) : s[i].kind = "key" => i = 1
    /\ \A i \in 1 .. Len(s) : Delimited(s, i)
AirInv ==
    /\ line \in Seq(Element)
    /\ WellKeyed(line)
    /\ \A i \in 1 .. Len(line) : line[i].kind = "unkey" => i = Len(line)
    /\ ptt => \E p \in 1 .. Len(line) : LastEvent(line, p) /\ Follows(p)
    /\ ~ptt => line = << >> \/ line[Len(line)] = Unkey

\* Only one position follows the flags of another.
LEMMA NextEventIs ==
    ASSUME NEW i \in Nat, NEW j \in Nat, line \in Seq(Element), FlagsUpTo(line, i, j)
    PROVE  NextEvent(i) = j
<1>. DEFINE P(n) == (n <= Len(line) => line[n] # Flag) /\ \A k \in i + 1 .. n - 1 : line[k] = Flag
<1>1. j \in i + 1 .. Len(line) + 1 /\ P(j)
  BY DEF FlagsUpTo
<1>2. ASSUME NEW n \in i + 1 .. Len(line) + 1, P(n) PROVE n = j
  <2>1. ~(n < j)
    BY <1>1, <1>2
  <2>2. ~(j < n)
    BY <1>1, <1>2
  <2>. QED
    BY <2>1, <2>2
<1>3. NextEvent(i) = CHOOSE n \in i + 1 .. Len(line) + 1 : P(n)
  BY DEF NextEvent
<1>. HIDE DEF P
<1>. QED
  BY <1>1, <1>2, <1>3

LEMMA Kinds ==
    /\ Flag.kind = "flag" /\ Unkey.kind = "unkey" /\ Flag # Unkey
    /\ Flag \in Element /\ Unkey \in Element
    /\ \A e \in Element : e.kind \in WithFlags => e # Flag /\ e # Unkey /\ e.flags \in Nat
    /\ \A e \in Element : e.kind \in WithFlags \cup {"flag", "unkey"}
    /\ \A e \in Element : (e.kind = "flag" => e = Flag) /\ (e.kind = "unkey" => e = Unkey)
  BY DEF Flag, Unkey, Element, WithFlags

\* A log that goes on leaves what was complete as it was: only the last event
\* has to be looked at again.
LEMMA GoesOn ==
    ASSUME NEW s \in Seq(Element), NEW t \in Seq(Element), NEW p \in 1 .. Len(s),
           LastEvent(s, p), Len(t) >= Len(s), \A k \in 1 .. Len(s) : t[k] = s[k],
           \A i \in 1 .. Len(s) : Delimited(s, i), Delimited(t, p)
    PROVE  \A i \in 1 .. Len(s) : Delimited(t, i)
<1>. SUFFICES ASSUME NEW i \in 1 .. Len(s), s[i].kind \in WithFlags, i # p
              PROVE  \E j \in Nat : FlagsUpTo(t, i, j) /\ Counted(t, i, j)
  BY DEF Delimited
<1>1. s[i] # Flag /\ s[p] # Flag
  BY Kinds DEF LastEvent
<1>2. i < p
  BY <1>1 DEF LastEvent
<1>3. PICK j \in Nat : FlagsUpTo(s, i, j) /\ Counted(s, i, j)
  BY DEF Delimited
<1>4. j <= p
  BY <1>1, <1>2, <1>3 DEF FlagsUpTo
<1>5. FlagsUpTo(t, i, j)
  <2>1. /\ j \in i + 1 .. Len(s) + 1 /\ s[j] # Flag /\ \A k \in i + 1 .. j - 1 : s[k] = Flag
        /\ j \in 1 .. Len(s) /\ i \in Nat
    BY <1>3, <1>4 DEF FlagsUpTo
  <2>2. j \in i + 1 .. Len(t) + 1 /\ t[j] # Flag
    BY <2>1
  <2>3. \A k \in i + 1 .. j - 1 : t[k] = Flag
    BY <2>1
  <2>. QED
    BY <2>2, <2>3 DEF FlagsUpTo
<1>6. Counted(t, i, j)
  BY <1>3, <1>4 DEF Counted, FlagsUpTo
<1>. QED
  BY <1>5, <1>6

\* One more flag, as long as the last event still asks for some.
LEMMA AppendFlag ==
    ASSUME NEW s \in Seq(Element), NEW p \in 1 .. Len(s), LastEvent(s, p), WellKeyed(s),
           Len(s) - p < s[p].flags
    PROVE  /\ Append(s, Flag) \in Seq(Element)
           /\ WellKeyed(Append(s, Flag)) /\ LastEvent(Append(s, Flag), p)
           /\ Len(Append(s, Flag)) = Len(s) + 1 /\ Append(s, Flag)[p] = s[p]
<1>. DEFINE t == Append(s, Flag)
<1>1. /\ t \in Seq(Element) /\ Len(t) = Len(s) + 1 /\ Len(s) \in Nat /\ t[Len(t)] = Flag
      /\ \A k \in 1 .. Len(s) : t[k] = s[k]
  BY Kinds
<1>. HIDE DEF t
<1>2. LastEvent(t, p)
  BY <1>1 DEF LastEvent
<1>3. Delimited(t, p)
  <2>1. FlagsUpTo(t, p, Len(t) + 1)
    BY <1>1, <1>2 DEF FlagsUpTo, LastEvent
  <2>2. Counted(t, p, Len(t) + 1)
    <3>1. s[p].flags \in Nat
      BY Kinds DEF LastEvent
    <3>. QED
      BY <1>1, <3>1 DEF Counted
  <2>. QED
    BY <1>1, <2>1, <2>2 DEF Delimited
<1>4. \A i \in 1 .. Len(s) : Delimited(t, i)
  BY <1>1, <1>3, GoesOn DEF WellKeyed
<1>5. Delimited(t, Len(t))
  BY <1>1, Kinds DEF Delimited, WithFlags
<1>6. WellKeyed(t)
  <2>1. t[1].kind = "key"
    BY <1>1 DEF WellKeyed
  <2>2. ASSUME NEW i \in 1 .. Len(t), t[i].kind = "key" PROVE i = 1
    <3>1. i # Len(t)
      BY <1>1, <2>2, Kinds
    <3>2. i \in 1 .. Len(s)
      BY <1>1, <3>1
    <3>. QED
      BY <1>1, <2>2, <3>2 DEF WellKeyed
  <2>3. \A i \in 1 .. Len(t) : Delimited(t, i)
    BY <1>1, <1>4, <1>5
  <2>. QED
    BY <2>1, <2>2, <2>3 DEF WellKeyed
<1>. QED
  BY <1>1, <1>2, <1>6 DEF t

\* A frame, when the last event has got all of its flags.
LEMMA AppendFrame ==
    ASSUME NEW s \in Seq(Element), NEW p \in 1 .. Len(s), LastEvent(s, p), WellKeyed(s),
           Len(s) - p = s[p].flags, NEW f \in Frame \cup {Blank}, NEW n \in Nat
    PROVE  LET t == Append(s, Sent(f, n))
           IN /\ t \in Seq(Element) /\ WellKeyed(t) /\ LastEvent(t, Len(t))
              /\ Len(t) = Len(s) + 1 /\ t[Len(t)] = Sent(f, n)
<1>. DEFINE t == Append(s, Sent(f, n))
<1>1. Sent(f, n) \in Element /\ Sent(f, n).kind = "frame" /\ Sent(f, n).flags = n
  BY DEF Sent, Element
<1>2. /\ t \in Seq(Element) /\ Len(t) = Len(s) + 1 /\ Len(s) \in Nat
      /\ t[Len(t)] = Sent(f, n) /\ \A k \in 1 .. Len(s) : t[k] = s[k]
  BY <1>1
<1>. HIDE DEF t
<1>3. LastEvent(t, Len(t))
  BY <1>1, <1>2 DEF LastEvent, WithFlags
<1>4. Delimited(t, p)
  <2>1. FlagsUpTo(t, p, Len(t))
    <3>1. t[Len(t)] # Flag
      BY <1>1, <1>2, Kinds
    <3>2. Len(t) \in p + 1 .. Len(t) + 1
      BY <1>2
    <3>3. \A k \in p + 1 .. Len(t) - 1 : t[k] = Flag
      BY <1>2 DEF LastEvent
    <3>. QED
      BY <3>1, <3>2, <3>3 DEF FlagsUpTo
  <2>2. Counted(t, p, Len(t))
    <3>1. Len(t) - p - 1 = t[p].flags /\ t[Len(t)].kind = "frame"
      <4>1. s[p].flags \in Nat /\ t[p] = s[p]
        BY <1>2, Kinds DEF LastEvent
      <4>. QED
        BY <1>1, <1>2, <4>1
    <3>. QED
      BY <1>2, <3>1 DEF Counted
  <2>. QED
    BY <1>2, <2>1, <2>2 DEF Delimited
<1>5. \A i \in 1 .. Len(s) : Delimited(t, i)
  <2>1. \A i \in 1 .. Len(s) : Delimited(s, i)
    BY DEF WellKeyed
  <2>2. Len(t) >= Len(s)
    BY <1>2
  <2>. QED
    BY <1>2, <1>4, <2>1, <2>2, GoesOn
<1>6. Delimited(t, Len(t))
  <2>1. FlagsUpTo(t, Len(t), Len(t) + 1) /\ Counted(t, Len(t), Len(t) + 1)
    BY <1>1, <1>2 DEF FlagsUpTo, Counted
  <2>. QED
    BY <1>2, <2>1 DEF Delimited
<1>7. WellKeyed(t)
  <2>1. \A i \in 1 .. Len(t) : i \in 1 .. Len(s) \/ i = Len(t)
    BY <1>2
  <2>2. 1 \in 1 .. Len(s) /\ s # << >> /\ t # << >>
    BY <1>2
  <2>3. t[1].kind = "key"
    BY <1>2, <2>2 DEF WellKeyed
  <2>4. \A i \in 1 .. Len(t) : t[i].kind = "key" => i = 1
    BY <1>1, <1>2, <2>1 DEF WellKeyed
  <2>5. \A i \in 1 .. Len(t) : Delimited(t, i)
    BY <1>5, <1>6, <2>1
  <2>. QED
    BY <2>3, <2>4, <2>5 DEF WellKeyed
<1>. QED
  BY <1>2, <1>3, <1>7 DEF t

\* The last flag and the end, after a frame.
LEMMA AppendEnd ==
    ASSUME NEW s \in Seq(Element), NEW p \in 1 .. Len(s), LastEvent(s, p), WellKeyed(s),
           s[p].kind = "frame", Len(s) - p + 1 = s[p].flags
    PROVE  LET t == s \o <<Flag, Unkey>>
           IN /\ t \in Seq(Element) /\ WellKeyed(t) /\ Len(t) = Len(s) + 2
              /\ t[Len(t)] = Unkey /\ t[Len(s) + 1] = Flag
              /\ \A k \in 1 .. Len(s) : t[k] = s[k]
<1>. DEFINE t == s \o <<Flag, Unkey>>
<1>1. /\ t \in Seq(Element) /\ Len(t) = Len(s) + 2 /\ Len(s) \in Nat
      /\ t[Len(t)] = Unkey /\ t[Len(s) + 1] = Flag /\ \A k \in 1 .. Len(s) : t[k] = s[k]
  BY Kinds
<1>. HIDE DEF t
<1>2. p # 1
  BY DEF WellKeyed
<1>3. Delimited(t, p)
  <2>1. \A k \in p + 1 .. Len(s) + 1 : t[k] = Flag
    <3>. SUFFICES ASSUME NEW k \in p + 1 .. Len(s) + 1 PROVE t[k] = Flag
      OBVIOUS
    <3>. k \in p + 1 .. Len(s) \/ k = Len(s) + 1
      BY <1>1
    <3>. QED
      BY <1>1 DEF LastEvent
  <2>3. FlagsUpTo(t, p, Len(t))
    <3>1. Len(t) \in p + 1 .. Len(t) + 1 /\ t[Len(t)] # Flag
      BY <1>1, Kinds
    <3>2. \A k \in p + 1 .. Len(t) - 1 : t[k] = Flag
      BY <1>1, <2>1
    <3>. QED
      BY <3>1, <3>2 DEF FlagsUpTo
  <2>2. Counted(t, p, Len(t))
    <3>1. s[p].flags \in Nat
      BY Kinds DEF LastEvent
    <3>. QED
      BY <1>1, <1>2, <3>1 DEF Counted
  <2>. QED
    BY <1>1, <2>3, <2>2 DEF Delimited
<1>4. \A i \in 1 .. Len(s) : Delimited(t, i)
  BY <1>1, <1>3, GoesOn DEF WellKeyed
<1>5. \A i \in Len(s) + 1 .. Len(t) : t[i] \in {Flag, Unkey}
  BY <1>1
<1>6. \A i \in Len(s) + 1 .. Len(t) : Delimited(t, i) /\ t[i].kind # "key"
  BY <1>5, Kinds DEF Delimited, WithFlags
<1>7. WellKeyed(t)
  <2>1. /\ \A i \in 1 .. Len(t) : i \in 1 .. Len(s) \/ i \in Len(s) + 1 .. Len(t)
        /\ 1 \in 1 .. Len(s) /\ s # << >>
    BY <1>1
  <2>2. t[1].kind = "key"
    BY <1>1, <2>1 DEF WellKeyed
  <2>3. \A i \in 1 .. Len(t) : t[i].kind = "key" => i = 1
    BY <1>1, <1>6, <2>1 DEF WellKeyed
  <2>4. \A i \in 1 .. Len(t) : Delimited(t, i)
    BY <1>4, <1>6, <2>1
  <2>. QED
    BY <2>2, <2>3, <2>4 DEF WellKeyed
<1>. QED
  BY <1>1, <1>7 DEF t

-----------------------------------------------------------------------------
LEMMA InitAir == Init => AirInv
  BY DEF Init, AirInv, WellKeyed

\* What AirInv is about.
LEMMA SameAir ==
    ASSUME AirInv, UNCHANGED <<line, ptt>>, ptt => UNCHANGED tx_state
    PROVE  AirInv'
<1>1. CASE ~ptt
  BY <1>1 DEF AirInv
<1>2. CASE ptt
  BY <1>2 DEF AirInv, Follows, Counting, In
<1>. QED
  BY <1>1, <1>2

\* While PTT is on, AirInv and what it says of the last event.
LEMMA Last ==
    ASSUME AirInv, ptt
    PROVE  /\ \E p \in 1 .. Len(line) : LastEvent(line, p) /\ Follows(p)
           /\ \A i \in 1 .. Len(line) : line[i].kind # "unkey"
           /\ line \in Seq(Element) /\ WellKeyed(line)
<1>1. PICK p \in 1 .. Len(line) : LastEvent(line, p)
  BY DEF AirInv
<1>2. line[Len(line)].kind # "unkey"
  BY <1>1, Kinds DEF LastEvent, AirInv, WithFlags
<1>. QED
  BY <1>2 DEF AirInv

LEMMA NoUnkey ==
    ASSUME NEW s \in Seq(Element), NEW e \in Element, e.kind # "unkey",
           \A i \in 1 .. Len(s) : s[i].kind # "unkey"
    PROVE  \A i \in 1 .. Len(Append(s, e)) : Append(s, e)[i].kind # "unkey"
<1>1. \A i \in 1 .. Len(s) : Append(s, e)[i] = s[i]
  OBVIOUS
<1>2. Append(s, e)[Len(s) + 1] = e /\ Len(Append(s, e)) = Len(s) + 1 /\ Len(s) \in Nat
  OBVIOUS
<1>. SUFFICES ASSUME NEW i \in 1 .. Len(s) + 1 PROVE Append(s, e)[i].kind # "unkey"
  BY <1>2
<1>3. i \in 1 .. Len(s) \/ i = Len(s) + 1
  BY <1>2
<1>. QED
  BY <1>1, <1>2, <1>3

\* While it goes on, AirInv again.
LEMMA GoingOn ==
    ASSUME line' \in Seq(Element), WellKeyed(line'), ptt',
           \A i \in 1 .. Len(line') : line'[i].kind # "unkey",
           NEW p \in 1 .. Len(line'), LastEvent(line', p), Follows(p)'
    PROVE  AirInv'
  BY DEF AirInv

\* The steps that put something on the air.
LEMMA KeysUp ==
    ASSUME AirInv, IInv, NEW busy, NEW r, WinSlot(busy, r)
    PROVE  AirInv'
<1>. DEFINE n == FlagCount(config.txdelay)
<1>1. n \in Nat \ {0}
  BY FlagCountPositive DEF IInv, TypeOK, TncConfig
<1>2. /\ line' = <<Key(n)>> /\ ptt'
      /\ tx_state' = Flags("TxDelay", 0, n, 0)
  BY DEF WinSlot
<1>. HIDE DEF n
<1>3. Key(n) \in Element /\ Key(n).kind = "key" /\ Key(n).flags = n
  BY <1>1 DEF Key, Element
<1>4. line' \in Seq(Element) /\ Len(line') = 1 /\ line'[1] = Key(n)
  BY <1>2, <1>3
<1>5. LastEvent(line', 1)
  BY <1>3, <1>4 DEF LastEvent, WithFlags
<1>6. WellKeyed(line')
  <2>1. FlagsUpTo(line', 1, 2) /\ Counted(line', 1, 2)
    BY <1>1, <1>3, <1>4 DEF FlagsUpTo, Counted
  <2>. QED
    BY <1>3, <1>4, <2>1 DEF WellKeyed, Delimited
<1>7. Follows(1)'
  <2>1. /\ tx_state'.st = "TxDelay" /\ tx_state'.flags_sent = 0
        /\ tx_state'.flags_total = n
    BY <1>2 DEF Flags
  <2>2. line'[1].flags = n /\ Len(line') - 1 = 0
    BY <1>3, <1>4
  <2>3. Counting(1)'
    BY <1>1, <2>1, <2>2 DEF Counting
  <2>. QED
    BY <2>1, <2>3 DEF Follows, In
<1>. QED
  BY <1>2, <1>3, <1>4, <1>5, <1>6, <1>7, GoingOn

LEMMA SendsFlag ==
    ASSUME AirInv, IInv, FlagBit
    PROVE  AirInv'
<1>1. ptt /\ ptt' = ptt
  BY DEF FlagBit, IInv, PttMatchesState, Keyed, In
<1>2. PICK p \in 1 .. Len(line) : LastEvent(line, p) /\ Follows(p)
  BY <1>1, Last
<1>3. /\ tx_state.flags_sent \in Nat /\ tx_state.flags_total \in Nat
      /\ tx_state.st \in {"TxDelay", "TxTail"} /\ Counting(p)
      /\ line[p].flags \in Nat /\ Len(line) \in Nat
  <2>1. In("TxDelay") \/ In("TxTail")
    BY DEF FlagBit
  <2>2. /\ tx_state.flags_sent \in Nat /\ tx_state.flags_total \in Nat
        /\ tx_state.st \in {"TxDelay", "TxTail"}
    BY <2>1 DEF IInv, TypeOK, TxState, In
  <2>3. Counting(p)
    BY <1>2, <2>1 DEF Follows
  <2>4. line \in Seq(Element) /\ line[p].kind \in WithFlags
    BY <1>2 DEF AirInv, LastEvent
  <2>5. line[p].flags \in Nat /\ Len(line) \in Nat
    BY <2>4, Kinds
  <2>. QED
    BY <2>2, <2>3, <2>5
<1>4. CASE ~LastBit
  <2>1. /\ line' = line
        /\ tx_state' = Flags(tx_state.st, tx_state.flags_sent, tx_state.flags_total,
                             tx_state.bit_in_flag + 1)
    BY <1>4 DEF FlagBit
  <2>2. Follows(p)'
    BY <1>2, <1>3, <2>1 DEF Follows, Counting, In, Flags
  <2>. QED
    BY <1>1, <1>2, <2>1, <2>2, Last, GoingOn
<1>5. CASE LastBit
  <2>1. /\ line' = Append(line, Flag)
        /\ tx_state' = Flags(tx_state.st, tx_state.flags_sent + 1, tx_state.flags_total, 0)
        /\ tx_state.flags_sent + 1 < tx_state.flags_total
    BY <1>3, <1>5 DEF FlagBit, LastFlag
  <2>2. Len(line) - p < line[p].flags
    BY <1>3 DEF Counting
  <2>3. /\ line' \in Seq(Element) /\ WellKeyed(line') /\ LastEvent(line', p)
        /\ Len(line') = Len(line) + 1 /\ line'[p] = line[p]
    BY <1>1, <1>2, <2>1, <2>2, Last, AppendFlag
  <2>4. Follows(p)'
    BY <1>2, <1>3, <2>1, <2>3 DEF Follows, Counting, In, Flags
  <2>5. \A i \in 1 .. Len(line') : line'[i].kind # "unkey"
    BY <1>1, <2>1, Last, Kinds, NoUnkey
  <2>. QED
    BY <1>1, <2>3, <2>4, <2>5, GoingOn
<1>. QED
  BY <1>4, <1>5

\* The last flag before a frame, in the preamble or in a tail.
LEMMA BeginsFrame ==
    ASSUME AirInv, IInv, In("TxDelay") \/ In("TxTail"), LastFlag, ~is_empty(tx_queue),
           BeginFrameTx(Append(line, Flag)), UNCHANGED ptt
    PROVE  AirInv'
<1>1. ptt
  BY DEF IInv, PttMatchesState, Keyed, In
<1>2. PICK p \in 1 .. Len(line) : LastEvent(line, p) /\ Follows(p)
  BY <1>1, Last
<1>3. /\ tx_state.flags_sent \in Nat /\ tx_state.flags_total \in Nat
      /\ Counting(p) /\ line[p].flags \in Nat /\ Len(line) \in Nat
  BY <1>2, Last, <1>1, Kinds DEF IInv, TypeOK, TxState, In, Follows, LastEvent
<1>4. line' = Append(line, Flag) /\ tx_state' = Transmitting(0)
  BY DEF BeginFrameTx
<1>5. Len(line) - p + 1 = line[p].flags /\ Len(line) - p < line[p].flags
  BY <1>3 DEF Counting, LastFlag
<1>6. /\ line' \in Seq(Element) /\ WellKeyed(line') /\ LastEvent(line', p)
      /\ Len(line') = Len(line) + 1 /\ line'[p] = line[p]
  BY <1>1, <1>2, <1>3, <1>4, <1>5, Last, AppendFlag
<1>7. Follows(p)'
  BY <1>3, <1>4, <1>5, <1>6 DEF Follows, In, Transmitting
<1>8. \A i \in 1 .. Len(line') : line'[i].kind # "unkey"
  BY <1>1, <1>4, Last, Kinds, NoUnkey
<1>. QED
  BY <1>1, <1>6, <1>7, <1>8, GoingOn

LEMMA EndsFrame ==
    ASSUME AirInv, IInv, EndFrame
    PROVE  AirInv'
<1>. DEFINE n == FlagCount(config.txtail)
<1>1. n \in Nat \ {0} /\ tx_frame \in Frame \cup {Blank}
  BY FlagCountPositive DEF IInv, TypeOK, TncConfig
<1>2. ptt /\ ptt' = ptt
  BY DEF EndFrame, IInv, PttMatchesState, Keyed, In
<1>3. PICK p \in 1 .. Len(line) : LastEvent(line, p) /\ Follows(p)
  BY <1>2, Last
<1>4. Len(line) - p = line[p].flags
  BY <1>3 DEF EndFrame, Follows
<1>5. line' = Append(line, Sent(tx_frame, n)) /\ tx_state' = Flags("TxTail", 0, n, 0)
  BY DEF EndFrame
<1>. HIDE DEF n
<1>6. /\ line' \in Seq(Element) /\ WellKeyed(line') /\ LastEvent(line', Len(line'))
      /\ Len(line') = Len(line) + 1 /\ line'[Len(line')] = Sent(tx_frame, n)
  BY <1>1, <1>2, <1>3, <1>4, <1>5, Last, AppendFrame
<1>7. /\ Sent(tx_frame, n).kind = "frame" /\ Sent(tx_frame, n).flags = n
      /\ Sent(tx_frame, n) \in Element
  BY <1>1 DEF Sent, Element
<1>8. PICK q \in 1 .. Len(line') : q = Len(line')
  BY <1>6 DEF LastEvent
<1>9. Follows(q)'
  BY <1>1, <1>5, <1>6, <1>7, <1>8 DEF Follows, Counting, In, Flags
<1>10. \A i \in 1 .. Len(line') : line'[i].kind # "unkey"
  BY <1>2, <1>5, <1>7, Last, NoUnkey
<1>. QED
  BY <1>2, <1>6, <1>8, <1>9, <1>10, GoingOn

LEMMA Ends ==
    ASSUME AirInv, IInv, In("TxTail"), LastFlag, Release
    PROVE  AirInv'
<1>1. ptt
  BY DEF IInv, PttMatchesState, Keyed, In
<1>2. PICK p \in 1 .. Len(line) : LastEvent(line, p) /\ Follows(p)
  BY <1>1, Last
<1>3. /\ tx_state.flags_sent \in Nat /\ tx_state.flags_total \in Nat
      /\ Counting(p) /\ line[p].flags \in Nat /\ Len(line) \in Nat
      /\ line[p].kind = "frame"
  BY <1>2, Last, <1>1, Kinds DEF IInv, TypeOK, TxState, In, Follows, LastEvent
<1>4. line' = line \o <<Flag, Unkey>> /\ ~ptt'
  BY DEF Release
<1>5. Len(line) - p + 1 = line[p].flags
  BY <1>3 DEF Counting, LastFlag
<1>6. /\ line' \in Seq(Element) /\ WellKeyed(line') /\ Len(line') = Len(line) + 2
      /\ line'[Len(line')] = Unkey /\ line'[Len(line) + 1] = Flag
      /\ \A k \in 1 .. Len(line) : line'[k] = line[k]
  BY <1>1, <1>2, <1>3, <1>4, <1>5, Last, AppendEnd
<1>7. ASSUME NEW i \in 1 .. Len(line'), i # Len(line') PROVE line'[i].kind # "unkey"
  <2>1. i \in 1 .. Len(line) \/ i = Len(line) + 1
    BY <1>3, <1>6, <1>7
  <2>. QED
    BY <1>1, <1>6, <2>1, Last, Kinds
<1>. QED
  BY <1>4, <1>6, <1>7 DEF AirInv

LEMMA StepAir == AirInv /\ IInv /\ [Next]_vars => AirInv'
<1>. SUFFICES ASSUME AirInv, IInv, [Next]_vars PROVE AirInv'
  OBVIOUS
<1>0. ptt <=> tx_state.st \in Keyed
  BY DEF IInv, PttMatchesState
<1>1. CASE Tick
  BY <1>1, SameAir DEF Tick, engineVars
<1>2. CASE FeedKiss
  BY <1>2, SameAir DEF FeedKiss, DataFrame, SetParam, SetFullDuplex, SetConfig, historyVars
<1>3. ASSUME NEW n \in Rooms, PollTx(n) PROVE AirInv'
  BY <1>3, SameAir DEF PollTx, historyVars
<1>4. CASE IdleArm
  BY <1>0, <1>4, SameAir DEF IdleArm, Return, Goto, In, Keyed, historyVars
<1>5. CASE WaitCsmaArm
  BY <1>0, <1>5, KeysUp, SameAir
  DEF WaitCsmaArm, WaitBusy, LoseSlot, Return, In, Keyed, historyVars
<1>6. CASE SlotWaitArm
  BY <1>0, <1>6, SameAir DEF SlotWaitArm, Return, Goto, In, Keyed, historyVars
<1>7. CASE FlagBit
  BY <1>7, SendsFlag
<1>8. CASE EndPreamble
  <2>1. ~is_empty(tx_queue)
    BY <1>8 DEF EndPreamble, IInv, WaitingHasFrame, In
  <2>. QED
    BY <1>8, <2>1, BeginsFrame DEF EndPreamble
<1>9. CASE EndTail
  <2>1. CASE is_empty(tx_queue)
    BY <1>9, <2>1, Ends DEF EndTail
  <2>2. CASE ~is_empty(tx_queue)
    BY <1>9, <2>2, BeginsFrame DEF EndTail
  <2>. QED
    BY <2>1, <2>2
<1>10. CASE SendBit
  <2>1. /\ ptt /\ UNCHANGED <<line, ptt>> /\ In("Transmitting")
        /\ tx_state' = Transmitting(tx_state.bit_index + 1)
    BY <1>0, <1>10 DEF SendBit, In, Keyed, historyVars
  <2>2. PICK p \in 1 .. Len(line) : LastEvent(line, p) /\ Follows(p)
    BY <2>1, Last
  <2>3. Follows(p)'
    BY <2>1, <2>2 DEF Follows, In, Transmitting
  <2>. QED
    BY <2>1, <2>2, <2>3, Last, GoingOn
<1>11. CASE EndFrame
  BY <1>11, EndsFrame
<1>12. CASE UNCHANGED vars
  BY <1>12, SameAir DEF vars, engineVars, historyVars
<1>. QED
  BY <1>1, <1>2, <1>3, <1>4, <1>5, <1>6, <1>7, <1>8, <1>9, <1>10, <1>11, <1>12
  DEF Next, LoopStep

\* On the air every key-up is followed by its txdelay flags and a frame, every
\* frame by its txtail flags, for every configuration, whenever it changes,
\* every size of buffer and any number of frames.
THEOREM AirWellFormed == Spec => []LineWellFormed
<1>1. AirInv /\ IInv => LineWellFormed
  <2>. SUFFICES ASSUME AirInv, IInv PROVE LineWellFormed
    OBVIOUS
  <2>0. line \in Seq(Element) /\ DOMAIN line = 1 .. Len(line) /\ Len(line) \in Nat
    BY DEF AirInv
  <2>1. ptt => line # << >>
    <3>1. ptt => \E p \in 1 .. Len(line) : TRUE
      BY DEF AirInv
    <3>. QED
      BY <2>0, <3>1
  <2>2. line # << >> => line[1].kind = "key"
    BY DEF AirInv, WellKeyed
  <2>3. line # << >> => (ptt <=> line[Len(line)] # Unkey)
    <3>1. CASE ptt
      BY <2>0, <3>1, Last, Kinds
    <3>2. CASE ~ptt
      BY <3>2 DEF AirInv
    <3>. QED
      BY <3>1, <3>2
  <2>4. ASSUME NEW i \in DOMAIN line
        PROVE  /\ line[i].kind = "key" => i = 1
               /\ line[i].kind = "unkey" => i = Len(line)
    BY <2>0 DEF AirInv, WellKeyed
  <2>5. ASSUME NEW i \in DOMAIN line, line[i].kind \in {"key", "frame"}
        PROVE  LET j == NextEvent(i)
               IN IF j <= Len(line)
                  THEN j - i - 1 = line[i].flags /\ (i = 1 => line[j].kind = "frame")
                  ELSE j - i - 1 <= line[i].flags
    <3>1. PICK j \in Nat : FlagsUpTo(line, i, j) /\ Counted(line, i, j)
      BY <2>0, <2>5 DEF AirInv, WellKeyed, Delimited, WithFlags
    <3>2. NextEvent(i) = j
      BY <2>0, <3>1, NextEventIs
    <3>. QED
      BY <3>1, <3>2 DEF Counted
  <2>. QED
    BY <2>1, <2>2, <2>3, <2>4, <2>5 DEF LineWellFormed
<1>2. Init => AirInv
  BY InitAir
<1>. QED
  BY <1>1, <1>2, StepAir, Invariance, PTL DEF Spec
-----------------------------------------------------------------------------
(***************************************************************************)
(* The measure of what a transmission has left, most significant first:    *)
(* the frames queued, the phases of the frame in hand, the flags (or the   *)
(* bits of the frame) still to send, and the bits of the flag in hand.     *)
(***************************************************************************)
Ahead(total, done) == IF done < total THEN total - done ELSE 0

PhasesLeft ==
    CASE In("TxDelay") -> 2 [] In("Transmitting") -> 1 [] OTHER -> 0
UnitsLeft ==
    IF In("Transmitting")
    THEN Ahead(tx_bit_count, tx_state.bit_index)
    ELSE Ahead(tx_state.flags_total, tx_state.flags_sent)
FlagBitsLeft ==
    IF In("Transmitting") THEN 0 ELSE Ahead(FlagLen, tx_state.bit_in_flag)

ToSend == [frames |-> tx_queue.count, phases |-> PhasesLeft,
           units |-> UnitsLeft, bits |-> FlagBitsLeft]
Measure == [frames : Nat, phases : Nat, units : Nat, bits : Nat]

Less(r, s) ==
    \/ r.frames < s.frames
    \/ r.frames = s.frames /\ r.phases < s.phases
    \/ r.frames = s.frames /\ r.phases = s.phases /\ r.units < s.units
    \/ r.frames = s.frames /\ r.phases = s.phases /\ r.units = s.units /\ r.bits < s.bits

\* While PTT is on, an arm of poll_tx ends the transmission or brings its end
\* nearer, and nothing but a frame from the host puts it off: not a change of
\* txdelay or txtail in the middle, nor a new call, nor the clock.
EndsOrNears ==
    [][ptt => \/ ~ptt'
              \/ LoopStep /\ Less(ToSend', ToSend)
              \/ ~LoopStep /\ ToSend' = ToSend
              \/ \E f \in HostFrame : DataFrame(f)]_vars

LEMMA MeasureIsNat == IInv /\ ptt => ToSend \in Measure
<1>. SUFFICES ASSUME IInv, ptt PROVE ToSend \in Measure
  OBVIOUS
<1>1. tx_queue.count \in Nat
  BY DEF IInv, TypeOK, TxQueueOf
<1>2. PhasesLeft \in Nat
  BY DEF PhasesLeft
<1>3. CASE In("Transmitting")
  <2>1. tx_state.bit_index \in Nat /\ tx_bit_count \in Nat
    BY <1>3 DEF IInv, TypeOK, TxState, In
  <2>. QED
    BY <1>1, <1>2, <1>3, <2>1 DEF ToSend, Measure, UnitsLeft, FlagBitsLeft, Ahead
<1>4. CASE In("TxDelay") \/ In("TxTail")
  <2>1. /\ tx_state.flags_sent \in Nat /\ tx_state.flags_total \in Nat
        /\ tx_state.bit_in_flag \in Nat
    BY <1>4, EngineAssumption DEF IInv, TypeOK, TxState, In
  <2>2. UnitsLeft \in Nat /\ FlagBitsLeft \in Nat
    BY <1>4, <2>1, EngineAssumption DEF UnitsLeft, FlagBitsLeft, Ahead, In
  <2>. QED
    BY <1>1, <1>2, <2>2 DEF ToSend, Measure
<1>. QED
  BY <1>3, <1>4 DEF IInv, PttMatchesState, Keyed, In

LEMMA FewerFrames ==
    ASSUME tx_queue.count \in Nat, tx_queue'.count = tx_queue.count - 1
    PROVE  Less(ToSend', ToSend)
BY DEF Less, ToSend

LEMMA BeginsShorter ==
    ASSUME NEW log, IInv, ~is_empty(tx_queue), BeginFrameTx(log)
    PROVE  Less(ToSend', ToSend)
<1>1. tx_queue.count \in Nat
  BY DEF IInv, TypeOK, TxQueueOf
<1>2. tx_queue'.count = tx_queue.count - 1
  BY DEF BeginFrameTx, dequeue
<1>. QED
  BY <1>1, <1>2, FewerFrames

LEMMA FlagBitNears == IInv /\ FlagBit => Less(ToSend', ToSend)
<1>. SUFFICES ASSUME IInv, FlagBit PROVE Less(ToSend', ToSend)
  OBVIOUS
<1>. DEFINE done == tx_state.flags_sent
            total == tx_state.flags_total
            bit == tx_state.bit_in_flag
<1>1. done \in Nat /\ total \in Nat /\ bit \in Nat /\ FlagLen \in Nat \ {0}
  BY EngineAssumption DEF IInv, TypeOK, TxState, In, FlagBit
<1>2. /\ UNCHANGED tx_queue /\ tx_state'.st = tx_state.st
      /\ tx_state.st \in {"TxDelay", "TxTail"}
  BY DEF FlagBit, Flags, In
<1>3. ToSend'.frames = ToSend.frames /\ ToSend'.phases = ToSend.phases
  BY <1>2 DEF ToSend, PhasesLeft, In
<1>4. /\ ToSend.units = Ahead(total, done) /\ ToSend.bits = Ahead(FlagLen, bit)
      /\ ToSend'.units = Ahead(tx_state'.flags_total, tx_state'.flags_sent)
      /\ ToSend'.bits = Ahead(FlagLen, tx_state'.bit_in_flag)
  BY <1>2 DEF ToSend, UnitsLeft, FlagBitsLeft, In
<1>5. CASE LastBit
  <2>1. tx_state'.flags_total = total /\ tx_state'.flags_sent = done + 1
    BY <1>5 DEF FlagBit, Flags
  <2>2. ~(done + 1 >= total)
    BY <1>5 DEF FlagBit, LastFlag
  <2>3. Ahead(total, done + 1) < Ahead(total, done)
    BY <1>1, <2>2 DEF Ahead
  <2>. QED
    BY <1>3, <1>4, <2>1, <2>3 DEF Less
<1>6. CASE ~LastBit
  <2>1. /\ tx_state'.flags_total = total /\ tx_state'.flags_sent = done
        /\ tx_state'.bit_in_flag = bit + 1
    BY <1>6 DEF FlagBit, Flags
  <2>2. ~(bit + 1 >= FlagLen)
    BY <1>6 DEF LastBit
  <2>3. Ahead(FlagLen, bit + 1) < Ahead(FlagLen, bit)
    BY <1>1, <2>2 DEF Ahead
  <2>. QED
    BY <1>3, <1>4, <2>1, <2>3 DEF Less
<1>. QED
  BY <1>5, <1>6

LEMMA BitNears == IInv /\ SendBit => Less(ToSend', ToSend)
<1>. SUFFICES ASSUME IInv, SendBit PROVE Less(ToSend', ToSend)
  OBVIOUS
<1>. DEFINE i == tx_state.bit_index
<1>1. i \in Nat /\ tx_bit_count \in Nat /\ i < tx_bit_count
  BY DEF IInv, TypeOK, TxState, In, SendBit
<1>2. /\ UNCHANGED <<tx_queue, tx_bit_count>> /\ tx_state.st = "Transmitting"
      /\ tx_state'.st = "Transmitting" /\ tx_state'.bit_index = i + 1
  BY DEF SendBit, Transmitting, In
<1>3. ToSend'.frames = ToSend.frames /\ ToSend'.phases = ToSend.phases
  BY <1>2 DEF ToSend, PhasesLeft, In
<1>4. ToSend.units = Ahead(tx_bit_count, i) /\ ToSend'.units = Ahead(tx_bit_count, i + 1)
  BY <1>2 DEF ToSend, UnitsLeft, In
<1>5. Ahead(tx_bit_count, i + 1) < Ahead(tx_bit_count, i)
  BY <1>1 DEF Ahead
<1>. QED
  BY <1>3, <1>4, <1>5 DEF Less

LEMMA FrameEndNears == IInv /\ EndFrame => Less(ToSend', ToSend)
<1>. SUFFICES ASSUME IInv, EndFrame PROVE Less(ToSend', ToSend)
  OBVIOUS
<1>1. UNCHANGED tx_queue /\ tx_state.st = "Transmitting" /\ tx_state'.st = "TxTail"
  BY DEF EndFrame, Flags, In
<1>2. ToSend'.frames = ToSend.frames /\ ToSend'.phases = 0 /\ ToSend.phases = 1
  BY <1>1 DEF ToSend, PhasesLeft, In
<1>. QED
  BY <1>2 DEF Less

\* One arm of poll_tx.
LEMMA LoopNears == IInv /\ ptt /\ LoopStep => ~ptt' \/ Less(ToSend', ToSend)
<1>. SUFFICES ASSUME IInv, ptt, LoopStep PROVE ~ptt' \/ Less(ToSend', ToSend)
  OBVIOUS
<1>1. tx_state.st \in Keyed
  BY DEF IInv, PttMatchesState
<1>2. ~IdleArm /\ ~WaitCsmaArm /\ ~SlotWaitArm
  BY <1>1 DEF Keyed, In, IdleArm, WaitCsmaArm, WaitBusy, WinSlot, LoseSlot, SlotWaitArm
<1>3. CASE EndPreamble
  <2>1. ~is_empty(tx_queue)
    BY <1>3 DEF EndPreamble, IInv, WaitingHasFrame, In
  <2>2. BeginFrameTx(Append(line, Flag))
    BY <1>3 DEF EndPreamble
  <2>. QED
    BY <2>1, <2>2, BeginsShorter
<1>4. CASE EndTail
  <2>1. CASE is_empty(tx_queue)
    BY <1>4, <2>1 DEF EndTail, Release
  <2>2. CASE ~is_empty(tx_queue)
    <3>1. BeginFrameTx(Append(line, Flag))
      BY <1>4, <2>2 DEF EndTail
    <3>. QED
      BY <2>2, <3>1, BeginsShorter
  <2>. QED
    BY <2>1, <2>2
<1>. QED
  BY <1>2, <1>3, <1>4, FlagBitNears, BitNears, FrameEndNears DEF LoopStep

\* Once the host has no more frames, a transmission cannot go on for ever: the
\* measure of what it has left is a tuple of naturals, ordered as a dictionary
\* is, that every arm of poll_tx lowers and no other step touches.  It is what
\* TransmissionEnds, the liveness property, rests on.
THEOREM TransmissionShrinks ==
    Spec => EndsOrNears /\ [](ptt => ToSend \in Measure)
<1>1. IInv /\ [Next]_vars
        => [ptt => \/ ~ptt'
                   \/ LoopStep /\ Less(ToSend', ToSend)
                   \/ ~LoopStep /\ ToSend' = ToSend
                   \/ \E f \in HostFrame : DataFrame(f)]_vars
  <2>. SUFFICES ASSUME IInv, [Next]_vars, ptt
                PROVE  \/ ~ptt'
                       \/ LoopStep /\ Less(ToSend', ToSend)
                       \/ ~LoopStep /\ ToSend' = ToSend
                       \/ \E f \in HostFrame : DataFrame(f)
                       \/ UNCHANGED vars
    OBVIOUS
  <2>1. CASE LoopStep
    BY <2>1, LoopNears
  <2>2. CASE ~LoopStep
    <3>1. ASSUME UNCHANGED <<tx_queue, tx_state, tx_bit_count>>
          PROVE  ToSend' = ToSend
      BY <3>1 DEF ToSend, PhasesLeft, UnitsLeft, FlagBitsLeft, In, Ahead
    <3>2. CASE Tick
      BY <2>2, <3>1, <3>2 DEF Tick, engineVars
    <3>3. ASSUME NEW c, SetConfig(c) PROVE ToSend' = ToSend
      BY <3>1, <3>3 DEF SetConfig
    <3>4. ASSUME NEW n \in Rooms, PollTx(n) PROVE ToSend' = ToSend
      BY <3>1, <3>4 DEF PollTx
    <3>. QED
      BY <2>2, <3>2, <3>3, <3>4 DEF Next, FeedKiss, SetParam, SetFullDuplex
  <2>. QED
    BY <2>1, <2>2
<1>2. IInv => (ptt => ToSend \in Measure)
  BY MeasureIsNat
<1>. QED
  BY <1>1, <1>2, Invariance, PTL DEF Spec, EndsOrNears
=============================================================================
