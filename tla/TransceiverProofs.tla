-------------------------- MODULE TransceiverProofs ---------------------------
(***************************************************************************)
(* Proofs about Transceiver for any number of buffers, frames,             *)
(* transmissions, energy detections and calls of zigbee_deinit.            *)
(***************************************************************************)
EXTENDS Transceiver, FiniteSetTheorems, SequenceTheorems, TLAPS

Frame == [psdu : Buffers \cup {NoBuffer}, ack_fpb : BOOLEAN, acked : BOOLEAN]

-------------------------------------------------------------------------------
(* Who is where.                                                           *)

(* Between the parts of an operation the thread stands where it left off;  *)
(* without it the MAC waits for nothing, and without the radio the driver  *)
(* does nothing and the glue holds nothing.                                *)
GoneIsQuiet == pc = "gone" => ~ mac_waits /\ ~ mac_scan /\ mac_acks = {}
OffIsQuiet ==
  ~ radio_on => /\ pc = "gone" /\ ~ sending /\ ~ detecting /\ acking = "none"
                /\ ~ tx_done_ack_work /\ work_ack = NoBuffer
                /\ Used = {}

(* An acknowledgement is on its way to the MAC only after its transmission *)
(* and before the next, and there is one of them at most.                  *)
AckUnderWay == tx_done_ack_work \/ work_ack # NoBuffer
OneTransmission ==
  /\ ~ (tx_done_ack_work /\ work_ack # NoBuffer)
  /\ ~ (AckUnderWay /\ sending)
  /\ pc # "gone" /\ (AckUnderWay \/ sending) => mac_waits
  /\ pc = "transmit" => ~ mac_waits

(* An energy detection is not over before its result is there.             *)
OneDetection ==
  /\ pc \in {"scan", "rssi"} => mac_scan
  /\ pc # "gone" /\ (detecting \/ rssi_wait > 0) => mac_scan
  /\ pc = "scan" => ~ detecting /\ rssi_wait = 0

Control == GoneIsQuiet /\ OffIsQuiet /\ OneTransmission /\ OneDetection /\ RssiIsFresh

-------------------------------------------------------------------------------
(* Slots.                                                                  *)

Queued == {fifo[i] : i \in 1 .. Len(fifo)}

(* A used slot is in the queue once, or it is the one the thread took out  *)
(* of it last.                                                             *)
SlotsAreQueued ==
  radio_on =>
    /\ \A i, j \in 1 .. Len(fifo) : fifo[i] = fifo[j] => i = j
    /\ Queued \subseteq Used
    /\ \A s, t \in Used \ Queued : s = t
    /\ pc # "gone" => Used \ Queued = IF pc \in {"copy", "clear"} THEN {slot} ELSE {}

(* The slots whose buffers are still lent.                                 *)
Sound == IF pc = "copy" THEN Queued \cup {slot} ELSE Queued
SlotsHoldBuffers ==
  radio_on =>
    \A s \in Sound :
      /\ frames[s].psdu \in lent \ (leaked \cup AckBuffers \cup mac_acks)
      /\ \A t \in Sound : frames[s].psdu = frames[t].psdu => s = t

(* Acknowledgements, in the work queue or with the MAC.                    *)
AcksHaveOwners ==
  /\ leaked \subseteq lent
  /\ AckBuffers \subseteq lent \ leaked
  /\ mac_acks \subseteq lent \ (leaked \cup AckBuffers)

Covered == lent \subseteq SlotBuffers \cup AckBuffers \cup mac_acks \cup leaked

PendingBit == radio_on => (last_frame_ack_fpb <=> acking = "set")

Inv ==
  /\ TypeOK
  /\ Control
  /\ SlotsAreQueued /\ SlotsHoldBuffers /\ AcksHaveOwners /\ Covered
  /\ PendingBit /\ PendingBitIsOwn

-------------------------------------------------------------------------------
LEMMA ControlStep ==
  ASSUME TypeOK, Control, Next
  PROVE  Control'
<1> USE DEF Control, GoneIsQuiet, OffIsQuiet, OneTransmission, OneDetection, RssiIsFresh, AckUnderWay
<1>0. rssi_wait \in 0 .. 1 /\ frames \in [Slots -> Frame]
  BY DEF TypeOK, Frame
<1>1. CASE \E bit \in BOOLEAN : tx_ack_started(bit)
  BY <1>0, <1>1 DEF tx_ack_started, thread_vars, rx_vars, tx_vars, ed_vars, life_vars, Used
<1>2. CASE \E b \in Buffers, requested \in BOOLEAN : received_timestamp_raw(b, requested)
  BY <1>0, <1>2 DEF received_timestamp_raw, thread_vars, rx_vars, tx_vars, ed_vars, life_vars, Used
<1>3. CASE receive_failed
  BY <1>0, <1>3 DEF receive_failed, thread_vars, rx_vars, tx_vars, ed_vars, life_vars, Used
<1>4. CASE GetFrame
  BY <1>0, <1>4 DEF GetFrame, thread_vars, rx_vars, tx_vars, ed_vars, life_vars, Used
<1>5. CASE FreeBuffer
  BY <1>0, <1>5 DEF FreeBuffer, thread_vars, rx_vars, tx_vars, ed_vars, life_vars, Used
<1>6. CASE FreeSlot
  BY <1>0, <1>6 DEF FreeSlot, thread_vars, rx_vars, tx_vars, ed_vars, life_vars, Used
<1>7. CASE zb_trans_enter_receive
  BY <1>0, <1>7 DEF zb_trans_enter_receive, thread_vars, rx_vars, tx_vars, ed_vars, life_vars, Used
<1>8. CASE zb_trans_enter_sleep
  BY <1>0, <1>8 DEF zb_trans_enter_sleep, thread_vars, rx_vars, tx_vars, ed_vars, life_vars, Used
<1>9. CASE Transmit
  BY <1>0, <1>9 DEF Transmit, thread_vars, rx_vars, tx_vars, ed_vars, life_vars, Used
<1>10. CASE \E accepted \in BOOLEAN : TransmitRaw(accepted)
  BY <1>0, <1>10 DEF TransmitRaw, thread_vars, rx_vars, tx_vars, ed_vars, life_vars, Used
<1>11. CASE \E ack \in (Buffers \ lent) \cup {NoBuffer} : transmitted_raw(ack)
  BY <1>0, <1>11 DEF transmitted_raw, thread_vars, rx_vars, tx_vars, ed_vars, life_vars, Used, DeferAck, MacAnswered
<1>12. CASE \E error \in {"busy", "no_ack", "unknown"} : transmit_failed(error)
  BY <1>0, <1>12 DEF transmit_failed, thread_vars, rx_vars, tx_vars, ed_vars, life_vars, Used
<1>13. CASE AckWorkTakes
  BY <1>0, <1>13 DEF AckWorkTakes, thread_vars, rx_vars, tx_vars, ed_vars, life_vars, Used
<1>14. CASE AckWorkTells
  BY <1>0, <1>14 DEF AckWorkTells, thread_vars, rx_vars, tx_vars, ed_vars, life_vars, Used, MacAnswered
<1>15. CASE \E b \in Buffers : zb_trans_buffer_free(b)
  BY <1>0, <1>15 DEF zb_trans_buffer_free, thread_vars, rx_vars, tx_vars, ed_vars, life_vars, Used
<1>16. CASE StartRssi
  BY <1>0, <1>16 DEF StartRssi, thread_vars, rx_vars, tx_vars, ed_vars, life_vars, Used
<1>17. CASE RssiStarted
  BY <1>0, <1>17 DEF RssiStarted, thread_vars, rx_vars, tx_vars, ed_vars, life_vars, Used
<1>18. CASE GetRssi
  BY <1>0, <1>18 DEF GetRssi, thread_vars, rx_vars, tx_vars, ed_vars, life_vars, Used
<1>19. CASE TakeRssi
  BY <1>0, <1>19 DEF TakeRssi, thread_vars, rx_vars, tx_vars, ed_vars, life_vars, Used
<1>20. CASE energy_detected
  BY <1>0, <1>20 DEF energy_detected, thread_vars, rx_vars, tx_vars, ed_vars, life_vars, Used, GiveRssi
<1>21. CASE \E restarted \in BOOLEAN : energy_detection_failed(restarted)
  BY <1>0, <1>21 DEF energy_detection_failed, thread_vars, rx_vars, tx_vars, ed_vars, life_vars, Used, RestartRssi, GiveRssi
<1>22. CASE ThreadAborted
  BY <1>0, <1>22 DEF ThreadAborted, thread_vars, rx_vars, tx_vars, ed_vars, life_vars, Used
<1>23. CASE radio_deinit
  BY <1>0, <1>23 DEF radio_deinit, thread_vars, rx_vars, tx_vars, ed_vars, life_vars, Used
<1>24. CASE radio_init
  BY <1>0, <1>24 DEF radio_init, thread_vars, rx_vars, tx_vars, ed_vars, life_vars, Used
<1> QED
  BY <1>1, <1>2, <1>3, <1>4, <1>5, <1>6, <1>7, <1>8, <1>9, <1>10, <1>11, <1>12, <1>13, <1>14, <1>15, <1>16, <1>17, <1>18, <1>19, <1>20, <1>21, <1>22, <1>23, <1>24 DEF Next, Reception, Transmission, EnergyDetection, Life

LEMMA TypeStep ==
  ASSUME TypeOK, Next
  PROVE  TypeOK'
<1> USE BufferAssumption, BoundAssumption DEF TypeOK
<1>1. CASE \E bit \in BOOLEAN : tx_ack_started(bit)
  BY <1>1 DEF tx_ack_started, thread_vars, rx_vars, tx_vars, ed_vars, life_vars
<1>2. CASE \E b \in Buffers, requested \in BOOLEAN : received_timestamp_raw(b, requested)
  <2>1. PICK b \in Buffers, requested \in BOOLEAN : received_timestamp_raw(b, requested)
    BY <1>2
  <2>2. received + 1 \in 0 .. MaxFrames
    BY <2>1 DEF received_timestamp_raw
  <2>3. ack_fpb(requested) \in BOOLEAN /\ (acking = "set") \in BOOLEAN
    BY Zenon DEF ack_fpb
  <2>4. CASE Free = {}
    BY <2>1, <2>2, <2>4, Zenon DEF received_timestamp_raw, thread_vars, rx_vars, tx_vars, ed_vars, life_vars
  <2>5. CASE Free # {}
    <3>1. PICK s \in Free :
            /\ frames' = [frames EXCEPT ![s] = [psdu |-> b, ack_fpb |-> ack_fpb(requested),
                                                acked |-> acking = "set"]]
            /\ fifo' = Append(fifo, s)
            /\ last_frame_ack_fpb' = FALSE
      BY <2>1, <2>5, Zenon DEF received_timestamp_raw
    <3>2. s \in Slots
      BY DEF Free
    <3>3. fifo' \in Seq(Slots)
      BY <3>1, <3>2
    <3>4. frames' \in [Slots -> [psdu : Buffers \cup {NoBuffer}, ack_fpb : BOOLEAN, acked : BOOLEAN]]
      BY <2>3, <3>1, <3>2
    <3> QED
      BY <2>1, <2>2, <3>1, <3>3, <3>4, Zenon DEF received_timestamp_raw, thread_vars, rx_vars, tx_vars, ed_vars, life_vars
  <2> QED
    BY <2>4, <2>5
<1>3. CASE receive_failed
  BY <1>3 DEF receive_failed, thread_vars, rx_vars, tx_vars, ed_vars, life_vars, FpbAfterFailure
<1>4. CASE GetFrame
  BY <1>4 DEF GetFrame, thread_vars, rx_vars, tx_vars, ed_vars, life_vars
<1>5. CASE FreeBuffer
  BY <1>5 DEF FreeBuffer, thread_vars, rx_vars, tx_vars, ed_vars, life_vars
<1>6. CASE FreeSlot
  BY <1>6 DEF FreeSlot, thread_vars, rx_vars, tx_vars, ed_vars, life_vars, EmptyFrame
<1>7. CASE zb_trans_enter_receive
  BY <1>7 DEF zb_trans_enter_receive, thread_vars, rx_vars, tx_vars, ed_vars, life_vars
<1>8. CASE zb_trans_enter_sleep
  BY <1>8 DEF zb_trans_enter_sleep, thread_vars, rx_vars, tx_vars, ed_vars, life_vars
<1>9. CASE Transmit
  BY <1>9 DEF Transmit, thread_vars, rx_vars, tx_vars, ed_vars, life_vars
<1>10. CASE \E accepted \in BOOLEAN : TransmitRaw(accepted)
  BY <1>10 DEF TransmitRaw, thread_vars, rx_vars, tx_vars, ed_vars, life_vars
<1>11. CASE \E ack \in (Buffers \ lent) \cup {NoBuffer} : transmitted_raw(ack)
  <2>1. PICK ack \in (Buffers \ lent) \cup {NoBuffer} : transmitted_raw(ack)
    BY <1>11
  <2>2. Acks(ack) \subseteq Buffers
    BY DEF Acks
  <2>3. /\ state' = "receive" /\ lent' \subseteq Buffers /\ mac_acks' \subseteq Buffers
        /\ leaked' \subseteq Buffers /\ tx_done_pending_ack' \in Buffers \cup {NoBuffer}
    BY <2>1, <2>2 DEF transmitted_raw, tx_vars, life_vars, DeferAck, MacAnswered
  <2>4. UNCHANGED <<work_ack, sends, unknown_error, thread_vars, rx_vars, ed_vars, ser_host,
                    radio_on, deinits>>
    BY <2>1 DEF transmitted_raw
  <2>5. {tx_done_ack_work, mac_waits, sending}' \subseteq BOOLEAN
    BY <2>1, Zenon DEF transmitted_raw, DeferAck, MacAnswered
  <2> QED
    BY <2>3, <2>4, <2>5, Zenon DEF thread_vars, rx_vars, ed_vars
<1>12. CASE \E error \in {"busy", "no_ack", "unknown"} : transmit_failed(error)
  BY <1>12 DEF transmit_failed, thread_vars, rx_vars, tx_vars, ed_vars, life_vars
<1>13. CASE AckWorkTakes
  BY <1>13 DEF AckWorkTakes, thread_vars, rx_vars, tx_vars, ed_vars, life_vars
<1>14. CASE AckWorkTells
  BY <1>14 DEF AckWorkTells, thread_vars, rx_vars, tx_vars, ed_vars, life_vars, MacAnswered, Acks
<1>15. CASE \E b \in Buffers : zb_trans_buffer_free(b)
  BY <1>15 DEF zb_trans_buffer_free, thread_vars, rx_vars, tx_vars, ed_vars, life_vars
<1>16. CASE StartRssi
  BY <1>16 DEF StartRssi, thread_vars, rx_vars, tx_vars, ed_vars, life_vars
<1>17. CASE RssiStarted
  BY <1>17 DEF RssiStarted, thread_vars, rx_vars, tx_vars, ed_vars, life_vars
<1>18. CASE GetRssi
  BY <1>18 DEF GetRssi, thread_vars, rx_vars, tx_vars, ed_vars, life_vars
<1>19. CASE TakeRssi
  <2>1. rssi_wait' \in 0 .. 1
    BY <1>19 DEF TakeRssi
  <2> QED
    BY <1>19, <2>1, Zenon DEF TakeRssi, thread_vars, rx_vars, tx_vars, ed_vars, life_vars
<1>20. CASE energy_detected
  <2>1. rssi_wait' \in 0 .. 1
    BY <1>20 DEF energy_detected, GiveRssi
  <2> QED
    BY <1>20, <2>1, Zenon DEF energy_detected, thread_vars, rx_vars, tx_vars, ed_vars, life_vars, GiveRssi
<1>21. CASE \E restarted \in BOOLEAN : energy_detection_failed(restarted)
  BY <1>21 DEF energy_detection_failed, thread_vars, rx_vars, tx_vars, ed_vars, life_vars, RestartRssi, GiveRssi
<1>22. CASE ThreadAborted
  <2>1. deinits' \in 0 .. MaxDeinits /\ slot' \in Slots \cup {NoSlot}
    BY <1>22 DEF ThreadAborted
  <2> QED
    BY <1>22, <2>1, Zenon DEF ThreadAborted, thread_vars, rx_vars, tx_vars, ed_vars, life_vars
<1>23. CASE radio_deinit
  BY <1>23 DEF radio_deinit, thread_vars, rx_vars, tx_vars, ed_vars, life_vars, AckBuffers, Acks, Used
<1>24. CASE radio_init
  <2>1. rssi_wait' \in 0 .. 1 /\ value' \in 0 .. MaxScans
    BY <1>24 DEF radio_init
  <2>2. fifo' \in Seq(Slots) /\ frames' \in [Slots -> Frame]
    BY <1>24, EmptySeq DEF radio_init, EmptyFrame, Frame
  <2> QED
    BY <1>24, <2>1, <2>2, Zenon DEF radio_init, thread_vars, rx_vars, tx_vars, ed_vars, life_vars, Frame
<1> QED
  BY <1>1, <1>2, <1>3, <1>4, <1>5, <1>6, <1>7, <1>8, <1>9, <1>10, <1>11, <1>12, <1>13, <1>14, <1>15, <1>16, <1>17, <1>18, <1>19, <1>20, <1>21, <1>22, <1>23, <1>24 DEF Next, Reception, Transmission, EnergyDetection, Life

(* The queue loses its head and gains at its end.                          *)
LEMMA QueueTail ==
  ASSUME fifo \in Seq(Slots), fifo # <<>>, fifo' = Tail(fifo),
         \A i, j \in 1 .. Len(fifo) : fifo[i] = fifo[j] => i = j
  PROVE  /\ Head(fifo) \in Queued
         /\ Queued' = Queued \ {Head(fifo)}
         /\ \A i, j \in 1 .. Len(fifo') : fifo'[i] = fifo'[j] => i = j
<1>1. /\ Len(fifo) \in Nat \ {0} /\ Len(fifo') = Len(fifo) - 1 /\ Head(fifo) = fifo[1]
      /\ \A i \in 1 .. Len(fifo') : fifo'[i] = fifo[i + 1]
  BY HeadTailProperties, EmptySeq
<1>2. \A i \in 1 .. Len(fifo') : i + 1 \in 1 .. Len(fifo) /\ i + 1 # 1
  BY <1>1
<1>3. \A i \in 1 .. Len(fifo) : i # 1 => i - 1 \in 1 .. Len(fifo') /\ (i - 1) + 1 = i
  BY <1>1
<1>4. Head(fifo) \in Queued
  BY <1>1 DEF Queued
<1>5. Queued' \subseteq Queued \ {Head(fifo)}
  BY <1>1, <1>2 DEF Queued
<1>6. Queued \ {Head(fifo)} \subseteq Queued'
  BY <1>1, <1>3 DEF Queued
<1>7. \A i, j \in 1 .. Len(fifo') : fifo'[i] = fifo'[j] => i = j
  BY <1>1, <1>2
<1> QED
  BY <1>4, <1>5, <1>6, <1>7

LEMMA QueueAppend ==
  ASSUME NEW s \in Slots, fifo \in Seq(Slots), fifo' = Append(fifo, s), s \notin Queued,
         \A i, j \in 1 .. Len(fifo) : fifo[i] = fifo[j] => i = j
  PROVE  /\ Queued' = Queued \cup {s}
         /\ \A i, j \in 1 .. Len(fifo') : fifo'[i] = fifo'[j] => i = j
<1>1. /\ Len(fifo) \in Nat /\ Len(fifo') = Len(fifo) + 1
      /\ \A i \in 1 .. Len(fifo') : fifo'[i] = IF i = Len(fifo) + 1 THEN s ELSE fifo[i]
  OBVIOUS
<1>2. \A i \in 1 .. Len(fifo) : fifo[i] # s /\ i \in 1 .. Len(fifo') /\ i # Len(fifo) + 1
  BY <1>1 DEF Queued
<1>3. \A i \in 1 .. Len(fifo') : i # Len(fifo) + 1 => i \in 1 .. Len(fifo)
  BY <1>1
<1>4. Queued' \subseteq Queued \cup {s}
  BY <1>1, <1>3 DEF Queued
<1>5. Queued \cup {s} \subseteq Queued'
  BY <1>1, <1>2 DEF Queued
<1>6. \A i, j \in 1 .. Len(fifo') : fifo'[i] = fifo'[j] => i = j
  BY <1>1, <1>2, <1>3
<1> QED
  BY <1>4, <1>5, <1>6

LEMMA SlotStep ==
  ASSUME TypeOK, Control, SlotsAreQueued, Next
  PROVE  SlotsAreQueued'
<1> USE DEF SlotsAreQueued, Queued
<1>0. /\ frames \in [Slots -> Frame] /\ fifo \in Seq(Slots)
      /\ ~ radio_on => pc = "gone"
  BY DEF TypeOK, Frame, Control, OffIsQuiet
<1>1. CASE \E bit \in BOOLEAN : tx_ack_started(bit)
  BY <1>0, <1>1 DEF tx_ack_started, thread_vars, rx_vars, tx_vars, ed_vars, life_vars, Used
<1>2. CASE \E b \in Buffers, requested \in BOOLEAN : received_timestamp_raw(b, requested)
  <2>1. PICK b \in Buffers, requested \in BOOLEAN : received_timestamp_raw(b, requested)
    BY <1>2
  <2>2. radio_on /\ radio_on' = radio_on /\ pc' = pc /\ slot' = slot
    BY <2>1 DEF received_timestamp_raw, thread_vars, life_vars
  <2>3. CASE Free = {}
    BY <2>1, <2>2, <2>3 DEF received_timestamp_raw, Used
  <2>4. CASE Free # {}
    <3>1. PICK s \in Free :
            /\ frames' = [frames EXCEPT ![s] = [psdu |-> b, ack_fpb |-> ack_fpb(requested),
                                                acked |-> acking = "set"]]
            /\ fifo' = Append(fifo, s)
      BY <2>1, <2>4, Zenon DEF received_timestamp_raw
    <3>2. s \in Slots /\ s \notin Used
      BY DEF Free
    <3>3. Used' = Used \cup {s}
      BY <1>0, <3>1, <3>2, BufferAssumption DEF Used
    <3>4. /\ Queued' = Queued \cup {s}
          /\ \A i, j \in 1 .. Len(fifo') : fifo'[i] = fifo'[j] => i = j
      BY <1>0, <2>2, <3>1, <3>2, QueueAppend
    <3> HIDE DEF Queued
    <3> QED
      BY <2>2, <3>2, <3>3, <3>4
  <2> QED
    BY <2>3, <2>4
<1>3. CASE receive_failed
  BY <1>0, <1>3 DEF receive_failed, thread_vars, rx_vars, tx_vars, ed_vars, life_vars, FpbAfterFailure, Used
<1>4. CASE GetFrame
  <2>1. /\ fifo # <<>> /\ fifo' = Tail(fifo) /\ slot' = Head(fifo)
        /\ pc = "idle" /\ pc' = "copy" /\ Used' = Used /\ radio_on' = radio_on
    BY <1>4 DEF GetFrame, life_vars, Used
  <2>2. radio_on => /\ slot' \in Queued /\ Queued' = Queued \ {slot'}
                    /\ \A i, j \in 1 .. Len(fifo') : fifo'[i] = fifo'[j] => i = j
    BY <1>0, <2>1, QueueTail
  <2> HIDE DEF Queued
  <2> QED
    BY <2>1, <2>2
<1>5. CASE FreeBuffer
  BY <1>0, <1>5 DEF FreeBuffer, thread_vars, rx_vars, tx_vars, ed_vars, life_vars, Used
<1>6. CASE FreeSlot
  BY <1>0, <1>6 DEF FreeSlot, thread_vars, rx_vars, tx_vars, ed_vars, life_vars, EmptyFrame, Used
<1>7. CASE zb_trans_enter_receive
  BY <1>0, <1>7 DEF zb_trans_enter_receive, thread_vars, rx_vars, tx_vars, ed_vars, life_vars, Used
<1>8. CASE zb_trans_enter_sleep
  BY <1>0, <1>8 DEF zb_trans_enter_sleep, thread_vars, rx_vars, tx_vars, ed_vars, life_vars, Used
<1>9. CASE Transmit
  BY <1>0, <1>9 DEF Transmit, thread_vars, rx_vars, tx_vars, ed_vars, life_vars, Used
<1>10. CASE \E accepted \in BOOLEAN : TransmitRaw(accepted)
  BY <1>0, <1>10 DEF TransmitRaw, thread_vars, rx_vars, tx_vars, ed_vars, life_vars, Used
<1>11. CASE \E ack \in (Buffers \ lent) \cup {NoBuffer} : transmitted_raw(ack)
  BY <1>0, <1>11 DEF transmitted_raw, thread_vars, rx_vars, tx_vars, ed_vars, life_vars, DeferAck, MacAnswered, Acks, Used
<1>12. CASE \E error \in {"busy", "no_ack", "unknown"} : transmit_failed(error)
  BY <1>0, <1>12 DEF transmit_failed, thread_vars, rx_vars, tx_vars, ed_vars, life_vars, Used
<1>13. CASE AckWorkTakes
  BY <1>0, <1>13 DEF AckWorkTakes, thread_vars, rx_vars, tx_vars, ed_vars, life_vars, Used
<1>14. CASE AckWorkTells
  BY <1>0, <1>14 DEF AckWorkTells, thread_vars, rx_vars, tx_vars, ed_vars, life_vars, MacAnswered, Acks, Used
<1>15. CASE \E b \in Buffers : zb_trans_buffer_free(b)
  BY <1>0, <1>15 DEF zb_trans_buffer_free, thread_vars, rx_vars, tx_vars, ed_vars, life_vars, Used
<1>16. CASE StartRssi
  BY <1>0, <1>16 DEF StartRssi, thread_vars, rx_vars, tx_vars, ed_vars, life_vars, Used
<1>17. CASE RssiStarted
  BY <1>0, <1>17 DEF RssiStarted, thread_vars, rx_vars, tx_vars, ed_vars, life_vars, Used
<1>18. CASE GetRssi
  BY <1>0, <1>18 DEF GetRssi, thread_vars, rx_vars, tx_vars, ed_vars, life_vars, Used
<1>19. CASE TakeRssi
  BY <1>0, <1>19 DEF TakeRssi, thread_vars, rx_vars, tx_vars, ed_vars, life_vars, Used
<1>20. CASE energy_detected
  BY <1>0, <1>20 DEF energy_detected, thread_vars, rx_vars, tx_vars, ed_vars, life_vars, GiveRssi, Used
<1>21. CASE \E restarted \in BOOLEAN : energy_detection_failed(restarted)
  BY <1>0, <1>21 DEF energy_detection_failed, thread_vars, rx_vars, tx_vars, ed_vars, life_vars, RestartRssi, GiveRssi, Used
<1>22. CASE ThreadAborted
  BY <1>0, <1>22 DEF ThreadAborted, thread_vars, rx_vars, tx_vars, ed_vars, life_vars, Used
<1>23. CASE radio_deinit
  BY <1>0, <1>23 DEF radio_deinit, thread_vars, rx_vars, tx_vars, ed_vars, life_vars, AckBuffers, Acks, Used, Used
<1>24. CASE radio_init
  BY <1>0, <1>24 DEF radio_init, thread_vars, rx_vars, tx_vars, ed_vars, life_vars, EmptyFrame, Used
<1> QED
  BY <1>1, <1>2, <1>3, <1>4, <1>5, <1>6, <1>7, <1>8, <1>9, <1>10, <1>11, <1>12, <1>13, <1>14, <1>15, <1>16, <1>17, <1>18, <1>19, <1>20, <1>21, <1>22, <1>23, <1>24 DEF Next, Reception, Transmission, EnergyDetection, Life

(* The queued slots hold different lent buffers, and at most one slot more *)
(* is used: there are fewer buffers than slots, so one is free.            *)
LEMMA SlotsSuffice ==
  ASSUME TypeOK, Control, SlotsAreQueued, SlotsHoldBuffers
  PROVE  SlotForEveryFrame
<1> DEFINE N == Cardinality(Buffers)
<1>1. /\ N \in Nat /\ Slots = 1 .. N + 1 /\ IsFiniteSet(Slots) /\ Cardinality(Slots) = N + 1
  <2>1. N \in Nat
    BY BufferAssumption, FS_CardinalityType
  <2>2. IsFiniteSet(1 .. N + 1) /\ Cardinality(1 .. N + 1) = N + 1
    BY <2>1, FS_Interval
  <2> QED
    BY <2>1, <2>2 DEF Slots
<1> HIDE DEF N
<1> SUFFICES ASSUME lent # Buffers, Free = {}
             PROVE  FALSE
  BY DEF SlotForEveryFrame
<1>2. Used = Slots
  BY DEF Free, Used
<1>3. radio_on
  BY <1>1, <1>2 DEF Control, OffIsQuiet
<1>4. Queued \subseteq Slots /\ \A s, t \in Slots \ Queued : s = t
  BY <1>2, <1>3 DEF SlotsAreQueued
<1>5. IsFiniteSet(lent) /\ Cardinality(lent) \in Nat /\ Cardinality(lent) < N
  <2>1. lent \in SUBSET Buffers
    BY DEF TypeOK
  <2>2. IsFiniteSet(lent) /\ Cardinality(lent) <= N /\ Cardinality(lent) # N
    BY <2>1, BufferAssumption, FS_Subset DEF N
  <2>3. Cardinality(lent) \in Nat
    BY <2>2, FS_CardinalityType
  <2> QED
    BY <1>1, <2>2, <2>3
<1>6. IsFiniteSet(Queued) /\ Cardinality(Queued) \in Nat /\ Cardinality(Queued) <= Cardinality(lent)
  <2> DEFINE f == [s \in Queued |-> frames[s].psdu]
  <2>1. f \in Injection(Queued, lent)
    BY <1>3 DEF SlotsHoldBuffers, Sound, Injection, IsInjective
  <2>2. IsFiniteSet(Queued) /\ Cardinality(Queued) <= Cardinality(lent)
    BY <1>5, <2>1, FS_Injection
  <2>3. Cardinality(Queued) \in Nat
    BY <2>2, FS_CardinalityType
  <2> QED
    BY <2>2, <2>3
<1>7. PICK x : Slots \subseteq Queued \cup {x}
  BY <1>4
<1>8. IsFiniteSet(Queued \cup {x}) /\ Cardinality(Queued \cup {x}) <= Cardinality(Queued) + 1
  BY <1>6, FS_AddElement
<1>9. N + 1 <= Cardinality(Queued \cup {x})
  BY <1>1, <1>7, <1>8, FS_Subset
<1>10. Cardinality(Queued \cup {x}) \in Nat
  BY <1>8, FS_CardinalityType
<1> QED
  BY <1>1, <1>5, <1>6, <1>8, <1>9, <1>10

LEMMA HoldStep ==
  ASSUME TypeOK, Control, SlotsAreQueued, SlotsHoldBuffers, AcksHaveOwners, Covered, Next
  PROVE  (SlotsHoldBuffers /\ AcksHaveOwners /\ Covered)'
<1> USE DEF SlotsHoldBuffers, AcksHaveOwners, Covered, Sound, SlotBuffers, Clearing, AckBuffers, Acks, Used
<1>0. /\ frames \in [Slots -> Frame] /\ fifo \in Seq(Slots)
      /\ ~ radio_on => pc = "gone"
  BY DEF TypeOK, Frame, Control, OffIsQuiet
<1>1. CASE \E bit \in BOOLEAN : tx_ack_started(bit)
  BY <1>0, <1>1 DEF tx_ack_started, thread_vars, rx_vars, tx_vars, ed_vars, life_vars, Queued
<1>2. CASE \E b \in Buffers, requested \in BOOLEAN : received_timestamp_raw(b, requested)
  <2>1. PICK b \in Buffers, requested \in BOOLEAN : received_timestamp_raw(b, requested)
    BY <1>2
  <2>2. /\ radio_on /\ radio_on' = radio_on /\ pc' = pc /\ slot' = slot
        /\ b \notin lent /\ lent' = lent \cup {b} /\ lent # Buffers
        /\ leaked' = leaked /\ AckBuffers' = AckBuffers /\ mac_acks' = mac_acks
    BY <2>1 DEF received_timestamp_raw, thread_vars, rx_vars, tx_vars, ed_vars, life_vars
  <2>3. Free # {}
    BY <2>2, SlotsSuffice DEF SlotForEveryFrame
  <2>4. PICK s \in Free :
          /\ frames' = [frames EXCEPT ![s] = [psdu |-> b, ack_fpb |-> ack_fpb(requested),
                                              acked |-> acking = "set"]]
          /\ fifo' = Append(fifo, s)
    BY <2>1, <2>3, Zenon DEF received_timestamp_raw
  <2>5. s \in Slots /\ s \notin Used
    BY DEF Free
  <2>6. /\ frames'[s].psdu = b
        /\ \A r \in Slots \ {s} : frames'[r].psdu = frames[r].psdu
        /\ Used' = Used \cup {s}
    BY <1>0, <2>4, <2>5, BufferAssumption DEF Used
  <2>7. /\ Queued \subseteq Used /\ Queued' = Queued \cup {s}
        /\ pc \in {"copy", "clear"} => slot \in Used
    BY <1>0, <2>2, <2>4, <2>5, QueueAppend DEF SlotsAreQueued
  <2>8. Used \subseteq Slots /\ Sound \subseteq Used /\ Sound' = Sound \cup {s} /\ s \notin Clearing
    <3>1. Used \subseteq Slots
      BY DEF Used
    <3> QED
      BY <2>2, <2>5, <2>7, <3>1
  <2> QED
    <3>1. SlotsHoldBuffers'
      BY <2>2, <2>5, <2>6, <2>8
    <3>2. AcksHaveOwners'
      BY <2>2
    <3>3. Covered'
      BY <2>2, <2>5, <2>6, <2>8
    <3> QED
      BY <3>1, <3>2, <3>3
<1>3. CASE receive_failed
  BY <1>0, <1>3 DEF receive_failed, thread_vars, rx_vars, tx_vars, ed_vars, life_vars, FpbAfterFailure, Queued
<1>4. CASE GetFrame
  BY <1>0, <1>4 DEF GetFrame, thread_vars, rx_vars, tx_vars, ed_vars, life_vars, Queued
<1>5. CASE FreeBuffer
  <2> DEFINE b == frames[slot].psdu
  <2>1. /\ pc = "copy" /\ pc' = "clear" /\ slot' = slot /\ fifo' = fifo /\ frames' = frames
        /\ radio_on' = radio_on /\ lent' = lent \ {b}
        /\ leaked' = leaked /\ AckBuffers' = AckBuffers /\ mac_acks' = mac_acks
    BY <1>5 DEF FreeBuffer, thread_vars, rx_vars, tx_vars, ed_vars, life_vars
  <2>2. radio_on /\ Used \ Queued = {slot} /\ Queued \subseteq Used
    BY <1>0, <2>1 DEF SlotsAreQueued
  <2>3. Used' = Used /\ Queued' = Queued
    BY <2>1 DEF Used, Queued
  <2>4. b \in lent \ (leaked \cup AckBuffers \cup mac_acks) /\ \A s \in Queued : frames[s].psdu # b
    BY <2>1, <2>2
  <2> HIDE DEF b
  <2>5. SlotsHoldBuffers'
    BY <2>1, <2>2, <2>3, <2>4
  <2>6. AcksHaveOwners'
    BY <2>1, <2>4
  <2>7. Covered'
    <3>1. SlotBuffers \subseteq SlotBuffers' \cup {b}
      BY <2>1, <2>2, <2>3 DEF b
    <3> QED
      BY <2>1, <3>1
  <2> QED
    BY <2>5, <2>6, <2>7
<1>6. CASE FreeSlot
  <2>1. /\ pc = "clear" /\ pc' = "idle" /\ fifo' = fifo /\ radio_on' = radio_on
        /\ frames' = [frames EXCEPT ![slot] = EmptyFrame]
        /\ lent' = lent /\ leaked' = leaked /\ AckBuffers' = AckBuffers /\ mac_acks' = mac_acks
    BY <1>6 DEF FreeSlot, thread_vars, rx_vars, tx_vars, ed_vars, life_vars
  <2>2. radio_on /\ Used \ Queued = {slot} /\ Queued \subseteq Used
    BY <1>0, <2>1 DEF SlotsAreQueued
  <2>3. Queued' = Queued /\ Used \subseteq Slots
    BY <2>1 DEF Used, Queued
  <2>4. /\ \A s \in Queued : frames'[s].psdu = frames[s].psdu
        /\ Used' = Queued
    <3>1. frames'[slot].psdu = NoBuffer /\ \A s \in Slots \ {slot} : frames'[s] = frames[s]
      BY <1>0, <2>1, <2>2, <2>3 DEF EmptyFrame
    <3> QED
      BY <2>2, <2>3, <3>1 DEF Used
  <2>5. SlotsHoldBuffers'
    <3>1. Sound' = Queued /\ Sound = Queued
      BY <2>1, <2>3
    <3> HIDE DEF Sound, AckBuffers
    <3> QED
      BY <2>1, <2>2, <2>4, <3>1
  <2>6. AcksHaveOwners'
    BY <2>1
  <2>7. SlotBuffers' = SlotBuffers
    BY <2>1, <2>2, <2>4
  <2> QED
    BY <2>1, <2>5, <2>6, <2>7
<1>7. CASE zb_trans_enter_receive
  BY <1>0, <1>7 DEF zb_trans_enter_receive, thread_vars, rx_vars, tx_vars, ed_vars, life_vars, Queued
<1>8. CASE zb_trans_enter_sleep
  BY <1>0, <1>8 DEF zb_trans_enter_sleep, thread_vars, rx_vars, tx_vars, ed_vars, life_vars, Queued
<1>9. CASE Transmit
  BY <1>0, <1>9 DEF Transmit, thread_vars, rx_vars, tx_vars, ed_vars, life_vars, Queued
<1>10. CASE \E accepted \in BOOLEAN : TransmitRaw(accepted)
  BY <1>0, <1>10 DEF TransmitRaw, thread_vars, rx_vars, tx_vars, ed_vars, life_vars, Queued
<1>11. CASE \E ack \in (Buffers \ lent) \cup {NoBuffer} : transmitted_raw(ack)
  <2>1. PICK ack \in (Buffers \ lent) \cup {NoBuffer} : transmitted_raw(ack)
    BY <1>11
  <2>2. /\ pc' = pc /\ slot' = slot /\ fifo' = fifo /\ frames' = frames /\ radio_on' = radio_on
        /\ lent' = lent \cup Acks(ack) /\ work_ack' = work_ack
        /\ \/ /\ tx_done_pending_ack' = ack /\ tx_done_ack_work' = TRUE
              /\ mac_acks' = mac_acks /\ leaked' = leaked
           \/ /\ tx_done_pending_ack' = tx_done_pending_ack /\ tx_done_ack_work' = tx_done_ack_work
              /\ \/ mac_acks' = mac_acks /\ leaked' = leaked \cup Acks(ack)
                 \/ mac_acks' = mac_acks \cup Acks(ack) /\ leaked' = leaked
    BY <2>1 DEF transmitted_raw, DeferAck, MacAnswered, thread_vars, rx_vars, tx_vars, ed_vars, life_vars
  <2>3. AckBuffers = {} /\ tx_done_ack_work = FALSE /\ work_ack = NoBuffer
    <3>1. ~ AckUnderWay
      BY <2>1 DEF transmitted_raw, Control, OneTransmission
    <3>2. tx_done_ack_work \in BOOLEAN
      BY Zenon DEF TypeOK
    <3> QED
      BY <3>1, <3>2 DEF AckUnderWay
  <2>4. Used' = Used /\ Queued' = Queued /\ Acks(ack) \cap lent = {}
    BY <2>2, BufferAssumption DEF Used, Queued
  <2>5. Sound' = Sound /\ SlotBuffers' = SlotBuffers
    BY <2>2, <2>4
  <2>6. \/ AckBuffers' = Acks(ack) /\ mac_acks' = mac_acks /\ leaked' = leaked
        \/ AckBuffers' = {} /\ mac_acks' = mac_acks /\ leaked' = leaked \cup Acks(ack)
        \/ AckBuffers' = {} /\ mac_acks' = mac_acks \cup Acks(ack) /\ leaked' = leaked
    BY <2>2, <2>3
  <2> HIDE DEF Sound, SlotBuffers, AckBuffers, Acks
  <2> QED
    BY <2>2, <2>3, <2>4, <2>5, <2>6
<1>12. CASE \E error \in {"busy", "no_ack", "unknown"} : transmit_failed(error)
  BY <1>0, <1>12 DEF transmit_failed, thread_vars, rx_vars, tx_vars, ed_vars, life_vars, Queued
<1>13. CASE AckWorkTakes
  BY <1>0, <1>13 DEF AckWorkTakes, thread_vars, rx_vars, tx_vars, ed_vars, life_vars, Queued
<1>14. CASE AckWorkTells
  <2>1. /\ pc' = pc /\ slot' = slot /\ fifo' = fifo /\ frames' = frames /\ radio_on' = radio_on
        /\ lent' = lent /\ work_ack # NoBuffer /\ work_ack' = NoBuffer
        /\ tx_done_ack_work' = tx_done_ack_work
        /\ \/ mac_acks' = mac_acks /\ leaked' = leaked \cup Acks(work_ack)
           \/ mac_acks' = mac_acks \cup Acks(work_ack) /\ leaked' = leaked
    BY <1>14 DEF AckWorkTells, MacAnswered, thread_vars, rx_vars, tx_vars, ed_vars, life_vars
  <2>2. tx_done_ack_work = FALSE
    <3>1. tx_done_ack_work \in BOOLEAN
      BY Zenon DEF TypeOK
    <3> QED
      BY <2>1, <3>1 DEF Control, OneTransmission
  <2>3. AckBuffers = Acks(work_ack) /\ AckBuffers' = {}
    BY <2>1, <2>2
  <2>4. Used' = Used /\ Queued' = Queued
    BY <2>1 DEF Used, Queued
  <2>5. Sound' = Sound /\ SlotBuffers' = SlotBuffers
    BY <2>1, <2>4
  <2> HIDE DEF Sound, SlotBuffers, AckBuffers, Acks
  <2> QED
    BY <2>1, <2>3, <2>4, <2>5
<1>15. CASE \E b \in Buffers : zb_trans_buffer_free(b)
  BY <1>0, <1>15 DEF zb_trans_buffer_free, thread_vars, rx_vars, tx_vars, ed_vars, life_vars, Queued
<1>16. CASE StartRssi
  BY <1>0, <1>16 DEF StartRssi, thread_vars, rx_vars, tx_vars, ed_vars, life_vars, Queued
<1>17. CASE RssiStarted
  BY <1>0, <1>17 DEF RssiStarted, thread_vars, rx_vars, tx_vars, ed_vars, life_vars, Queued
<1>18. CASE GetRssi
  BY <1>0, <1>18 DEF GetRssi, thread_vars, rx_vars, tx_vars, ed_vars, life_vars, Queued
<1>19. CASE TakeRssi
  BY <1>0, <1>19 DEF TakeRssi, thread_vars, rx_vars, tx_vars, ed_vars, life_vars, Queued
<1>20. CASE energy_detected
  BY <1>0, <1>20 DEF energy_detected, thread_vars, rx_vars, tx_vars, ed_vars, life_vars, GiveRssi, Queued
<1>21. CASE \E restarted \in BOOLEAN : energy_detection_failed(restarted)
  BY <1>0, <1>21 DEF energy_detection_failed, thread_vars, rx_vars, tx_vars, ed_vars, life_vars, RestartRssi, GiveRssi, Queued
<1>22. CASE ThreadAborted
  BY <1>0, <1>22 DEF ThreadAborted, thread_vars, rx_vars, tx_vars, ed_vars, life_vars, Queued
<1>23. CASE radio_deinit
  <2>1. /\ pc = "gone" /\ radio_on' = FALSE /\ mac_acks' = mac_acks
        /\ lent' = lent \ {frames[s].psdu : s \in Used}
        /\ leaked' = lent' \cap (leaked \cup AckBuffers)
        /\ tx_done_ack_work' = FALSE /\ work_ack = NoBuffer /\ work_ack' = work_ack
    BY <1>23 DEF radio_deinit, thread_vars, rx_vars, tx_vars, ed_vars, life_vars
  <2>2. mac_acks = {} /\ AckBuffers' = {}
    BY <2>1 DEF Control, GoneIsQuiet
  <2>3. SlotBuffers = {frames[s].psdu : s \in Used}
    BY <2>1
  <2>4. SlotsHoldBuffers'
    BY <2>1
  <2> HIDE DEF SlotBuffers, AckBuffers, Acks
  <2> QED
    BY <2>1, <2>2, <2>3, <2>4
<1>24. CASE radio_init
  <2>1. /\ ~ radio_on /\ pc' = "idle" /\ fifo' = <<>>
        /\ lent' = lent /\ leaked' = leaked /\ AckBuffers' = AckBuffers /\ mac_acks' = mac_acks
    BY <1>24 DEF radio_init, thread_vars, rx_vars, tx_vars, ed_vars, life_vars
  <2>2. Sound' = {} /\ SlotBuffers = {}
    BY <2>1 DEF Queued, Control, OffIsQuiet
  <2> HIDE DEF Sound, SlotBuffers, AckBuffers, Acks
  <2> QED
    BY <2>1, <2>2
<1> QED
  BY <1>1, <1>2, <1>3, <1>4, <1>5, <1>6, <1>7, <1>8, <1>9, <1>10, <1>11, <1>12, <1>13, <1>14, <1>15, <1>16, <1>17, <1>18, <1>19, <1>20, <1>21, <1>22, <1>23, <1>24 DEF Next, Reception, Transmission, EnergyDetection, Life

(* No frame is dropped for want of a slot, so none leaves its bit behind.  *)
LEMMA PendingBitStep ==
  ASSUME TypeOK, Control, SlotForEveryFrame, PendingBit, PendingBitIsOwn, Next
  PROVE  (PendingBit /\ PendingBitIsOwn)'
<1> USE DEF PendingBit, PendingBitIsOwn
<1>0. /\ frames \in [Slots -> Frame]
      /\ ~ radio_on => pc = "gone" /\ Used = {} /\ acking = "none"
  BY DEF TypeOK, Frame, Control, OffIsQuiet
<1>1. CASE \E bit \in BOOLEAN : tx_ack_started(bit)
  BY <1>0, <1>1 DEF tx_ack_started, thread_vars, rx_vars, tx_vars, ed_vars, life_vars, Used
<1>2. CASE \E b \in Buffers, requested \in BOOLEAN : received_timestamp_raw(b, requested)
  <2>1. PICK b \in Buffers, requested \in BOOLEAN : received_timestamp_raw(b, requested)
    BY <1>2
  <2>2. /\ radio_on /\ radio_on' = radio_on /\ acking' = "none" /\ lent # Buffers
        /\ acking # "none" => requested
    BY <2>1 DEF received_timestamp_raw, life_vars
  <2>3. Free # {}
    BY <2>2 DEF SlotForEveryFrame
  <2>4. PICK s \in Free :
          /\ frames' = [frames EXCEPT ![s] = [psdu |-> b, ack_fpb |-> ack_fpb(requested),
                                              acked |-> acking = "set"]]
          /\ last_frame_ack_fpb' = FALSE
    BY <2>1, <2>3, Zenon DEF received_timestamp_raw
  <2>5. ack_fpb(requested) = (acking = "set")
    <3>1. last_frame_ack_fpb <=> acking = "set"
      BY <2>2
    <3>2. requested \in BOOLEAN /\ last_frame_ack_fpb \in BOOLEAN
      BY <2>1, Zenon DEF TypeOK
    <3>3. acking = "set" => requested
      BY <2>2
    <3> QED
      BY <3>1, <3>2, <3>3, Zenon DEF ack_fpb
  <2>6. \A r \in Slots : \/ frames'[r] = frames[r]
                         \/ frames'[r].ack_fpb = frames'[r].acked
    <3>1. s \in Slots
      BY DEF Free
    <3>2. frames'[s].ack_fpb = frames'[s].acked
      BY <1>0, <2>4, <2>5, <3>1
    <3>3. \A r \in Slots \ {s} : frames'[r] = frames[r]
      BY <1>0, <2>4, <3>1
    <3> QED
      BY <3>2, <3>3
  <2>7. PendingBit'
    BY <2>2, <2>4
  <2>8. PendingBitIsOwn'
    BY <2>6 DEF Used
  <2> QED
    BY <2>7, <2>8
<1>3. CASE receive_failed
  BY <1>0, <1>3 DEF receive_failed, thread_vars, rx_vars, tx_vars, ed_vars, life_vars, FpbAfterFailure, Used
<1>4. CASE GetFrame
  BY <1>0, <1>4 DEF GetFrame, thread_vars, rx_vars, tx_vars, ed_vars, life_vars, Used
<1>5. CASE FreeBuffer
  BY <1>0, <1>5 DEF FreeBuffer, thread_vars, rx_vars, tx_vars, ed_vars, life_vars, Used
<1>6. CASE FreeSlot
  BY <1>0, <1>6 DEF FreeSlot, thread_vars, rx_vars, tx_vars, ed_vars, life_vars, EmptyFrame, Used
<1>7. CASE zb_trans_enter_receive
  BY <1>0, <1>7 DEF zb_trans_enter_receive, thread_vars, rx_vars, tx_vars, ed_vars, life_vars, Used
<1>8. CASE zb_trans_enter_sleep
  BY <1>0, <1>8 DEF zb_trans_enter_sleep, thread_vars, rx_vars, tx_vars, ed_vars, life_vars, Used
<1>9. CASE Transmit
  BY <1>0, <1>9 DEF Transmit, thread_vars, rx_vars, tx_vars, ed_vars, life_vars, Used
<1>10. CASE \E accepted \in BOOLEAN : TransmitRaw(accepted)
  BY <1>0, <1>10 DEF TransmitRaw, thread_vars, rx_vars, tx_vars, ed_vars, life_vars, Used
<1>11. CASE \E ack \in (Buffers \ lent) \cup {NoBuffer} : transmitted_raw(ack)
  BY <1>0, <1>11 DEF transmitted_raw, thread_vars, rx_vars, tx_vars, ed_vars, life_vars, DeferAck, MacAnswered, Acks, Used
<1>12. CASE \E error \in {"busy", "no_ack", "unknown"} : transmit_failed(error)
  BY <1>0, <1>12 DEF transmit_failed, thread_vars, rx_vars, tx_vars, ed_vars, life_vars, Used
<1>13. CASE AckWorkTakes
  BY <1>0, <1>13 DEF AckWorkTakes, thread_vars, rx_vars, tx_vars, ed_vars, life_vars, Used
<1>14. CASE AckWorkTells
  BY <1>0, <1>14 DEF AckWorkTells, thread_vars, rx_vars, tx_vars, ed_vars, life_vars, MacAnswered, Acks, Used
<1>15. CASE \E b \in Buffers : zb_trans_buffer_free(b)
  BY <1>0, <1>15 DEF zb_trans_buffer_free, thread_vars, rx_vars, tx_vars, ed_vars, life_vars, Used
<1>16. CASE StartRssi
  BY <1>0, <1>16 DEF StartRssi, thread_vars, rx_vars, tx_vars, ed_vars, life_vars, Used
<1>17. CASE RssiStarted
  BY <1>0, <1>17 DEF RssiStarted, thread_vars, rx_vars, tx_vars, ed_vars, life_vars, Used
<1>18. CASE GetRssi
  BY <1>0, <1>18 DEF GetRssi, thread_vars, rx_vars, tx_vars, ed_vars, life_vars, Used
<1>19. CASE TakeRssi
  BY <1>0, <1>19 DEF TakeRssi, thread_vars, rx_vars, tx_vars, ed_vars, life_vars, Used
<1>20. CASE energy_detected
  BY <1>0, <1>20 DEF energy_detected, thread_vars, rx_vars, tx_vars, ed_vars, life_vars, GiveRssi, Used
<1>21. CASE \E restarted \in BOOLEAN : energy_detection_failed(restarted)
  BY <1>0, <1>21 DEF energy_detection_failed, thread_vars, rx_vars, tx_vars, ed_vars, life_vars, RestartRssi, GiveRssi, Used
<1>22. CASE ThreadAborted
  BY <1>0, <1>22 DEF ThreadAborted, thread_vars, rx_vars, tx_vars, ed_vars, life_vars, Used
<1>23. CASE radio_deinit
  BY <1>0, <1>23 DEF radio_deinit, thread_vars, rx_vars, tx_vars, ed_vars, life_vars, AckBuffers, Acks, Used, Used
<1>24. CASE radio_init
  BY <1>0, <1>24 DEF radio_init, thread_vars, rx_vars, tx_vars, ed_vars, life_vars, EmptyFrame, Used
<1> QED
  BY <1>1, <1>2, <1>3, <1>4, <1>5, <1>6, <1>7, <1>8, <1>9, <1>10, <1>11, <1>12, <1>13, <1>14, <1>15, <1>16, <1>17, <1>18, <1>19, <1>20, <1>21, <1>22, <1>23, <1>24 DEF Next, Reception, Transmission, EnergyDetection, Life

(* The cover is exact and each buffer counted once.                        *)
LEMMA OwnersFollow ==
  ASSUME TypeOK, Control, SlotsAreQueued, SlotsHoldBuffers, AcksHaveOwners, Covered
  PROVE  BuffersHaveOwners
<1>1. ASSUME ~ radio_on
      PROVE  lent \subseteq leaked
  <2>1. Used = {} /\ mac_acks = {} /\ AckBuffers = {}
    BY <1>1 DEF Control, OffIsQuiet, GoneIsQuiet, AckBuffers, Acks
  <2> QED
    BY <2>1 DEF Covered, SlotBuffers
<1>2. ASSUME pc # "gone"
      PROVE  /\ lent \ leaked = SlotBuffers \cup AckBuffers \cup mac_acks
             /\ Cardinality(lent \ leaked) = Cardinality(Used \ Clearing) + Cardinality(AckBuffers)
                                               + Cardinality(mac_acks)
  <2> DEFINE U == Used \ Clearing
             A == AckBuffers
  <2>1. radio_on /\ U = Sound
    <3>1. radio_on
      BY <1>2 DEF Control, OffIsQuiet
    <3>2. Queued \subseteq Used /\ Used \ Queued = IF pc \in {"copy", "clear"} THEN {slot} ELSE {}
      BY <1>2, <3>1 DEF SlotsAreQueued
    <3> QED
      BY <3>1, <3>2 DEF Sound, Clearing
  <2>2. \A s \in U : /\ frames[s].psdu \in lent \ (leaked \cup A \cup mac_acks)
                    /\ \A t \in U : frames[s].psdu = frames[t].psdu => s = t
    BY <2>1 DEF SlotsHoldBuffers
  <2>3. SlotBuffers = {frames[s].psdu : s \in U}
    BY DEF SlotBuffers
  <2>4. /\ lent \subseteq SlotBuffers \cup A \cup mac_acks \cup leaked
        /\ A \subseteq lent \ leaked /\ mac_acks \subseteq lent \ (leaked \cup A)
    BY DEF Covered, AcksHaveOwners
  <2>5. IsFiniteSet(U)
    <3>1. IsFiniteSet(Slots)
      BY BufferAssumption, FS_CardinalityType, FS_Interval DEF Slots
    <3> QED
      BY <3>1, FS_Subset DEF Used
  <2> HIDE DEF U, A
  <2>6. lent \ leaked = SlotBuffers \cup A \cup mac_acks
    BY <2>2, <2>3, <2>4
  <2>7. IsFiniteSet(A) /\ IsFiniteSet(mac_acks)
    <3>1. A \in SUBSET Buffers /\ mac_acks \in SUBSET Buffers
      BY <2>4 DEF TypeOK
    <3> QED
      BY <3>1, BufferAssumption, FS_Subset
  <2>8. IsFiniteSet(SlotBuffers) /\ Cardinality(SlotBuffers) = Cardinality(U)
    <3> DEFINE f == [s \in U |-> frames[s].psdu]
    <3>1. f \in Surjection(U, SlotBuffers) /\ f \in Injection(U, SlotBuffers)
      BY <2>2, <2>3 DEF Surjection, Injection, IsInjective
    <3> HIDE DEF f
    <3> QED
      BY <2>5, <3>1, FS_Surjection
  <2>9. SlotBuffers \cap A = {} /\ (SlotBuffers \cup A) \cap mac_acks = {}
    BY <2>2, <2>3, <2>4
  <2>10. /\ IsFiniteSet(SlotBuffers \cup A)
         /\ Cardinality(SlotBuffers \cup A) = Cardinality(SlotBuffers) + Cardinality(A)
                                                - Cardinality(SlotBuffers \cap A)
    BY <2>7, <2>8, FS_Union
  <2>11. Cardinality((SlotBuffers \cup A) \cup mac_acks)
           = Cardinality(SlotBuffers \cup A) + Cardinality(mac_acks)
               - Cardinality((SlotBuffers \cup A) \cap mac_acks)
    BY <2>7, <2>10, FS_Union
  <2>12. /\ Cardinality({}) = 0 /\ Cardinality(U) \in Nat /\ Cardinality(A) \in Nat
         /\ Cardinality(mac_acks) \in Nat
    BY <2>5, <2>7, FS_EmptySet, FS_CardinalityType
  <2>13. Cardinality((SlotBuffers \cup A) \cup mac_acks)
           = Cardinality(U) + Cardinality(A) + Cardinality(mac_acks)
    <3>1. Cardinality(SlotBuffers \cap A) = 0 /\ Cardinality((SlotBuffers \cup A) \cap mac_acks) = 0
      BY <2>9, <2>12
    <3>2. Cardinality(SlotBuffers \cup A) = Cardinality(U) + Cardinality(A)
      BY <2>8, <2>10, <2>12, <3>1
    <3> QED
      BY <2>11, <2>12, <3>1, <3>2
  <2> QED
    BY <2>6, <2>13 DEF U, A
<1> QED
  BY <1>1, <1>2 DEF BuffersHaveOwners

-------------------------------------------------------------------------------
LEMMA InvInit == Init => Inv
<1> SUFFICES ASSUME Init
             PROVE  Inv
  OBVIOUS
<1>1. frames \in [Slots -> Frame] /\ Used = {}
  BY DEF Init, EmptyFrame, Frame, Used
<1>2. TypeOK
  <2>1. fifo \in Seq(Slots) /\ frames \in [Slots -> Frame]
    BY <1>1, EmptySeq DEF Init
  <2>2. /\ value \in 0 .. MaxScans /\ scans \in 0 .. MaxScans /\ rssi_wait \in 0 .. 1
        /\ received \in 0 .. MaxFrames /\ sends \in 0 .. MaxSends /\ deinits \in 0 .. MaxDeinits
    BY BoundAssumption DEF Init
  <2>3. {ser_host, last_frame_ack_fpb, tx_done_ack_work, mac_waits, mac_scan, radio_on, sending,
         detecting, unknown_error} \subseteq BOOLEAN
    BY Zenon DEF Init
  <2> QED
    BY <2>1, <2>2, <2>3, Zenon DEF Init, TypeOK, Frame
<1>3. Control
  BY <1>1 DEF Init, Control, GoneIsQuiet, OffIsQuiet, OneTransmission, OneDetection, RssiIsFresh,
              AckUnderWay
<1>4. Queued = {} /\ fifo = <<>> /\ lent = {} /\ AckBuffers = {} /\ leaked = {} /\ mac_acks = {}
  BY DEF Init, Queued, AckBuffers, Acks
<1>5. SlotsAreQueued /\ SlotsHoldBuffers
  BY <1>1, <1>4 DEF Init, SlotsAreQueued, SlotsHoldBuffers, Sound
<1>6. AcksHaveOwners /\ Covered
  BY <1>4 DEF AcksHaveOwners, Covered
<1>7. PendingBit /\ PendingBitIsOwn
  BY <1>1 DEF Init, PendingBit, PendingBitIsOwn
<1> QED
  BY <1>2, <1>3, <1>5, <1>6, <1>7 DEF Inv

LEMMA InvStep == Inv /\ [Next]_vars => Inv'
<1>1. ASSUME Inv, Next
      PROVE  Inv'
  <2>1. SlotForEveryFrame
    BY <1>1, SlotsSuffice DEF Inv
  <2> QED
    BY <1>1, <2>1, TypeStep, ControlStep, SlotStep, HoldStep, PendingBitStep DEF Inv
<1>2. ASSUME Inv, UNCHANGED vars
      PROVE  Inv'
  <2>1. UNCHANGED <<thread_vars, rx_vars, tx_vars, ed_vars, life_vars, lent>>
    BY <1>2 DEF vars
  <2> QED
    BY <1>2, <2>1 DEF Inv, TypeOK, Control, GoneIsQuiet, OffIsQuiet, OneTransmission, OneDetection,
       RssiIsFresh, AckUnderWay, SlotsAreQueued, SlotsHoldBuffers, AcksHaveOwners, Covered, PendingBit,
       PendingBitIsOwn, Queued, Sound, SlotBuffers, Clearing, AckBuffers, Acks, Used,
       thread_vars, rx_vars, tx_vars, ed_vars, life_vars
<1> QED
  BY <1>1, <1>2

(* What the zb_trans_... callbacks and the ZBOSS thread keep together, for   *)
(* any number of buffers: the inductive invariant.                         *)
THEOREM Invariant == Spec => []Inv
<1> QED
  BY InvInit, InvStep, PTL DEF Spec

(* TypeOK holds for any number of buffers.                                 *)
THEOREM TypeCorrect == Spec => []TypeOK
<1>1. Inv => TypeOK
  BY DEF Inv
<1> QED
  BY <1>1, Invariant, PTL

(* The assertion that a slot is free for every received frame holds        *)
(* (nrf_802154_received_timestamp_raw), though slots are freed after their *)
(* buffers and zigbee_deinit may come between.                             *)
THEOREM SlotsForFrames == Spec => []SlotForEveryFrame
<1>1. Inv => SlotForEveryFrame
  BY SlotsSuffice DEF Inv
<1> QED
  BY <1>1, Invariant, PTL

(* Every lent buffer has exactly one owner.                                *)
THEOREM OwnersExist == Spec => []BuffersHaveOwners
<1>1. Inv => BuffersHaveOwners
  BY OwnersFollow DEF Inv
<1> QED
  BY <1>1, Invariant, PTL

(* A frame is never passed on with the pending bit of another              *)
(* (last_frame_ack_fpb).                                                   *)
THEOREM OwnPendingBit == Spec => []PendingBitIsOwn
<1>1. Inv => PendingBitIsOwn
  BY DEF Inv
<1> QED
  BY <1>1, Invariant, PTL

(* zb_trans_get_rssi never takes the semaphore of an earlier scan.         *)
THEOREM FreshRssi == Spec => []RssiIsFresh
<1>1. Inv => RssiIsFresh
  BY DEF Inv, Control
<1> QED
  BY <1>1, Invariant, PTL
===============================================================================
