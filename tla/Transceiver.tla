------------------------------ MODULE Transceiver -----------------------------
(***************************************************************************)
(* The glue between ZBOSS's MAC and the 802.15.4 radio driver              *)
(* (subsys/osif/zb_nrf_transceiver.c): received frames wait in slots for   *)
(* the ZBOSS thread, transmissions end in a callback, and the thread       *)
(* blocks until an energy detection is over.                               *)
(*                                                                         *)
(* The callbacks of the driver preempt the ZBOSS thread and the system     *)
(* work queue, never the other way round, so each callback is one step.    *)
(* The driver lends its receive buffers to the glue, for frames and for    *)
(* acknowledgements, and can only receive into those it has.               *)
(***************************************************************************)
EXTENDS Naturals, Sequences, FiniteSets

CONSTANTS
  Buffers,     \* CONFIG_NRF_802154_RX_BUFFERS buffers of the driver
  NoBuffer,    \* NULL
  MaxFrames,   \* bound: frames received
  MaxSends,    \* bound: transmissions
  MaxScans,    \* bound: energy detections
  MaxDeinits   \* bound: calls of zigbee_deinit

ASSUME BufferAssumption == IsFiniteSet(Buffers) /\ NoBuffer \notin Buffers
ASSUME BoundAssumption ==
  MaxFrames \in Nat /\ MaxSends \in Nat /\ MaxScans \in Nat /\ MaxDeinits \in Nat

VARIABLES
  ser_host,             \* the build: CONFIG_NRF_802154_SER_HOST
  state,                \* nrf5_data.state
  frames,               \* rx.frames: psdu and ack_fpb, and the bit its acknowledgement had
  fifo,                 \* rx.fifo: slots in order
  last_frame_ack_fpb,
  tx_done_pending_ack,
  tx_done_ack_work,     \* the work item is queued
  work_ack,             \* the local variable ack of the work item, while it runs
  rssi_wait,            \* the semaphore
  value,                \* energy_detection.value: the scan it belongs to
  pc,                   \* where the ZBOSS thread stands
  slot,                 \* rx_frame, while zb_trans_get_next_packet runs
  mac_waits,            \* MAC: a transmission was accepted and has no answer
  mac_acks,             \* MAC: acknowledgements it has not freed
  mac_scan,             \* MAC: an energy detection was started and not read
  radio_on,             \* driver: its callbacks go to this glue
  acking,               \* driver: an acknowledgement was started, with which bit
  sending, detecting,   \* driver: a transmission, an energy detection goes on
  lent,                 \* driver: buffers it lent
  received, sends, scans, deinits,  \* counters
  leaked,               \* history: buffers that lost their owner to zigbee_deinit
  unknown_error         \* history: a transmission failed in a way nobody expects

thread_vars == <<pc, slot>>
rx_vars == <<frames, fifo, last_frame_ack_fpb, acking, received>>
tx_vars == <<state, tx_done_pending_ack, tx_done_ack_work, work_ack, mac_waits, mac_acks,
             sending, sends, unknown_error>>
ed_vars == <<rssi_wait, value, mac_scan, detecting, scans>>
life_vars == <<ser_host, radio_on, deinits, leaked>>
vars == <<thread_vars, rx_vars, tx_vars, ed_vars, life_vars, lent>>

(* One slot more than buffers: the driver may use a freed buffer before    *)
(* its slot is marked free.                                                *)
Slots_equal == 1 .. Cardinality(Buffers)
Slots == 1 .. Cardinality(Buffers) + 1
NoSlot == 0
EmptyFrame == [psdu |-> NoBuffer, ack_fpb |-> FALSE, acked |-> FALSE]

Used == {s \in Slots : frames[s].psdu # NoBuffer}
Free == Slots \ Used

Acks(b) == {b} \ {NoBuffer}
AckBuffers == (IF tx_done_ack_work THEN Acks(tx_done_pending_ack) ELSE {}) \cup Acks(work_ack)

TypeOK ==
  /\ state \in {"sleep", "receive", "transmit"}
  /\ frames \in [Slots -> [psdu : Buffers \cup {NoBuffer}, ack_fpb : BOOLEAN, acked : BOOLEAN]]
  /\ fifo \in Seq(Slots)
  /\ tx_done_pending_ack \in Buffers \cup {NoBuffer}
  /\ work_ack \in Buffers \cup {NoBuffer}
  /\ mac_acks \subseteq Buffers /\ lent \subseteq Buffers /\ leaked \subseteq Buffers
  /\ rssi_wait \in 0 .. 1 /\ value \in 0 .. MaxScans /\ scans \in 0 .. MaxScans
  /\ pc \in {"idle", "copy", "clear", "transmit", "scan", "rssi", "gone"}
  /\ slot \in Slots \cup {NoSlot}
  /\ acking \in {"none", "set", "clear"}
  /\ received \in 0 .. MaxFrames /\ sends \in 0 .. MaxSends /\ deinits \in 0 .. MaxDeinits
  /\ {ser_host, last_frame_ack_fpb, tx_done_ack_work, mac_waits, mac_scan, radio_on, sending,
      detecting, unknown_error} \subseteq BOOLEAN

Init ==
  /\ state = "sleep"
  /\ frames = [s \in Slots |-> EmptyFrame] /\ fifo = <<>> /\ last_frame_ack_fpb = FALSE
  /\ rssi_wait = 0 /\ value = 0
  /\ ser_host \in BOOLEAN
  /\ tx_done_pending_ack = NoBuffer /\ tx_done_ack_work = FALSE /\ work_ack = NoBuffer
  /\ pc = "idle" /\ slot = NoSlot
  /\ mac_waits = FALSE /\ mac_acks = {} /\ mac_scan = FALSE
  /\ radio_on = TRUE /\ acking = "none" /\ sending = FALSE /\ detecting = FALSE /\ lent = {}
  /\ received = 0 /\ sends = 0 /\ scans = 0 /\ deinits = 0
  /\ leaked = {} /\ unknown_error = FALSE

-----------------------------------------------------------------------------
(* Reception: the callbacks of the driver.                                 *)

tx_ack_started(bit) ==
  /\ radio_on /\ acking = "none" /\ received < MaxFrames /\ lent # Buffers
  /\ acking' = IF bit THEN "set" ELSE "clear"
  /\ last_frame_ack_fpb' = bit
  /\ UNCHANGED <<frames, fifo, received, thread_vars, tx_vars, ed_vars, life_vars, lent>>

(* A frame that was acknowledged asked for it; one that asked need not     *)
(* have been, for instance in promiscuous mode.                            *)
ack_fpb(requested) == requested /\ last_frame_ack_fpb
received_timestamp_raw(b, requested) ==
  /\ radio_on /\ received < MaxFrames /\ b \notin lent
  /\ acking # "none" => requested
  /\ received' = received + 1
  /\ lent' = lent \cup {b}
  /\ acking' = "none"
  /\ IF Free = {} THEN UNCHANGED <<frames, fifo, last_frame_ack_fpb>>
     ELSE \E s \in Free :
            /\ \A t \in Free : s <= t
            /\ frames' = [frames EXCEPT ![s] = [psdu |-> b, ack_fpb |-> ack_fpb(requested),
                                                acked |-> acking = "set"]]
            /\ fifo' = Append(fifo, s)
            /\ last_frame_ack_fpb' = FALSE
  /\ UNCHANGED <<thread_vars, tx_vars, ed_vars, life_vars>>

FpbAfterFailure_kept == last_frame_ack_fpb
FpbAfterFailure == FALSE
receive_failed ==
  /\ radio_on /\ acking # "none"
  /\ acking' = "none"
  /\ last_frame_ack_fpb' = FpbAfterFailure
  /\ UNCHANGED <<frames, fifo, received, thread_vars, tx_vars, ed_vars, life_vars, lent>>

(* zb_trans_get_next_packet takes a slot from the queue and copies the     *)
(* frame, returns the buffer to the driver, and only then frees the slot.  *)
GetFrame ==
  /\ pc = "idle" /\ fifo # <<>>
  /\ slot' = Head(fifo) /\ fifo' = Tail(fifo)
  /\ pc' = "copy"
  /\ UNCHANGED <<frames, last_frame_ack_fpb, acking, received, tx_vars, ed_vars, life_vars, lent>>
FreeBuffer ==
  /\ pc = "copy"
  /\ lent' = lent \ {frames[slot].psdu}
  /\ pc' = "clear"
  /\ UNCHANGED <<slot, rx_vars, tx_vars, ed_vars, life_vars>>
FreeSlot ==
  /\ pc = "clear"
  /\ frames' = [frames EXCEPT ![slot] = EmptyFrame]
  /\ pc' = "idle" /\ slot' = NoSlot
  /\ UNCHANGED <<fifo, last_frame_ack_fpb, acking, received, tx_vars, ed_vars, life_vars, lent>>

-----------------------------------------------------------------------------
(* Transmission.  The MAC sends one frame at a time.                       *)

zb_trans_enter_receive ==
  /\ pc = "idle" /\ ~ mac_waits
  /\ state' = "receive"
  /\ UNCHANGED <<tx_done_pending_ack, tx_done_ack_work, work_ack, mac_waits, mac_acks, sending,
                 sends, unknown_error, thread_vars, rx_vars, ed_vars, life_vars, lent>>
zb_trans_enter_sleep ==
  /\ pc = "idle" /\ ~ mac_waits
  /\ state' = "sleep"
  /\ UNCHANGED <<tx_done_pending_ack, tx_done_ack_work, work_ack, mac_waits, mac_acks, sending,
                 sends, unknown_error, thread_vars, rx_vars, ed_vars, life_vars, lent>>

(* zb_trans_transmit sets the state, then asks the driver, which may       *)
(* refuse.                                                                 *)
Transmit ==
  /\ pc = "idle" /\ ~ mac_waits /\ ~ mac_scan /\ sends < MaxSends
  /\ state' = "transmit"
  /\ sends' = sends + 1
  /\ pc' = "transmit"
  /\ UNCHANGED <<slot, tx_done_pending_ack, tx_done_ack_work, work_ack, mac_waits, mac_acks,
                 sending, unknown_error, rx_vars, ed_vars, life_vars, lent>>
TransmitRaw(accepted) ==
  /\ pc = "transmit"
  /\ accepted => ~ sending
  /\ IF accepted THEN sending' = TRUE /\ mac_waits' = TRUE ELSE UNCHANGED <<sending, mac_waits>>
  /\ pc' = "idle"
  /\ UNCHANGED <<slot, state, tx_done_pending_ack, tx_done_ack_work, work_ack, mac_acks, sends,
                 unknown_error, rx_vars, ed_vars, life_vars, lent>>

(* zb_macll_transmitted_raw and zb_macll_transmit_failed.                  *)
MacAnswered(ack) ==
  /\ mac_waits' = FALSE
  /\ mac_acks' = IF pc = "gone" THEN mac_acks ELSE mac_acks \cup Acks(ack)
  /\ leaked' = IF pc = "gone" THEN leaked \cup Acks(ack) ELSE leaked

(* A serialized radio is answered in its callback, so an acknowledgement   *)
(* waits for the system work queue there.                                  *)
DeferAck_dropped(ack) == UNCHANGED <<tx_done_pending_ack, tx_done_ack_work>>
DeferAck_unsubmitted(ack) == tx_done_pending_ack' = ack /\ UNCHANGED tx_done_ack_work
DeferAck(ack) == tx_done_pending_ack' = ack /\ tx_done_ack_work' = TRUE
transmitted_raw(ack) ==
  /\ radio_on /\ sending
  /\ sending' = FALSE
  /\ state' = "receive"
  /\ lent' = lent \cup Acks(ack)
  /\ IF ser_host /\ ack # NoBuffer
     THEN DeferAck(ack) /\ UNCHANGED <<mac_waits, mac_acks, leaked>>
     ELSE MacAnswered(ack) /\ UNCHANGED <<tx_done_pending_ack, tx_done_ack_work>>
  /\ UNCHANGED <<work_ack, sends, unknown_error, thread_vars, rx_vars, ed_vars, ser_host,
                 radio_on, deinits>>

AckWorkTakes ==
  /\ tx_done_ack_work /\ work_ack = NoBuffer
  /\ tx_done_ack_work' = FALSE
  /\ work_ack' = tx_done_pending_ack
  /\ tx_done_pending_ack' = NoBuffer
  /\ UNCHANGED <<state, mac_waits, mac_acks, sending, sends, unknown_error, thread_vars, rx_vars,
                 ed_vars, life_vars, lent>>
AckWorkTells ==
  /\ work_ack # NoBuffer
  /\ MacAnswered(work_ack)
  /\ work_ack' = NoBuffer
  /\ UNCHANGED <<state, tx_done_pending_ack, tx_done_ack_work, sending, sends, unknown_error,
                 thread_vars, rx_vars, ed_vars, ser_host, radio_on, deinits, lent>>

(* An error the switch of the code does not name is passed on to nobody.   *)
transmit_failed(error) ==
  /\ radio_on /\ sending
  /\ sending' = FALSE
  /\ state' = "receive"
  /\ IF error = "unknown" THEN unknown_error' = TRUE /\ UNCHANGED mac_waits
     ELSE mac_waits' = FALSE /\ UNCHANGED unknown_error
  /\ UNCHANGED <<tx_done_pending_ack, tx_done_ack_work, work_ack, mac_acks, sends, thread_vars,
                 rx_vars, ed_vars, life_vars, lent>>

zb_trans_buffer_free(b) ==
  /\ pc = "idle" /\ b \in mac_acks
  /\ mac_acks' = mac_acks \ {b}
  /\ lent' = lent \ {b}
  /\ UNCHANGED <<state, tx_done_pending_ack, tx_done_ack_work, work_ack, mac_waits, sending,
                 sends, unknown_error, thread_vars, rx_vars, ed_vars, life_vars>>

-----------------------------------------------------------------------------
(* Energy detection.                                                       *)

(* zb_trans_start_get_rssi tries until the driver starts.                  *)
StartRssi ==
  /\ pc = "idle" /\ ~ mac_scan /\ ~ mac_waits /\ scans < MaxScans
  /\ scans' = scans + 1 /\ mac_scan' = TRUE
  /\ pc' = "scan"
  /\ UNCHANGED <<slot, rssi_wait, value, detecting, rx_vars, tx_vars, life_vars, lent>>
RssiStarted ==
  /\ pc = "scan"
  /\ detecting' = TRUE
  /\ pc' = "idle"
  /\ UNCHANGED <<slot, rssi_wait, value, mac_scan, scans, rx_vars, tx_vars, life_vars, lent>>

(* zb_trans_get_rssi blocks until the semaphore is given.                  *)
GetRssi ==
  /\ pc = "idle" /\ mac_scan
  /\ pc' = "rssi"
  /\ UNCHANGED <<slot, rx_vars, tx_vars, ed_vars, life_vars, lent>>
TakeRssi ==
  /\ pc = "rssi" /\ rssi_wait > 0
  /\ rssi_wait' = rssi_wait - 1
  /\ mac_scan' = FALSE
  /\ pc' = "idle"
  /\ UNCHANGED <<slot, value, detecting, scans, rx_vars, tx_vars, life_vars, lent>>

GiveRssi == value' = scans /\ rssi_wait' = 1
energy_detected ==
  /\ radio_on /\ detecting
  /\ detecting' = FALSE
  /\ GiveRssi
  /\ UNCHANGED <<mac_scan, scans, thread_vars, rx_vars, tx_vars, life_vars, lent>>

(* A failed detection is started again; if that is refused its value is    *)
(* UINT8_MAX.                                                              *)
RestartRssi_counted(restarted) ==
  detecting' = restarted /\ value' = scans /\ rssi_wait' = rssi_wait + 1
RestartRssi_hasty(restarted) == detecting' = restarted /\ GiveRssi
RestartRssi(restarted) ==
  /\ detecting' = restarted
  /\ IF restarted THEN UNCHANGED <<value, rssi_wait>> ELSE GiveRssi
energy_detection_failed(restarted) ==
  /\ radio_on /\ detecting
  /\ RestartRssi(restarted)
  /\ UNCHANGED <<mac_scan, scans, thread_vars, rx_vars, tx_vars, life_vars, lent>>

-----------------------------------------------------------------------------
(* zigbee_deinit aborts the ZBOSS thread wherever it stands.  Then the     *)
(* dispatcher gives the radio to another protocol, and back.  Who calls it *)
(* does not preempt the system work queue.                                 *)

ThreadAborted ==
  /\ pc # "gone" /\ work_ack = NoBuffer /\ deinits < MaxDeinits
  /\ deinits' = deinits + 1
  /\ pc' = "gone" /\ slot' = NoSlot
  /\ mac_waits' = FALSE /\ mac_scan' = FALSE
  /\ mac_acks' = {} /\ leaked' = leaked \cup mac_acks
  /\ UNCHANGED <<state, tx_done_pending_ack, tx_done_ack_work, work_ack, sending, sends,
                 unknown_error, rssi_wait, value, detecting, scans, rx_vars, ser_host, radio_on,
                 lent>>

radio_deinit ==
  /\ pc = "gone" /\ radio_on /\ work_ack = NoBuffer
  /\ radio_on' = FALSE /\ sending' = FALSE /\ detecting' = FALSE /\ acking' = "none"
  /\ tx_done_ack_work' = FALSE
  /\ lent' = lent \ {frames[s].psdu : s \in Used}
  /\ leaked' = lent' \cap (leaked \cup AckBuffers)
  /\ frames' = [s \in Slots |-> [frames[s] EXCEPT !.psdu = NoBuffer]]
  /\ UNCHANGED <<thread_vars, fifo, last_frame_ack_fpb, received, state, tx_done_pending_ack,
                 work_ack, mac_waits, mac_acks, sends, unknown_error, rssi_wait, value, mac_scan,
                 scans, ser_host, deinits>>

radio_init ==
  /\ ~ radio_on
  /\ state' = "sleep"
  /\ frames' = [s \in Slots |-> EmptyFrame] /\ fifo' = <<>> /\ last_frame_ack_fpb' = FALSE
  /\ rssi_wait' = 0 /\ value' = 0
  /\ radio_on' = TRUE /\ pc' = "idle"
  /\ unknown_error' = FALSE
  /\ UNCHANGED <<slot, acking, received, tx_done_pending_ack, tx_done_ack_work, work_ack,
                 mac_waits, mac_acks, sending, sends, mac_scan, detecting, scans, ser_host,
                 deinits, leaked, lent>>

-----------------------------------------------------------------------------
Reception ==
  \/ \E bit \in BOOLEAN : tx_ack_started(bit)
  \/ \E b \in Buffers, requested \in BOOLEAN : received_timestamp_raw(b, requested)
  \/ receive_failed
  \/ GetFrame \/ FreeBuffer \/ FreeSlot
Transmission ==
  \/ zb_trans_enter_receive \/ zb_trans_enter_sleep
  \/ Transmit
  \/ \E accepted \in BOOLEAN : TransmitRaw(accepted)
  \/ \E ack \in (Buffers \ lent) \cup {NoBuffer} : transmitted_raw(ack)
  \/ \E error \in {"busy", "no_ack", "unknown"} : transmit_failed(error)
  \/ AckWorkTakes \/ AckWorkTells
  \/ \E b \in Buffers : zb_trans_buffer_free(b)
EnergyDetection ==
  \/ StartRssi \/ RssiStarted \/ GetRssi \/ TakeRssi
  \/ energy_detected
  \/ \E restarted \in BOOLEAN : energy_detection_failed(restarted)
Life == ThreadAborted \/ radio_deinit \/ radio_init

Next == Reception \/ Transmission \/ EnergyDetection \/ Life

(* The work queue runs, and the driver ends a transmission in one of the   *)
(* ways it has.                                                            *)
DriverEndsTransmission ==
  \/ \E ack \in (Buffers \ lent) \cup {NoBuffer} : transmitted_raw(ack)
  \/ \E error \in {"busy", "no_ack", "unknown"} : transmit_failed(error)
Fairness ==
  /\ WF_vars(DriverEndsTransmission) /\ WF_vars(AckWorkTakes) /\ WF_vars(AckWorkTells)
Spec == Init /\ [][Next]_vars /\ Fairness

-----------------------------------------------------------------------------
(* Whenever the driver has a buffer to receive into, a slot is free: the   *)
(* assertion "Not enough rx frames allocated" does not fail, though slots  *)
(* are freed after their buffers.                                          *)
SlotForEveryFrame == lent # Buffers => Free # {}

(* Every buffer the driver lent has exactly one owner who will return it,  *)
(* also when the work queue holds an acknowledgement; lost is only what    *)
(* zigbee_deinit takes from the MAC, and an acknowledgement whose work     *)
(* item is cancelled.  A slot may outlive its buffer only between the two  *)
(* last steps of zb_trans_get_next_packet.                                 *)
Clearing == IF pc = "clear" THEN {slot} ELSE {}
SlotBuffers == {frames[s].psdu : s \in Used \ Clearing}
BuffersHaveOwners ==
  /\ pc # "gone" =>
       /\ lent \ leaked = SlotBuffers \cup AckBuffers \cup mac_acks
       /\ Cardinality(lent \ leaked) = Cardinality(Used \ Clearing) + Cardinality(AckBuffers)
                                         + Cardinality(mac_acks)
  /\ ~ radio_on => lent \subseteq leaked

(* A frame is passed on with the frame pending bit of the acknowledgement  *)
(* that was sent for it, never with that of another frame.                 *)
PendingBitIsOwn == \A s \in Used : frames[s].ack_fpb = frames[s].acked

(* The value zb_trans_get_rssi reads is that of the energy detection       *)
(* started last: the semaphore is not left from an earlier one.            *)
RssiIsFresh == rssi_wait > 0 /\ pc # "gone" => mac_scan /\ ~ detecting /\ value = scans

(* An accepted transmission is answered to the MAC, unless it failed with  *)
(* an error zigbee_nrf_802154_transmit_failed does not know.               *)
TransmissionIsAnswered == mac_waits ~> (~ mac_waits \/ unknown_error)
===============================================================================
