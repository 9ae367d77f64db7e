----------------------------- MODULE AsyncSerial ------------------------------
(***************************************************************************)
(* The asynchronous serial port of the OSIF                                *)
(* (subsys/osif/zb_nrf_async_serial.c): one transfer and one reception at  *)
(* a time, each guarded by a semaphore, carried on by the UART interrupt,  *)
(* ended by it or by a timer.                                              *)
(*                                                                         *)
(* The ZBOSS thread starts transfers and receptions and runs the callbacks *)
(* that report their end.  The interrupt and the timers may preempt it     *)
(* between any two of its assignments to what they share; they do not      *)
(* preempt each other, so each of their handlers is one step.              *)
(*                                                                         *)
(* A byte is a number: received bytes in the order of their arrival, sent  *)
(* bytes the transfer and the position they come from.                     *)
(***************************************************************************)
EXTENDS Naturals, Sequences, FiniteSets, Functions

CONSTANTS
  TxLen,      \* TxLen[t]: length of the t-th transfer; bound on transfers
  RxLen,      \* length the user asks for
  MaxRecvs,   \* bound: receptions
  MaxBytes,   \* bound: bytes that arrive
  RingLen,    \* CONFIG_ZIGBEE_UART_RX_BUF_LEN
  MaxSleeps,  \* bound: calls of zb_osif_async_serial_sleep
  MaxFlushes, \* bound: calls of zb_osif_async_serial_flush
  MayRefuse   \* zigbee_schedule_callback may find its queue full

ASSUME LengthAssumption ==
  /\ TxLen \in Seq(Nat)
  /\ RxLen \in Nat \ {0} /\ RingLen \in Nat \ {0}
ASSUME BoundAssumption ==
  /\ MaxRecvs \in Nat /\ MaxBytes \in Nat /\ MaxSleeps \in Nat /\ MaxFlushes \in Nat
  /\ MayRefuse \in BOOLEAN

Transfer == DOMAIN TxLen
NoTransfer == 0

VARIABLES
  tx_done_sem,   \* semaphore of the transfer
  tx_buf,        \* uart_tx_buf: the transfer it belongs to
  tx_len,        \* uart_tx_buf_len
  tx_offset,     \* uart_tx_buf_offset
  tx_trx_cb,     \* tx_trx_data_cb: the transfer it will report, or none
  tx_irq,        \* the transmit interrupt is enabled
  tx_timer,      \* uart_tx_timer runs
  rx_done_sem,   \* semaphore of the reception
  rx_buf,        \* uart_rx_buf is set
  rx_data,       \* what the user's buffer holds; uart_rx_buf_offset its length
  rx_len,        \* uart_rx_buf_len
  rx_ringbuf,    \* rx_ringbuf
  rx_irq,        \* the receive interrupt is enabled
  rx_timer,      \* uart_rx_timer runs
  is_sleeping,
  callbacks,     \* what zigbee_schedule_callback accepted, in order
  pc,            \* where the ZBOSS thread stands
  flush_pc,      \* where a thread that flushes stands
  sends, recvs, sleeps, flushes, arrived,  \* counters
  wire,          \* history: bytes given to the UART
  early,         \* history: transfers the interrupt began before the call that
                 \* starts them had passed their callback
  answer,        \* history: what each transfer was answered
  delivered,     \* history: bytes given to the user
  lost           \* history: bytes dropped

tx_vars == <<tx_done_sem, tx_buf, tx_len, tx_offset, tx_trx_cb, tx_irq, tx_timer, wire, early>>
rx_vars == <<rx_done_sem, rx_buf, rx_data, rx_len, rx_ringbuf, rx_irq, rx_timer,
             arrived, lost>>
thread_vars == <<pc, sends, recvs, sleeps, is_sleeping>>
flush_vars == <<flush_pc, flushes>>
vars == <<tx_vars, rx_vars, thread_vars, flush_vars, callbacks, answer, delivered>>

Steps == {"idle", "tx_buf", "tx_len", "tx_offset", "tx_cb", "tx_irq",
          "rx_flush", "rx_arm", "rx_buf", "rx_deliver"}
Answers == {"none", "busy", "error", "success", "timeout", "dropped"}
Callback == [cb : {"uart_rx_notify"}]
              \cup [cb : {"tx"}, of : Transfer, status : {"success", "timeout"}]

TypeOK ==
  /\ tx_done_sem \in 0..1 /\ rx_done_sem \in 0..1
  /\ tx_buf \in Transfer \cup {NoTransfer} /\ tx_trx_cb \in Transfer \cup {NoTransfer}
  /\ tx_len \in Nat /\ tx_offset \in 0..tx_len
  /\ tx_irq \in BOOLEAN /\ tx_timer \in BOOLEAN
  /\ rx_irq \in BOOLEAN /\ rx_timer \in BOOLEAN
  /\ rx_buf \in BOOLEAN /\ rx_len \in {0, RxLen}
  /\ rx_data \in Seq(1..arrived) /\ Len(rx_data) <= RxLen
  /\ rx_ringbuf \in Seq(1..arrived) /\ Len(rx_ringbuf) <= RingLen
  /\ is_sleeping \in BOOLEAN
  /\ callbacks \in Seq(Callback)
  /\ pc \in Steps /\ flush_pc \in {"idle", "give"}
  /\ sends \in 0..Len(TxLen) /\ recvs \in 0..MaxRecvs
  /\ sleeps \in 0..MaxSleeps /\ flushes \in 0..MaxFlushes /\ arrived \in 0..MaxBytes
  /\ wire \in Seq(Transfer \X Nat)
  /\ answer \in [Transfer -> Answers] /\ early \subseteq Transfer
  /\ delivered \in Seq(1..arrived) /\ lost \subseteq 1..arrived

Init ==
  /\ tx_done_sem = 1 /\ tx_buf = NoTransfer /\ tx_len = 0 /\ tx_offset = 0
  /\ tx_trx_cb = NoTransfer /\ tx_irq = FALSE /\ tx_timer = FALSE
  /\ rx_done_sem = 1 /\ rx_buf = FALSE /\ rx_data = <<>> /\ rx_len = 0
  /\ rx_ringbuf = <<>> /\ rx_irq = TRUE /\ rx_timer = FALSE
  /\ is_sleeping = FALSE /\ callbacks = <<>>
  /\ pc = "idle" /\ flush_pc = "idle"
  /\ sends = 0 /\ recvs = 0 /\ sleeps = 0 /\ flushes = 0 /\ arrived = 0
  /\ wire = <<>> /\ early = {} /\ answer = [t \in Transfer |-> "none"]
  /\ delivered = <<>> /\ lost = {}

First(s, n) == SubSeq(s, 1, n)
Beyond(s, n) == SubSeq(s, n + 1, Len(s))
Least(m, n) == IF m <= n THEN m ELSE n
Give(sem) == sem' = 1

-------------------------------------------------------------------------------
(* Transfers: zb_osif_serial_send_data in the ZBOSS thread.                *)

(* The call is refused while asleep and when the semaphore does not come   *)
(* in time; both are answered at once.                                     *)
SendRefused ==
  /\ pc = "idle" /\ sends < Len(TxLen)
  /\ is_sleeping \/ tx_done_sem = 0
  /\ sends' = sends + 1
  /\ answer' = [answer EXCEPT ![sends + 1] = IF is_sleeping THEN "error" ELSE "busy"]
  /\ UNCHANGED <<tx_vars, rx_vars, pc, recvs, sleeps, is_sleeping, flush_vars, callbacks,
                 delivered>>

SendTake ==
  /\ pc = "idle" /\ sends < Len(TxLen)
  /\ ~is_sleeping /\ tx_done_sem = 1
  /\ sends' = sends + 1
  /\ tx_done_sem' = 0
  /\ pc' = "tx_buf"
  /\ UNCHANGED <<tx_buf, tx_len, tx_offset, tx_trx_cb, tx_irq, tx_timer, wire, early, rx_vars,
                 recvs, sleeps, is_sleeping, flush_vars, callbacks, answer, delivered>>

SendStep(from, to) ==
  /\ pc = from
  /\ pc' = to
  /\ UNCHANGED <<tx_done_sem, tx_timer, wire, early, rx_vars, sends, recvs, sleeps,
                 is_sleeping, flush_vars, callbacks, answer, delivered>>

SendBuf ==
  /\ SendStep("tx_buf", "tx_len")
  /\ tx_buf' = sends
  /\ UNCHANGED <<tx_len, tx_offset, tx_trx_cb, tx_irq>>

SendLen ==
  /\ SendStep("tx_len", "tx_offset")
  /\ tx_len' = TxLen[sends]
  /\ UNCHANGED <<tx_buf, tx_offset, tx_trx_cb, tx_irq>>

SendOffset ==
  /\ SendStep("tx_offset", "tx_cb")
  /\ tx_offset' = 0
  /\ UNCHANGED <<tx_buf, tx_len, tx_trx_cb, tx_irq>>

SendCb ==
  /\ SendStep("tx_cb", "tx_irq")
  /\ tx_trx_cb' = sends
  /\ UNCHANGED <<tx_buf, tx_len, tx_offset, tx_irq>>

SendIrq ==
  /\ SendStep("tx_irq", "idle")
  /\ tx_irq' = TRUE
  /\ UNCHANGED <<tx_buf, tx_len, tx_offset, tx_trx_cb>>

(* The transfer is over: the semaphore is given and the callback scheduled; *)
(* nobody looks whether that worked.                                       *)
ResetTxKeepsOffset ==
  /\ tx_len' = 0 /\ tx_buf' = NoTransfer /\ tx_timer' = FALSE
  /\ UNCHANGED tx_offset

ResetTxKeepsLength ==
  /\ tx_offset' = 0 /\ tx_buf' = NoTransfer /\ tx_timer' = FALSE
  /\ UNCHANGED tx_len

ResetTx == tx_offset' = 0 /\ tx_len' = 0 /\ tx_buf' = NoTransfer /\ tx_timer' = FALSE

Report(status) ==
  \/ /\ callbacks' = Append(callbacks, [cb |-> "tx", of |-> tx_trx_cb, status |-> status])
     /\ UNCHANGED answer
  \/ /\ MayRefuse
     /\ answer' = [answer EXCEPT ![tx_trx_cb] = "dropped"]
     /\ UNCHANGED callbacks

TransferEnds(status) ==
  /\ ResetTx
  /\ Give(tx_done_sem)
  /\ tx_trx_cb' = NoTransfer
  /\ IF tx_trx_cb # NoTransfer THEN Report(status) ELSE UNCHANGED <<callbacks, answer>>

uart_tx_timeout ==
  /\ tx_timer
  /\ TransferEnds("timeout")
  /\ UNCHANGED <<tx_irq, wire, early, rx_vars, thread_vars, flush_vars, delivered>>

NothingToSend == tx_len <= tx_offset

TxIdle ==
  /\ tx_irq /\ NothingToSend
  /\ tx_irq' = FALSE
  /\ UNCHANGED <<tx_done_sem, tx_buf, tx_len, tx_offset, tx_trx_cb, tx_timer, wire, early,
                 rx_vars, thread_vars, flush_vars, callbacks, answer, delivered>>

AllTaken_but_one(n) == tx_offset + n >= tx_len - 1
AllTaken(n) == tx_offset + n = tx_len

TxContinues_untimed(n) ==
  /\ tx_offset' = tx_offset + n
  /\ UNCHANGED <<tx_done_sem, tx_buf, tx_len, tx_trx_cb, tx_timer, callbacks, answer>>

TxContinues(n) ==
  /\ tx_offset' = tx_offset + n
  /\ tx_timer' = TRUE
  /\ UNCHANGED <<tx_done_sem, tx_buf, tx_len, tx_trx_cb, callbacks, answer>>

(* The UART takes some of the bytes, or none: the timer runs either way.   *)
(* The interrupt may still be enabled from the last transfer and come      *)
(* between the assignments of the call that starts this one.               *)
TxFill(n) ==
  /\ tx_irq /\ ~NothingToSend
  /\ n <= tx_len - tx_offset
  /\ early' = IF pc \in {"tx_offset", "tx_cb"} THEN early \cup {sends} ELSE early
  /\ wire' = wire \o [i \in 1..n |-> <<tx_buf, tx_offset + i>>]
  /\ IF AllTaken(n) THEN TransferEnds("success") ELSE TxContinues(n)
  /\ UNCHANGED <<tx_irq, rx_vars, thread_vars, flush_vars, delivered>>

handle_tx_ready_evt == TxIdle \/ \E n \in 0..tx_len : TxFill(n)

(* The user's callback, run by ZBOSS.                                      *)
TxCallback ==
  /\ pc = "idle" /\ callbacks # <<>> /\ Head(callbacks).cb = "tx"
  /\ callbacks' = Tail(callbacks)
  /\ answer' = [answer EXCEPT ![Head(callbacks).of] = Head(callbacks).status]
  /\ UNCHANGED <<tx_vars, rx_vars, thread_vars, flush_vars, delivered>>

(* zb_osif_async_serial_flush, by any thread.                              *)
FlushTake ==
  /\ flush_pc = "idle" /\ flushes < MaxFlushes
  /\ tx_done_sem = 1
  /\ tx_done_sem' = 0
  /\ flush_pc' = "give" /\ flushes' = flushes + 1
  /\ UNCHANGED <<tx_buf, tx_len, tx_offset, tx_trx_cb, tx_irq, tx_timer, wire, early,
                 rx_vars, thread_vars, callbacks, answer, delivered>>

FlushGive ==
  /\ flush_pc = "give"
  /\ Give(tx_done_sem)
  /\ flush_pc' = "idle"
  /\ UNCHANGED <<tx_buf, tx_len, tx_offset, tx_trx_cb, tx_irq, tx_timer, wire, early,
                 rx_vars, thread_vars, flushes, callbacks, answer, delivered>>

-------------------------------------------------------------------------------
(* Receptions: zb_osif_serial_recv_data in the ZBOSS thread.  A call that  *)
(* is refused is answered at once and changes nothing.                     *)

RecvTake ==
  /\ pc = "idle" /\ recvs < MaxRecvs
  /\ ~is_sleeping /\ rx_done_sem = 1
  /\ rx_done_sem' = 0
  /\ recvs' = recvs + 1
  /\ pc' = "rx_flush"
  /\ UNCHANGED <<tx_vars, rx_buf, rx_data, rx_len, rx_ringbuf, rx_irq, rx_timer, arrived, lost,
                 sends, sleeps, is_sleeping, flush_vars, callbacks, answer, delivered>>

(* With the interrupt off, what the ring buffer holds is taken first.      *)
RecvFlush ==
  /\ pc = "rx_flush"
  /\ rx_data' = First(rx_ringbuf, Least(RxLen, Len(rx_ringbuf)))
  /\ rx_ringbuf' = Beyond(rx_ringbuf, Least(RxLen, Len(rx_ringbuf)))
  /\ rx_irq' = TRUE
  /\ pc' = "rx_arm"
  /\ UNCHANGED <<tx_vars, rx_done_sem, rx_buf, rx_len, rx_timer, arrived, lost, sends, recvs,
                 sleeps, is_sleeping, flush_vars, callbacks, answer, delivered>>

RecvComplete ==
  /\ pc = "rx_arm" /\ Len(rx_data) = RxLen
  /\ rx_data' = <<>>
  /\ Give(rx_done_sem)
  /\ delivered' = delivered \o rx_data
  /\ pc' = "idle"
  /\ UNCHANGED <<tx_vars, rx_buf, rx_len, rx_ringbuf, rx_irq, rx_timer, arrived, lost, sends,
                 recvs, sleeps, is_sleeping, flush_vars, callbacks, answer>>

RecvLen ==
  /\ pc = "rx_arm" /\ Len(rx_data) # RxLen
  /\ rx_len' = RxLen
  /\ pc' = "rx_buf"
  /\ UNCHANGED <<tx_vars, rx_done_sem, rx_buf, rx_data, rx_ringbuf, rx_irq, rx_timer, arrived,
                 lost, sends, recvs, sleeps, is_sleeping, flush_vars, callbacks, answer,
                 delivered>>

RecvBuf ==
  /\ pc = "rx_buf"
  /\ rx_buf' = TRUE
  /\ pc' = "idle"
  /\ UNCHANGED <<tx_vars, rx_done_sem, rx_data, rx_len, rx_ringbuf, rx_irq, rx_timer, arrived,
                 lost, sends, recvs, sleeps, is_sleeping, flush_vars, callbacks, answer,
                 delivered>>

(* The reception is over.  uart_rx_notify is scheduled; when that fails    *)
(* the bytes are dropped and the semaphore given.                          *)
DropReception_locked(data) ==
  /\ rx_data' = <<>> /\ rx_buf' = FALSE
  /\ lost' = lost \cup Range(data)
  /\ UNCHANGED rx_done_sem

DropReception(data) ==
  /\ rx_data' = <<>> /\ rx_buf' = FALSE
  /\ lost' = lost \cup Range(data)
  /\ Give(rx_done_sem)

ReceptionEnds(data) ==
  /\ rx_len' = 0
  /\ rx_timer' = FALSE
  /\ \/ /\ callbacks' = Append(callbacks, [cb |-> "uart_rx_notify"])
        /\ rx_data' = data
        /\ UNCHANGED <<rx_buf, rx_done_sem, lost>>
     \/ /\ MayRefuse
        /\ DropReception(data)
        /\ UNCHANGED callbacks

IsReceiving_full == rx_buf /\ Len(rx_data) = rx_len
IsReceiving == rx_buf

uart_rx_timeout ==
  /\ rx_timer
  /\ IF IsReceiving THEN ReceptionEnds(rx_data)
     ELSE /\ rx_timer' = FALSE
          /\ UNCHANGED <<rx_len, rx_data, rx_buf, rx_done_sem, lost, callbacks>>
  /\ UNCHANGED <<tx_vars, rx_ringbuf, rx_irq, arrived, thread_vars, flush_vars, answer,
                 delivered>>

Receiving == rx_buf /\ Len(rx_data) < rx_len
Arriving(n) == [i \in 1..n |-> arrived + i]

(* n bytes arrive for the user's buffer, after those of the ring buffer.   *)
FromRing_nothing == 0
FromRing == Least(rx_len - Len(rx_data), Len(rx_ringbuf))

RxToUser(n) ==
  LET room == rx_len - Len(rx_data) - FromRing
      data == rx_data \o First(rx_ringbuf, FromRing) \o Arriving(n)
  IN  /\ rx_irq /\ Receiving
      /\ n <= room /\ (n = 0 => room = 0)
      /\ arrived + n <= MaxBytes /\ arrived < MaxBytes
      /\ arrived' = arrived + n
      /\ rx_ringbuf' = Beyond(rx_ringbuf, FromRing)
      /\ IF Len(data) = rx_len
           THEN ReceptionEnds(data)
           ELSE /\ rx_data' = data
                /\ rx_timer' = TRUE
                /\ UNCHANGED <<rx_len, rx_buf, rx_done_sem, lost, callbacks>>
      /\ UNCHANGED <<tx_vars, rx_irq, thread_vars, flush_vars, answer, delivered>>

(* Without a reception bytes go to the ring buffer, the oldest give way.   *)
RxToRing(n) ==
  LET all == rx_ringbuf \o Arriving(n)
      over == IF Len(all) > RingLen THEN Len(all) - RingLen ELSE 0
  IN  /\ rx_irq /\ ~Receiving
      /\ arrived + n <= MaxBytes
      /\ arrived' = arrived + n
      /\ rx_ringbuf' = Beyond(all, over)
      /\ lost' = lost \cup Range(First(all, over))
      /\ UNCHANGED <<tx_vars, rx_done_sem, rx_buf, rx_data, rx_len, rx_irq, rx_timer,
                     thread_vars, flush_vars, callbacks, answer, delivered>>

handle_rx_ready_evt ==
  \/ \E n \in 0..RxLen : RxToUser(n)
  \/ \E n \in 1..RingLen : RxToRing(n)

(* uart_rx_notify resets the reception, then the user gets the bytes.      *)
uart_rx_notify ==
  /\ pc = "idle" /\ callbacks # <<>> /\ Head(callbacks).cb = "uart_rx_notify"
  /\ callbacks' = Tail(callbacks)
  /\ rx_len' = 0
  /\ pc' = "rx_deliver"
  /\ UNCHANGED <<tx_vars, rx_done_sem, rx_buf, rx_data, rx_ringbuf, rx_irq, rx_timer, arrived,
                 lost, sends, recvs, sleeps, is_sleeping, flush_vars, answer, delivered>>

RxDeliver ==
  /\ pc = "rx_deliver"
  /\ rx_data' = <<>> /\ rx_buf' = FALSE
  /\ rx_timer' = FALSE
  /\ Give(rx_done_sem)
  /\ delivered' = delivered \o rx_data
  /\ pc' = "idle"
  /\ UNCHANGED <<tx_vars, rx_len, rx_ringbuf, rx_irq, arrived, lost, sends, recvs, sleeps,
                 is_sleeping, flush_vars, callbacks, answer>>

-------------------------------------------------------------------------------
(* Power management, in the ZBOSS thread.                                  *)

zb_osif_async_serial_sleep ==
  /\ pc = "idle" /\ sleeps < MaxSleeps
  /\ sleeps' = sleeps + 1
  /\ is_sleeping' = TRUE
  /\ tx_irq' = FALSE /\ rx_irq' = FALSE
  /\ UNCHANGED <<tx_done_sem, tx_buf, tx_len, tx_offset, tx_trx_cb, tx_timer, wire, early,
                 rx_done_sem, rx_buf, rx_data, rx_len, rx_ringbuf, rx_timer, arrived, lost,
                 pc, sends, recvs, flush_vars, callbacks, answer, delivered>>

zb_osif_async_serial_wake_up ==
  /\ pc = "idle" /\ is_sleeping
  /\ is_sleeping' = FALSE
  /\ rx_irq' = TRUE
  /\ UNCHANGED <<tx_vars, rx_done_sem, rx_buf, rx_data, rx_len, rx_ringbuf, rx_timer, arrived,
                 lost, pc, sends, recvs, sleeps, flush_vars, callbacks, answer, delivered>>

-------------------------------------------------------------------------------
Send == SendBuf \/ SendLen \/ SendOffset \/ SendCb \/ SendIrq
Recv == RecvFlush \/ RecvComplete \/ RecvLen \/ RecvBuf
Thread == Send \/ Recv \/ TxCallback \/ uart_rx_notify \/ RxDeliver

Next ==
  \/ SendRefused \/ SendTake \/ RecvTake
  \/ Thread
  \/ handle_tx_ready_evt \/ handle_rx_ready_evt
  \/ uart_tx_timeout \/ uart_rx_timeout
  \/ FlushTake \/ FlushGive
  \/ zb_osif_async_serial_sleep \/ zb_osif_async_serial_wake_up

Spec == Init /\ [][Next]_vars

(* The ZBOSS thread runs what is scheduled, timers expire, and the UART    *)
(* interrupts for the first bytes of a transfer, perhaps to take none of   *)
(* them.  That it takes more, that bytes arrive and that anybody calls is  *)
(* left open.                                                              *)
Fairness ==
  /\ WF_vars(Thread)
  /\ WF_vars(uart_tx_timeout) /\ WF_vars(uart_rx_timeout)
  /\ WF_vars(tx_offset = 0 /\ handle_tx_ready_evt)

FairSpec == Spec /\ Fairness

-------------------------------------------------------------------------------
SendSteps == {"tx_buf", "tx_len", "tx_offset", "tx_cb", "tx_irq"}
RecvSteps == {"rx_flush", "rx_arm", "rx_buf"}
One(cond) == IF cond THEN 1 ELSE 0
Notifications == {i \in DOMAIN callbacks : callbacks[i].cb = "uart_rx_notify"}
Reports(t) == {i \in DOMAIN callbacks : callbacks[i].cb = "tx" /\ callbacks[i].of = t}
AllSent(t) == <<t, TxLen[t]>> \in Range(wire)

(* A transfer of no bytes: send_data does not look at its length, and no   *)
(* interrupt or timer will ever end it.                                    *)
EmptyTransfer ==
  tx_buf # NoTransfer /\ TxLen[tx_buf] = 0 /\ pc \notin {"tx_buf", "tx_len"}

(* tx_done_sem (send_data, uart_tx_timeout, handle_tx_ready_evt, flush) has *)
(* exactly one holder: the call of send_data that has not yet set length   *)
(* and so started its transfer, the transfer, or a flush.  A holder too    *)
(* many gives it twice and two transfers share one descriptor; one too few *)
(* and no transfer starts.  The interrupt, which may still be enabled from *)
(* the last transfer, can end this one while its call stands anywhere      *)
(* after that.  A transfer of no bytes holds the semaphore for ever.       *)
TransferIsOwned ==
  One(pc \in {"tx_buf", "tx_len"}) + One(~NothingToSend) + One(EmptyTransfer)
    + One(flush_pc = "give") = 1 - tx_done_sem

(* rx_done_sem (recv_data, handle_rx_ready_evt, uart_rx_timeout,           *)
(* uart_rx_notify) likewise: the call that starts a reception, the         *)
(* reception, its scheduled notification or the notification that runs.    *)
ReceptionIsOwned ==
  One(pc \in RecvSteps) + One(pc # "rx_buf" /\ rx_len > 0) + Cardinality(Notifications)
    + One(pc = "rx_deliver") = 1 - rx_done_sem

(* Every byte handle_rx_ready_evt reads is in exactly one place, and the   *)
(* places follow in order of arrival: given to the user, in the user's     *)
(* buffer, in the ring buffer; only what the code drops is missing.        *)
StreamIsIntact ==
  LET all == delivered \o rx_data \o rx_ringbuf
  IN  /\ \A i, j \in DOMAIN all : i < j => all[i] < all[j]
      /\ Range(all) \cup lost = 1..arrived
      /\ Range(all) \cap lost = {}

(* handle_tx_ready_evt sends the bytes of a transfer once, in order and    *)
(* without those of another in between, transfers in the order of their    *)
(* calls; the status is success only after the last byte, and every other  *)
(* status means that some of them never went out.  A transfer the          *)
(* interrupt begins before its callback is passed may start again with its *)
(* first byte (the call resets the offset) and its status may be the one   *)
(* of a later transfer of that kind (the callback passed too late stays).  *)
StartsTransfer(b) == b[2] = 1
Follows(b, c) ==
  \/ c[1] = b[1] /\ c[2] = b[2] + 1
  \/ c[1] = b[1] /\ c[1] \in early /\ StartsTransfer(c)
  \/ c[1] > b[1] /\ StartsTransfer(c)

TransferIsFaithful ==
  /\ wire # <<>> => StartsTransfer(wire[1])
  /\ \A i \in 2..Len(wire) : Follows(wire[i - 1], wire[i])
  /\ \A t \in Transfer \ early :
       /\ answer[t] = "success" => AllSent(t)
       /\ answer[t] \in {"timeout", "busy", "error"} => ~AllSent(t)

(* Every call of send_data ends with an answer to its callback or, when    *)
(* the scheduling wrapper refuses, without one: again and again no call is *)
(* left open.  There are three exceptions.  A transfer put to sleep before *)
(* its first byte has its interrupt off for good and no timer.  A transfer *)
(* of no bytes never ends.  A transfer the interrupt begins before its     *)
(* callback is passed may end unreported.                                  *)
Ended(t) ==
  \/ answer[t] # "none"
  \/ tx_buf = t /\ ~tx_irq /\ ~tx_timer /\ pc \notin SendSteps
  \/ tx_buf = t /\ EmptyTransfer
  \/ t \in early
EveryTransferEnds == []<>(\A t \in Transfer : sends >= t => Ended(t))

(* A reception of which the interrupt delivered a part comes to its end,   *)
(* by its last byte or by uart_rx_timeout, and the next one may start.     *)
PartialReceptionEnds == rx_timer ~> rx_done_sem = 1

(* A transfer whose bytes all went out is reported: its callback is        *)
(* scheduled, has run, or was refused (send_data, lines 349 and 350).      *)
CompletionIsReported ==
  \A t \in Transfer :
    pc = "idle" /\ AllSent(t) => answer[t] # "none" \/ Reports(t) # {}
===============================================================================
