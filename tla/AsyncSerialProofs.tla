--------------------------- MODULE AsyncSerialProofs --------------------------
(***************************************************************************)
(* Proofs about AsyncSerial for any transfers, lengths and bounds, and     *)
(* wherever interrupts and timers preempt the ZBOSS thread.                *)
(*                                                                         *)
(* For the transmitting side: tx_done_sem always has exactly one holder    *)
(* (TransferOwned), bytes go out once and in order and every callback is   *)
(* told the truth (TransferFaithful), but for the transfers the interrupt  *)
(* begins before their callback is passed.                                 *)
(*                                                                         *)
(* For the receiving side: rx_done_sem always has exactly one holder       *)
(* (ReceptionOwned) and no received byte is lost, doubled or delivered out *)
(* of order except for those the code drops (StreamKept).                  *)
(***************************************************************************)
EXTENDS AsyncSerial, SequenceLemmas

TxType ==
  /\ tx_done_sem \in 0..1 /\ tx_buf \in Transfer \cup {NoTransfer}
  /\ tx_len \in Nat /\ tx_offset \in Nat
  /\ pc \in Steps /\ flush_pc \in {"idle", "give"}
  /\ sends \in 0..Len(TxLen)

(* The semaphore belongs to a call that has not set the descriptor yet, to *)
(* the transfer in the descriptor, or to a flush.                          *)
HasOneHolder ==
  One(pc = "tx_buf") + One(tx_buf # NoTransfer) + One(flush_pc = "give") = 1 - tx_done_sem

(* While a call of send_data fills in the descriptor, it describes that    *)
(* transfer or, when the interrupt or the timer was faster, nothing.       *)
CallHasDescriptor ==
  /\ pc \in SendSteps => sends \in Transfer
  /\ pc = "tx_buf" => tx_buf = NoTransfer
  /\ pc = "tx_len" => tx_buf = sends
  /\ pc \in {"tx_offset", "tx_cb", "tx_irq"} => tx_buf \in {sends, NoTransfer}

DescriptorIsFilled ==
  /\ pc \in {"tx_buf", "tx_len"} \/ tx_buf = NoTransfer => tx_len = 0
  /\ pc \notin {"tx_buf", "tx_len"} /\ tx_buf # NoTransfer => tx_len = TxLen[tx_buf]

DescriptorIsReset == NothingToSend => tx_len = 0 /\ tx_offset = 0
TimerMeansTransfer == tx_timer => ~NothingToSend

(* Before the callback is passed the transfer is untouched, or the         *)
(* interrupt began it early.                                               *)
UntouchedOrEarly ==
  pc \in {"tx_offset", "tx_cb"} =>
    (tx_buf = sends /\ ~tx_timer /\ tx_offset = 0) \/ sends \in early

TxInv ==
  /\ TxType
  /\ HasOneHolder /\ CallHasDescriptor /\ DescriptorIsFilled /\ DescriptorIsReset
  /\ TimerMeansTransfer /\ UntouchedOrEarly

LEMMA TransferIs == Transfer = 1..Len(TxLen) /\ Len(TxLen) \in Nat
                      /\ \A t \in Transfer : TxLen[t] \in Nat
  BY LengthAssumption, LenProperties DEF Transfer

LEMMA InitTx == Init => TxInv
<1> SUFFICES ASSUME Init PROVE TxInv
  OBVIOUS
<1>1. Len(TxLen) \in Nat
  BY TransferIs
<1>2. /\ tx_done_sem = 1 /\ tx_len = 0 /\ tx_offset = 0 /\ tx_irq = FALSE /\ tx_timer = FALSE
      /\ tx_buf = NoTransfer /\ pc = "idle" /\ flush_pc = "idle" /\ sends = 0
  BY DEF Init
<1>3. HasOneHolder
  BY <1>2 DEF HasOneHolder, One
<1>4. TxType
  BY <1>1, <1>2 DEF TxType, Steps
<1>5. CallHasDescriptor /\ DescriptorIsFilled /\ DescriptorIsReset
  BY <1>2 DEF CallHasDescriptor, DescriptorIsFilled, DescriptorIsReset, SendSteps
<1>6. TimerMeansTransfer /\ UntouchedOrEarly
  BY <1>2 DEF TimerMeansTransfer, UntouchedOrEarly
<1> QED
  BY <1>3, <1>4, <1>5, <1>6 DEF TxInv

(* The end of a transfer empties the descriptor and frees the semaphore.   *)
LEMMA TransferEndsTx ==
  ASSUME NEW status, TxInv, ~NothingToSend, TransferEnds(status),
         pc' = pc, flush_pc' = flush_pc, sends' = sends,
         early \subseteq early', pc \in {"tx_offset", "tx_cb"} => sends \in early'
  PROVE  TxInv'
<1>1. /\ tx_offset' = 0 /\ tx_len' = 0 /\ tx_timer' = FALSE /\ tx_done_sem' = 1
      /\ tx_buf' = NoTransfer
  BY DEF TransferEnds, ResetTx, Give
<1>2. pc \notin {"tx_buf", "tx_len"} /\ tx_buf # NoTransfer
  BY DEF TxInv, TxType, DescriptorIsFilled, NothingToSend
<1>3. flush_pc # "give"
  BY <1>2 DEF TxInv, TxType, HasOneHolder, One
<1>4. HasOneHolder'
  BY <1>1, <1>2, <1>3 DEF HasOneHolder, One
<1>5. TxType'
  BY <1>1 DEF TxInv, TxType
<1>6. CallHasDescriptor' /\ DescriptorIsFilled' /\ DescriptorIsReset'
  BY <1>1, <1>2 DEF TxInv, CallHasDescriptor, DescriptorIsFilled, DescriptorIsReset
<1>7. TimerMeansTransfer' /\ UntouchedOrEarly'
  BY <1>1 DEF TimerMeansTransfer, UntouchedOrEarly
<1> QED
  BY <1>4, <1>5, <1>6, <1>7 DEF TxInv

(* What leaves the transfer alone and moves the thread outside send_data   *)
(* preserves the invariant.                                                *)
LEMMA OtherSteps ==
  ASSUME TxInv,
         UNCHANGED <<tx_done_sem, tx_buf, tx_len, tx_offset, tx_timer, early, sends, flush_pc>>,
         pc' \in Steps,
         pc' = pc \/ (pc \notin SendSteps /\ pc' \notin SendSteps)
  PROVE  TxInv'
<1> USE DEF TxInv
<1>1. TxType'
  BY DEF TxType
<1>2. \A p \in SendSteps : pc' = p <=> pc = p
  OBVIOUS
<1>3. /\ pc' = "tx_buf" <=> pc = "tx_buf"
      /\ pc' = "tx_len" <=> pc = "tx_len"
      /\ pc' = "tx_offset" <=> pc = "tx_offset"
      /\ pc' = "tx_cb" <=> pc = "tx_cb"
      /\ pc' = "tx_irq" <=> pc = "tx_irq"
  BY <1>2 DEF SendSteps
<1>4. HasOneHolder'
  BY <1>3 DEF HasOneHolder
<1>5. CallHasDescriptor' /\ DescriptorIsFilled'
  BY <1>3 DEF CallHasDescriptor, DescriptorIsFilled, SendSteps
<1>6. DescriptorIsReset' /\ TimerMeansTransfer'
  BY DEF DescriptorIsReset, TimerMeansTransfer, NothingToSend
<1>7. UntouchedOrEarly'
  BY <1>3 DEF UntouchedOrEarly
<1> QED
  BY <1>1, <1>4, <1>5, <1>6, <1>7

(* The calls of send_data and their assignments.                           *)
LEMMA CallsKeepTx ==
  ASSUME TxInv, SendRefused \/ SendTake \/ Send
  PROVE  TxInv'
<1> USE TransferIs
    DEF TxInv, TxType, HasOneHolder, CallHasDescriptor, DescriptorIsFilled, DescriptorIsReset,
        TimerMeansTransfer, UntouchedOrEarly, NothingToSend, SendSteps, Steps, One, NoTransfer,
        flush_vars
<1>1. CASE SendRefused
  BY <1>1 DEF SendRefused, tx_vars
<1>2. CASE SendTake
  BY <1>2 DEF SendTake
<1>3. CASE SendBuf
  BY <1>3 DEF SendBuf, SendStep
<1>4. CASE SendLen
  BY <1>4 DEF SendLen, SendStep
<1>5. CASE SendOffset
  BY <1>5 DEF SendOffset, SendStep
<1>6. CASE SendCb
  BY <1>6 DEF SendCb, SendStep
<1>7. CASE SendIrq
  BY <1>7 DEF SendIrq, SendStep
<1> QED
  BY <1>1, <1>2, <1>3, <1>4, <1>5, <1>6, <1>7 DEF Send

LEMMA FillKeepsTx ==
  ASSUME TxInv, NEW n \in 0..tx_len, TxFill(n)
  PROVE  TxInv'
<1>1. ~NothingToSend /\ UNCHANGED <<pc, flush_pc, sends>>
  BY DEF TxFill, thread_vars, flush_vars
<1>2. early \subseteq early' /\ (pc \in {"tx_offset", "tx_cb"} => sends \in early')
  BY DEF TxFill
<1>3. CASE AllTaken(n)
  BY <1>1, <1>2, <1>3, TransferEndsTx DEF TxFill
<1>4. CASE ~AllTaken(n)
  <2>1. /\ UNCHANGED <<tx_done_sem, tx_buf, tx_len>>
        /\ tx_offset' = tx_offset + n /\ tx_offset + n <= tx_len /\ tx_offset + n # tx_len
        /\ tx_offset \in Nat /\ tx_len \in Nat /\ n \in Nat
    BY <1>4 DEF TxFill, TxContinues, AllTaken, TxInv, TxType
  <2>2. ~NothingToSend'
    BY <2>1 DEF NothingToSend
  <2>3. TxType' /\ HasOneHolder'
    BY <1>1, <2>1 DEF TxInv, TxType, HasOneHolder
  <2>4. CallHasDescriptor' /\ DescriptorIsFilled'
    BY <1>1, <2>1 DEF TxInv, CallHasDescriptor, DescriptorIsFilled
  <2> QED
    BY <1>1, <1>2, <2>2, <2>3, <2>4
    DEF TxInv, DescriptorIsReset, TimerMeansTransfer, UntouchedOrEarly
<1> QED BY <1>3, <1>4

LEMMA NextTx ==
  ASSUME TxInv, [Next]_vars
  PROVE  TxInv'
<1>1. CASE SendRefused \/ SendTake \/ Send
  BY <1>1, CallsKeepTx
<1>2. CASE handle_tx_ready_evt
  <2>1. CASE TxIdle
    <3>1. UNCHANGED <<tx_done_sem, tx_buf, tx_len, tx_offset, tx_timer, early, sends, flush_pc,
                      pc>>
      BY <2>1 DEF TxIdle, thread_vars, flush_vars
    <3> QED BY <3>1, OtherSteps DEF TxInv, TxType
  <2> QED BY <1>2, <2>1, FillKeepsTx DEF handle_tx_ready_evt
<1>3. CASE uart_tx_timeout
  <2>1. tx_timer /\ ~NothingToSend /\ UNCHANGED <<pc, flush_pc, sends, early>>
    BY <1>3 DEF uart_tx_timeout, TxInv, TimerMeansTransfer, thread_vars, flush_vars
  <2>2. pc \in {"tx_offset", "tx_cb"} => sends \in early'
    BY <2>1 DEF TxInv, UntouchedOrEarly
  <2> QED BY <1>3, <2>1, <2>2, TransferEndsTx DEF uart_tx_timeout
<1>4. CASE FlushTake \/ FlushGive
  <2>1. UNCHANGED <<tx_buf, tx_len, tx_offset, tx_timer, early, sends, pc>>
    BY <1>4 DEF FlushTake, FlushGive, thread_vars
  <2>2. TxType' /\ HasOneHolder'
    BY <1>4, <2>1 DEF FlushTake, FlushGive, Give, TxInv, TxType, HasOneHolder, One
  <2> QED
    BY <2>1, <2>2
    DEF TxInv, CallHasDescriptor, DescriptorIsFilled, DescriptorIsReset, TimerMeansTransfer,
        UntouchedOrEarly, NothingToSend
<1>5. CASE RecvTake \/ Recv \/ uart_rx_notify \/ RxDeliver
  <2>1. UNCHANGED <<tx_done_sem, tx_buf, tx_len, tx_offset, tx_timer, early, sends, flush_pc>>
    BY <1>5
    DEF RecvTake, Recv, RecvFlush, RecvComplete, RecvLen, RecvBuf, uart_rx_notify, RxDeliver,
        tx_vars, flush_vars
  <2>2. pc' \in Steps /\ pc \notin SendSteps /\ pc' \notin SendSteps
    BY <1>5
    DEF RecvTake, Recv, RecvFlush, RecvComplete, RecvLen, RecvBuf, uart_rx_notify, RxDeliver,
        Steps, SendSteps
  <2> QED BY <2>1, <2>2, OtherSteps
<1>6. CASE \/ TxCallback \/ handle_rx_ready_evt \/ uart_rx_timeout
           \/ zb_osif_async_serial_sleep \/ zb_osif_async_serial_wake_up \/ UNCHANGED vars
  <2>1. UNCHANGED <<tx_done_sem, tx_buf, tx_len, tx_offset, tx_timer, early, sends, flush_pc,
                    pc>>
    BY <1>6
    DEF TxCallback, handle_rx_ready_evt, RxToUser, RxToRing, uart_rx_timeout,
        zb_osif_async_serial_sleep, zb_osif_async_serial_wake_up, vars, tx_vars, thread_vars,
        flush_vars
  <2>2. pc' \in Steps
    BY <2>1 DEF TxInv, TxType
  <2> QED BY <2>1, <2>2, OtherSteps
<1> QED
  BY <1>1, <1>2, <1>3, <1>4, <1>5, <1>6 DEF Next, Thread

(* Exactly one of the call of send_data that has not set the length yet,   *)
(* the transfer and a flush holds tx_done_sem while it is taken, whatever  *)
(* the interrupt, the timers and the threads do between two assignments.   *)
(* A transfer of no bytes is one of them, and stays so.                    *)
THEOREM TransferOwned == Spec => []TransferIsOwned
<1>1. Init => TxInv
  BY InitTx
<1>2. TxInv /\ [Next]_vars => TxInv'
  BY NextTx
<1>3. ASSUME TxInv
      PROVE  TransferIsOwned
  <2> USE <1>3 DEF TxInv
  <2>1. CASE pc \in {"tx_buf", "tx_len"}
    <3>1. NothingToSend /\ ~EmptyTransfer
      BY <2>1 DEF TxType, DescriptorIsFilled, NothingToSend, EmptyTransfer
    <3>2. One(pc \in {"tx_buf", "tx_len"}) = One(pc = "tx_buf") + One(tx_buf # NoTransfer)
      BY <2>1, TransferIs DEF CallHasDescriptor, SendSteps, NoTransfer, One
    <3>3. One(~NothingToSend) = 0 /\ One(EmptyTransfer) = 0
      BY <3>1 DEF One
    <3> QED
      BY <3>2, <3>3 DEF HasOneHolder, TransferIsOwned, One
  <2>2. CASE pc \notin {"tx_buf", "tx_len"}
    <3>1. tx_buf = NoTransfer => NothingToSend /\ ~EmptyTransfer
      BY DEF TxType, DescriptorIsFilled, NothingToSend, EmptyTransfer
    <3>2. tx_buf # NoTransfer => (EmptyTransfer <=> NothingToSend)
      BY <2>2, TransferIs
      DEF TxType, DescriptorIsFilled, DescriptorIsReset, NothingToSend, EmptyTransfer
    <3>3. One(~NothingToSend) + One(EmptyTransfer) = One(tx_buf # NoTransfer)
      BY <3>1, <3>2 DEF One
    <3>4. One(pc \in {"tx_buf", "tx_len"}) = 0 /\ One(pc = "tx_buf") = 0
      BY <2>2 DEF One
    <3> QED
      BY <3>3, <3>4 DEF HasOneHolder, TransferIsOwned, One
  <2> QED BY <2>1, <2>2
<1> QED BY <1>1, <1>2, <1>3, PTL DEF Spec
-------------------------------------------------------------------------------
(* The received bytes.  Each operation of the receiving side moves bytes   *)
(* from one place to the next, or drops them, or adds the next ones that   *)
(* arrive: del was delivered, data is in the user's buffer, ring in the    *)
(* ring buffer, gone was dropped, and n bytes have arrived.                *)
Stream(del, data, ring, gone, n) ==
  /\ n \in Nat
  /\ del \in Seq(1..n) /\ data \in Seq(1..n) /\ ring \in Seq(1..n)
  /\ Increasing(del) /\ Increasing(data) /\ Increasing(ring)
  /\ Below(del, data) /\ Below(del, ring) /\ Below(data, ring)
  /\ Range(del) \cup Range(data) \cup Range(ring) \cup gone = 1..n
  /\ (Range(del) \cup Range(data) \cup Range(ring)) \cap gone = {}

(* Numbers up to n are numbers: the lemmas about order apply.              *)
LEMMA StreamIsNat ==
  ASSUME NEW n \in Nat, NEW s \in Seq(1..n)
  PROVE  s \in Seq(Nat)
<1>1. 1..n \subseteq Nat
  OBVIOUS
<1> QED
  BY <1>1, SeqMonotonic

LEMMA EmptyIncreases == /\ Increasing(<<>>) /\ Range(<<>>) = {} /\ \A S : <<>> \in Seq(S)
                        /\ \A s : Below(<<>>, s) /\ Below(s, <<>>)
<1>1. Range(<<>>) = {} /\ DOMAIN <<>> = {} /\ \A S : <<>> \in Seq(S)
  BY EmptySeq DEF Range
<1> QED
  BY <1>1 DEF Increasing, Below

(* Two neighbours joined are in order again, and hold the same bytes.      *)
LEMMA Joined ==
  ASSUME NEW n \in Nat, NEW s \in Seq(1..n), NEW t \in Seq(1..n),
         Increasing(s), Increasing(t), Below(s, t)
  PROVE  s \o t \in Seq(1..n) /\ Increasing(s \o t) /\ Range(s \o t) = Range(s) \cup Range(t)
<1>1. s \in Seq(Nat) /\ t \in Seq(Nat)
  BY StreamIsNat
<1>2. Increasing(s \o t)
  BY <1>1, IncreasingConcat
<1> QED
  BY <1>2, ConcatProperties, RangeConcatenation

LEMMA StreamDelivers ==
  ASSUME NEW del, NEW data, NEW ring, NEW gone, NEW n, Stream(del, data, ring, gone, n)
  PROVE  Stream(del \o data, <<>>, ring, gone, n)
<1>1. /\ del \o data \in Seq(1..n) /\ Increasing(del \o data)
      /\ Range(del \o data) = Range(del) \cup Range(data)
  BY Joined DEF Stream
<1> QED
  BY <1>1, EmptyIncreases DEF Stream, Below

LEMMA StreamDrops ==
  ASSUME NEW del, NEW data, NEW ring, NEW gone, NEW n, Stream(del, data, ring, gone, n)
  PROVE  Stream(del, <<>>, ring, gone \cup Range(data), n)
<1>1. \A x \in Range(data) : x \notin Range(del) /\ x \notin Range(ring)
  <2>1. Range(del) \subseteq 1..n /\ Range(data) \subseteq 1..n /\ Range(ring) \subseteq 1..n
    BY RangeOfSeq DEF Stream
  <2>2. \A x \in 1..n : ~(x < x)
    BY DEF Stream
  <2> QED
    BY <2>1, <2>2 DEF Stream, Below
<1> QED
  BY <1>1, EmptyIncreases DEF Stream

(* What a cut of the ring buffer leaves.                                   *)
LEMMA StreamCut ==
  ASSUME NEW del, NEW data, NEW ring, NEW gone, NEW n, Stream(del, data, ring, gone, n),
         NEW k \in 0..Len(ring)
  PROVE  /\ First(ring, k) \in Seq(1..n) /\ Beyond(ring, k) \in Seq(1..n)
         /\ Len(First(ring, k)) = k /\ Len(Beyond(ring, k)) = Len(ring) - k
         /\ Increasing(First(ring, k)) /\ Increasing(Beyond(ring, k))
         /\ Below(First(ring, k), Beyond(ring, k))
         /\ Range(ring) = Range(First(ring, k)) \cup Range(Beyond(ring, k))
<1>1. ring \in Seq(1..n) /\ ring \in Seq(Nat) /\ Increasing(ring)
  BY StreamIsNat DEF Stream
<1>2. /\ First(ring, k) \in Seq(1..n) /\ Beyond(ring, k) \in Seq(1..n)
      /\ Len(First(ring, k)) = k /\ Len(Beyond(ring, k)) = Len(ring) - k
      /\ Range(ring) = Range(First(ring, k)) \cup Range(Beyond(ring, k))
  <2> DEFINE Places == 1..n
  <2>1. ring \in Seq(Places)
    BY <1>1
  <2> HIDE DEF Places
  <2>2. /\ First(ring, k) \in Seq(Places) /\ Beyond(ring, k) \in Seq(Places)
        /\ Len(First(ring, k)) = k /\ Len(Beyond(ring, k)) = Len(ring) - k
        /\ Range(ring) = Range(First(ring, k)) \cup Range(Beyond(ring, k))
    BY <2>1, CutInTwo DEF First, Beyond
  <2> QED
    BY <2>2 DEF Places
<1>3. /\ Increasing(First(ring, k)) /\ Increasing(Beyond(ring, k))
      /\ Below(First(ring, k), Beyond(ring, k))
  BY <1>1, CutIncreasing DEF First, Beyond
<1> QED
  BY <1>2, <1>3

LEMMA StreamTakes ==
  ASSUME NEW del, NEW data, NEW ring, NEW gone, NEW n, Stream(del, data, ring, gone, n),
         NEW k \in 0..Len(ring)
  PROVE  Stream(del, data \o First(ring, k), Beyond(ring, k), gone, n)
<1> DEFINE first == First(ring, k)
           rest == Beyond(ring, k)
<1>1. /\ first \in Seq(1..n) /\ rest \in Seq(1..n)
      /\ Increasing(first) /\ Increasing(rest) /\ Below(first, rest)
      /\ Range(ring) = Range(first) \cup Range(rest)
  BY StreamCut
<1> HIDE DEF first, rest
<1>2. Below(data, first) /\ Below(data, rest) /\ Below(del, first) /\ Below(del, rest)
  BY <1>1 DEF Stream, Below
<1>3. /\ data \o first \in Seq(1..n) /\ Increasing(data \o first)
      /\ Range(data \o first) = Range(data) \cup Range(first)
  BY <1>1, <1>2, Joined DEF Stream
<1>4. Below(del, data \o first) /\ Below(data \o first, rest)
  BY <1>1, <1>2, <1>3 DEF Stream, Below
<1>5. Stream(del, data \o first, rest, gone, n)
  BY <1>1, <1>2, <1>3, <1>4 DEF Stream
<1> QED
  BY <1>5 DEF first, rest

LEMMA StreamOverflows ==
  ASSUME NEW del, NEW data, NEW ring, NEW gone, NEW n, Stream(del, data, ring, gone, n),
         NEW k \in 0..Len(ring)
  PROVE  Stream(del, data, Beyond(ring, k), gone \cup Range(First(ring, k)), n)
<1> DEFINE first == First(ring, k)
           rest == Beyond(ring, k)
<1>1. /\ first \in Seq(1..n) /\ rest \in Seq(1..n)
      /\ Increasing(rest) /\ Below(first, rest)
      /\ Range(ring) = Range(first) \cup Range(rest)
  BY StreamCut
<1> HIDE DEF first, rest
<1>2. Below(data, first) /\ Below(data, rest) /\ Below(del, first) /\ Below(del, rest)
  BY <1>1 DEF Stream, Below
<1>3. \A x \in Range(first) : x \notin Range(del) /\ x \notin Range(data) /\ x \notin Range(rest)
  <2>1. Range(first) \subseteq 1..n
    BY <1>1, RangeOfSeq
  <2>2. \A x \in 1..n : ~(x < x)
    BY DEF Stream
  <2> QED
    BY <1>1, <1>2, <2>1, <2>2 DEF Below
<1>4. Stream(del, data, rest, gone \cup Range(first), n)
  BY <1>1, <1>2, <1>3 DEF Stream
<1> QED
  BY <1>4 DEF first, rest

(* Bytes arrive behind the others.                                         *)
LEMMA StreamGrows ==
  ASSUME NEW del, NEW data, NEW ring, NEW gone, NEW n, Stream(del, data, ring, gone, n),
         NEW k \in Nat
  PROVE  Stream(del, data, ring \o [i \in 1..k |-> n + i], gone, n + k)
<1> DEFINE new == [i \in 1..k |-> n + i]
<1>1. new \in Seq((n + 1)..(n + k)) /\ Increasing(new) /\ Range(new) = (n + 1)..(n + k)
  BY InARow DEF Stream
<1> HIDE DEF new
<1>2. /\ n + k \in Nat /\ 1..n \subseteq 1..(n + k) /\ (n + 1)..(n + k) \subseteq 1..(n + k)
      /\ 1..(n + k) = (1..n) \cup ((n + 1)..(n + k))
      /\ (1..n) \cap ((n + 1)..(n + k)) = {}
      /\ \A x \in 1..n, y \in (n + 1)..(n + k) : x < y
  BY DEF Stream
<1>3. Range(del) \subseteq 1..n /\ Range(data) \subseteq 1..n /\ Range(ring) \subseteq 1..n
  BY RangeOfSeq DEF Stream
<1>4. /\ del \in Seq(1..(n + k)) /\ data \in Seq(1..(n + k)) /\ ring \in Seq(1..(n + k))
      /\ new \in Seq(1..(n + k))
  BY <1>1, <1>2, SeqMonotonic DEF Stream
<1>5. Below(del, new) /\ Below(data, new) /\ Below(ring, new)
  BY <1>1, <1>2, <1>3 DEF Below
<1>6. /\ ring \o new \in Seq(1..(n + k)) /\ Increasing(ring \o new)
      /\ Range(ring \o new) = Range(ring) \cup Range(new)
  BY <1>1, <1>2, <1>4, <1>5, Joined DEF Stream
<1>7. Below(del, ring \o new) /\ Below(data, ring \o new)
  BY <1>5, <1>6 DEF Stream, Below
<1>8. /\ Range(del) \cup Range(data) \cup Range(ring \o new) \cup gone = 1..(n + k)
      /\ (Range(del) \cup Range(data) \cup Range(ring \o new)) \cap gone = {}
  BY <1>1, <1>2, <1>6 DEF Stream
<1> QED
  BY <1>2, <1>4, <1>6, <1>7, <1>8 DEF Stream, new

(* With the ring buffer empty they may as well go to the user's buffer.    *)
LEMMA StreamArrives ==
  ASSUME NEW del, NEW data, NEW gone, NEW n, Stream(del, data, <<>>, gone, n), NEW k \in Nat
  PROVE  Stream(del, data \o [i \in 1..k |-> n + i], <<>>, gone, n + k)
<1> DEFINE new == [i \in 1..k |-> n + i]
<1>1. Stream(del, data, <<>> \o new, gone, n + k)
  BY StreamGrows
<1>2. new \in Seq((n + 1)..(n + k))
  BY InARow DEF Stream
<1>3. <<>> \o new = new
  BY <1>2, ConcatEmptySeq
<1>4. Len(new) \in Nat /\ Len(new) \in 0..Len(new)
  BY <1>2, LenProperties
<1> HIDE DEF new
<1>5. Stream(del, data \o First(new, Len(new)), Beyond(new, Len(new)), gone, n + k)
  BY <1>1, <1>3, <1>4, StreamTakes
<1>6. First(new, Len(new)) = new
  BY <1>2, SubSeqFull DEF First
<1>7. Beyond(new, Len(new)) = <<>>
  BY <1>4, SubSeqEmpty DEF Beyond
<1> QED
  BY <1>5, <1>6, <1>7 DEF new

LEMMA StreamMeans ==
  Stream(delivered, rx_data, rx_ringbuf, lost, arrived) => StreamIsIntact
<1> SUFFICES ASSUME Stream(delivered, rx_data, rx_ringbuf, lost, arrived)
             PROVE  StreamIsIntact
  OBVIOUS
<1>1. Stream(delivered \o rx_data, <<>>, rx_ringbuf, lost, arrived)
  BY StreamDelivers
<1> DEFINE taken == delivered \o rx_data
<1>2. /\ arrived \in Nat /\ taken \in Seq(1..arrived) /\ rx_ringbuf \in Seq(1..arrived)
      /\ Increasing(taken) /\ Increasing(rx_ringbuf) /\ Below(taken, rx_ringbuf)
  BY <1>1 DEF Stream
<1> HIDE DEF taken
<1>4. /\ Increasing(taken \o rx_ringbuf)
      /\ Range(taken \o rx_ringbuf) = Range(taken) \cup Range(rx_ringbuf)
  BY <1>2, Joined
<1>3. /\ Range(delivered \o rx_data) \cup Range(rx_ringbuf) \cup lost = 1..arrived
      /\ (Range(delivered \o rx_data) \cup Range(rx_ringbuf)) \cap lost = {}
  BY <1>1, EmptyIncreases DEF Stream
<1> QED
  BY <1>3, <1>4 DEF StreamIsIntact, Increasing, taken
-------------------------------------------------------------------------------
(* Types *)

(* The types that need no more than each other.                            *)
SerialType ==
  /\ tx_done_sem \in 0..1 /\ rx_done_sem \in 0..1
  /\ tx_buf \in Transfer \cup {NoTransfer} /\ tx_trx_cb \in Transfer \cup {NoTransfer}
  /\ tx_len \in Nat /\ tx_offset \in Nat /\ rx_len \in {0, RxLen}
  /\ callbacks \in Seq(Callback)
  /\ pc \in Steps /\ flush_pc \in {"idle", "give"}
  /\ sends \in 0..Len(TxLen) /\ recvs \in 0..MaxRecvs
  /\ sleeps \in 0..MaxSleeps /\ flushes \in 0..MaxFlushes /\ arrived \in 0..MaxBytes
  /\ answer \in [Transfer -> Answers] /\ early \subseteq Transfer
  /\ pc \in SendSteps => sends \in Transfer

Flags ==
  /\ tx_irq \in BOOLEAN /\ tx_timer \in BOOLEAN /\ rx_irq \in BOOLEAN /\ rx_timer \in BOOLEAN
  /\ rx_buf \in BOOLEAN /\ is_sleeping \in BOOLEAN

LEMMA EndTypes ==
  ASSUME SerialType, NEW status \in {"success", "timeout"}, TransferEnds(status)
  PROVE  /\ callbacks' \in Seq(Callback) /\ answer' \in [Transfer -> Answers]
         /\ tx_done_sem' = 1 /\ tx_buf' = NoTransfer /\ tx_trx_cb' = NoTransfer
         /\ tx_len' = 0 /\ tx_offset' = 0 /\ tx_timer' = FALSE
<1>1. /\ tx_done_sem' = 1 /\ tx_buf' = NoTransfer /\ tx_trx_cb' = NoTransfer
      /\ tx_len' = 0 /\ tx_offset' = 0 /\ tx_timer' = FALSE
  BY DEF TransferEnds, ResetTx, Give
<1>2. CASE UNCHANGED <<callbacks, answer>>
  BY <1>1, <1>2 DEF SerialType
<1>3. CASE tx_trx_cb # NoTransfer /\ Report(status)
  <2>1. tx_trx_cb \in Transfer
    BY <1>3 DEF SerialType
  <2>2. [cb |-> "tx", of |-> tx_trx_cb, status |-> status] \in Callback
    BY <2>1 DEF Callback
  <2>3. "dropped" \in Answers
    BY DEF Answers
  <2>4. callbacks' = Append(callbacks, [cb |-> "tx", of |-> tx_trx_cb, status |-> status])
        \/ callbacks' = callbacks
    BY <1>3 DEF Report
  <2>5. callbacks' \in Seq(Callback)
    BY <2>2, <2>4, AppendProperties DEF SerialType
  <2>6. answer' = [answer EXCEPT ![tx_trx_cb] = "dropped"] \/ answer' = answer
    BY <1>3 DEF Report
  <2>7. answer' \in [Transfer -> Answers]
    BY <2>1, <2>3, <2>6 DEF SerialType
  <2> QED
    BY <1>1, <2>5, <2>7
<1> QED
  BY <1>2, <1>3 DEF TransferEnds

LEMMA ReceptionTypes ==
  ASSUME SerialType, NEW data, ReceptionEnds(data)
  PROVE  callbacks' \in Seq(Callback) /\ rx_done_sem' \in 0..1 /\ rx_len' = 0
<1>1. rx_len' = 0 /\ rx_done_sem' \in 0..1
  BY DEF ReceptionEnds, DropReception, Give, SerialType
<1>2. [cb |-> "uart_rx_notify"] \in Callback
  BY DEF Callback
<1>3. callbacks' = Append(callbacks, [cb |-> "uart_rx_notify"]) \/ callbacks' = callbacks
  BY DEF ReceptionEnds
<1>4. callbacks' \in Seq(Callback)
  BY <1>2, <1>3, AppendProperties DEF SerialType
<1> QED
  BY <1>1, <1>4

LEMMA SerialTypeStep ==
  ASSUME SerialType, [Next]_vars
  PROVE  SerialType'
<1> USE TransferIs, LengthAssumption, BoundAssumption DEF SerialType, Steps, SendSteps
<1>1. CASE SendRefused
  <2>1. sends + 1 \in Transfer
    BY <1>1 DEF SendRefused
  <2>2. answer' \in [Transfer -> Answers]
    BY <1>1, <2>1 DEF SendRefused, Answers
  <2> QED
    BY <1>1, <2>1, <2>2 DEF SendRefused, tx_vars, rx_vars, flush_vars
<1>2. CASE SendTake
  BY <1>2 DEF SendTake, rx_vars, flush_vars
<1>3. CASE Send
  <2>1. CASE SendBuf
    BY <2>1 DEF SendBuf, SendStep, rx_vars, flush_vars
  <2>2. CASE SendLen
    BY <2>2 DEF SendLen, SendStep, rx_vars, flush_vars
  <2>3. CASE SendOffset
    BY <2>3 DEF SendOffset, SendStep, rx_vars, flush_vars
  <2>4. CASE SendCb
    BY <2>4 DEF SendCb, SendStep, rx_vars, flush_vars
  <2>5. CASE SendIrq
    BY <2>5 DEF SendIrq, SendStep, rx_vars, flush_vars
  <2> QED
    BY <1>3, <2>1, <2>2, <2>3, <2>4, <2>5 DEF Send
<1>4. CASE uart_tx_timeout
  <2>1. /\ callbacks' \in Seq(Callback) /\ answer' \in [Transfer -> Answers]
        /\ tx_done_sem' = 1 /\ tx_buf' = NoTransfer /\ tx_trx_cb' = NoTransfer
        /\ tx_len' = 0 /\ tx_offset' = 0
    BY <1>4, EndTypes DEF uart_tx_timeout
  <2>2. UNCHANGED <<early, rx_vars, thread_vars, flush_vars>>
    BY <1>4 DEF uart_tx_timeout
  <2> QED
    BY <2>1, <2>2 DEF rx_vars, thread_vars, flush_vars
<1>5. CASE TxIdle
  BY <1>5 DEF TxIdle, rx_vars, thread_vars, flush_vars
<1>6. ASSUME NEW n \in 0..tx_len, TxFill(n)
      PROVE  SerialType'
  <2>1. UNCHANGED <<rx_vars, thread_vars, flush_vars>> /\ early' \subseteq Transfer
    BY <1>6 DEF TxFill
  <2>2. CASE AllTaken(n)
    <3>1. /\ callbacks' \in Seq(Callback) /\ answer' \in [Transfer -> Answers]
          /\ tx_done_sem' = 1 /\ tx_buf' = NoTransfer /\ tx_trx_cb' = NoTransfer
          /\ tx_len' = 0 /\ tx_offset' = 0
      BY <1>6, <2>2, EndTypes DEF TxFill
    <3> QED
      BY <2>1, <3>1 DEF rx_vars, thread_vars, flush_vars
  <2>3. CASE ~AllTaken(n)
    BY <1>6, <2>1, <2>3 DEF TxFill, TxContinues, rx_vars, thread_vars, flush_vars
  <2> QED
    BY <2>2, <2>3
<1>7. CASE TxCallback
  <2>1. Head(callbacks) \in Callback /\ callbacks' \in Seq(Callback)
    BY <1>7, HeadTailProperties DEF TxCallback
  <2>2. Head(callbacks).of \in Transfer /\ Head(callbacks).status \in Answers
    BY <1>7, <2>1 DEF TxCallback, Callback, Answers
  <2>3. answer' \in [Transfer -> Answers]
    BY <1>7, <2>2 DEF TxCallback
  <2> QED
    BY <1>7, <2>1, <2>3 DEF TxCallback, tx_vars, rx_vars, thread_vars, flush_vars
<1>8. CASE FlushTake \/ FlushGive
  <2>1. CASE FlushTake
    BY <2>1 DEF FlushTake, rx_vars, thread_vars
  <2>2. CASE FlushGive
    BY <2>2 DEF FlushGive, Give, rx_vars, thread_vars
  <2> QED
    BY <1>8, <2>1, <2>2
<1>9. CASE RecvTake \/ RecvFlush \/ RecvComplete \/ RecvLen \/ RecvBuf
  <2>1. CASE RecvTake
    BY <2>1 DEF RecvTake, tx_vars, flush_vars
  <2>2. CASE RecvFlush
    BY <2>2 DEF RecvFlush, tx_vars, flush_vars
  <2>3. CASE RecvComplete
    BY <2>3 DEF RecvComplete, Give, tx_vars, flush_vars
  <2>4. CASE RecvLen
    BY <2>4 DEF RecvLen, tx_vars, flush_vars
  <2>5. CASE RecvBuf
    BY <2>5 DEF RecvBuf, tx_vars, flush_vars
  <2> QED
    BY <1>9, <2>1, <2>2, <2>3, <2>4, <2>5
<1>10. CASE uart_rx_timeout
  <2>1. callbacks' \in Seq(Callback) /\ rx_done_sem' \in 0..1 /\ rx_len' \in {0, RxLen}
    BY <1>10, ReceptionTypes DEF uart_rx_timeout
  <2> QED
    BY <1>10, <2>1 DEF uart_rx_timeout, tx_vars, thread_vars, flush_vars
<1>11. ASSUME NEW n \in 0..RxLen, RxToUser(n)
       PROVE  SerialType'
  <2>1. arrived' \in 0..MaxBytes
    BY <1>11 DEF RxToUser
  <2>2. callbacks' \in Seq(Callback) /\ rx_done_sem' \in 0..1 /\ rx_len' \in {0, RxLen}
    BY <1>11, ReceptionTypes DEF RxToUser
  <2>3. UNCHANGED <<tx_vars, thread_vars, flush_vars, answer>>
    BY <1>11 DEF RxToUser
  <2> QED
    BY <2>1, <2>2, <2>3 DEF tx_vars, thread_vars, flush_vars
<1>12. ASSUME NEW n \in 1..RingLen, RxToRing(n)
       PROVE  SerialType'
  <2>1. arrived' \in 0..MaxBytes
    BY <1>12 DEF RxToRing
  <2>2. UNCHANGED <<tx_vars, rx_done_sem, rx_len, thread_vars, flush_vars, answer, callbacks>>
    BY <1>12 DEF RxToRing
  <2> QED
    BY <2>1, <2>2 DEF tx_vars, thread_vars, flush_vars
<1>13. CASE uart_rx_notify
  <2>1. callbacks' \in Seq(Callback)
    BY <1>13, HeadTailProperties DEF uart_rx_notify
  <2> QED
    BY <1>13, <2>1 DEF uart_rx_notify, tx_vars, flush_vars
<1>14. CASE RxDeliver
  BY <1>14 DEF RxDeliver, Give, tx_vars, flush_vars
<1>15. CASE zb_osif_async_serial_sleep \/ zb_osif_async_serial_wake_up
  <2>1. CASE zb_osif_async_serial_sleep
    BY <2>1 DEF zb_osif_async_serial_sleep, tx_vars, flush_vars
  <2>2. CASE zb_osif_async_serial_wake_up
    BY <2>2 DEF zb_osif_async_serial_wake_up, tx_vars, flush_vars
  <2> QED
    BY <1>15, <2>1, <2>2
<1>16. CASE UNCHANGED vars
  BY <1>16 DEF vars, tx_vars, rx_vars, thread_vars, flush_vars
<1> QED
  BY <1>1, <1>2, <1>3, <1>4, <1>5, <1>6, <1>7, <1>8, <1>9, <1>10, <1>11, <1>12, <1>13, <1>14,
     <1>15, <1>16
  DEF Next, Thread, Recv, handle_tx_ready_evt, handle_rx_ready_evt

LEMMA FlagsStep ==
  ASSUME Flags, [Next]_vars
  PROVE  Flags'
<1>1. /\ tx_irq' = tx_irq \/ tx_irq' = TRUE \/ tx_irq' = FALSE
      /\ tx_timer' = tx_timer \/ tx_timer' = TRUE \/ tx_timer' = FALSE
      /\ rx_irq' = rx_irq \/ rx_irq' = TRUE \/ rx_irq' = FALSE
      /\ rx_timer' = rx_timer \/ rx_timer' = TRUE \/ rx_timer' = FALSE
      /\ rx_buf' = rx_buf \/ rx_buf' = TRUE \/ rx_buf' = FALSE
      /\ is_sleeping' = is_sleeping \/ is_sleeping' = TRUE \/ is_sleeping' = FALSE
  BY
  DEF Next, SendRefused, SendTake, RecvTake, Thread, Send, SendBuf, SendLen, SendOffset, SendCb,
      SendIrq, SendStep, Recv, RecvFlush, RecvComplete, RecvLen, RecvBuf, TxCallback,
      uart_rx_notify, RxDeliver, handle_tx_ready_evt, TxIdle, TxFill, TxContinues, TransferEnds,
      ResetTx, handle_rx_ready_evt, RxToUser, RxToRing, ReceptionEnds, DropReception,
      uart_tx_timeout, uart_rx_timeout, FlushTake, FlushGive, zb_osif_async_serial_sleep,
      zb_osif_async_serial_wake_up, vars, tx_vars, rx_vars, thread_vars, flush_vars
<1> QED
  BY <1>1, Zenon DEF Flags
-------------------------------------------------------------------------------
(* Receptions *)

(* Notifications counted as the lemmas count them.                         *)
Notification == {c \in Callback : c.cb = "uart_rx_notify"}
Notified == Count(callbacks, Notification)

ReceptionHasOneHolder ==
  One(pc \in RecvSteps) + One(pc # "rx_buf" /\ rx_len > 0) + Notified
    + One(pc = "rx_deliver") = 1 - rx_done_sem

(* The user's buffer is set and filled by a reception only.                *)
BufferIsFree == rx_done_sem = 1 => rx_data = <<>> /\ rx_buf = FALSE
CallBegins ==
  /\ pc \in RecvSteps => rx_buf = FALSE
  /\ pc = "rx_flush" => rx_data = <<>>
  /\ pc = "rx_buf" => rx_len = RxLen
ReceptionIsArmed == rx_len > 0 /\ pc # "rx_buf" => rx_buf = TRUE
TimerMeansReception == rx_timer => rx_buf /\ rx_len > 0
RoomInBuffers == Len(rx_data) <= RxLen /\ Len(rx_ringbuf) <= RingLen

RxInv ==
  /\ ReceptionHasOneHolder /\ BufferIsFree /\ CallBegins /\ ReceptionIsArmed
  /\ TimerMeansReception /\ RoomInBuffers
  /\ Stream(delivered, rx_data, rx_ringbuf, lost, arrived)
LEMMA NotifiedType == SerialType => Notified \in Nat
  BY CountType DEF SerialType, Notified

(* The steps that have nothing to do with a reception.                     *)
RxQuiet ==
  /\ UNCHANGED <<rx_done_sem, rx_buf, rx_data, rx_len, rx_ringbuf, rx_timer, arrived, lost,
                 delivered>>
  /\ Notified' = Notified
  /\ pc \in RecvSteps \cup {"rx_deliver"} \/ pc' \in RecvSteps \cup {"rx_deliver"} => pc' = pc

LEMMA QuietKeepsRx ==
  ASSUME RxInv, RxQuiet
  PROVE  RxInv'
<1>1. /\ UNCHANGED <<rx_done_sem, rx_buf, rx_data, rx_len, rx_ringbuf, rx_timer, arrived, lost,
                     delivered>>
      /\ Notified' = Notified
      /\ pc' \in RecvSteps <=> pc \in RecvSteps
      /\ \A p \in RecvSteps \cup {"rx_deliver"} : pc' = p <=> pc = p
  BY DEF RxQuiet
<1>2. pc' = "rx_buf" <=> pc = "rx_buf"
  BY <1>1 DEF RecvSteps
<1>3. pc' = "rx_flush" <=> pc = "rx_flush"
  BY <1>1 DEF RecvSteps
<1>4. pc' = "rx_deliver" <=> pc = "rx_deliver"
  BY <1>1
<1> QED
  BY <1>1, <1>2, <1>3, <1>4
  DEF RxInv, ReceptionHasOneHolder, BufferIsFree, CallBegins, ReceptionIsArmed,
      TimerMeansReception, RoomInBuffers, One

(* A transfer's callback is no notification.                               *)
LEMMA TxEndQuiet ==
  ASSUME SerialType, NEW status \in {"success", "timeout"}, TransferEnds(status)
  PROVE  Notified' = Notified
<1>1. CASE callbacks' = callbacks
  BY <1>1 DEF Notified
<1>2. CASE tx_trx_cb # NoTransfer
           /\ callbacks' = Append(callbacks, [cb |-> "tx", of |-> tx_trx_cb, status |-> status])
  <2> DEFINE report == [cb |-> "tx", of |-> tx_trx_cb, status |-> status]
  <2>1. report \in Callback /\ report \notin Notification
    BY <1>2 DEF SerialType, Callback, Notification
  <2> HIDE DEF report
  <2>2. Count(callbacks', Notification) = Count(callbacks, Notification) + 0
        /\ Count(callbacks, Notification) \in Nat
    BY <1>2, <2>1, CountAppend, CountType DEF SerialType, report
  <2> QED
    BY <2>2 DEF Notified
<1> QED
  BY <1>1, <1>2 DEF TransferEnds, Report

LEMMA RxSteps ==
  ASSUME SerialType, [Next]_vars
  PROVE  \/ RecvTake \/ RecvFlush \/ RecvComplete \/ RecvLen \/ RecvBuf
         \/ uart_rx_timeout \/ uart_rx_notify \/ RxDeliver
         \/ \E n \in 0..RxLen : RxToUser(n)
         \/ \E n \in 1..RingLen : RxToRing(n)
         \/ RxQuiet
<1> USE DEF RxQuiet, rx_vars, thread_vars, RecvSteps
<1>1. SendRefused \/ SendTake => RxQuiet
  BY DEF SendRefused, SendTake, Notified
<1>2. Send => RxQuiet
  BY DEF Send, SendBuf, SendLen, SendOffset, SendCb, SendIrq, SendStep, Notified
<1>3. FlushTake \/ FlushGive \/ TxIdle => RxQuiet
  BY DEF FlushTake, FlushGive, TxIdle, Notified
<1>4. zb_osif_async_serial_sleep \/ zb_osif_async_serial_wake_up => RxQuiet
  BY DEF zb_osif_async_serial_sleep, zb_osif_async_serial_wake_up, Notified
<1>5. UNCHANGED vars => RxQuiet
  BY DEF vars, Notified
<1>6. uart_tx_timeout => RxQuiet
  BY TxEndQuiet DEF uart_tx_timeout
<1>7. ASSUME NEW n \in 0..tx_len, TxFill(n)
      PROVE  RxQuiet
  <2>1. Notified' = Notified
    <3>1. CASE AllTaken(n)
      BY <1>7, <3>1, TxEndQuiet DEF TxFill
    <3>2. CASE ~AllTaken(n)
      BY <1>7, <3>2 DEF TxFill, TxContinues, Notified
    <3> QED
      BY <3>1, <3>2
  <2> QED
    BY <1>7, <2>1 DEF TxFill
<1>8. ASSUME TxCallback
      PROVE  RxQuiet
  <2>1. /\ callbacks # <<>> /\ callbacks' = Tail(callbacks) /\ callbacks \in Seq(Callback)
        /\ Head(callbacks) \notin Notification
    BY <1>8 DEF TxCallback, SerialType, Notification
  <2>2. /\ Count(callbacks, Notification) = Count(callbacks', Notification) + 0
        /\ Count(callbacks', Notification) \in Nat
    BY <2>1, CountTail, CountType, HeadTailProperties
  <2>3. Notified' = Notified
    BY <2>2 DEF Notified
  <2> QED
    BY <1>8, <2>3 DEF TxCallback
<1> QED
  BY <1>1, <1>2, <1>3, <1>4, <1>5, <1>6, <1>7, <1>8
  DEF Next, Thread, Recv, handle_tx_ready_evt, handle_rx_ready_evt

(* The end of a reception: its bytes wait for the notification, or are     *)
(* dropped with the semaphore given.                                       *)
LEMMA EndKeepsRx ==
  ASSUME SerialType, RxInv, rx_buf, rx_len > 0, pc' = pc, NEW data, ReceptionEnds(data),
         Stream(delivered', data, rx_ringbuf', lost, arrived'), Len(data) <= RxLen,
         Len(rx_ringbuf') <= RingLen
  PROVE  RxInv'
<1>1. pc \notin RecvSteps /\ pc # "rx_buf" /\ rx_len > 0
  BY DEF RxInv, CallBegins, RecvSteps
<1>2. Notified \in Nat /\ rx_done_sem \in 0..1
  BY NotifiedType DEF SerialType
<1>3. Notified = 0 /\ pc # "rx_deliver" /\ rx_done_sem = 0
  BY <1>1, <1>2 DEF RxInv, ReceptionHasOneHolder, One
<1>4. rx_len' = 0 /\ rx_timer' = FALSE
  BY DEF ReceptionEnds
<1>5. CASE /\ callbacks' = Append(callbacks, [cb |-> "uart_rx_notify"])
           /\ rx_data' = data /\ UNCHANGED <<rx_buf, rx_done_sem, lost>>
  <2> DEFINE notification == [cb |-> "uart_rx_notify"]
  <2>1. notification \in Callback /\ notification \in Notification
    BY DEF Callback, Notification
  <2> HIDE DEF notification
  <2>2. Count(callbacks', Notification) = Count(callbacks, Notification) + 1
    BY <1>5, <2>1, CountAppend DEF SerialType, notification
  <2>3. Notified' = Notified + 1
    BY <2>2 DEF Notified
  <2>4. ReceptionHasOneHolder'
    BY <1>1, <1>3, <1>4, <1>5, <2>3 DEF ReceptionHasOneHolder, One
  <2>5. BufferIsFree' /\ CallBegins' /\ ReceptionIsArmed' /\ TimerMeansReception'
    BY <1>1, <1>3, <1>4, <1>5 DEF BufferIsFree, CallBegins, ReceptionIsArmed,
       TimerMeansReception, RecvSteps
  <2>6. RoomInBuffers' /\ Stream(delivered', rx_data', rx_ringbuf', lost', arrived')
    BY <1>5 DEF RoomInBuffers
  <2> QED
    BY <2>4, <2>5, <2>6 DEF RxInv
<1>6. CASE DropReception(data) /\ callbacks' = callbacks
  <2>1. /\ rx_data' = <<>> /\ rx_buf' = FALSE /\ rx_done_sem' = 1
        /\ lost' = lost \cup Range(data) /\ Notified' = Notified
    BY <1>6 DEF DropReception, Give, Notified
  <2>2. ReceptionHasOneHolder'
    BY <1>1, <1>3, <1>4, <2>1 DEF ReceptionHasOneHolder, One
  <2>3. BufferIsFree' /\ CallBegins' /\ ReceptionIsArmed' /\ TimerMeansReception'
    BY <1>1, <1>3, <1>4, <2>1 DEF BufferIsFree, CallBegins, ReceptionIsArmed,
       TimerMeansReception, RecvSteps
  <2>4. Stream(delivered', <<>>, rx_ringbuf', lost \cup Range(data), arrived')
    BY StreamDrops
  <2>5. RoomInBuffers' /\ Stream(delivered', rx_data', rx_ringbuf', lost', arrived')
    BY <2>1, <2>4, LengthAssumption DEF RoomInBuffers
  <2> QED
    BY <2>2, <2>3, <2>5 DEF RxInv
<1> QED
  BY <1>5, <1>6 DEF ReceptionEnds
(* The steps of recv_data, in the ZBOSS thread.                            *)
LEMMA RecvKeepsRx ==
  ASSUME SerialType, RxInv, RecvTake \/ RecvFlush \/ RecvComplete \/ RecvLen \/ RecvBuf
  PROVE  RxInv'
<1> USE DEF RxInv, RecvSteps
<1>1. Notified \in Nat /\ rx_done_sem \in 0..1 /\ (RecvTake \/ RecvFlush \/ RecvLen \/ RecvBuf
        \/ RecvComplete => Notified' = Notified)
  BY NotifiedType
  DEF SerialType, RecvTake, RecvFlush, RecvComplete, RecvLen, RecvBuf, Notified
<1>2. CASE RecvTake
  <2>1. Stream(delivered', rx_data', rx_ringbuf', lost', arrived') /\ RoomInBuffers'
    BY <1>2 DEF RecvTake, RoomInBuffers
  <2>2. ReceptionHasOneHolder'
    BY <1>1, <1>2 DEF RecvTake, ReceptionHasOneHolder, One
  <2>3. BufferIsFree' /\ CallBegins' /\ ReceptionIsArmed' /\ TimerMeansReception'
    BY <1>2 DEF RecvTake, BufferIsFree, CallBegins, ReceptionIsArmed, TimerMeansReception
  <2> QED
    BY <2>1, <2>2, <2>3
<1>3. CASE RecvFlush
  <2> DEFINE k == Least(RxLen, Len(rx_ringbuf))
  <2>1. k \in 0..Len(rx_ringbuf) /\ k <= RxLen /\ rx_data = <<>>
    BY <1>3, LengthAssumption, LenProperties DEF RecvFlush, CallBegins, Stream, Least
  <2>2. /\ rx_data' = First(rx_ringbuf, k) /\ rx_ringbuf' = Beyond(rx_ringbuf, k)
        /\ UNCHANGED <<delivered, lost, arrived>>
    BY <1>3 DEF RecvFlush
  <2> HIDE DEF k
  <2>3. /\ Len(rx_data') = k /\ Len(rx_ringbuf') = Len(rx_ringbuf) - k
        /\ rx_data' \in Seq(1..arrived) /\ Len(rx_ringbuf) \in Nat
    <3>1. Len(rx_ringbuf) \in Nat
      BY LenProperties DEF Stream
    <3> QED
      BY <2>1, <2>2, <3>1, StreamCut
  <2>4. RoomInBuffers'
    BY <2>1, <2>3, LengthAssumption DEF RoomInBuffers
  <2>5. <<>> \o rx_data' = rx_data'
    BY <2>3, ConcatEmptySeq
  <2>6. Stream(delivered, rx_data \o rx_data', rx_ringbuf', lost, arrived)
    BY <2>1, <2>2, StreamTakes
  <2>7. Stream(delivered', rx_data', rx_ringbuf', lost', arrived')
    BY <2>1, <2>2, <2>5, <2>6
  <2>8. ReceptionHasOneHolder'
    BY <1>1, <1>3 DEF RecvFlush, ReceptionHasOneHolder, One
  <2>9. CallBegins' /\ ReceptionIsArmed' /\ TimerMeansReception'
    BY <1>3 DEF RecvFlush, CallBegins, ReceptionIsArmed, TimerMeansReception
  <2>10. BufferIsFree'
    BY <1>1, <1>3 DEF RecvFlush, BufferIsFree, ReceptionHasOneHolder, One, SerialType
  <2> QED
    BY <2>4, <2>7, <2>8, <2>9, <2>10
<1>4. CASE RecvComplete
  <2>1. /\ rx_data' = <<>> /\ rx_done_sem' = 1 /\ delivered' = delivered \o rx_data
        /\ pc = "rx_arm" /\ pc' = "idle"
        /\ UNCHANGED <<rx_buf, rx_len, rx_ringbuf, rx_timer, lost, arrived>>
    BY <1>4 DEF RecvComplete, Give
  <2>2. Stream(delivered', rx_data', rx_ringbuf', lost', arrived')
    BY <2>1, StreamDelivers
  <2>3. RoomInBuffers'
    BY <2>1, LengthAssumption DEF RoomInBuffers
  <2>4. rx_len = 0
    BY <1>1, <2>1, LengthAssumption DEF ReceptionHasOneHolder, One, SerialType
  <2>5. ReceptionHasOneHolder'
    BY <1>1, <1>4, <2>1, <2>4 DEF ReceptionHasOneHolder, One
  <2>6. BufferIsFree' /\ CallBegins' /\ ReceptionIsArmed' /\ TimerMeansReception'
    BY <2>1, <2>4 DEF BufferIsFree, CallBegins, ReceptionIsArmed, TimerMeansReception
  <2> QED
    BY <2>2, <2>3, <2>5, <2>6
<1>5. CASE RecvLen
  <2>1. /\ pc = "rx_arm" /\ pc' = "rx_buf" /\ rx_len' = RxLen
        /\ UNCHANGED <<rx_done_sem, rx_buf, rx_data, rx_ringbuf, rx_timer, delivered, lost,
                       arrived>>
    BY <1>5 DEF RecvLen
  <2>2. ReceptionHasOneHolder'
    BY <1>1, <1>5, <2>1, LengthAssumption DEF ReceptionHasOneHolder, One, SerialType
  <2>3. RoomInBuffers' /\ BufferIsFree' /\ CallBegins' /\ ReceptionIsArmed'
        /\ TimerMeansReception'
    BY <2>1, LengthAssumption
    DEF BufferIsFree, CallBegins, ReceptionIsArmed, TimerMeansReception, RoomInBuffers
  <2> QED
    BY <2>1, <2>2, <2>3
<1>6. CASE RecvBuf
  <2>1. /\ pc = "rx_buf" /\ pc' = "idle" /\ rx_len = RxLen /\ rx_buf' = TRUE
        /\ UNCHANGED <<rx_done_sem, rx_len, rx_data, rx_ringbuf, rx_timer, delivered, lost,
                       arrived>>
    BY <1>6 DEF RecvBuf, CallBegins
  <2>2. ReceptionHasOneHolder'
    BY <1>1, <1>6, <2>1, LengthAssumption DEF ReceptionHasOneHolder, One
  <2>3. rx_done_sem = 0
    BY <1>1, <2>1 DEF ReceptionHasOneHolder, One
  <2>4. RoomInBuffers' /\ BufferIsFree' /\ CallBegins' /\ ReceptionIsArmed'
        /\ TimerMeansReception'
    BY <2>1, <2>3 DEF BufferIsFree, CallBegins, ReceptionIsArmed, TimerMeansReception,
       RoomInBuffers
  <2> QED
    BY <2>1, <2>2, <2>4
<1> QED
  BY <1>2, <1>3, <1>4, <1>5, <1>6

(* uart_rx_notify and the delivery it ends with.                           *)
LEMMA NotifyKeepsRx ==
  ASSUME SerialType, RxInv, uart_rx_notify \/ RxDeliver
  PROVE  RxInv'
<1> USE DEF RxInv, RecvSteps
<1>1. Notified \in Nat /\ rx_done_sem \in 0..1
  BY NotifiedType DEF SerialType
<1>2. CASE uart_rx_notify
  <2>1. /\ callbacks # <<>> /\ callbacks' = Tail(callbacks) /\ callbacks \in Seq(Callback)
        /\ Head(callbacks) \in Notification /\ pc = "idle" /\ pc' = "rx_deliver" /\ rx_len' = 0
        /\ UNCHANGED <<rx_done_sem, rx_buf, rx_data, rx_ringbuf, rx_timer, delivered, lost,
                       arrived>>
    BY <1>2, HeadTailProperties DEF uart_rx_notify, SerialType, Notification
  <2>2. Count(callbacks, Notification) = Count(callbacks', Notification) + 1
        /\ Count(callbacks', Notification) \in Nat
    BY <2>1, CountTail, CountType, HeadTailProperties
  <2>3. Notified' = Notified - 1 /\ Notified - 1 \in Nat
    BY <2>2 DEF Notified
  <2>4. rx_len = 0
    BY <1>1, <2>1, <2>3, LengthAssumption DEF ReceptionHasOneHolder, One, SerialType
  <2>5. ReceptionHasOneHolder'
    BY <1>1, <2>1, <2>3, <2>4 DEF ReceptionHasOneHolder, One
  <2>6. RoomInBuffers' /\ BufferIsFree' /\ CallBegins' /\ ReceptionIsArmed'
        /\ TimerMeansReception'
    BY <2>1, <2>4 DEF BufferIsFree, CallBegins, ReceptionIsArmed, TimerMeansReception,
       RoomInBuffers
  <2> QED
    BY <2>1, <2>5, <2>6
<1>3. CASE RxDeliver
  <2>1. /\ pc = "rx_deliver" /\ pc' = "idle" /\ rx_data' = <<>> /\ rx_buf' = FALSE
        /\ rx_timer' = FALSE /\ rx_done_sem' = 1 /\ delivered' = delivered \o rx_data
        /\ UNCHANGED <<rx_len, rx_ringbuf, lost, arrived>> /\ Notified' = Notified
    BY <1>3 DEF RxDeliver, Give, Notified
  <2>2. Stream(delivered', rx_data', rx_ringbuf', lost', arrived')
    BY <2>1, StreamDelivers
  <2>3. rx_len = 0
    BY <1>1, <2>1, LengthAssumption DEF ReceptionHasOneHolder, One, SerialType
  <2>4. ReceptionHasOneHolder'
    BY <1>1, <2>1, <2>3 DEF ReceptionHasOneHolder, One
  <2>5. RoomInBuffers' /\ BufferIsFree' /\ CallBegins' /\ ReceptionIsArmed'
        /\ TimerMeansReception'
    BY <2>1, <2>3, LengthAssumption
    DEF BufferIsFree, CallBegins, ReceptionIsArmed, TimerMeansReception, RoomInBuffers
  <2> QED
    BY <2>2, <2>4, <2>5
<1> QED
  BY <1>2, <1>3

(* uart_rx_timeout: a reception that lasts too long ends with what it has. *)
LEMMA TimeoutKeepsRx ==
  ASSUME SerialType, RxInv, uart_rx_timeout
  PROVE  RxInv'
<1>1. rx_buf /\ rx_len > 0 /\ ReceptionEnds(rx_data)
  BY DEF uart_rx_timeout, RxInv, TimerMeansReception, IsReceiving
<1>2. UNCHANGED <<pc, rx_ringbuf, delivered, arrived>>
  BY DEF uart_rx_timeout, thread_vars
<1>3. /\ Stream(delivered', rx_data, rx_ringbuf', lost, arrived')
      /\ Len(rx_data) <= RxLen /\ Len(rx_ringbuf') <= RingLen
  BY <1>2 DEF RxInv, RoomInBuffers
<1> QED
  BY <1>1, <1>2, <1>3, EndKeepsRx

(* handle_rx_ready_evt with a reception: the ring buffer first, then what  *)
(* arrives; what arrives goes to the user only when the ring buffer is     *)
(* empty.                                                                  *)
LEMMA RxToUserKeepsRx ==
  ASSUME SerialType, RxInv, NEW n \in 0..RxLen, RxToUser(n)
  PROVE  RxInv'
<1> USE DEF RxInv
<1> DEFINE taken == rx_data \o First(rx_ringbuf, FromRing)
           data == taken \o Arriving(n)
<1>1. /\ rx_buf /\ Len(rx_data) < rx_len /\ rx_len = RxLen /\ RxLen \in Nat \ {0}
      /\ Len(rx_data) \in Nat /\ Len(rx_ringbuf) \in Nat /\ arrived \in Nat
      /\ Len(rx_ringbuf) <= RingLen /\ RingLen \in Nat
  BY LenProperties, LengthAssumption
  DEF RxToUser, Receiving, SerialType, Stream, RoomInBuffers
<1>2. /\ FromRing \in 0..Len(rx_ringbuf) /\ Len(rx_data) + FromRing <= RxLen
      /\ n <= RxLen - Len(rx_data) - FromRing
      /\ n > 0 => FromRing = Len(rx_ringbuf)
  BY <1>1 DEF RxToUser, FromRing, Least
<1>3. /\ rx_ringbuf' = Beyond(rx_ringbuf, FromRing) /\ arrived' = arrived + n
      /\ UNCHANGED <<pc, delivered>>
  BY DEF RxToUser, thread_vars
<1>4. IF Len(data) = rx_len THEN ReceptionEnds(data)
      ELSE /\ rx_data' = data /\ rx_timer' = TRUE
           /\ UNCHANGED <<rx_len, rx_buf, rx_done_sem, lost, callbacks>>
  BY DEF RxToUser
<1>5. Stream(delivered, taken, rx_ringbuf', lost, arrived)
  BY <1>2, <1>3, StreamTakes
<1>6. /\ Len(First(rx_ringbuf, FromRing)) = FromRing
      /\ First(rx_ringbuf, FromRing) \in Seq(1..arrived)
      /\ Len(rx_ringbuf') = Len(rx_ringbuf) - FromRing /\ rx_ringbuf' \in Seq(1..arrived)
  BY <1>2, <1>3, StreamCut
<1>7. Len(taken) = Len(rx_data) + FromRing /\ taken \in Seq(1..arrived)
  <2> DEFINE Places == 1..arrived
             first == First(rx_ringbuf, FromRing)
  <2>1. rx_data \in Seq(Places) /\ first \in Seq(Places) /\ Len(first) = FromRing
    BY <1>6 DEF Stream
  <2> HIDE DEF Places, first
  <2>2. Len(rx_data \o first) = Len(rx_data) + FromRing /\ rx_data \o first \in Seq(Places)
    BY <2>1, ConcatProperties
  <2> QED
    BY <2>2 DEF Places, first
<1> HIDE DEF taken
<1>8. /\ Arriving(n) \in Seq((arrived + 1)..(arrived + n)) /\ Len(Arriving(n)) = n
  BY <1>1, InARow DEF Arriving
<1>9. Len(data) = Len(taken) + n
  <2>1. 1..arrived \subseteq Nat /\ (arrived + 1)..(arrived + n) \subseteq Nat
    BY <1>1
  <2>2. taken \in Seq(Nat) /\ Arriving(n) \in Seq(Nat)
    BY <1>7, <1>8, <2>1, SeqMonotonic
  <2> QED
    BY <2>2, <1>8, ConcatProperties
<1>10. Stream(delivered', data, rx_ringbuf', lost, arrived')
  <2>1. CASE n = 0
    <3>1. Arriving(n) = <<>> /\ arrived' = arrived
      BY <1>1, <1>3, <1>8, <2>1
    <3>2. data = taken
      BY <3>1, <1>7, ConcatEmptySeq
    <3> QED
      BY <3>1, <3>2, <1>3, <1>5
  <2>2. CASE n > 0
    <3>1. rx_ringbuf' = <<>>
      BY <1>1, <1>2, <1>6, <2>2, EmptySeq
    <3>2. n \in Nat
      OBVIOUS
    <3>3. Stream(delivered, taken \o [i \in 1..n |-> arrived + i], <<>>, lost, arrived + n)
      BY <3>1, <3>2, <1>5, StreamArrives
    <3> QED
      BY <3>1, <3>3, <1>3 DEF Arriving
  <2> QED
    BY <2>1, <2>2
<1> HIDE DEF data
<1>11. Len(data) <= RxLen /\ Len(rx_ringbuf') <= RingLen
  BY <1>1, <1>2, <1>6, <1>7, <1>9
<1>12. CASE Len(data) = rx_len
  BY <1>1, <1>3, <1>4, <1>10, <1>11, <1>12, EndKeepsRx
<1>13. CASE Len(data) # rx_len
  <2>1. /\ rx_data' = data /\ rx_timer' = TRUE
        /\ UNCHANGED <<rx_len, rx_buf, rx_done_sem, lost, callbacks>> /\ Notified' = Notified
    BY <1>4, <1>13 DEF Notified
  <2>2. ReceptionHasOneHolder'
    BY <1>3, <2>1 DEF ReceptionHasOneHolder
  <2>3. RoomInBuffers' /\ CallBegins' /\ ReceptionIsArmed' /\ TimerMeansReception'
    BY <1>1, <1>3, <1>11, <2>1
    DEF CallBegins, ReceptionIsArmed, TimerMeansReception, RoomInBuffers, RecvSteps
  <2>4. BufferIsFree'
    BY <1>1, <2>1 DEF BufferIsFree
  <2> QED
    BY <2>1, <2>2, <2>3, <2>4, <1>10
<1> QED
  BY <1>12, <1>13

(* handle_rx_ready_evt without a reception: the ring buffer takes what     *)
(* arrives and lets go of the oldest when it overflows.                    *)
LEMMA RxToRingKeepsRx ==
  ASSUME SerialType, RxInv, NEW n \in 1..RingLen, RxToRing(n)
  PROVE  RxInv'
<1> USE DEF RxInv
<1> DEFINE all == rx_ringbuf \o Arriving(n)
           over == IF Len(all) > RingLen THEN Len(all) - RingLen ELSE 0
<1>1. /\ rx_ringbuf' = Beyond(all, over) /\ lost' = lost \cup Range(First(all, over))
      /\ arrived' = arrived + n
      /\ UNCHANGED <<pc, rx_done_sem, rx_buf, rx_data, rx_len, rx_timer, callbacks, delivered>>
  BY DEF RxToRing, thread_vars
<1>2. Stream(delivered, rx_data, all, lost, arrived + n)
  <2>1. n \in Nat
    BY LengthAssumption
  <2> QED
    BY <2>1, StreamGrows DEF Arriving
<1>3. Len(all) \in Nat /\ RingLen \in Nat
  BY <1>2, LenProperties, LengthAssumption DEF Stream
<1> HIDE DEF all
<1>4. over \in 0..Len(all) /\ Len(all) - over <= RingLen
  BY <1>3
<1> HIDE DEF over
<1>5. Stream(delivered', rx_data', rx_ringbuf', lost', arrived')
  BY <1>1, <1>2, <1>4, StreamOverflows
<1>6. Len(rx_ringbuf') <= RingLen
  BY <1>1, <1>2, <1>4, StreamCut
<1>7. RoomInBuffers'
  BY <1>1, <1>6 DEF RoomInBuffers
<1>8. ReceptionHasOneHolder'
  BY <1>1 DEF ReceptionHasOneHolder, Notified
<1>9. BufferIsFree' /\ CallBegins' /\ ReceptionIsArmed' /\ TimerMeansReception'
  BY <1>1 DEF BufferIsFree, CallBegins, ReceptionIsArmed, TimerMeansReception
<1> QED
  BY <1>5, <1>7, <1>8, <1>9

LEMMA InitSerial ==
  ASSUME Init
  PROVE  SerialType /\ Flags /\ RxInv
<1> USE TransferIs, LengthAssumption, BoundAssumption
<1>1. SerialType
  BY DEF Init, SerialType, Steps, SendSteps, Answers
<1>2. Flags
  BY DEF Init, Flags
<1>3. Stream(delivered, rx_data, rx_ringbuf, lost, arrived)
  BY EmptyIncreases DEF Init, Stream
<1>4. Notified = 0
  BY CountEmpty DEF Init, Notified
<1>5. RxInv
  BY <1>3, <1>4
  DEF Init, RxInv, ReceptionHasOneHolder, BufferIsFree, CallBegins, ReceptionIsArmed,
      TimerMeansReception, RoomInBuffers, RecvSteps, One
<1> QED
  BY <1>1, <1>2, <1>5

LEMMA SerialInvariant == Spec => [](SerialType /\ Flags /\ RxInv)
<1>1. SerialType /\ Flags /\ RxInv /\ [Next]_vars => (SerialType /\ Flags /\ RxInv)'
  <2> SUFFICES ASSUME SerialType, Flags, RxInv, [Next]_vars
               PROVE  SerialType' /\ Flags' /\ RxInv'
    OBVIOUS
  <2>1. RxInv'
    BY RxSteps, RecvKeepsRx, NotifyKeepsRx, TimeoutKeepsRx, RxToUserKeepsRx, RxToRingKeepsRx,
       QuietKeepsRx
  <2> QED
    BY <2>1, SerialTypeStep, FlagsStep
<1>2. Init => SerialType /\ Flags /\ RxInv
  BY InitSerial
<1> QED
  BY <1>1, <1>2, PTL DEF Spec

(* Exactly one of the call of recv_data, the reception, its scheduled      *)
(* notification and the notification that runs holds rx_done_sem while it  *)
(* is taken, whatever the interrupt and the timer do in between.           *)
THEOREM ReceptionOwned == Spec => []ReceptionIsOwned
<1>1. SerialType /\ RxInv => ReceptionIsOwned
  <2> SUFFICES ASSUME SerialType, RxInv PROVE ReceptionIsOwned
    OBVIOUS
  <2>1. Where(callbacks, Notification) = Notifications
    BY LenProperties DEF Where, Notification, Notifications, SerialType
  <2> QED
    BY <2>1 DEF RxInv, ReceptionHasOneHolder, ReceptionIsOwned, Notified, Count
<1> QED
  BY <1>1, SerialInvariant, PTL

(* No received byte is lost, doubled or delivered out of order, except for *)
(* those the code drops: by an overflow of the ring buffer or with a       *)
(* reception whose notification was refused.                               *)
THEOREM StreamKept == Spec => []StreamIsIntact
<1>1. RxInv => StreamIsIntact
  BY StreamMeans DEF RxInv
<1> QED
  BY <1>1, SerialInvariant, PTL
-------------------------------------------------------------------------------
(* The transmitted bytes *)

Byte == Transfer \X (Nat \ {0})
Taken(t, offset, n) == [i \in 1..n |-> <<t, offset + i>>]
EndsWith(w, t, n) == w # <<>> /\ w[Len(w)] = <<t, n>>
UpTo(w, t, n) == \A b \in Range(w) : b[1] = t /\ b[2] \in Nat /\ b[2] <= n
(* What may follow a byte, when some transfers began early.                *)
MayFollow(b, c, begun) ==
  \/ c[1] = b[1] /\ c[2] = b[2] + 1
  \/ c[1] = b[1] /\ c[1] \in begun /\ StartsTransfer(c)
  \/ c[1] > b[1] /\ StartsTransfer(c)
InOrder(w, begun) ==
  /\ w # <<>> => StartsTransfer(w[1])
  /\ \A i \in 2..Len(w) : MayFollow(w[i - 1], w[i], begun)

LEMMA MoreBegun ==
  ASSUME NEW w, NEW begun, NEW more, begun \subseteq more, InOrder(w, begun)
  PROVE  InOrder(w, more)
  BY DEF InOrder, MayFollow

(* The next bytes of a transfer keep what went out in order, when they are *)
(* its first and follow those of earlier transfers, or of its own when it  *)
(* began early, or follow its own.                                         *)
LEMMA WireGrows ==
  ASSUME NEW w \in Seq(Byte), NEW begun, InOrder(w, begun),
         NEW t \in Transfer, NEW offset \in Nat, NEW n \in Nat \ {0},
         offset = 0 => \A b \in Range(w) : b[1] < t \/ (b[1] = t /\ t \in begun),
         offset > 0 => EndsWith(w, t, offset)
  PROVE  LET new == Taken(t, offset, n)
         IN  /\ w \o new \in Seq(Byte) /\ InOrder(w \o new, begun)
             /\ EndsWith(w \o new, t, offset + n)
             /\ Range(w \o new) = Range(w) \cup Range(new)
             /\ UpTo(new, t, offset + n)
<1> USE DEF EndsWith
<1> DEFINE new == Taken(t, offset, n)
           v == w \o new
<1>1. new \in Seq(Byte)
  <2>1. \A i \in 1..n : <<t, offset + i>> \in Byte
    BY DEF Byte
  <2>2. new \in [1..n -> Byte] /\ n \in Nat
    BY <2>1 DEF Taken
  <2> QED
    BY <2>2, SeqDef
<1>2. Len(new) = n /\ DOMAIN new = 1..n /\ \A i \in 1..n : new[i] = <<t, offset + i>>
  BY <1>1, LenProperties DEF Taken
<1> HIDE DEF new
<1>3. /\ Len(w) \in Nat /\ DOMAIN w = 1..Len(w) /\ \A i \in 1..Len(w) : w[i] \in Byte
      /\ w # <<>> => Len(w) # 0
  BY LenProperties, EmptySeq
<1>4. /\ v \in Seq(Byte) /\ Len(v) = Len(w) + n
      /\ \A i \in 1..Len(w) : v[i] = w[i]
      /\ \A i \in 1..n : v[Len(w) + i] = <<t, offset + i>>
  <2>1. /\ v \in Seq(Byte) /\ Len(v) = Len(w) + Len(new)
        /\ \A i \in 1..Len(w) : v[i] = w[i]
        /\ \A i \in 1..Len(new) : v[Len(w) + i] = new[i]
    BY <1>1, <1>3, ConcatProperties
  <2> QED
    BY <2>1, <1>2
<1>5. Range(v) = Range(w) \cup Range(new)
  BY <1>1, RangeConcatenation
<1>6. UpTo(new, t, offset + n)
  BY <1>2 DEF Range, UpTo
<1> HIDE DEF v
<1>7. EndsWith(v, t, offset + n)
  BY <1>3, <1>4, EmptySeq
<1>8. StartsTransfer(v[1])
  <2>1. CASE w = <<>>
    <3>1. offset = 0 /\ Len(w) = 0 /\ v[Len(w) + 1] = <<t, offset + 1>>
      BY <2>1, <1>4
    <3> QED
      BY <3>1 DEF StartsTransfer
  <2>2. CASE w # <<>>
    <3>1. v[1] = w[1]
      BY <2>2, <1>3, <1>4
    <3> QED
      BY <2>2, <3>1 DEF InOrder
  <2> QED
    BY <2>1, <2>2
<1>9. ASSUME NEW i \in 2..Len(v)
      PROVE  MayFollow(v[i - 1], v[i], begun)
  <2>1. CASE i <= Len(w)
    <3>1. v[i] = w[i] /\ v[i - 1] = w[i - 1] /\ i \in 2..Len(w)
      BY <2>1, <1>3, <1>4
    <3> QED
      BY <3>1 DEF InOrder
  <2>2. CASE i = Len(w) + 1
    <3>1. v[i] = <<t, offset + 1>> /\ v[i - 1] = w[Len(w)]
      BY <2>2, <1>3, <1>4
    <3>2. CASE offset = 0
      <4>1. w[Len(w)] \in Range(w) /\ (w[Len(w)][1] < t \/ (w[Len(w)][1] = t /\ t \in begun))
        BY <2>2, <3>2, <1>3 DEF Range
      <4> QED
        BY <3>1, <3>2, <4>1 DEF MayFollow, StartsTransfer
    <3>3. CASE offset > 0
      BY <3>1, <3>3 DEF MayFollow
    <3> QED
      BY <3>2, <3>3
  <2>3. CASE i > Len(w) + 1
    <3> DEFINE j == i - Len(w)
    <3>1. j \in 1..n /\ j - 1 \in 1..n /\ i = Len(w) + j /\ i - 1 = Len(w) + (j - 1)
      BY <2>3, <1>3, <1>4
    <3>2. v[i] = <<t, offset + j>> /\ v[i - 1] = <<t, offset + (j - 1)>>
      BY <3>1, <1>4
    <3>3. offset + j = (offset + (j - 1)) + 1
      BY <3>1
    <3> QED
      BY <3>2, <3>3 DEF MayFollow
  <2> QED
    BY <2>1, <2>2, <2>3, <1>3
<1> QED
  BY <1>4, <1>5, <1>6, <1>7, <1>8, <1>9 DEF InOrder, v, new

(* The transfer that may still send bytes: the one that send_data fills    *)
(* in, or the one the descriptor describes.                                *)
Current == IF pc = "tx_buf" THEN sends ELSE tx_buf

DescriptorIsOfCurrent == tx_buf \in 0..sends

(* A callback is that of the current transfer, or it was passed too late.  *)
CallbackIsOfCurrent ==
  tx_trx_cb \in 0..sends
    /\ (tx_trx_cb # NoTransfer => tx_trx_cb \in early \/ tx_trx_cb = tx_buf)

(* What went out: nothing of a later call, and of the current transfer the *)
(* bytes up to the offset, the last of them last.                          *)
WireSoFar ==
  /\ wire \in Seq(Byte) /\ InOrder(wire, early)
  /\ \A b \in Range(wire) : b[1] <= sends
  /\ Current # NoTransfer =>
       /\ \A b \in Range(wire) :
            b[1] < Current \/ (b[1] = Current /\ (b[2] <= tx_offset \/ Current \in early))
       /\ tx_offset > 0 => EndsWith(wire, Current, tx_offset)

(* Answers given, and answers that still wait in the callback queue, of    *)
(* the transfers that did not begin early.                                 *)
Truthful(t, status) ==
  /\ status = "success" => AllSent(t)
  /\ status \in {"timeout", "busy", "error"} => ~AllSent(t)
NotAnsweredYet ==
  \A t \in Transfer : t > sends \/ (t = Current /\ t \notin early) => answer[t] = "none"
AnswersAreTrue == \A t \in Transfer : t \notin early => Truthful(t, answer[t])
ReportsAreTrue ==
  \A c \in Range(callbacks) :
    c.cb = "tx" =>
      c.of <= sends /\ (c.of \notin early => c.of # Current /\ Truthful(c.of, c.status))

FaithInv ==
  /\ DescriptorIsOfCurrent /\ CallbackIsOfCurrent /\ WireSoFar
  /\ NotAnsweredYet /\ AnswersAreTrue /\ ReportsAreTrue

(* The steps that leave the transfers' history and the current transfer    *)
(* alone, and add no report.                                               *)
LEMMA QuietKeepsFaith ==
  ASSUME FaithInv, UNCHANGED <<wire, early, answer, sends>>, Current' = Current,
         tx_offset' = tx_offset
           \/ (tx_offset' = 0 /\ (tx_offset > 0 => Current \in early)),
         tx_offset \in Nat,
         \A c \in Range(callbacks)' : c.cb = "tx" => c \in Range(callbacks),
         DescriptorIsOfCurrent', CallbackIsOfCurrent'
  PROVE  FaithInv'
<1>1. WireSoFar'
  BY DEF FaithInv, WireSoFar
<1>2. \A t : AllSent(t)' <=> AllSent(t)
  BY DEF AllSent
<1>3. \A t, status : Truthful(t, status)' <=> Truthful(t, status)
  BY <1>2 DEF Truthful
<1>4. NotAnsweredYet' /\ AnswersAreTrue'
  BY <1>3 DEF FaithInv, NotAnsweredYet, AnswersAreTrue
<1>5. ReportsAreTrue'
  BY <1>3 DEF FaithInv, ReportsAreTrue
<1> QED
  BY <1>1, <1>4, <1>5 DEF FaithInv

(* What is outside send_data and leaves the descriptor alone.              *)
LEMMA IdleKeepsFaith ==
  ASSUME SerialType, FaithInv,
         UNCHANGED <<wire, early, answer, sends, tx_offset, tx_buf, tx_trx_cb>>,
         pc' = pc \/ (pc \notin SendSteps /\ pc' \notin SendSteps),
         \A c \in Range(callbacks)' : c.cb = "tx" => c \in Range(callbacks)
  PROVE  FaithInv'
<1>1. Current' = Current
  BY DEF Current, SendSteps
<1>2. DescriptorIsOfCurrent' /\ CallbackIsOfCurrent'
  BY DEF FaithInv, DescriptorIsOfCurrent, CallbackIsOfCurrent
<1>3. tx_offset \in Nat
  BY DEF SerialType
<1> QED
  BY <1>1, <1>2, <1>3, QuietKeepsFaith

(* A call of send_data that is refused, and one that begins.               *)
LEMMA CallsKeepFaith ==
  ASSUME SerialType, TxInv, TxInv', FaithInv, SendRefused \/ SendTake
  PROVE  FaithInv'
<1> USE TransferIs DEF FaithInv
<1> DEFINE t0 == sends + 1
<1>1. /\ pc = "idle" /\ sends \in Nat /\ t0 \in Transfer /\ sends' = t0
      /\ UNCHANGED <<wire, early, callbacks, tx_offset, tx_buf, tx_trx_cb>>
  BY DEF SendRefused, SendTake, SerialType, tx_vars
<1>2. /\ \A b \in Range(wire) : b[1] <= sends
      /\ \A b \in Range(wire) : b \in Byte
  BY RangeOfSeq DEF WireSoFar
<1>3. ~AllSent(t0)
  BY <1>1, <1>2 DEF AllSent
<1>4. \A t, status : Truthful(t, status)' <=> Truthful(t, status)
  BY <1>1 DEF Truthful, AllSent
<1>5. Current = tx_buf /\ Current \in 0..sends
  BY <1>1 DEF Current, DescriptorIsOfCurrent
<1>6. \A b \in Byte : b[1] \in Nat
  BY DEF Byte
<1>7. \A c \in Range(callbacks) : c.cb = "tx" => c.of \in Transfer
  BY RangeOfSeq DEF SerialType, Callback
<1>8. CASE SendRefused
  <2>1. pc' = pc /\ answer' = [answer EXCEPT ![t0] = answer'[t0]]
        /\ answer'[t0] \in {"error", "busy"}
    BY <1>1, <1>8 DEF SendRefused, SerialType
  <2>2. Current' = Current
    BY <1>1, <2>1 DEF Current
  <2>3. WireSoFar'
    BY <1>1, <1>2, <1>6, <2>2 DEF WireSoFar
  <2>4. DescriptorIsOfCurrent' /\ CallbackIsOfCurrent'
    BY <1>1 DEF DescriptorIsOfCurrent, CallbackIsOfCurrent
  <2>5. \A t \in Transfer : t # t0 => answer'[t] = answer[t]
    BY <2>1 DEF SerialType
  <2>6. NotAnsweredYet'
    BY <1>1, <1>5, <2>2, <2>5 DEF NotAnsweredYet, NoTransfer
  <2>7. Truthful(t0, answer'[t0])
    BY <2>1, <1>3 DEF Truthful
  <2>8. AnswersAreTrue'
    BY <1>1, <1>4, <2>5, <2>7 DEF AnswersAreTrue
  <2>9. ReportsAreTrue'
    BY <1>1, <1>4, <1>7, <2>2 DEF ReportsAreTrue
  <2> QED
    BY <2>3, <2>4, <2>6, <2>8, <2>9
<1>9. CASE SendTake
  <2>1. pc' = "tx_buf" /\ answer' = answer
    BY <1>9 DEF SendTake
  <2>2. Current' = t0 /\ tx_offset' = 0
    <3>1. tx_done_sem = 1 /\ tx_buf = NoTransfer
      BY <1>9 DEF SendTake, TxInv, TxType, HasOneHolder, One
    <3>2. tx_offset = 0
      BY <3>1 DEF TxInv, TxType, DescriptorIsFilled, DescriptorIsReset, NothingToSend
    <3> QED
      BY <1>1, <2>1, <3>2 DEF Current
  <2>3. WireSoFar'
    BY <1>1, <1>2, <1>6, <2>2 DEF WireSoFar
  <2>4. DescriptorIsOfCurrent' /\ CallbackIsOfCurrent'
    BY <1>1 DEF DescriptorIsOfCurrent, CallbackIsOfCurrent
  <2>5. NotAnsweredYet'
    BY <1>1, <2>1, <2>2 DEF NotAnsweredYet
  <2>6. AnswersAreTrue'
    BY <1>1, <1>4, <2>1 DEF AnswersAreTrue
  <2>7. ReportsAreTrue'
    BY <1>1, <1>4, <1>7, <2>2 DEF ReportsAreTrue
  <2> QED
    BY <2>3, <2>4, <2>5, <2>6, <2>7
<1> QED
  BY <1>8, <1>9

(* The assignments of send_data fill in the descriptor of one transfer.    *)
LEMMA SendKeepsFaith ==
  ASSUME SerialType, TxInv, FaithInv, Send
  PROVE  FaithInv'
<1>1. /\ UNCHANGED <<wire, early, answer, sends, callbacks>> /\ pc \in SendSteps
      /\ tx_offset \in Nat /\ sends \in Nat \ {0}
  BY TransferIs
  DEF Send, SendBuf, SendLen, SendOffset, SendCb, SendIrq, SendStep, SendSteps, SerialType
<1>2. Current' = Current
  BY <1>1
  DEF Send, SendBuf, SendLen, SendOffset, SendCb, SendIrq, SendStep, SendSteps, Current,
      TxInv, CallHasDescriptor
<1>3. DescriptorIsOfCurrent'
  BY <1>1
  DEF Send, SendBuf, SendLen, SendOffset, SendCb, SendIrq, FaithInv, DescriptorIsOfCurrent
<1>4. tx_offset' = tx_offset \/ (tx_offset' = 0 /\ (tx_offset > 0 => Current \in early))
  <2>1. CASE SendOffset
    <3>1. pc = "tx_offset" /\ tx_offset' = 0
      BY <2>1 DEF SendOffset, SendStep
    <3>2. tx_offset > 0 => tx_buf = sends
      BY <3>1
      DEF TxInv, TxType, CallHasDescriptor, DescriptorIsFilled, DescriptorIsReset,
          NothingToSend
    <3> QED
      BY <3>1, <3>2 DEF TxInv, UntouchedOrEarly, Current
  <2>2. CASE ~SendOffset
    BY <2>2 DEF Send, SendBuf, SendLen, SendCb, SendIrq
  <2> QED
    BY <2>1, <2>2
<1>5. CallbackIsOfCurrent'
  <2>1. CASE SendCb
    <3>1. pc = "tx_cb" /\ tx_trx_cb' = sends /\ tx_buf' = tx_buf
      BY <2>1 DEF SendCb, SendStep
    <3>2. sends \in early \/ sends = tx_buf
      BY <3>1 DEF TxInv, UntouchedOrEarly
    <3> QED
      BY <1>1, <3>1, <3>2 DEF CallbackIsOfCurrent
  <2>2. CASE SendBuf
    <3>1. tx_buf = NoTransfer /\ tx_trx_cb' = tx_trx_cb
      BY <2>2 DEF SendBuf, SendStep, TxInv, CallHasDescriptor
    <3> QED
      BY <1>1, <3>1 DEF FaithInv, CallbackIsOfCurrent
  <2>3. CASE SendLen \/ SendOffset \/ SendIrq
    BY <1>1, <2>3 DEF SendLen, SendOffset, SendIrq, FaithInv, CallbackIsOfCurrent
  <2> QED
    BY <2>1, <2>2, <2>3 DEF Send
<1> QED
  BY <1>1, <1>2, <1>3, <1>4, <1>5, QuietKeepsFaith

(* A transfer that ends leaves a report of its status, unless it is        *)
(* refused, when its callback was passed; a callback that was passed too   *)
(* late is that of a transfer that began early.                            *)
LEMMA EndKeepsFaith ==
  ASSUME SerialType, TxInv, FaithInv, ~NothingToSend,
         NEW status \in {"success", "timeout"}, TransferEnds(status),
         UNCHANGED <<pc, sends>>, early \subseteq early',
         wire' \in Seq(Byte) /\ InOrder(wire', early')
           /\ \A b \in Range(wire') : b[1] <= sends,
         NEW t0 \in Transfer, t0 = tx_buf, t0 \notin early' => Truthful(t0, status)',
         \A t \in Transfer : t # t0 => (AllSent(t)' <=> AllSent(t))
  PROVE  FaithInv'
<1> USE TransferIs DEF FaithInv
<1>1. /\ tx_offset' = 0 /\ tx_buf' = NoTransfer /\ tx_trx_cb' = NoTransfer
      /\ t0 \in 1..sends /\ sends \in Nat /\ pc # "tx_buf" /\ Current = t0
  <2>1. pc # "tx_buf"
    BY DEF TxInv, TxType, DescriptorIsFilled, NothingToSend
  <2> QED
    BY <2>1 DEF TransferEnds, ResetTx, DescriptorIsOfCurrent, SerialType, Current
<1>2. Current' = NoTransfer
  BY <1>1 DEF Current
<1>3. DescriptorIsOfCurrent' /\ CallbackIsOfCurrent' /\ WireSoFar'
  BY <1>1, <1>2 DEF DescriptorIsOfCurrent, CallbackIsOfCurrent, WireSoFar, NoTransfer
<1>4. \A t \in Transfer : \A s : t # t0 => (Truthful(t, s)' <=> Truthful(t, s))
  BY DEF Truthful
<1>5. \A c \in Range(callbacks) : c.cb = "tx" => c.of \in Transfer
  BY RangeOfSeq DEF SerialType, Callback
<1> DEFINE u == tx_trx_cb
           report == [cb |-> "tx", of |-> u, status |-> status]
<1>6. u # NoTransfer => u \in 1..sends /\ u \in Transfer /\ (u \notin early' => u = t0)
  BY <1>1 DEF CallbackIsOfCurrent, SerialType, NoTransfer
<1>7. \/ callbacks' = callbacks /\ answer' = answer
      \/ u # NoTransfer /\ callbacks' = Append(callbacks, report) /\ answer' = answer
      \/ /\ u # NoTransfer /\ callbacks' = callbacks
         /\ answer' = [answer EXCEPT ![u] = "dropped"]
  BY DEF TransferEnds, Report
<1>8. /\ \A t \in Transfer : answer'[t] = answer[t] \/ (t = u /\ answer'[t] = "dropped")
      /\ \A t \in Transfer : t > sends => answer'[t] = answer[t]
  <2>1. CASE answer' = answer
    BY <2>1
  <2>2. CASE u # NoTransfer /\ answer' = [answer EXCEPT ![u] = "dropped"]
    <3>1. u \in 1..sends /\ DOMAIN answer = Transfer
      BY <1>6, <2>2 DEF SerialType
    <3> HIDE DEF u
    <3>2. \A t \in Transfer : answer'[t] = IF t = u THEN "dropped" ELSE answer[t]
      BY <2>2, <3>1
    <3>3. ~ (u > sends)
      BY <1>1, <3>1
    <3> QED
      BY <3>2, <3>3
  <2> QED
    BY <1>7, <2>1, <2>2
<1>9. \A c \in Range(callbacks') : c \in Range(callbacks) \/ (u # NoTransfer /\ c = report)
  <2>1. CASE callbacks' = callbacks
    BY <2>1
  <2>2. CASE u # NoTransfer /\ callbacks' = Append(callbacks, report)
    <3>1. report \in Callback /\ callbacks \in Seq(Callback)
      BY <2>2, <1>6 DEF Callback, SerialType
    <3> HIDE DEF report
    <3>2. Range(Append(callbacks, report)) = Range(callbacks) \cup {report}
      BY <3>1, RangeAppend
    <3> QED
      BY <2>2, <3>2
  <2> QED
    BY <1>7, <2>1, <2>2
<1> HIDE DEF u
<1>10. NotAnsweredYet'
  BY <1>1, <1>2, <1>8 DEF NotAnsweredYet, NoTransfer
<1>11. AnswersAreTrue'
  <2> SUFFICES ASSUME NEW t \in Transfer, t \notin early' PROVE Truthful(t, answer[t])'
    BY DEF AnswersAreTrue
  <2>1. CASE answer'[t] = "dropped"
    BY <2>1 DEF Truthful
  <2>2. CASE answer'[t] = answer[t] /\ t = t0
    <3>1. answer[t] = "none"
      BY <2>2, <1>1 DEF NotAnsweredYet
    <3> QED
      BY <2>2, <3>1 DEF Truthful
  <2>3. CASE answer'[t] = answer[t] /\ t # t0
    BY <2>3, <1>4 DEF AnswersAreTrue
  <2> QED
    BY <2>1, <2>2, <2>3, <1>8
<1>12. ReportsAreTrue'
  <2> SUFFICES ASSUME NEW c \in Range(callbacks'), c.cb = "tx"
               PROVE  /\ c.of <= sends'
                      /\ c.of \notin early' => c.of # Current' /\ Truthful(c.of, c.status)'
    BY DEF ReportsAreTrue
  <2>1. CASE u # NoTransfer /\ c = report
    BY <2>1, <1>1, <1>2, <1>6 DEF NoTransfer
  <2>2. CASE c \in Range(callbacks)
    <3>1. /\ c.of \in Transfer /\ c.of <= sends
          /\ c.of \notin early => c.of # t0 /\ Truthful(c.of, c.status)
      BY <2>2, <1>1, <1>5 DEF ReportsAreTrue
    <3> QED
      BY <3>1, <1>1, <1>2, <1>4 DEF NoTransfer
  <2> QED
    BY <2>1, <2>2, <1>9
<1> QED
  BY <1>3, <1>10, <1>11, <1>12

LEMMA TimeoutKeepsFaith ==
  ASSUME SerialType, TxInv, FaithInv, uart_tx_timeout
  PROVE  FaithInv'
<1>1. /\ ~NothingToSend /\ TransferEnds("timeout")
      /\ UNCHANGED <<pc, sends, wire, early>>
  BY DEF uart_tx_timeout, TxInv, TimerMeansTransfer, thread_vars
<1>2. /\ tx_buf # NoTransfer /\ tx_len = TxLen[tx_buf] /\ pc # "tx_buf"
      /\ tx_len \in Nat /\ tx_offset \in Nat /\ tx_offset < tx_len
  BY <1>1 DEF TxInv, TxType, DescriptorIsFilled, NothingToSend
<1>3. PICK t0 \in Transfer : t0 = tx_buf
  BY <1>2 DEF SerialType
<1>4. Current = t0 /\ tx_offset < TxLen[t0]
  BY <1>2, <1>3 DEF Current
<1>5. t0 \notin early => ~AllSent(t0)
  <2>1. \A b \in Range(wire) : b[1] < t0 \/ b[2] <= tx_offset \/ t0 \in early
    BY <1>3, <1>4, TransferIs DEF FaithInv, WireSoFar, NoTransfer
  <2>2. tx_offset \in Nat /\ TxLen[t0] \in Nat /\ t0 \in Nat
    BY <1>2, TransferIs
  <2> QED
    BY <1>4, <2>1, <2>2 DEF AllSent
<1>6. \A t \in Transfer : AllSent(t)' <=> AllSent(t)
  BY <1>1 DEF AllSent
<1>7. t0 \notin early' => Truthful(t0, "timeout")'
  BY <1>1, <1>5, <1>6 DEF Truthful
<1>8. /\ wire' \in Seq(Byte) /\ InOrder(wire', early')
      /\ \A b \in Range(wire') : b[1] <= sends
  BY <1>1 DEF FaithInv, WireSoFar
<1> QED
  BY <1>1, <1>3, <1>6, <1>7, <1>8, EndKeepsFaith

LEMMA FillKeepsFaith ==
  ASSUME SerialType, TxInv, FaithInv, NEW n \in 0..tx_len, TxFill(n)
  PROVE  FaithInv'
<1> USE TransferIs
<1>1. /\ ~NothingToSend /\ UNCHANGED <<pc, sends>> /\ early \subseteq early'
      /\ tx_offset \in Nat /\ tx_len \in Nat /\ n \in Nat /\ tx_offset + n <= tx_len
      /\ tx_offset < tx_len
  BY DEF TxFill, thread_vars, SerialType, NothingToSend
<1>2. tx_buf # NoTransfer /\ tx_len = TxLen[tx_buf] /\ pc # "tx_buf"
  BY <1>1 DEF TxInv, TxType, DescriptorIsFilled, NothingToSend
<1>3. PICK t0 \in Transfer : t0 = tx_buf
  BY <1>2 DEF SerialType
<1>4. /\ Current = t0 /\ t0 <= sends /\ t0 \in Nat \ {0} /\ sends \in Nat
      /\ tx_len = TxLen[t0]
  BY <1>2, <1>3 DEF Current, FaithInv, DescriptorIsOfCurrent, SerialType
<1>5. /\ wire \in Seq(Byte) /\ InOrder(wire, early')
      /\ \A b \in Range(wire) : b \in Byte /\ b[1] <= sends
      /\ \A b \in Range(wire) :
           b[1] < t0 \/ (b[1] = t0 /\ (b[2] <= tx_offset \/ t0 \in early'))
      /\ tx_offset > 0 => EndsWith(wire, t0, tx_offset)
  <2>1. wire \in Seq(Byte) /\ InOrder(wire, early)
    BY DEF FaithInv, WireSoFar
  <2>2. InOrder(wire, early')
    BY <1>1, <2>1, MoreBegun
  <2>3. \A b \in Range(wire) : b \in Byte
    BY <2>1, RangeOfSeq
  <2> QED
    BY <1>1, <1>4, <2>1, <2>2, <2>3 DEF FaithInv, WireSoFar, NoTransfer, EndsWith
<1>6. wire' = wire \o Taken(t0, tx_offset, n)
  BY <1>3 DEF TxFill, Taken
<1>7. \A b \in Byte : b[1] \in Nat /\ b[2] \in Nat \ {0}
  BY DEF Byte
<1>8. tx_offset = 0 => \A b \in Range(wire) : b[1] < t0 \/ (b[1] = t0 /\ t0 \in early')
  BY <1>5, <1>7
<1>9. /\ wire' \in Seq(Byte) /\ InOrder(wire', early')
      /\ tx_offset + n > 0 => EndsWith(wire', t0, tx_offset + n)
      /\ \A b \in Range(wire') :
           b \in Range(wire) \/ (b[1] = t0 /\ b[2] \in Nat /\ b[2] <= tx_offset + n)
      /\ Range(wire) \subseteq Range(wire')
  <2>1. CASE n = 0
    <3>1. Taken(t0, tx_offset, n) = <<>>
      BY <2>1 DEF Taken
    <3>2. wire' = wire
      BY <1>5, <1>6, <3>1, ConcatEmptySeq
    <3> QED
      BY <1>1, <1>5, <2>1, <3>2
  <2>2. CASE n # 0
    <3> DEFINE new == Range(Taken(t0, tx_offset, n))
    <3>1. /\ wire' \in Seq(Byte) /\ InOrder(wire', early')
          /\ EndsWith(wire', t0, tx_offset + n)
          /\ Range(wire') = Range(wire) \cup new
          /\ UpTo(Taken(t0, tx_offset, n), t0, tx_offset + n)
      BY <1>1, <1>5, <1>6, <1>8, <2>2, WireGrows
    <3>2. \A b \in new : b[1] = t0 /\ b[2] \in Nat /\ b[2] <= tx_offset + n
      BY <3>1 DEF UpTo
    <3> HIDE DEF new
    <3> QED
      BY <3>1, <3>2
  <2> QED
    BY <2>1, <2>2
<1>10. \A b \in Range(wire') : b[1] <= sends
  BY <1>4, <1>5, <1>9
<1>11. \A t \in Transfer : t # t0 => (AllSent(t)' <=> AllSent(t))
  BY <1>9 DEF AllSent
<1>12. CASE AllTaken(n)
  <2>1. <<t0, TxLen[t0]>> \in Range(wire')
    <3>1. wire' # <<>> /\ wire'[Len(wire')] = <<t0, TxLen[t0]>>
      BY <1>1, <1>4, <1>9, <1>12 DEF AllTaken, EndsWith
    <3>2. Len(wire') \in Nat \ {0} /\ DOMAIN wire' = 1..Len(wire')
      BY <1>9, <3>1, LenProperties, EmptySeq
    <3>3. Len(wire') \in DOMAIN wire'
      BY <3>2
    <3> QED
      BY <3>1, <3>3 DEF Range
  <2>2. Truthful(t0, "success")'
    BY <2>1 DEF Truthful, AllSent
  <2> QED
    BY <1>1, <1>3, <1>9, <1>10, <1>11, <1>12, <2>2, EndKeepsFaith DEF TxFill
<1>13. CASE ~AllTaken(n)
  <2>1. /\ tx_offset' = tx_offset + n
        /\ UNCHANGED <<tx_buf, tx_len, tx_trx_cb, callbacks, answer>>
    BY <1>13 DEF TxFill, TxContinues
  <2>2. Current' = t0
    BY <1>1, <1>4, <2>1 DEF Current
  <2>3. DescriptorIsOfCurrent' /\ CallbackIsOfCurrent'
    BY <1>1, <2>1 DEF FaithInv, DescriptorIsOfCurrent, CallbackIsOfCurrent
  <2>4. WireSoFar'
    <3>1. \A b \in Range(wire') :
            b[1] < t0 \/ (b[1] = t0 /\ (b[2] <= tx_offset + n \/ t0 \in early'))
      BY <1>1, <1>5, <1>7, <1>9
    <3> QED
      BY <1>1, <1>9, <1>10, <2>1, <2>2, <3>1 DEF WireSoFar, EndsWith
  <2>5. \A t \in Transfer : \A s : t # t0 => (Truthful(t, s)' <=> Truthful(t, s))
    BY <1>11 DEF Truthful
  <2>6. NotAnsweredYet'
    BY <1>1, <1>4, <2>1, <2>2 DEF FaithInv, NotAnsweredYet
  <2>7. AnswersAreTrue'
    <3> SUFFICES ASSUME NEW t \in Transfer, t \notin early' PROVE Truthful(t, answer[t])'
      BY DEF AnswersAreTrue
    <3>1. t \notin early
      BY <1>1
    <3>2. CASE t = t0
      <4>1. answer[t0] = "none"
        BY <1>4, <3>1, <3>2 DEF FaithInv, NotAnsweredYet
      <4> QED
        BY <2>1, <3>2, <4>1 DEF Truthful
    <3>3. CASE t # t0
      BY <2>1, <2>5, <3>1, <3>3 DEF FaithInv, AnswersAreTrue
    <3> QED
      BY <3>2, <3>3
  <2>8. ReportsAreTrue'
    <3>1. \A c \in Range(callbacks) : c.cb = "tx" => c.of \in Transfer
      BY RangeOfSeq DEF SerialType, Callback
    <3> SUFFICES ASSUME NEW c \in Range(callbacks), c.cb = "tx"
                 PROVE  /\ c.of <= sends'
                        /\ c.of \notin early' => c.of # Current' /\ Truthful(c.of, c.status)'
      BY <2>1 DEF ReportsAreTrue
    <3>2. c.of <= sends /\ (c.of \notin early => c.of # t0 /\ Truthful(c.of, c.status))
      BY <1>4 DEF FaithInv, ReportsAreTrue
    <3> QED
      BY <1>1, <2>2, <2>5, <3>1, <3>2
  <2> QED
    BY <2>3, <2>4, <2>6, <2>7, <2>8 DEF FaithInv
<1> QED
  BY <1>12, <1>13

(* The callback runs with the status that was reported.                    *)
LEMMA CallbackKeepsFaith ==
  ASSUME SerialType, FaithInv, TxCallback
  PROVE  FaithInv'
<1> USE TransferIs
<1> DEFINE c0 == Head(callbacks)
<1>1. /\ callbacks \in Seq(Callback) /\ callbacks # <<>> /\ c0.cb = "tx"
      /\ callbacks' = Tail(callbacks)
      /\ answer' = [answer EXCEPT ![c0.of] = c0.status]
      /\ UNCHANGED <<wire, early, sends, pc, tx_offset, tx_buf, tx_trx_cb>>
  BY DEF TxCallback, SerialType, tx_vars, thread_vars
<1>2. c0 \in Callback /\ Range(callbacks) = {c0} \cup Range(callbacks')
  BY <1>1, RangeTail, HeadTailProperties
<1>3. /\ c0.of \in Transfer /\ c0.of <= sends
      /\ c0.of \notin early => c0.of # Current /\ Truthful(c0.of, c0.status)
  BY <1>1, <1>2 DEF Callback, FaithInv, ReportsAreTrue
<1>4. Current' = Current
  BY <1>1 DEF Current
<1>5. \A t, s : Truthful(t, s)' <=> Truthful(t, s)
  BY <1>1 DEF Truthful, AllSent
<1>6. /\ \A t \in Transfer : t # c0.of => answer'[t] = answer[t]
      /\ answer'[c0.of] = c0.status
  BY <1>1, <1>3 DEF SerialType
<1>7. DescriptorIsOfCurrent' /\ CallbackIsOfCurrent'
  BY <1>1 DEF FaithInv, DescriptorIsOfCurrent, CallbackIsOfCurrent
<1>8. WireSoFar'
  BY <1>1, <1>4 DEF FaithInv, WireSoFar
<1>9. NotAnsweredYet'
  <2>1. sends \in Nat
    BY DEF SerialType
  <2> QED
    BY <1>1, <1>3, <1>4, <1>6, <2>1 DEF FaithInv, NotAnsweredYet
<1>10. AnswersAreTrue'
  BY <1>1, <1>3, <1>5, <1>6 DEF FaithInv, AnswersAreTrue
<1>11. ReportsAreTrue'
  BY <1>1, <1>2, <1>4, <1>5 DEF FaithInv, ReportsAreTrue
<1> QED
  BY <1>7, <1>8, <1>9, <1>10, <1>11 DEF FaithInv

LEMMA NextFaith ==
  ASSUME SerialType, TxInv, TxInv', FaithInv, [Next]_vars
  PROVE  FaithInv'
<1> DEFINE NoReportAdded == \A c \in Range(callbacks)' : c.cb = "tx" => c \in Range(callbacks)
           Idle == /\ UNCHANGED <<wire, early, answer, sends, tx_offset, tx_buf, tx_trx_cb>>
                   /\ pc' = pc \/ (pc \notin SendSteps /\ pc' \notin SendSteps)
<1>1. callbacks' = callbacks => NoReportAdded
  OBVIOUS
<1>2. callbacks # <<>> /\ callbacks' = Tail(callbacks) => NoReportAdded
  BY RangeTail DEF SerialType
<1>3. ASSUME NEW data, ReceptionEnds(data)
      PROVE  NoReportAdded
  <2> DEFINE notification == [cb |-> "uart_rx_notify"]
  <2>1. notification \in Callback /\ notification.cb # "tx"
    BY DEF Callback
  <2> HIDE DEF notification
  <2>2. Range(Append(callbacks, notification)) = Range(callbacks) \cup {notification}
    BY <2>1, RangeAppend DEF SerialType
  <2>3. callbacks' = callbacks \/ callbacks' = Append(callbacks, notification)
    BY <1>3 DEF ReceptionEnds, notification
  <2> QED
    BY <2>1, <2>2, <2>3
<1> HIDE DEF NoReportAdded
<1>4. CASE SendRefused \/ SendTake
  BY <1>4, CallsKeepFaith
<1>5. CASE Send
  BY <1>5, SendKeepsFaith
<1>6. CASE handle_tx_ready_evt
  <2>1. TxIdle => Idle /\ NoReportAdded
    BY <1>1 DEF TxIdle, thread_vars
  <2> QED
    BY <1>6, <2>1, FillKeepsFaith, IdleKeepsFaith DEF handle_tx_ready_evt, NoReportAdded
<1>7. CASE uart_tx_timeout
  BY <1>7, TimeoutKeepsFaith
<1>8. CASE TxCallback
  BY <1>8, CallbackKeepsFaith
<1>9. CASE RecvTake \/ Recv \/ uart_rx_notify \/ RxDeliver
  <2>1. Idle
    BY <1>9
    DEF RecvTake, Recv, RecvFlush, RecvComplete, RecvLen, RecvBuf, uart_rx_notify, RxDeliver,
        tx_vars, SendSteps
  <2>2. callbacks' = callbacks \/ (callbacks # <<>> /\ callbacks' = Tail(callbacks))
    BY <1>9
    DEF RecvTake, Recv, RecvFlush, RecvComplete, RecvLen, RecvBuf, uart_rx_notify, RxDeliver
  <2> QED
    BY <2>1, <2>2, <1>1, <1>2, IdleKeepsFaith DEF NoReportAdded
<1>10. CASE handle_rx_ready_evt \/ uart_rx_timeout
  <2>1. Idle
    BY <1>10 DEF handle_rx_ready_evt, RxToUser, RxToRing, uart_rx_timeout, tx_vars, thread_vars
  <2>2. callbacks' = callbacks \/ \E data : ReceptionEnds(data)
    BY <1>10 DEF handle_rx_ready_evt, RxToUser, RxToRing, uart_rx_timeout
  <2> QED
    BY <2>1, <2>2, <1>1, <1>3, IdleKeepsFaith DEF NoReportAdded
<1>11. CASE \/ FlushTake \/ FlushGive \/ zb_osif_async_serial_sleep
            \/ zb_osif_async_serial_wake_up \/ UNCHANGED vars
  <2>1. Idle /\ callbacks' = callbacks
    BY <1>11
    DEF FlushTake, FlushGive, zb_osif_async_serial_sleep, zb_osif_async_serial_wake_up, vars,
        tx_vars, thread_vars
  <2> QED
    BY <2>1, <1>1, IdleKeepsFaith DEF NoReportAdded
<1> QED
  BY <1>4, <1>5, <1>6, <1>7, <1>8, <1>9, <1>10, <1>11 DEF Next, Thread

LEMMA InitFaith ==
  ASSUME Init
  PROVE  FaithInv
<1> USE TransferIs DEF Init
<1>1. DescriptorIsOfCurrent /\ CallbackIsOfCurrent /\ NotAnsweredYet /\ AnswersAreTrue
  BY DEF DescriptorIsOfCurrent, CallbackIsOfCurrent, NotAnsweredYet, AnswersAreTrue, Truthful,
     NoTransfer
<1>2. WireSoFar
  BY EmptyIncreases DEF WireSoFar, Current, InOrder
<1>3. ReportsAreTrue
  BY EmptyIncreases DEF ReportsAreTrue
<1> QED
  BY <1>1, <1>2, <1>3 DEF FaithInv

LEMMA TransferInvariant == Spec => [](SerialType /\ TxInv /\ FaithInv)
<1>1. Init => SerialType /\ TxInv /\ FaithInv
  BY InitSerial, InitTx, InitFaith
<1>2. SerialType /\ TxInv /\ FaithInv /\ [Next]_vars => (SerialType /\ TxInv /\ FaithInv)'
  BY SerialTypeStep, NextTx, NextFaith
<1> QED
  BY <1>1, <1>2, PTL DEF Spec

(* The bytes of a transfer go out once, in order and without those of      *)
(* another in between, and its callback is told the truth about them; a    *)
(* transfer the interrupt begins before its callback is passed may start   *)
(* again, and what is said of its status leaves it out.                    *)
THEOREM TransferFaithful == Spec => []TransferIsFaithful
<1>1. FaithInv => TransferIsFaithful
  BY DEF FaithInv, WireSoFar, InOrder, MayFollow, Follows, AnswersAreTrue, Truthful,
     TransferIsFaithful
<1> QED
  BY <1>1, TransferInvariant, PTL

(* Every variable keeps its type: buffers within their lengths, offsets    *)
(* within theirs.                                                          *)
THEOREM TypeCorrect == Spec => []TypeOK
<1>1. ASSUME SerialType, Flags, RxInv, TxInv, FaithInv
      PROVE  TypeOK
  <2>1. tx_offset \in 0..tx_len
    <3>1. tx_len \in Nat /\ tx_offset \in Nat
      BY <1>1 DEF SerialType
    <3>2. CASE ~NothingToSend
      BY <3>1, <3>2 DEF NothingToSend
    <3>3. CASE NothingToSend
      BY <1>1, <3>1, <3>3 DEF TxInv, DescriptorIsReset
    <3> QED
      BY <3>2, <3>3
  <2>2. wire \in Seq(Transfer \X Nat)
    <3>1. Byte \subseteq Transfer \X Nat
      BY DEF Byte
    <3> QED
      BY <1>1, <3>1, SeqMonotonic DEF FaithInv, WireSoFar
  <2>3. /\ rx_data \in Seq(1..arrived) /\ Len(rx_data) <= RxLen
        /\ rx_ringbuf \in Seq(1..arrived) /\ Len(rx_ringbuf) <= RingLen
        /\ delivered \in Seq(1..arrived) /\ lost \subseteq 1..arrived
    BY <1>1 DEF RxInv, Stream, RoomInBuffers
  <2> QED
    BY <1>1, <2>1, <2>2, <2>3 DEF SerialType, Flags, TypeOK
<1> QED
  BY <1>1, SerialInvariant, TransferInvariant, PTL
===============================================================================
