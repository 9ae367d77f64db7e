--------------------------- MODULE AppCbQueueProofs ---------------------------
(***************************************************************************)
(* The request channel of the OSIF for every number of callers, requests   *)
(* and every length of the queues: type correctness, no lost wake-up, no   *)
(* sleep on a filled queue, one call of zb_app_cb_process at a time, the   *)
(* refinement of RequestChannel, and that a cancel takes effect.           *)
(***************************************************************************)
EXTENDS AppCbQueue, SequenceLemmas

-------------------------------------------------------------------------------
(* Type correctness *)

(* What a request does to ZBOSS when it does not overflow keeps the types. *)
LEMMA ZbossTakesType ==
  ASSUME TypeOK, NEW r \in Request, ~Overflows(r), ZbossTakes(r)
  PROVE  /\ zb_cbq' \in Seq(Request \cup {Process}) /\ Len(zb_cbq') <= CbLen
         /\ zb_table' \in [Tables -> SUBSET Request]
<1> USE RequestAssumption, LengthAssumption
<1>1. zb_cbq' \in Seq(Request \cup {Process}) /\ Len(zb_cbq') <= CbLen
  <2>1. CASE Kind[r] = "callback"
    <3>1. Len(zb_cbq) < CbLen /\ zb_cbq' = Append(zb_cbq, r)
      BY <2>1 DEF Overflows, ZbossTakes, TypeOK
    <3>2. QED
      BY <3>1 DEF TypeOK
  <2>2. CASE Kind[r] # "callback"
    BY <2>2 DEF ZbossTakes, TypeOK
  <2>3. QED
    BY <2>1, <2>2
<1>2. zb_table' \in [Tables -> SUBSET Request]
  BY DEF ZbossTakes, TypeOK, Tables
<1>3. QED
  BY <1>1, <1>2

(* The head that was forwarded and not removed yet is still there, also    *)
(* when zigbee_deinit aborted the thread in between: only its purge        *)
(* empties the queue, and no ZBOSS thread runs meanwhile.                  *)
ThreadsOK ==
  /\ zboss_pc = "get" \/ torn => msgq # <<>>
  /\ torn => deinit_pc \in {"cancel", "purge"}
  /\ deinit_pc # "idle" => zboss_pc = "off"

TypeInv == TypeOK /\ ThreadsOK

LEMMA TypeInvariant == Spec => []TypeInv
<1> USE RequestAssumption, CallerAssumption, LengthAssumption
<1>1. Init => TypeInv
  <2> SUFFICES ASSUME Init
               PROVE  TypeInv
    OBVIOUS
  <2>1. <<>> \in Seq(Request) /\ <<>> \in Seq(Request \cup {Process}) /\ Len(<<>>) = 0
    OBVIOUS
  <2>2. zb_table \in [Tables -> SUBSET Request]
    BY DEF Init
  <2>3. 0 \in 0..MaxDeinit /\ 0 <= QueueLen /\ 0 <= CbLen
    OBVIOUS
  <2>4. TypeOK
    BY <2>1, <2>2, <2>3 DEF Init, TypeOK
  <2>5. ThreadsOK
    BY DEF Init, ThreadsOK
  <2>6. QED
    BY <2>4, <2>5 DEF TypeInv
<1>2. TypeInv /\ [Next]_vars => TypeInv'
  <2> SUFFICES ASSUME TypeInv, [Next]_vars
               PROVE  TypeInv'
    OBVIOUS
  <2> USE DEF TypeInv, TypeOK, ThreadsOK, zboss_vars, deinit_vars, history, requests
  <2>1. ASSUME NEW c \in Caller \cup {Zboss}, NEW r \in Request, PutRequest(c, r)
        PROVE  TypeInv'
    <3>1. msgq' \in Seq(Request) /\ Len(msgq') <= QueueLen /\ msgq' # <<>>
      <4>1. msgq' = Append(msgq, r) /\ Len(msgq) < QueueLen
        BY <2>1 DEF PutRequest, k_msgq_put
      <4>0. msgq \in Seq(Request) /\ r \in Request
        OBVIOUS
      <4>2. msgq' \in Seq(Request) /\ Len(msgq') = Len(msgq) + 1 /\ msgq' # <<>>
        BY ONLY <4>0, <4>1, AppendProperties
      <4>3. Len(msgq) \in Nat /\ QueueLen \in Nat
        BY LenProperties, LengthAssumption
      <4>4. QED
        BY ONLY <4>1, <4>2, <4>3
    <3>2. accepted' \in Seq(Request)
      BY <2>1, AppendProperties DEF PutRequest, k_msgq_put
    <3>3. QED
      BY <2>1, <3>1, <3>2 DEF PutRequest, k_msgq_put
  <2>2. ASSUME NEW c \in Caller \cup {Zboss}, SubmitWork(c)
        PROVE  TypeInv'
    BY <2>2 DEF SubmitWork, k_work_submit
  <2>3. ASSUME NEW r \in Request, DirectRequest(r)
        PROVE  TypeInv'
    BY <2>3, ZbossTakesType DEF DirectRequest
  <2>4. ASSUME NEW r \in Request, Fire(r)
        PROVE  TypeInv'
    BY <2>4 DEF Fire
  <2>5. CASE WorkStart
    BY <2>5 DEF WorkStart
  <2>6. CASE WorkPeek
    BY <2>6 DEF WorkPeek
  <2>7. CASE WorkFlag
    BY <2>7 DEF WorkFlag, AlreadyScheduled
  <2>8. CASE WorkSchedule
    <3>1. CASE Len(zb_cbq) < CbLen
      <4>1. zb_cbq' = Append(zb_cbq, Process)
        BY <2>8, <3>1 DEF WorkSchedule
      <4>2. zb_cbq' \in Seq(Request \cup {Process}) /\ Len(zb_cbq') <= CbLen
        BY <4>1, <3>1
      <4>3. QED
        BY <2>8, <3>1, <4>2 DEF WorkSchedule
    <3>2. CASE ~(Len(zb_cbq) < CbLen)
      BY <2>8, <3>2 DEF WorkSchedule
    <3>3. QED
      BY <3>1, <3>2
  <2>9. CASE WorkSleep
    BY <2>9 DEF WorkSleep
  <2>10. CASE WorkNotify
    BY <2>10 DEF WorkNotify, zigbee_event_notify
  <2>11. CASE ProcessEnter
    BY <2>11 DEF ProcessEnter, MarkNonScheduled
  <2>12. CASE ProcessForward
    <3>1. Head(msgq) \in Request
      BY <2>12 DEF ProcessForward
    <3>2. QED
      BY <2>12, <3>1, ZbossTakesType DEF ProcessForward
  <2>13. CASE ProcessOverflow
    BY <2>13 DEF ProcessOverflow
  <2>14. CASE ProcessGet
    BY <2>14 DEF ProcessGet, k_msgq_get
  <2>15. CASE ProcessDone
    BY <2>15 DEF ProcessDone
  <2>16. CASE ProcessResubmit
    BY <2>16 DEF ProcessResubmit, k_work_submit
  <2>17. CASE RunCallback
    BY <2>17 DEF RunCallback
  <2>18. CASE Sleep
    BY <2>18 DEF Sleep
  <2>19. CASE PollReturns
    BY <2>19 DEF PollReturns
  <2>20. CASE PollCheck
    BY <2>20 DEF PollCheck
  <2>21. CASE PollReset
    BY <2>21 DEF PollReset
  <2>22. CASE EnableCreate
    BY <2>22 DEF EnableCreate
  <2>23. CASE EnableStore
    BY <2>23 DEF EnableStore
  <2>24. CASE DeinitAbort
    <3>1. deinits' \in 0..MaxDeinit
      BY <2>24 DEF DeinitAbort
    <3>2. QED
      BY <2>24, <3>1 DEF DeinitAbort
  <2>25. CASE DeinitCancel
    BY <2>25 DEF DeinitCancel
  <2>26. CASE DeinitPurge
    <3>1. msgq' = <<>> /\ msgq' \in Seq(Request) /\ Len(msgq') = 0 /\ 0 <= QueueLen
      BY <2>26 DEF DeinitPurge
    <3>2. QED
      BY <2>26, <3>1 DEF DeinitPurge
  <2>30. CASE DeinitReset
    BY <2>30 DEF DeinitReset
  <2>27. CASE DeinitClear
    BY <2>27 DEF DeinitClear
  <2>28. CASE UNCHANGED vars
    BY <2>28 DEF vars
  <2>29. QED
    BY <2>1, <2>2, <2>3, <2>4, <2>5, <2>6, <2>7, <2>8, <2>9, <2>10, <2>11, <2>12, <2>13, <2>14, <2>15, <2>16, <2>17, <2>18, <2>19, <2>20, <2>21, <2>22, <2>23, <2>24, <2>25, <2>26, <2>27, <2>30, <2>28
    DEF Next, WorkStep, ProcessStep, DeinitStep
<1>3. QED
  BY <1>1, <1>2, PTL DEF Spec

(* Every variable keeps its type: in particular neither the message queue  *)
(* nor the callback queue of ZBOSS ever exceeds its length.                *)
THEOREM TypeCorrect == Spec => []TypeOK
<1>1. TypeInv => TypeOK
  BY DEF TypeInv
<1>2. QED
  BY <1>1, TypeInvariant, PTL

-------------------------------------------------------------------------------
(* No lost wake-up *)

(* NoLostWakeup alone is not inductive: a work item that finds the flag    *)
(* set gives up, which is safe only because FlagIsHonest says that a call  *)
(* of zb_app_cb_process is still to come.                                  *)
WakeInv == FlagIsHonest /\ NoLostWakeup /\ NoSleepOnWork

(* A scheduled zb_app_cb_process stays in the queue until it is run.       *)
LEMMA ProcessKept ==
  ASSUME TypeOK, NEW r \in Request, ~Overflows(r), ZbossTakes(r), ProcessQueued
  PROVE  ProcessQueued'
<1>1. CASE Kind[r] = "callback"
  <2>1. zb_cbq' = Append(zb_cbq, r)
    BY <1>1 DEF ZbossTakes
  <2>2. zb_cbq \in Seq(Request \cup {Process}) /\ r \in Request \cup {Process}
    BY DEF TypeOK
  <2>3. Range(zb_cbq') = Range(zb_cbq) \cup {r}
    BY ONLY <2>1, <2>2, RangeAppend
  <2>4. QED
    BY <2>3 DEF ProcessQueued
<1>2. CASE Kind[r] # "callback"
  BY <1>2 DEF ZbossTakes, ProcessQueued
<1>3. QED
  BY <1>1, <1>2

LEMMA WakeInvariant == Spec => []WakeInv
<1>1. Init => WakeInv
  BY DEF Init, WakeInv, FlagIsHonest, NoLostWakeup, NoSleepOnWork
<1>2. TypeInv /\ WakeInv /\ [Next]_vars => WakeInv'
  <2> SUFFICES ASSUME TypeInv, WakeInv, [Next]_vars
               PROVE  WakeInv'
    OBVIOUS
  <2> USE DEF WakeInv, FlagIsHonest, NoLostWakeup, SomeoneComes, NoSleepOnWork
  <2>1. ASSUME NEW c \in Caller \cup {Zboss}, NEW r \in Request, PutRequest(c, r)
        PROVE  WakeInv'
    BY <2>1 DEF PutRequest, k_msgq_put, zboss_vars, deinit_vars, history, requests, ProcessQueued
  <2>2. ASSUME NEW c \in Caller \cup {Zboss}, SubmitWork(c)
        PROVE  WakeInv'
    BY <2>2 DEF SubmitWork, k_work_submit, zboss_vars, deinit_vars, history, requests, ProcessQueued
  <2>3. ASSUME NEW r \in Request, DirectRequest(r)
        PROVE  WakeInv'
    <3>1. ProcessQueued => ProcessQueued'
      BY <2>3, ProcessKept DEF DirectRequest, TypeInv
    <3>2. QED
      BY <2>3, <3>1 DEF DirectRequest, deinit_vars, history, requests
  <2>4. ASSUME NEW r \in Request, Fire(r)
        PROVE  WakeInv'
    BY <2>4 DEF Fire, deinit_vars, history, requests, ProcessQueued
  <2>5. CASE WorkStart
    BY <2>5 DEF WorkStart, zboss_vars, deinit_vars, history, requests, ProcessQueued, TypeInv, ThreadsOK
  <2>6. CASE WorkPeek
    BY <2>6 DEF WorkPeek, zboss_vars, deinit_vars, history, requests, ProcessQueued, TypeInv, ThreadsOK
  <2>7. CASE WorkFlag
    <3>1. /\ process_scheduled' = TRUE /\ work_pc = "flag"
          /\ work_pc' = IF process_scheduled THEN "idle" ELSE "schedule"
          /\ UNCHANGED <<msgq, work_pending, zboss_pc, zigbee_sig, zb_cbq,
                         submitting, deinit_pc>>
      BY <2>7 DEF WorkFlag, AlreadyScheduled, zboss_vars, deinit_vars
    <3>2. UNCHANGED ProcessQueued
      BY <3>1 DEF ProcessQueued
    <3>3. CASE ~process_scheduled
      <4>1. work_pc' = "schedule"
        BY <3>1, <3>3
      <4> QED
        BY <3>1, <4>1
    <3>4. CASE process_scheduled /\ deinit_pc = "idle"
      <4>1. ProcessQueued' \/ zboss_pc' = "enter"
        BY <2>7, <3>2, <3>4, <3>1 DEF WorkFlag
      <4> QED
        BY <2>7, <3>1, <3>4, <4>1 DEF WorkFlag
    <3>5. CASE process_scheduled /\ deinit_pc # "idle"
      <4>1. /\ deinit_pc \in {"cancel", "purge"} \/ deinit_pc \in {"reset", "clear"}
            /\ zboss_pc = "off"
        BY <3>5 DEF TypeInv, TypeOK, ThreadsOK
      <4>2. deinit_pc \in {"reset", "clear"} => ProcessQueued' \/ turned_away'
        BY <2>7, <3>2, <3>5 DEF WorkFlag, AlreadyScheduled
      <4> QED
        BY <3>1, <4>1, <4>2
    <3> QED
      BY <3>3, <3>4, <3>5
  <2>8. CASE WorkSchedule
    <3>1. CASE Len(zb_cbq) < CbLen
      <4>1. zb_cbq' = Append(zb_cbq, Process)
        BY <2>8, <3>1 DEF WorkSchedule
      <4>2. ProcessQueued'
        <5>1. zb_cbq \in Seq(Request \cup {Process}) /\ Process \in Request \cup {Process}
          BY DEF TypeInv, TypeOK
        <5>2. Range(zb_cbq') = Range(zb_cbq) \cup {Process}
          BY ONLY <4>1, <5>1, RangeAppend
        <5> QED
          BY <5>2 DEF ProcessQueued
      <4>3. QED
        BY <2>8, <3>1, <4>2 DEF WorkSchedule, deinit_vars, history, requests
    <3>2. CASE ~(Len(zb_cbq) < CbLen)
      BY <2>8, <3>2 DEF WorkSchedule, deinit_vars, history, requests, ProcessQueued
    <3>3. QED
      BY <3>1, <3>2
  <2>9. CASE WorkSleep
    BY <2>9 DEF WorkSleep, zboss_vars, deinit_vars, history, requests, ProcessQueued, TypeInv, ThreadsOK
  <2>10. CASE WorkNotify
    BY <2>10 DEF WorkNotify, zigbee_event_notify, zboss_vars, deinit_vars, history, requests, ProcessQueued, TypeInv, ThreadsOK
  <2>11. CASE ProcessEnter
    BY <2>11 DEF ProcessEnter, MarkNonScheduled, zboss_vars, deinit_vars, history, requests, ProcessQueued, TypeInv, ThreadsOK
  <2>12. CASE ProcessForward
    <3>1. Head(msgq) \in Request
      BY <2>12, HeadTailProperties DEF ProcessForward, TypeInv, TypeOK
    <3>2. ProcessQueued => ProcessQueued'
      BY <2>12, <3>1, ProcessKept DEF ProcessForward, TypeInv
    <3>3. QED
      BY <2>12, <3>2 DEF ProcessForward, deinit_vars, history, requests
  <2>13. CASE ProcessOverflow
    BY <2>13 DEF ProcessOverflow, zboss_vars, deinit_vars, history, requests, ProcessQueued, TypeInv, ThreadsOK
  <2>14. CASE ProcessGet
    BY <2>14 DEF ProcessGet, k_msgq_get, zboss_vars, deinit_vars, history, requests, ProcessQueued, TypeInv, ThreadsOK
  <2>15. CASE ProcessDone
    BY <2>15 DEF ProcessDone, zboss_vars, deinit_vars, history, requests, ProcessQueued, TypeInv, ThreadsOK
  <2>16. CASE ProcessResubmit
    BY <2>16 DEF ProcessResubmit, k_work_submit, zboss_vars, deinit_vars, history, requests, ProcessQueued, TypeInv, ThreadsOK
  <2>17. CASE RunCallback
    <3>1. zb_cbq # <<>> /\ zb_cbq' = Tail(zb_cbq)
      BY <2>17 DEF RunCallback
    <3>2. Range(zb_cbq) = {Head(zb_cbq)} \cup Range(zb_cbq')
      BY <3>1, RangeTail DEF TypeInv, TypeOK
    <3>3. ProcessQueued => ProcessQueued' \/ zboss_pc' = "enter"
      BY <2>17, <3>2 DEF RunCallback, ProcessQueued
    <3>4. QED
      BY <2>17, <3>3 DEF RunCallback, deinit_vars, history, requests
  <2>18. CASE Sleep
    BY <2>18 DEF Sleep, zboss_vars, deinit_vars, history, requests, ProcessQueued, TypeInv, ThreadsOK
  <2>19. CASE PollReturns
    BY <2>19 DEF PollReturns, zboss_vars, deinit_vars, history, requests, ProcessQueued, TypeInv, ThreadsOK
  <2>20. CASE PollCheck
    BY <2>20 DEF PollCheck, zboss_vars, deinit_vars, history, requests, ProcessQueued, TypeInv, ThreadsOK
  <2>21. CASE PollReset
    BY <2>21 DEF PollReset, zboss_vars, deinit_vars, history, requests, ProcessQueued, TypeInv, ThreadsOK
  <2>22. CASE EnableCreate
    BY <2>22 DEF EnableCreate, zboss_vars, deinit_vars, history, requests, ProcessQueued, TypeInv, ThreadsOK
  <2>23. CASE EnableStore
    BY <2>23 DEF EnableStore, zboss_vars, deinit_vars, history, requests, ProcessQueued, TypeInv, ThreadsOK
  <2>24. CASE DeinitAbort
    BY <2>24 DEF DeinitAbort, zboss_vars, deinit_vars, history, requests, ProcessQueued, TypeInv, ThreadsOK
  <2>25. CASE DeinitCancel
    BY <2>25 DEF DeinitCancel, zboss_vars, deinit_vars, history, requests, ProcessQueued, TypeInv, ThreadsOK
  <2>26. CASE DeinitPurge
    BY <2>26 DEF DeinitPurge, zboss_vars, deinit_vars, history, requests, ProcessQueued, TypeInv, ThreadsOK
  <2>30. CASE DeinitReset
    BY <2>30 DEF DeinitReset, zboss_vars, deinit_vars, history, requests, ProcessQueued, TypeInv, ThreadsOK
  <2>27. CASE DeinitClear
    BY <2>27 DEF DeinitClear, zboss_vars, deinit_vars, history, requests, ProcessQueued, TypeInv, ThreadsOK
  <2>28. CASE UNCHANGED vars
    BY <2>28 DEF vars, zboss_vars, deinit_vars, history, requests, ProcessQueued
  <2>29. QED
    BY <2>1, <2>2, <2>3, <2>4, <2>5, <2>6, <2>7, <2>8, <2>9, <2>10, <2>11, <2>12, <2>13, <2>14, <2>15, <2>16, <2>17, <2>18, <2>19, <2>20, <2>21, <2>22, <2>23, <2>24, <2>25, <2>26, <2>27, <2>30, <2>28
    DEF Next, WorkStep, ProcessStep, DeinitStep
<1>3. QED
  BY <1>1, <1>2, TypeInvariant, PTL DEF Spec

(* While the flag is set a call of zb_app_cb_process is still to come.     *)
THEOREM FlagHonest == Spec => []FlagIsHonest
<1>1. WakeInv => FlagIsHonest
  BY DEF WakeInv
<1>2. QED
  BY <1>1, WakeInvariant, PTL

(* While requests wait, a caller, the work queue or ZBOSS is about to see  *)
(* them: no interleaving of the three, and no overflow, strands a request. *)
THEOREM NoWakeupLost == Spec => []NoLostWakeup
<1>1. WakeInv => NoLostWakeup
  BY DEF WakeInv
<1>2. QED
  BY <1>1, WakeInvariant, PTL

(* The ZBOSS thread never sleeps on a filled callback queue unless the     *)
(* signal that ends the sleep is raised or about to be raised.             *)
THEOREM ZbossIsWoken == Spec => []NoSleepOnWork
<1>1. WakeInv => NoSleepOnWork
  BY DEF WakeInv
<1>2. QED
  BY <1>1, WakeInvariant, PTL

-------------------------------------------------------------------------------
(* One call of zb_app_cb_process *)

Queued == Count(zb_cbq, {Process})

(* While zigbee_deinit runs, the call it allows for is not used up yet: it *)
(* will be when the flag is cleared.                                       *)
CallInv ==
  Queued + One(work_pc \in {"schedule", "sleep"}) + One(zboss_pc = "enter")
    + One(deinit_pc # "idle") <= deinits + One(process_scheduled)

LEMMA CallsAreOne == TypeOK /\ CallInv => OneProcessCall
<1> SUFFICES ASSUME TypeOK, CallInv PROVE OneProcessCall
  OBVIOUS
<1>1. Queued \in Nat /\ deinits \in Nat
  BY CountType, LengthAssumption DEF Queued, TypeOK
<1>2. {i \in DOMAIN zb_cbq : zb_cbq[i] = Process} = Where(zb_cbq, {Process})
  BY DEF Where
<1>3. ProcessCalls = Queued + One(work_pc \in {"schedule", "sleep"}) + One(zboss_pc = "enter")
  BY <1>2 DEF ProcessCalls, Queued, Count
<1> QED
  BY <1>1, <1>3 DEF CallInv, OneProcessCall, One

(* A step that neither schedules nor runs zb_app_cb_process.               *)
LEMMA CallsKept ==
  ASSUME CallInv, Queued \in Nat, deinits \in Nat, Queued' = Queued,
         work_pc' \in {"schedule", "sleep"} => work_pc \in {"schedule", "sleep"},
         zboss_pc' = "enter" => zboss_pc = "enter",
         UNCHANGED <<process_scheduled, deinit_vars>>
  PROVE  CallInv'
<1>1. deinits' = deinits /\ deinit_pc' = deinit_pc /\ process_scheduled' = process_scheduled
  BY DEF deinit_vars
<1> QED
  BY <1>1 DEF CallInv, One

(* A request is not a call of zb_app_cb_process.                           *)
LEMMA QueuedKept ==
  ASSUME TypeOK, NEW r \in Request, ZbossTakes(r)
  PROVE  Queued' = Queued
<1>1. CASE Kind[r] = "callback"
  <2>1. zb_cbq' = Append(zb_cbq, r)
    BY <1>1 DEF ZbossTakes
  <2>2. zb_cbq \in Seq(Request \cup {Process}) /\ r \in Request \cup {Process}
        /\ r \notin {Process}
    BY RequestAssumption DEF TypeOK
  <2>3. Count(zb_cbq, {Process}) \in Nat
    BY <2>2, CountType
  <2>4. Count(zb_cbq', {Process}) = Count(zb_cbq, {Process}) + (IF r \in {Process} THEN 1 ELSE 0)
    BY <2>1, <2>2, CountAppend
  <2> QED
    BY <2>2, <2>3, <2>4 DEF Queued
<1>2. CASE Kind[r] # "callback"
  BY <1>2 DEF ZbossTakes, Queued
<1> QED
  BY <1>1, <1>2

LEMMA CallInvariant == Spec => []CallInv
<1>1. Init => CallInv
  <2> SUFFICES ASSUME Init PROVE CallInv
    OBVIOUS
  <2>1. Queued = 0
    BY CountEmpty DEF Init, Queued
  <2> QED
    BY <2>1 DEF Init, CallInv, One
<1>2. TypeInv /\ CallInv /\ [Next]_vars => CallInv'
  <2> SUFFICES ASSUME TypeInv, CallInv, [Next]_vars
               PROVE  CallInv'
    OBVIOUS
  <2>1. TypeOK
    BY DEF TypeInv
  <2>2. Queued \in Nat /\ deinits \in Nat
    BY <2>1, CountType, LengthAssumption DEF Queued, TypeOK
  <2>3. ASSUME NEW c \in Caller \cup {Zboss}, NEW r \in Request, PutRequest(c, r)
        PROVE  CallInv'
    BY <2>2, <2>3, CallsKept DEF PutRequest, zboss_vars, Queued
  <2>4. ASSUME NEW c \in Caller \cup {Zboss}, SubmitWork(c)
        PROVE  CallInv'
    BY <2>2, <2>4, CallsKept DEF SubmitWork, zboss_vars, Queued
  <2>5. ASSUME NEW r \in Request, DirectRequest(r)
        PROVE  CallInv'
    <3>1. Queued' = Queued
      BY <2>1, <2>5, QueuedKept DEF DirectRequest
    <3> QED
      BY <2>2, <2>5, <3>1, CallsKept DEF DirectRequest
  <2>6. ASSUME NEW r \in Request, Fire(r)
        PROVE  CallInv'
    BY <2>2, <2>6, CallsKept DEF Fire, Queued
  <2>7. CASE WorkFlag
    <3>1. /\ process_scheduled' = TRUE /\ work_pc = "flag"
          /\ work_pc' = IF process_scheduled THEN "idle" ELSE "schedule"
          /\ UNCHANGED <<zboss_pc, deinit_pc, deinits, zb_cbq>>
      BY <2>7 DEF WorkFlag, AlreadyScheduled, zboss_vars, deinit_vars
    <3>2. Queued' = Queued
      BY <3>1 DEF Queued
    <3> QED
      BY <2>2, <3>1, <3>2 DEF CallInv, One
  <2>8. CASE WorkSchedule
    <3>1. CASE Len(zb_cbq) < CbLen
      <4>1. /\ zb_cbq' = Append(zb_cbq, Process) /\ work_pc = "schedule" /\ work_pc' = "notify"
            /\ UNCHANGED <<zboss_pc, deinit_pc, deinits, process_scheduled>>
        BY <2>8, <3>1 DEF WorkSchedule, deinit_vars
      <4>2. Count(zb_cbq', {Process}) = Count(zb_cbq, {Process}) + 1
        <5>1. zb_cbq \in Seq(Request \cup {Process}) /\ Process \in Request \cup {Process}
          BY <2>1 DEF TypeOK
        <5>2. Count(zb_cbq', {Process})
                = Count(zb_cbq, {Process}) + (IF Process \in {Process} THEN 1 ELSE 0)
          BY ONLY <4>1, <5>1, CountAppend
        <5> QED
          BY <5>2
      <4>3. Queued' = Queued + 1
        BY <4>2 DEF Queued
      <4> QED
        BY <2>2, <4>1, <4>3 DEF CallInv, One
    <3>2. CASE ~(Len(zb_cbq) < CbLen)
      BY <2>2, <2>8, <3>2, CallsKept DEF WorkSchedule, Queued
    <3> QED
      BY <3>1, <3>2
  <2>9. CASE WorkStart \/ WorkPeek \/ WorkSleep \/ WorkNotify
    BY <2>2, <2>9, CallsKept
    DEF WorkStart, WorkPeek, WorkSleep, WorkNotify, zboss_vars, Queued
  <2>10. CASE ProcessEnter
    <3>1. /\ zboss_pc = "enter" /\ zboss_pc' = "forward" /\ process_scheduled' = FALSE
          /\ UNCHANGED <<work_pc, deinit_pc, deinits, zb_cbq>>
      BY <2>10 DEF ProcessEnter, MarkNonScheduled, zboss_vars, deinit_vars
    <3>2. Queued' = Queued
      BY <3>1 DEF Queued
    <3> QED
      BY <2>2, <3>1, <3>2 DEF CallInv, One
  <2>11. CASE ProcessForward
    <3>1. Head(msgq) \in Request
      BY <2>1, <2>11, HeadTailProperties DEF ProcessForward, TypeOK
    <3>2. Queued' = Queued
      BY <2>1, <2>11, <3>1, QueuedKept DEF ProcessForward
    <3> QED
      BY <2>2, <2>11, <3>2, CallsKept DEF ProcessForward
  <2>12. CASE ProcessOverflow \/ ProcessGet \/ ProcessDone \/ ProcessResubmit
    BY <2>2, <2>12, CallsKept
    DEF ProcessOverflow, ProcessGet, ProcessDone, ProcessResubmit, zboss_vars, Queued
  <2>13. CASE RunCallback
    <3>1. /\ zb_cbq # <<>> /\ zb_cbq' = Tail(zb_cbq) /\ zboss_pc = "loop"
          /\ zboss_pc' = IF Head(zb_cbq) = Process THEN "enter" ELSE "loop"
          /\ UNCHANGED <<work_pc, deinit_pc, deinits, process_scheduled>>
      BY <2>13 DEF RunCallback, deinit_vars, history, requests
    <3>2. /\ Count(zb_cbq, {Process})
               = Count(zb_cbq', {Process}) + (IF Head(zb_cbq) = Process THEN 1 ELSE 0)
          /\ Count(zb_cbq', {Process}) \in Nat
      <4>1. zb_cbq \in Seq(Request \cup {Process}) /\ zb_cbq # <<>> /\ zb_cbq' = Tail(zb_cbq)
        BY <2>1, <3>1 DEF TypeOK
      <4>2. Tail(zb_cbq) \in Seq(Request \cup {Process})
        BY ONLY <4>1, HeadTailProperties
      <4>3. Count(zb_cbq, {Process})
              = Count(Tail(zb_cbq), {Process}) + (IF Head(zb_cbq) \in {Process} THEN 1 ELSE 0)
        BY ONLY <4>1, CountTail
      <4>4. Count(Tail(zb_cbq), {Process}) \in Nat
        BY ONLY <4>2, CountType
      <4> QED
        BY ONLY <4>1, <4>3, <4>4
    <3>3. CASE Head(zb_cbq) = Process
      <4>1. Queued' = Queued - 1
        BY <2>2, <3>2, <3>3 DEF Queued
      <4>2. zboss_pc' = "enter" /\ zboss_pc = "loop"
        BY <3>1, <3>3
      <4>3. UNCHANGED <<work_pc, deinit_pc, deinits, process_scheduled>>
        BY <3>1
      <4> QED
        BY <2>2, <4>1, <4>2, <4>3 DEF CallInv, One
    <3>4. CASE Head(zb_cbq) # Process
      <4>1. Queued' = Queued
        BY <3>2, <3>4 DEF Queued
      <4>2. zboss_pc' # "enter"
        BY <3>1, <3>4
      <4> QED
        BY <2>2, <2>13, <4>1, <4>2, CallsKept DEF RunCallback
    <3> QED
      BY <3>3, <3>4
  <2>14. CASE Sleep \/ PollReturns \/ PollCheck \/ PollReset \/ EnableCreate \/ EnableStore
    BY <2>2, <2>14, CallsKept
    DEF Sleep, PollReturns, PollCheck, PollReset, EnableCreate, EnableStore, zboss_vars, Queued
  <2>15. CASE DeinitAbort
    <3>1. /\ deinit_pc = "idle" /\ deinit_pc' = "cancel" /\ deinits' = deinits + 1
          /\ zboss_pc' = "off"
          /\ UNCHANGED <<work_pc, process_scheduled, zb_cbq>>
      BY <2>15 DEF DeinitAbort, zboss_vars
    <3>2. Queued' = Queued
      BY <3>1 DEF Queued
    <3> QED
      BY <2>2, <3>1, <3>2 DEF CallInv, One
  <2>16. CASE DeinitCancel \/ DeinitPurge \/ DeinitReset
    <3>1. /\ deinit_pc # "idle" /\ deinit_pc' # "idle"
          /\ UNCHANGED <<work_pc, zboss_pc, deinits, process_scheduled, zb_cbq>>
      BY <2>16 DEF DeinitCancel, DeinitPurge, DeinitReset, zboss_vars
    <3>2. Queued' = Queued
      BY <3>1 DEF Queued
    <3> QED
      BY <2>2, <3>1, <3>2 DEF CallInv, One
  <2>17. CASE DeinitClear
    <3>1. /\ deinit_pc = "clear" /\ deinit_pc' = "idle" /\ process_scheduled' = FALSE
          /\ UNCHANGED <<work_pc, zboss_pc, deinits, zb_cbq>>
      BY <2>17 DEF DeinitClear, zboss_vars
    <3>2. Queued' = Queued
      BY <3>1 DEF Queued
    <3> QED
      BY <2>2, <3>1, <3>2 DEF CallInv, One
  <2>18. CASE UNCHANGED vars
    BY <2>2, <2>18, CallsKept DEF vars, zboss_vars, Queued
  <2> QED
    BY <2>3, <2>4, <2>5, <2>6, <2>7, <2>8, <2>9, <2>10, <2>11, <2>12, <2>13, <2>14, <2>15,
       <2>16, <2>17, <2>18
    DEF Next, WorkStep, ProcessStep, DeinitStep
<1> QED
  BY <1>1, <1>2, TypeInvariant, PTL DEF Spec

(* A call of zb_app_cb_process is scheduled at most once at a time, apart  *)
(* from one more for every zigbee_deinit that cleared the flag.            *)
THEOREM OneCallAtATime == Spec => []OneProcessCall
<1> QED
  BY CallInvariant, TypeCorrect, CallsAreOne, PTL

-------------------------------------------------------------------------------
(* The request channel *)

(* Five actions touch the requests on their way; all others leave alone    *)
(* what waits, what was accepted and handed, and the tables of ZBOSS.      *)
Quiet == UNCHANGED <<Pending, requests, zb_table>>

LEMMA StepOfRequests ==
  ASSUME TypeInv, [Next]_vars
  PROVE  \/ \E c \in Caller \cup {Zboss}, r \in Request : PutRequest(c, r)
         \/ \E r \in Request : DirectRequest(r) \/ Fire(r)
         \/ ProcessForward \/ DeinitPurge \/ Quiet
<1> USE DEF Quiet, Pending, zboss_vars, history
<1>1. ASSUME NEW c \in Caller \cup {Zboss}, SubmitWork(c)
      PROVE  Quiet
  BY <1>1 DEF SubmitWork, k_work_submit
<1>2. WorkStart \/ WorkPeek \/ WorkSleep => Quiet
  BY DEF WorkStart, WorkPeek, WorkSleep
<1>3. WorkFlag \/ WorkNotify => Quiet
  <2>1. WorkFlag => UNCHANGED <<msgq, zboss_pc, torn, requests, zb_table>>
    BY DEF WorkFlag
  <2>2. WorkNotify => UNCHANGED <<msgq, zboss_pc, torn, requests, zb_table>>
    BY DEF WorkNotify
  <2> QED
    BY <2>1, <2>2
<1>4. WorkSchedule => Quiet
  BY DEF WorkSchedule
<1>5. ProcessEnter \/ ProcessOverflow \/ ProcessDone => Quiet
  BY DEF ProcessEnter, MarkNonScheduled, ProcessOverflow, ProcessDone
<1>6. ProcessGet \/ ProcessResubmit => Quiet
  <2>1. zboss_pc \in {"get", "resubmit"} => ~torn
    BY DEF TypeInv, ThreadsOK
  <2>2. CASE ProcessGet
    BY <2>1, <2>2 DEF ProcessGet, k_msgq_get
  <2>3. CASE ProcessResubmit
    BY <2>1, <2>3 DEF ProcessResubmit
  <2> QED
    BY <2>2, <2>3
<1>7. RunCallback \/ Sleep \/ PollReturns \/ PollCheck \/ PollReset => Quiet
  BY DEF RunCallback, Sleep, PollReturns, PollCheck, PollReset
<1>8. EnableCreate \/ EnableStore => Quiet
  BY DEF EnableCreate, EnableStore
<1>9. DeinitAbort \/ DeinitCancel \/ DeinitReset \/ DeinitClear => Quiet
  <2>1. CASE DeinitAbort
    <3>1. /\ torn' = (zboss_pc = "get") /\ zboss_pc' = "off"
          /\ UNCHANGED <<msgq, requests, zb_table>>
      BY <2>1 DEF DeinitAbort
    <3>2. ~torn
      BY <2>1 DEF DeinitAbort, TypeInv, ThreadsOK
    <3> QED
      BY <3>1, <3>2
  <2>2. CASE DeinitCancel \/ DeinitReset \/ DeinitClear
    BY <2>2 DEF DeinitCancel, DeinitReset, DeinitClear
  <2> QED
    BY <2>1, <2>2
<1>10. UNCHANGED vars => Quiet
  BY DEF vars
<1> QED
  BY <1>1, <1>2, <1>3, <1>4, <1>5, <1>6, <1>7, <1>8, <1>9, <1>10
  DEF Next, WorkStep, ProcessStep, DeinitStep

(* What an accepted request does to the requests that wait.                *)
LEMMA PutWaits ==
  ASSUME TypeInv, NEW c, NEW r \in Request, PutRequest(c, r)
  PROVE  Pending' = Append(Pending, r) /\ Len(Pending) < QueueLen
<1>1. /\ msgq' = Append(msgq, r) /\ Len(msgq) < QueueLen /\ msgq \in Seq(Request)
      /\ zboss_pc' = zboss_pc /\ torn' = torn
  BY DEF PutRequest, k_msgq_put, TypeInv, TypeOK
<1>2. CASE zboss_pc = "get" \/ torn
  <2>1. msgq # <<>>
    BY <1>2 DEF TypeInv, ThreadsOK
  <2>2. Tail(msgq') = Append(Tail(msgq), r)
    BY <1>1, <2>1, HeadTailAppend
  <2>3. Len(Tail(msgq)) = Len(msgq) - 1 /\ Len(msgq) \in Nat /\ QueueLen \in Nat
    BY <1>1, <2>1, HeadTailProperties, LenProperties, LengthAssumption
  <2>4. Len(Tail(msgq)) < QueueLen
    BY <1>1, <2>3
  <2> QED
    BY <1>1, <1>2, <2>2, <2>4 DEF Pending
<1>3. CASE ~(zboss_pc = "get" \/ torn)
  BY <1>1, <1>3 DEF Pending
<1> QED
  BY <1>2, <1>3

(* Every accepted request reaches ZBOSS once and in the order of           *)
(* acceptance: each step is a step of the abstract channel or stutters.    *)
THEOREM RefinesChannel == Spec => HandedInOrder
<1>1. Init => Channel!Init
  BY DEF Init, Channel!Init, Pending
<1>2. TypeInv /\ [Next]_vars => [Channel!Next]_(Channel!vars)
  <2> SUFFICES ASSUME TypeInv, [Next]_vars
               PROVE  [Channel!Next]_(Channel!vars)
    OBVIOUS
  <2>1. ASSUME NEW c \in Caller \cup {Zboss}, NEW r \in Request, PutRequest(c, r)
        PROVE  Channel!Accept(r)
    BY <2>1, PutWaits DEF Channel!Accept, PutRequest
  <2>2. ASSUME NEW r \in Request, DirectRequest(r)
        PROVE  UNCHANGED Channel!vars
    BY <2>2 DEF DirectRequest, Channel!vars, Pending
  <2>3. ASSUME NEW r \in Request, Fire(r)
        PROVE  UNCHANGED Channel!vars
    BY <2>3 DEF Fire, history, requests, Channel!vars, Pending
  <2>4. ProcessForward => Channel!Hand
    BY DEF ProcessForward, Channel!Hand, Pending, TypeInv, ThreadsOK
  <2>5. DeinitPurge => Channel!Discard
    BY DEF DeinitPurge, requests, Channel!Discard, Pending, TypeInv, ThreadsOK
  <2>6. Quiet => UNCHANGED Channel!vars
    BY DEF Quiet, requests, Channel!vars
  <2> QED
    BY StepOfRequests, <2>1, <2>2, <2>3, <2>4, <2>5, <2>6 DEF Channel!Next
<1> QED
  BY <1>1, <1>2, TypeInvariant, PTL DEF Spec, HandedInOrder, Channel!Spec

-------------------------------------------------------------------------------
(* A cancel is not overtaken *)

(* What waits is the end of what was accepted; what comes before was       *)
(* handed over or discarded.                                               *)
Passed == Len(accepted) - Len(Pending)

AcceptedOnce == \A i, j \in DOMAIN accepted : accepted[i] = accepted[j] => i = j
PendingIsLast ==
  /\ Passed \in Nat
  /\ \A k \in 1..Len(Pending) : Pending[k] = accepted[Passed + k]
HandedHasPassed == \A r \in Range(handed) : \E i \in 1..Passed : r = accepted[i]
DirectIsApart == direct \cap Range(accepted) = {}
AlarmsAreKnown == zb_table["alarm"] \subseteq direct \cup Range(handed)

OrderInv ==
  /\ AcceptedOnce /\ PendingIsLast /\ HandedHasPassed /\ DirectIsApart /\ AlarmsAreKnown
  /\ CancelIsNotOvertaken

LEMMA PendingType == TypeInv => Pending \in Seq(Request)
<1> SUFFICES ASSUME TypeInv PROVE Pending \in Seq(Request)
  OBVIOUS
<1>1. msgq \in Seq(Request) /\ (zboss_pc = "get" \/ torn => msgq # <<>>)
  BY DEF TypeInv, TypeOK, ThreadsOK
<1> QED
  BY <1>1, HeadTailProperties DEF Pending

(* The lengths and domains the steps below reason with.                    *)
Lengths ==
  /\ Len(accepted) \in Nat /\ DOMAIN accepted = 1..Len(accepted)
  /\ Len(Pending) \in Nat /\ DOMAIN Pending = 1..Len(Pending)
  /\ accepted \in Seq(Request) /\ Pending \in Seq(Request) /\ handed \in Seq(Request)

LEMMA LengthsAre == TypeInv => Lengths
  BY PendingType, LenProperties DEF Lengths, TypeInv, TypeOK

LEMMA OrderPut ==
  ASSUME TypeInv, OrderInv, NEW c, NEW r \in Request, PutRequest(c, r)
  PROVE  OrderInv'
<1> USE DEF OrderInv
<1>1. Lengths
  BY LengthsAre
<1>2. /\ accepted' = Append(accepted, r) /\ r \notin Range(accepted) \cup direct
      /\ direct' = direct /\ handed' = handed /\ zb_table' = zb_table
  BY DEF PutRequest, Fresh, zboss_vars
<1>3. Pending' = Append(Pending, r)
  BY PutWaits
<1>4. /\ Len(accepted') = Len(accepted) + 1 /\ DOMAIN accepted' = 1..(Len(accepted) + 1)
      /\ \A i \in 1..Len(accepted) : accepted'[i] = accepted[i]
      /\ accepted'[Len(accepted) + 1] = r
      /\ Range(accepted') = Range(accepted) \cup {r}
  BY <1>1, <1>2, AppendProperties, LenProperties, RangeAppend DEF Lengths
<1>5. /\ Len(Pending') = Len(Pending) + 1
      /\ \A i \in 1..Len(Pending) : Pending'[i] = Pending[i]
      /\ Pending'[Len(Pending) + 1] = r
  BY <1>1, <1>3, AppendProperties DEF Lengths
<1>6. Passed' = Passed /\ Passed \in Nat /\ Passed + Len(Pending) = Len(accepted)
  BY <1>1, <1>4, <1>5 DEF Passed, Lengths, PendingIsLast
<1>7. \A i \in 1..Len(accepted) : accepted[i] # r
  BY <1>1, <1>2 DEF Lengths, Range
<1>8. AcceptedOnce'
  BY <1>1, <1>4, <1>7 DEF AcceptedOnce, Lengths
<1>9. PendingIsLast'
  <2>1. ASSUME NEW k \in 1..Len(Pending')
        PROVE  Pending'[k] = accepted'[Passed + k]
    <3>1. CASE k = Len(Pending) + 1
      BY <3>1, <1>4, <1>5, <1>6
    <3>2. CASE k # Len(Pending) + 1
      <4>1. k \in 1..Len(Pending) /\ Passed + k \in 1..Len(accepted)
        BY <2>1, <3>2, <1>1, <1>5, <1>6 DEF Lengths
      <4> QED
        BY <4>1, <1>4, <1>5 DEF PendingIsLast
    <3> QED
      BY <3>1, <3>2
  <2> QED
    BY <2>1, <1>6 DEF PendingIsLast
<1>10. HandedHasPassed'
  <2>1. \A i \in 1..Passed : accepted'[i] = accepted[i]
    BY <1>1, <1>4, <1>6 DEF Lengths
  <2> QED
    BY <2>1, <1>2, <1>6 DEF HandedHasPassed
<1>11. DirectIsApart' /\ AlarmsAreKnown'
  BY <1>2, <1>4 DEF DirectIsApart, AlarmsAreKnown
<1>12. CancelIsNotOvertaken'
  <2> SUFFICES ASSUME NEW i \in 1..(Len(accepted) + 1), NEW j \in 1..(Len(accepted) + 1),
                      i < j, Kind[accepted'[j]] = "cancel",
                      Target[accepted'[j]] = accepted'[i], accepted'[j] \in Range(handed)
               PROVE  accepted'[i] \notin zb_table["alarm"]
    BY <1>2, <1>4 DEF CancelIsNotOvertaken
  <2>1. PICK p \in 1..Passed : accepted'[j] = accepted[p]
    BY DEF HandedHasPassed
  <2>2. j # Len(accepted) + 1
    BY <2>1, <1>1, <1>4, <1>6, <1>7 DEF Lengths
  <2>3. i \in 1..Len(accepted) /\ j \in 1..Len(accepted)
    BY <2>2, <1>1 DEF Lengths
  <2> QED
    BY <2>3, <1>1, <1>4 DEF CancelIsNotOvertaken, Lengths
<1> QED
  BY <1>8, <1>9, <1>10, <1>11, <1>12

(* A request that ZBOSS takes for itself, not through the channel, or a    *)
(* fired alarm: of the alarms of accepted requests none is added.          *)
LEMMA OrderApart ==
  ASSUME TypeInv, OrderInv, UNCHANGED <<Pending, accepted, handed>>,
         NEW D, direct' = direct \cup D, D \cap Range(accepted) = {},
         zb_table'["alarm"] \subseteq zb_table["alarm"] \cup D
  PROVE  OrderInv'
<1> USE DEF OrderInv
<1>1. AcceptedOnce' /\ PendingIsLast' /\ HandedHasPassed'
  BY DEF AcceptedOnce, PendingIsLast, HandedHasPassed, Passed
<1>2. DirectIsApart' /\ AlarmsAreKnown'
  BY DEF DirectIsApart, AlarmsAreKnown
<1>3. \A i \in DOMAIN accepted : accepted[i] \notin D
  BY DEF Range
<1>4. CancelIsNotOvertaken'
  BY <1>3 DEF CancelIsNotOvertaken
<1> QED
  BY <1>1, <1>2, <1>4

(* The oldest waiting request is handed over: an alarm is set before any   *)
(* later cancel was handed, and a cancel removes what was set before.      *)
LEMMA OrderHand ==
  ASSUME TypeInv, OrderInv, ProcessForward
  PROVE  OrderInv'
<1> USE DEF OrderInv
<1> DEFINE r == Head(Pending)
<1>1. Lengths
  BY LengthsAre
<1>2. /\ Pending # <<>> /\ Pending' = Tail(Pending) /\ handed' = Append(handed, r)
      /\ ZbossTakes(r) /\ direct' = direct /\ accepted' = accepted
  BY DEF ProcessForward, Pending, TypeInv, ThreadsOK
<1>3. /\ r \in Request /\ r = Pending[1] /\ Len(Pending) \in Nat \ {0}
      /\ Len(Pending') = Len(Pending) - 1
      /\ \A k \in 1..(Len(Pending) - 1) : Pending'[k] = Pending[k + 1]
  BY <1>1, <1>2, HeadTailProperties, EmptySeq DEF Lengths
<1>4. Range(handed') = Range(handed) \cup {r}
  BY <1>1, <1>2, <1>3, RangeAppend DEF Lengths
<1>5. /\ Passed' = Passed + 1 /\ Passed \in Nat /\ Passed + Len(Pending) = Len(accepted)
      /\ r = accepted[Passed + 1] /\ Passed + 1 \in 1..Len(accepted)
  BY <1>1, <1>2, <1>3 DEF Passed, Lengths, PendingIsLast
<1>6. zb_table'["alarm"] = IF Kind[r] = "alarm" THEN zb_table["alarm"] \cup {r}
                           ELSE IF Kind[r] = "cancel" THEN zb_table["alarm"] \ {Target[r]}
                           ELSE zb_table["alarm"]
  BY <1>2 DEF ZbossTakes, Tables
<1> HIDE DEF r
<1>7. AcceptedOnce' /\ DirectIsApart'
  BY <1>2 DEF AcceptedOnce, DirectIsApart
<1>8. PendingIsLast'
  <2>1. ASSUME NEW k \in 1..Len(Pending')
        PROVE  Pending'[k] = accepted[Passed + 1 + k]
    <3>1. k + 1 \in 1..Len(Pending) /\ k \in 1..(Len(Pending) - 1)
      BY <2>1, <1>3
    <3>2. Pending[k + 1] = accepted[Passed + (k + 1)]
      BY <3>1 DEF PendingIsLast
    <3>3. Passed + (k + 1) = Passed + 1 + k
      BY <1>5, <3>1
    <3> QED
      BY <3>1, <3>2, <3>3, <1>3
  <2> QED
    BY <2>1, <1>2, <1>5 DEF PendingIsLast
<1>9. HandedHasPassed'
  <2>1. ASSUME NEW q \in Range(handed)
        PROVE  \E i \in 1..(Passed + 1) : q = accepted[i]
    BY <2>1, <1>5 DEF HandedHasPassed
  <2> QED
    BY <2>1, <1>2, <1>4, <1>5 DEF HandedHasPassed
<1>10. AlarmsAreKnown'
  BY <1>2, <1>4, <1>6 DEF AlarmsAreKnown
<1>11. CancelIsNotOvertaken'
  <2> SUFFICES ASSUME NEW i \in 1..Len(accepted), NEW j \in 1..Len(accepted),
                      i < j, Kind[accepted[j]] = "cancel",
                      Target[accepted[j]] = accepted[i],
                      accepted[j] \in Range(handed) \cup {r}
               PROVE  accepted[i] \notin zb_table'["alarm"]
    BY <1>1, <1>2, <1>4 DEF CancelIsNotOvertaken, Lengths
  <2>1. CASE accepted[j] = r
    BY <2>1, <1>6
  <2>2. CASE accepted[j] \in Range(handed) /\ accepted[j] # r
    <3>1. accepted[i] \notin zb_table["alarm"]
      BY <2>2, <1>1 DEF CancelIsNotOvertaken, Lengths
    <3>2. PICK p \in 1..Passed : accepted[j] = accepted[p]
      BY <2>2 DEF HandedHasPassed
    <3>3. p \in 1..Len(accepted) /\ p <= Passed
      BY <3>2, <1>1, <1>5 DEF Lengths
    <3>4. j <= Passed
      BY <3>2, <3>3, <1>1 DEF AcceptedOnce, Lengths
    <3>5. i # Passed + 1
      BY <3>4, <1>5
    <3>6. accepted[i] # r
      BY <3>5, <1>1, <1>5 DEF AcceptedOnce, Lengths
    <3> QED
      BY <3>1, <3>6, <1>6
  <2> QED
    BY <2>1, <2>2
<1> QED
  BY <1>7, <1>8, <1>9, <1>10, <1>11

(* zigbee_deinit discards what waits.                                      *)
LEMMA OrderDiscard ==
  ASSUME TypeInv, OrderInv, DeinitPurge
  PROVE  OrderInv'
<1> USE DEF OrderInv
<1>1. Lengths
  BY LengthsAre
<1>2. /\ UNCHANGED <<accepted, handed, direct, zb_table>>
      /\ Pending' = <<>> /\ Len(Pending') = 0
  BY DEF DeinitPurge, requests, zboss_vars, Pending, TypeInv, ThreadsOK
<1>3. Passed' = Len(accepted) /\ Passed \in 0..Len(accepted)
  BY <1>1, <1>2 DEF Passed, PendingIsLast, Lengths
<1>4. AcceptedOnce' /\ DirectIsApart' /\ AlarmsAreKnown' /\ CancelIsNotOvertaken'
  BY <1>2 DEF AcceptedOnce, DirectIsApart, AlarmsAreKnown, CancelIsNotOvertaken
<1>5. PendingIsLast'
  BY <1>1, <1>2, <1>3 DEF PendingIsLast, Lengths
<1>6. HandedHasPassed'
  BY <1>1, <1>2, <1>3 DEF HandedHasPassed, Lengths
<1> QED
  BY <1>4, <1>5, <1>6

LEMMA OrderInvariant == Spec => []OrderInv
<1>1. Init => OrderInv
  <2> SUFFICES ASSUME Init PROVE OrderInv
    OBVIOUS
  <2>1. accepted = <<>> /\ Pending = <<>> /\ handed = <<>> /\ zb_table["alarm"] = {} /\ direct = {}
    BY DEF Init, Pending, Tables
  <2>2. DOMAIN accepted = {} /\ Range(handed) = {} /\ Len(accepted) = 0 /\ Len(Pending) = 0
    BY <2>1 DEF Range
  <2> QED
    BY <2>1, <2>2
    DEF OrderInv, AcceptedOnce, PendingIsLast, HandedHasPassed, DirectIsApart, AlarmsAreKnown,
        CancelIsNotOvertaken, Passed
<1>2. TypeInv /\ OrderInv /\ [Next]_vars => OrderInv'
  <2> SUFFICES ASSUME TypeInv, OrderInv, [Next]_vars
               PROVE  OrderInv'
    OBVIOUS
  <2>1. ASSUME NEW c \in Caller \cup {Zboss}, NEW r \in Request, PutRequest(c, r)
        PROVE  OrderInv'
    BY <2>1, OrderPut
  <2>2. ASSUME NEW r \in Request, DirectRequest(r)
        PROVE  OrderInv'
    <3>1. zb_table'["alarm"] \subseteq zb_table["alarm"] \cup {r}
      BY <2>2 DEF DirectRequest, ZbossTakes, Tables
    <3>2. /\ UNCHANGED <<Pending, accepted, handed>>
          /\ direct' = direct \cup {r} /\ {r} \cap Range(accepted) = {}
      BY <2>2 DEF DirectRequest, Fresh, Pending
    <3> QED
      BY <3>1, <3>2, OrderApart
  <2>3. ASSUME NEW r \in Request, Fire(r)
        PROVE  OrderInv'
    <3>1. zb_table'["alarm"] \subseteq zb_table["alarm"] \cup {}
      BY <2>3 DEF Fire, Tables
    <3>2. UNCHANGED <<Pending, accepted, handed>> /\ direct' = direct \cup {}
      BY <2>3 DEF Fire, history, requests, Pending
    <3> QED
      BY <3>1, <3>2, OrderApart
  <2>4. CASE Quiet
    <3>1. UNCHANGED <<Pending, accepted, handed, zb_table>> /\ direct' = direct \cup {}
      BY <2>4 DEF Quiet, requests
    <3> QED
      BY <3>1, OrderApart
  <2> QED
    BY StepOfRequests, OrderHand, OrderDiscard, <2>1, <2>2, <2>3, <2>4
<1> QED
  BY <1>1, <1>2, TypeInvariant, PTL DEF Spec

(* Once a cancel was handed over, the alarm accepted before it is not set: *)
(* neither a retry after an overflow nor a purge reverses the two.         *)
THEOREM CancelTakesEffect == Spec => []CancelIsNotOvertaken
<1>1. OrderInv => CancelIsNotOvertaken
  BY DEF OrderInv
<1> QED
  BY <1>1, OrderInvariant, PTL

===============================================================================
