------------------------------ MODULE AppCbQueue ------------------------------
(***************************************************************************)
(* The thread-safe scheduler wrappers of the OSIF                          *)
(* (subsys/osif/zb_nrf_platform.c).  Any thread or ISR may ask ZBOSS to    *)
(* run a callback, to set or cancel an alarm or to get a buffer.  A        *)
(* request made outside the ZBOSS thread goes through three hands:         *)
(*                                                                         *)
(*   caller      puts it in a bounded message queue, submits a work item   *)
(*   work queue  schedules zb_app_cb_process in ZBOSS, once at a time, and *)
(*               raises the signal that ends the sleep of the ZBOSS thread *)
(*   ZBOSS       runs zb_app_cb_process, which forwards every request to   *)
(*               its own scheduler and starts over when that overflows     *)
(*                                                                         *)
(* Every read and write of shared state is a step of its own: callers, the *)
(* work queue, the ZBOSS thread and zigbee_deinit interleave freely.  Each *)
(* call of the ZBOSS scheduler is one step (ZBOSS guards it with           *)
(* zigbee_mutex, zb_osif_disable_all_inter).                               *)
(***************************************************************************)
EXTENDS Naturals, Sequences, FiniteSets, Functions

CONSTANTS
  Caller,     \* contexts other than ZBOSS's: threads and ISRs
  Zboss,      \* the ZBOSS thread as a caller
  Request,    \* the requests made; bound: each is made at most once
  Kind,       \* Kind[r]: which wrapper makes the request
  Target,     \* Target[r]: the request whose alarm a "cancel" cancels
  QueueLen,   \* CONFIG_ZIGBEE_APP_CB_QUEUE_LENGTH
  CbLen,      \* length of the callback queue of the ZBOSS scheduler
  TableLen,   \* TableLen[k]: alarms and buffer requests ZBOSS can hold
  MaxDeinit,  \* bound: calls of zigbee_deinit
  Process     \* zb_app_cb_process, as an entry of the ZBOSS callback queue

Tables == {"alarm", "buf"}
Kinds == Tables \cup {"callback", "cancel"}

ASSUME RequestAssumption ==
  /\ Kind \in [Request -> Kinds]
  /\ Target \in [Request -> Request]
  /\ Process \notin Request
ASSUME CallerAssumption == Zboss \notin Caller
ASSUME LengthAssumption ==
  /\ QueueLen \in Nat \ {0}
  /\ CbLen \in Nat \ {0}
  /\ TableLen \in [Tables -> Nat \ {0}]
  /\ MaxDeinit \in Nat

VARIABLES
  msgq,               \* zb_app_cb_msgq
  process_scheduled,  \* zb_app_cb_process_scheduled
  work_pending,       \* zb_app_cb_work waits in the system work queue
  work_pc,            \* where the work handler stands
  zboss_tid,          \* the thread identifier is known
  zboss_pc,           \* where the ZBOSS thread stands, "off": no thread
  zigbee_sig,         \* the poll signal is raised
  zb_cbq,             \* external: callback queue of the ZBOSS scheduler
  zb_table,           \* external: its alarms and delayed buffer requests
  submitting,         \* callers between k_msgq_put and k_work_submit
  deinit_pc,          \* where zigbee_deinit stands
  deinits,            \* calls of zigbee_deinit so far
  direct,             \* history: requests made in the ZBOSS thread
  accepted,           \* history: requests answered RET_OK through the queue
  handed,             \* history: requests zb_app_cb_process handed to ZBOSS
  torn,               \* history: the head was handed over, but the thread was
                      \* aborted before it removed it
  turned_away         \* history: the last work item gave up for a flag that
                      \* stood for a call the abort had ended

zboss_vars == <<zb_cbq, zb_table>>
deinit_vars == <<deinit_pc, deinits>>
requests == <<direct, accepted, handed>>
history == <<requests, torn, turned_away>>
vars == <<msgq, process_scheduled, work_pending, work_pc, zboss_tid, zboss_pc,
          zigbee_sig, zboss_vars, submitting, deinit_vars, history>>

TypeOK ==
  /\ msgq \in Seq(Request) /\ Len(msgq) <= QueueLen
  /\ process_scheduled \in BOOLEAN
  /\ work_pending \in BOOLEAN
  /\ work_pc \in {"idle", "peek", "flag", "schedule", "sleep", "notify"}
  /\ zboss_tid \in BOOLEAN
  /\ zboss_pc \in {"off", "loop", "enter", "forward", "get", "resubmit",
                   "poll", "check", "reset"}
  /\ zigbee_sig \in BOOLEAN
  /\ zb_cbq \in Seq(Request \cup {Process}) /\ Len(zb_cbq) <= CbLen
  /\ zb_table \in [Tables -> SUBSET Request]
  /\ submitting \subseteq Caller \cup {Zboss}
  /\ deinit_pc \in {"idle", "cancel", "purge", "reset", "clear"}
  /\ deinits \in 0..MaxDeinit
  /\ direct \subseteq Request
  /\ accepted \in Seq(Request)
  /\ handed \in Seq(Request)
  /\ torn \in BOOLEAN
  /\ turned_away \in BOOLEAN

Init ==
  /\ msgq = <<>>
  /\ process_scheduled = FALSE
  /\ work_pending = FALSE
  /\ work_pc = "idle"
  /\ zboss_tid = FALSE
  /\ zboss_pc = "off"
  /\ zigbee_sig = FALSE
  /\ zb_cbq = <<>>
  /\ zb_table = [k \in Tables |-> {}]
  /\ submitting = {}
  /\ deinit_pc = "idle"
  /\ deinits = 0
  /\ direct = {}
  /\ accepted = <<>>
  /\ handed = <<>>
  /\ torn = FALSE
  /\ turned_away = FALSE

-------------------------------------------------------------------------------
(* The kernel calls of the wrappers, each with a mutant.                   *)

k_msgq_put_unbounded(r) == msgq' = Append(msgq, r)
k_msgq_put(r) == Len(msgq) < QueueLen /\ msgq' = Append(msgq, r)

k_msgq_get_nothing == msgq' = msgq
k_msgq_get == msgq' = Tail(msgq)

k_work_submit_nothing == work_pending' = work_pending
k_work_submit == work_pending' = TRUE

(* The old value that atomic_set(&zb_app_cb_process_scheduled, 1) returns. *)
AlreadyScheduledUnread == FALSE
AlreadyScheduled == process_scheduled

MarkNonScheduledForgotten == process_scheduled' = process_scheduled
MarkNonScheduled == process_scheduled' = FALSE

zigbee_event_notify_nothing == zigbee_sig' = zigbee_sig
zigbee_event_notify == zigbee_sig' = TRUE

-------------------------------------------------------------------------------
(* The ZBOSS scheduler, external: what its entry points do with a request. *)

(* zb_schedule_app_callback, zb_schedule_app_alarm and zb_buf_get_*_delayed *)
(* answer RET_OVERFLOW, and change nothing, when their table is full.       *)
Overflows(r) ==
  \/ Kind[r] = "callback" /\ Len(zb_cbq) >= CbLen
  \/ Kind[r] \in Tables /\ Cardinality(zb_table[Kind[r]]) >= TableLen[Kind[r]]

ZbossTakes(r) ==
  /\ zb_cbq' = IF Kind[r] = "callback" THEN Append(zb_cbq, r) ELSE zb_cbq
  /\ zb_table' = [k \in Tables |->
       IF Kind[r] = k THEN zb_table[k] \cup {r}
       ELSE IF Kind[r] = "cancel" /\ k = "alarm" THEN zb_table[k] \ {Target[r]}
       ELSE zb_table[k]]

ProcessQueued == Process \in Range(zb_cbq)

-------------------------------------------------------------------------------
(* Callers: zigbee_schedule_callback and the six wrappers like it.         *)

Fresh(r) == r \notin Range(accepted) \cup direct

(* A caller other than the ZBOSS thread, an ISR on top of it included, or  *)
(* the ZBOSS thread itself while zigbee_enable has not stored its          *)
(* identifier.  When the queue is full the caller is told RET_OVERFLOW and *)
(* nothing changes.                                                        *)
PutRequest(c, r) ==
  /\ \/ c \in Caller
     \/ c = Zboss /\ zboss_pc = "loop" /\ ~zboss_tid
  /\ c \notin submitting
  /\ Fresh(r)
  /\ k_msgq_put(r)
  /\ submitting' = submitting \cup {c}
  /\ accepted' = Append(accepted, r)
  /\ UNCHANGED <<process_scheduled, work_pending, work_pc, zboss_tid, zboss_pc,
                 zigbee_sig, zboss_vars, deinit_vars, direct, handed, torn,
                 turned_away>>

SubmitWork(c) ==
  /\ c \in submitting
  /\ submitting' = submitting \ {c}
  /\ k_work_submit
  /\ UNCHANGED <<msgq, process_scheduled, work_pc, zboss_tid, zboss_pc,
                 zigbee_sig, zboss_vars, deinit_vars, history>>

(* A callback running in the ZBOSS thread calls the scheduler directly.    *)
DirectRequest(r) ==
  /\ zboss_pc = "loop" /\ zboss_tid /\ Zboss \notin submitting
  /\ Fresh(r)
  /\ ~Overflows(r)
  /\ ZbossTakes(r)
  /\ direct' = direct \cup {r}
  /\ UNCHANGED <<msgq, process_scheduled, work_pending, work_pc, zboss_tid,
                 zboss_pc, zigbee_sig, submitting, deinit_vars, accepted, handed,
                 torn, turned_away>>

-------------------------------------------------------------------------------
(* zb_app_cb_process_schedule, the handler of zb_app_cb_work.  A submit    *)
(* while it runs queues the item again.                                    *)

WorkStart ==
  /\ work_pending /\ work_pc = "idle"
  /\ work_pending' = FALSE
  /\ work_pc' = "peek"
  /\ UNCHANGED <<msgq, process_scheduled, zboss_tid, zboss_pc, zigbee_sig,
                 zboss_vars, submitting, deinit_vars, history>>

WorkPeek ==
  /\ work_pc = "peek"
  /\ work_pc' = IF msgq = <<>> THEN "idle" ELSE "flag"
  /\ UNCHANGED <<msgq, process_scheduled, work_pending, zboss_tid, zboss_pc,
                 zigbee_sig, zboss_vars, submitting, deinit_vars, history>>

(* atomic_set returns the old value: only the first one in schedules.      *)
WorkFlag ==
  /\ work_pc = "flag"
  /\ process_scheduled' = TRUE
  /\ work_pc' = IF AlreadyScheduled THEN "idle" ELSE "schedule"
  /\ turned_away' = /\ AlreadyScheduled /\ ~ProcessQueued
                     /\ deinit_pc \in {"reset", "clear"}
  /\ UNCHANGED <<msgq, work_pending, zboss_tid, zboss_pc, zigbee_sig,
                 zboss_vars, submitting, deinit_vars, requests, torn>>

(* The user was told the request will be handled, so a full ZBOSS queue is *)
(* retried every second without end; the work queue sleeps meanwhile.      *)
WorkSchedule ==
  /\ work_pc = "schedule"
  /\ IF Len(zb_cbq) < CbLen
       THEN zb_cbq' = Append(zb_cbq, Process) /\ work_pc' = "notify"
       ELSE work_pc' = "sleep" /\ UNCHANGED zb_cbq
  /\ UNCHANGED <<msgq, process_scheduled, work_pending, zboss_tid, zboss_pc,
                 zigbee_sig, zb_table, submitting, deinit_vars, history>>

WorkSleep ==
  /\ work_pc = "sleep"
  /\ work_pc' = "schedule"
  /\ UNCHANGED <<msgq, process_scheduled, work_pending, zboss_tid, zboss_pc,
                 zigbee_sig, zboss_vars, submitting, deinit_vars, history>>

WorkNotify ==
  /\ work_pc = "notify"
  /\ work_pc' = "idle"
  /\ zigbee_event_notify
  /\ UNCHANGED <<msgq, process_scheduled, work_pending, zboss_tid, zboss_pc,
                 zboss_vars, submitting, deinit_vars, history>>

-------------------------------------------------------------------------------
(* zb_app_cb_process, in the ZBOSS thread.                                 *)

ProcessEnter ==
  /\ zboss_pc = "enter"
  /\ MarkNonScheduled
  /\ zboss_pc' = "forward"
  /\ UNCHANGED <<msgq, work_pending, work_pc, zboss_tid, zigbee_sig, zboss_vars,
                 submitting, deinit_vars, history>>

(* k_msgq_peek and the switch.  An expired alarm is set with the shortest  *)
(* delay, so every alarm enters the table.  Any answer but RET_OVERFLOW    *)
(* lets the element go, a cancel that finds no alarm too.                  *)
ProcessForward ==
  /\ zboss_pc = "forward"
  /\ msgq # <<>>
  /\ ~Overflows(Head(msgq))
  /\ ZbossTakes(Head(msgq))
  /\ handed' = Append(handed, Head(msgq))
  /\ zboss_pc' = "get"
  /\ UNCHANGED <<msgq, process_scheduled, work_pending, work_pc, zboss_tid,
                 zigbee_sig, submitting, deinit_vars, direct, accepted, torn,
                 turned_away>>

(* Mutant: what overflows goes to the end of the queue. *)
ProcessOverflowRotates ==
  /\ zboss_pc = "forward"
  /\ msgq # <<>>
  /\ Overflows(Head(msgq))
  /\ zboss_pc' = "resubmit"
  /\ msgq' = Append(Tail(msgq), Head(msgq))
  /\ UNCHANGED <<process_scheduled, work_pending, work_pc, zboss_tid,
                 zigbee_sig, zboss_vars, submitting, deinit_vars, history>>

ProcessOverflow ==
  /\ zboss_pc = "forward"
  /\ msgq # <<>>
  /\ Overflows(Head(msgq))
  /\ zboss_pc' = "resubmit"
  /\ UNCHANGED <<msgq, process_scheduled, work_pending, work_pc, zboss_tid,
                 zigbee_sig, zboss_vars, submitting, deinit_vars, history>>

ProcessGet ==
  /\ zboss_pc = "get"
  /\ k_msgq_get
  /\ zboss_pc' = "forward"
  /\ UNCHANGED <<process_scheduled, work_pending, work_pc, zboss_tid, zigbee_sig,
                 zboss_vars, submitting, deinit_vars, history>>

ProcessDone ==
  /\ zboss_pc = "forward"
  /\ msgq = <<>>
  /\ zboss_pc' = "loop"
  /\ UNCHANGED <<msgq, process_scheduled, work_pending, work_pc, zboss_tid,
                 zigbee_sig, zboss_vars, submitting, deinit_vars, history>>

ProcessResubmit ==
  /\ zboss_pc = "resubmit"
  /\ k_work_submit
  /\ zboss_pc' = "loop"
  /\ UNCHANGED <<msgq, process_scheduled, work_pc, zboss_tid, zigbee_sig,
                 zboss_vars, submitting, deinit_vars, history>>

-------------------------------------------------------------------------------
(* The ZBOSS main loop (external) and the sleep it calls when idle.        *)

RunCallback ==
  /\ zboss_pc = "loop" /\ Zboss \notin submitting
  /\ zb_cbq # <<>>
  /\ zb_cbq' = Tail(zb_cbq)
  /\ zboss_pc' = IF Head(zb_cbq) = Process THEN "enter" ELSE "loop"
  /\ UNCHANGED <<msgq, process_scheduled, work_pending, work_pc, zboss_tid,
                 zigbee_sig, zb_table, submitting, deinit_vars, history>>

(* An alarm expires, a buffer becomes free: the callback runs.             *)
Fire(r) ==
  /\ zboss_pc = "loop" /\ Zboss \notin submitting
  /\ r \in zb_table["alarm"] \cup zb_table["buf"]
  /\ zb_table' = [k \in Tables |-> zb_table[k] \ {r}]
  /\ UNCHANGED <<msgq, process_scheduled, work_pending, work_pc, zboss_tid,
                 zboss_pc, zigbee_sig, zb_cbq, submitting, deinit_vars,
                 history>>

(* zb_osif_sleep: ZBOSS found its callback queue empty; the queue may have *)
(* an entry again by the time k_poll blocks.                               *)
Sleep ==
  /\ zboss_pc = "loop" /\ Zboss \notin submitting
  /\ zb_cbq = <<>>
  /\ zboss_pc' = "poll"
  /\ UNCHANGED <<msgq, process_scheduled, work_pending, work_pc, zboss_tid,
                 zigbee_sig, zboss_vars, submitting, deinit_vars, history>>

(* k_poll of zigbee_event_poll returns: signalled, or after its timeout.   *)
PollReturns ==
  /\ zboss_pc = "poll"
  /\ zboss_pc' = "check"
  /\ UNCHANGED <<msgq, process_scheduled, work_pending, work_pc, zboss_tid,
                 zigbee_sig, zboss_vars, submitting, deinit_vars, history>>

PollCheck ==
  /\ zboss_pc = "check"
  /\ zboss_pc' = IF zigbee_sig THEN "reset" ELSE "loop"
  /\ UNCHANGED <<msgq, process_scheduled, work_pending, work_pc, zboss_tid,
                 zigbee_sig, zboss_vars, submitting, deinit_vars, history>>

PollReset ==
  /\ zboss_pc = "reset"
  /\ zigbee_sig' = FALSE
  /\ zboss_pc' = "loop"
  /\ UNCHANGED <<msgq, process_scheduled, work_pending, work_pc, zboss_tid,
                 zboss_vars, submitting, deinit_vars, history>>

-------------------------------------------------------------------------------
(* zigbee_enable: the new thread may run before its identifier is stored.  *)

EnableCreate ==
  /\ zboss_pc = "off" /\ deinit_pc = "idle"
  /\ zboss_pc' = "loop"
  /\ UNCHANGED <<msgq, process_scheduled, work_pending, work_pc, zboss_tid,
                 zigbee_sig, zboss_vars, submitting, deinit_vars, history>>

EnableStore ==
  /\ zboss_pc # "off" /\ ~zboss_tid
  /\ zboss_tid' = TRUE
  /\ UNCHANGED <<msgq, process_scheduled, work_pending, work_pc, zboss_pc,
                 zigbee_sig, zboss_vars, submitting, deinit_vars, history>>

(* zigbee_deinit aborts the thread wherever it stands, inside             *)
(* zb_app_cb_process too, and goes on when there is none.  The application *)
(* calls zigbee_enable and zigbee_deinit one after the other: the thread   *)
(* identifier of a thread that exists is stored.  The ZBOSS scheduler      *)
(* keeps what it holds.                                                    *)
DeinitAbort ==
  /\ deinit_pc = "idle" /\ deinits < MaxDeinit
  /\ zboss_tid \/ zboss_pc = "off"
  /\ zboss_pc' = "off"
  /\ zboss_tid' = FALSE
  /\ submitting' = submitting \ {Zboss}
  /\ torn' = (zboss_pc = "get")
  /\ deinit_pc' = "cancel"
  /\ deinits' = deinits + 1
  /\ UNCHANGED <<msgq, process_scheduled, work_pending, work_pc, zigbee_sig,
                 zboss_vars, requests, turned_away>>

(* k_work_cancel does not wait for a handler that already runs.            *)
DeinitCancel ==
  /\ deinit_pc = "cancel"
  /\ deinit_pc' = "purge"
  /\ work_pending' = FALSE
  /\ UNCHANGED <<msgq, process_scheduled, work_pc, zboss_tid, zboss_pc,
                 zigbee_sig, zboss_vars, submitting, deinits, history>>

DeinitPurge ==
  /\ deinit_pc = "purge"
  /\ deinit_pc' = "reset"
  /\ msgq' = <<>>
  /\ torn' = FALSE
  /\ UNCHANGED <<process_scheduled, work_pending, work_pc, zboss_tid, zboss_pc,
                 zigbee_sig, zboss_vars, submitting, deinits, requests,
                 turned_away>>

DeinitReset ==
  /\ deinit_pc = "reset"
  /\ deinit_pc' = "clear"
  /\ zigbee_sig' = FALSE
  /\ UNCHANGED <<msgq, process_scheduled, work_pending, work_pc, zboss_tid,
                 zboss_pc, zboss_vars, submitting, deinits, history>>

DeinitClear ==
  /\ deinit_pc = "clear"
  /\ deinit_pc' = "idle"
  /\ process_scheduled' = FALSE
  /\ UNCHANGED <<msgq, zigbee_sig, work_pending, work_pc, zboss_tid, zboss_pc, zboss_vars,
                 submitting, deinits, history>>

-------------------------------------------------------------------------------
WorkStep ==
  \/ WorkStart \/ WorkPeek \/ WorkFlag \/ WorkSchedule \/ WorkSleep \/ WorkNotify

ProcessStep ==
  \/ ProcessEnter \/ ProcessForward \/ ProcessOverflow
  \/ ProcessGet \/ ProcessDone \/ ProcessResubmit

DeinitStep ==
  \/ DeinitAbort \/ DeinitCancel \/ DeinitPurge \/ DeinitReset \/ DeinitClear

Next ==
  \/ \E c \in Caller \cup {Zboss}, r \in Request : PutRequest(c, r)
  \/ \E c \in Caller \cup {Zboss} : SubmitWork(c)
  \/ \E r \in Request : DirectRequest(r) \/ Fire(r)
  \/ WorkStep
  \/ ProcessStep
  \/ RunCallback
  \/ Sleep \/ PollReturns \/ PollCheck \/ PollReset
  \/ EnableCreate \/ EnableStore
  \/ DeinitStep

ZbossStep == ProcessStep \/ RunCallback \/ PollCheck \/ PollReset

(* The work queue and the ZBOSS thread are scheduled; a caller that put    *)
(* its request goes on to submit.  k_poll must return when it is signalled *)
(* or when an alarm is due, no other timeout is counted on; and the main   *)
(* loop serves, in some later turn, what expired.                          *)
Fairness ==
  /\ \A c \in Caller \cup {Zboss} : WF_vars(SubmitWork(c))
  /\ WF_vars(WorkStep)
  /\ WF_vars(ZbossStep)
  /\ WF_vars(PollReturns /\ (zigbee_sig \/ zb_table["alarm"] # {}))
  /\ SF_vars(\E r \in Request : Fire(r))

Spec == Init /\ [][Next]_vars
FairSpec == Spec /\ Fairness

-------------------------------------------------------------------------------
(* Properties *)

(* Requests wait until zb_app_cb_process forwarded them; the forwarded     *)
(* head that k_msgq_get has not removed yet, and never will when the       *)
(* thread was aborted there, no longer waits.                              *)
Pending == IF zboss_pc = "get" \/ torn THEN Tail(msgq) ELSE msgq

(* Every accepted request reaches the ZBOSS scheduler exactly once and in  *)
(* the order of acceptance, whatever overflows and retries happen on the   *)
(* way (zb_app_cb_process peeks, forwards, then removes), and zigbee_deinit *)
(* discards all that wait, wherever it stops the thread.                   *)
Channel == INSTANCE RequestChannel WITH pending <- Pending
HandedInOrder == Channel!Spec

(* The handshake of zb_app_cb_process_scheduled: while it is set a call of *)
(* zb_app_cb_process is still to come, so a work item may rely on it.  The *)
(* flag of a call that zigbee_deinit aborted lies until zigbee_deinit, as  *)
(* its last step, clears it, and never after.                              *)
FlagIsHonest ==
  process_scheduled /\ deinit_pc = "idle" =>
    work_pc \in {"schedule", "sleep"} \/ ProcessQueued \/ zboss_pc = "enter"

(* Someone will look at the message queue: a caller or a work item on its  *)
(* way, a call of zb_app_cb_process to come, or zigbee_deinit to purge it. *)
SomeoneComes ==
  \/ submitting # {} \/ work_pending \/ deinit_pc \in {"cancel", "purge"}
  \/ work_pc \in {"peek", "flag", "schedule", "sleep"}
  \/ ProcessQueued
  \/ zboss_pc \in {"enter", "forward", "get", "resubmit"}

(* No lost wake-up: as long as requests wait someone is on the way to      *)
(* them.  The check of zb_app_cb_process_schedule and the last peek of     *)
(* zb_app_cb_process race with new requests and must not both miss one.    *)
(* The one exception is a request made while zigbee_deinit runs, between   *)
(* its purge and its last step: its work item may meet the flag of a call  *)
(* that was aborted.                                                       *)
NoLostWakeup == msgq # <<>> => SomeoneComes \/ turned_away

(* The ZBOSS thread does not sleep on a filled callback queue: the signal  *)
(* is raised, or about to be raised, after the entry was made.             *)
NoSleepOnWork ==
  zboss_pc = "poll" /\ zb_cbq # <<>> => zigbee_sig \/ work_pc = "notify"

(* zb_app_cb_process takes one entry of the ZBOSS callback queue at most,  *)
(* plus one for every zigbee_deinit, which clears the flag whatever was    *)
(* scheduled before.                                                       *)
One(cond) == IF cond THEN 1 ELSE 0
ProcessCalls ==
  Cardinality({i \in DOMAIN zb_cbq : zb_cbq[i] = Process})
  + One(work_pc \in {"schedule", "sleep"}) + One(zboss_pc = "enter")
OneProcessCall == ProcessCalls <= deinits + One(process_scheduled)

(* A cancel accepted after its alarm takes effect on that alarm: once the  *)
(* cancel was handed over the alarm is not set, even when setting it       *)
(* overflowed and was retried.                                             *)
CancelIsNotOvertaken ==
  \A i, j \in DOMAIN accepted :
    /\ i < j
    /\ Kind[accepted[j]] = "cancel" /\ Target[accepted[j]] = accepted[i]
    /\ accepted[j] \in Range(handed)
    => accepted[i] \notin zb_table["alarm"]

(* "The user was already informed that the request will be handled": an    *)
(* accepted request is handed to ZBOSS in the end, or zigbee_deinit        *)
(* discards it, as long as there is a ZBOSS thread.                        *)
AcceptedIsHandled ==
  \A r \in Request :
    r \in Range(Pending) ~> r \notin Range(Pending) \/ zboss_pc = "off"

===============================================================================
