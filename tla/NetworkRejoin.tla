---------------------------- MODULE NetworkRejoin -----------------------------
(***************************************************************************)
(* The rejoin procedure of routers and end devices                         *)
(* (subsys/lib/zigbee_app_utils/zigbee_app_utils.c) together with what it  *)
(* drives: the BDB commissioning of ZBOSS                                  *)
(* (lib/zboss/src/commissioning/bdb/zdo_commissioning_bdb.c), the alarms   *)
(* and delayed buffers of the ZBOSS scheduler, and the Touchlink button of *)
(* the light switch sample, which aborts the procedure.                    *)
(*                                                                         *)
(* The functions of the procedure are operators on a record of its flags   *)
(* and of the callbacks ZBOSS owes it.  Each callback and each signal is   *)
(* one step, for they all run in the ZBOSS thread.  Time is not modelled:  *)
(* alarms expire in any order, so a timeout races every answer; only a     *)
(* buffer and a signal are waited for less long than an attempt lasts.     *)
(***************************************************************************)
EXTENDS Naturals, Sequences

CONSTANTS
  Build,         \* the devices the code may be built for, see BuildAssumption
  TcThreshold,   \* TC_REJOIN_INTERVAL_THRESHOLD_S
  MaxPending,    \* bound: alarms of one callback that are told apart
  MaxSignals     \* bound: signals waiting when an alarm expires

(* end_device  CONFIG_ZIGBEE_ROLE_END_DEVICE; otherwise a router           *)
(* tc_rejoin   CONFIG_ZIGBEE_TC_REJOIN_ENABLED                             *)
(* interval    REJOIN_INTERVAL_MAX_S                                       *)
(* touchlinks  bound: presses of the Touchlink button                      *)
(* losses      bound: how often the network is left                        *)
ASSUME BuildAssumption ==
  Build \subseteq [end_device : BOOLEAN, tc_rejoin : BOOLEAN, interval : Nat,
                   touchlinks : Nat, losses : Nat]
ASSUME BoundAssumption ==
  /\ TcThreshold \in Nat
  /\ MaxPending \in Nat \ {0} /\ MaxSignals \in Nat

VARIABLES
  build,         \* the device at hand
  rejoin,        \* the flags of zigbee_app_utils.c and the callbacks owed
  bdb,           \* what BDB commissioning is doing
  op_cancelled,  \* bdb_op_cancelled
  tc_rejoin,     \* a Trust Center rejoin runs in ZBOSS
  joined,        \* ZB_JOINED
  factory_new,   \* zb_bdb_is_factory_new
  signals,       \* signals on their way to the signal handler
  touchlink_start_pending,  \* of the light switch sample
  losses,        \* how often the network was left
  touchlinks,    \* how often the Touchlink button was pressed
  unfinished     \* history: a first start has ended, but not its attempt

zboss_vars == <<bdb, op_cancelled, tc_rejoin, joined, factory_new>>
app_vars == <<build, touchlink_start_pending, losses, touchlinks, unfinished>>
vars == <<rejoin, zboss_vars, signals, app_vars>>

EndDevice == build.end_device
TcRejoin == build.tc_rejoin
IntervalMax == build.interval
MaxTouchlinks == build.touchlinks
MaxLosses == build.losses

(* What ZBOSS still has to call: alarms, scheduled callbacks and functions *)
(* waiting for a buffer.  cancel_joining is network_steering_timeout with  *)
(* its buffer, cancelled the signal bdb_cancel_joining promised.           *)
Callback == {"skip_startup_continue", "start_network_steering",
  "network_steering_timeout", "cancel_joining", "cancelled", "start_tc_rejoin",
  "initiate_tc_rejoin", "tc_rejoin_timeout", "rejoin_the_network",
  "stop_network_rejoin", "start_network_rejoin_ED", "touchlink_start",
  "touchlink_begin", "touchlink_cancel"}

(* What BDB commissioning does, which decides the signal at its end:       *)
(*   init       a first start: it steers as a factory new device           *)
(*   steering   a steering after the first start                           *)
(*   rejoin     the initialization of a device that is not factory new     *)
(*   touchlink  Touchlink                                                  *)
(* of a device; late and late_init once it is too late to cancel.          *)
Bdb == {"stop", "init", "late_init", "steering", "late", "rejoin", "touchlink"}

JoinSignals == {"REBOOT", "STEERING", "TC_REJOIN_DONE"}
Signal == [name : JoinSignals \cup {"SKIP_STARTUP", "FIRST_START", "LEAVE",
                                    "STEERING_CANCELLED", "TOUCHLINK"},
           ok : BOOLEAN]
Sig(name, ok) == [name |-> name, ok |-> ok]

Rejoin == [
  stack_initialised : BOOLEAN,
  procedure_started : BOOLEAN,
  stop_requested : BOOLEAN,
  in_progress : BOOLEAN,
  attempt_cnt : Nat,
  wait_for_user_input : BOOLEAN,
  start_scheduled : BOOLEAN,
  commissioning_active : BOOLEAN,
  pending : [Callback -> 0..MaxPending]]

(* The attempts are counted while the back-off 1 << rejoin_attempt_cnt is  *)
(* not above its maximum: the shift never leaves the width of an int.      *)
TypeOK ==
  /\ build \in Build
  /\ rejoin \in Rejoin
  /\ rejoin.attempt_cnt > 0 => 2^(rejoin.attempt_cnt - 1) <= IntervalMax
  /\ bdb \in Bdb
  /\ op_cancelled \in BOOLEAN
  /\ tc_rejoin \in BOOLEAN
  /\ joined \in BOOLEAN
  /\ factory_new \in BOOLEAN
  /\ signals \in Seq(Signal)
  /\ touchlink_start_pending \in BOOLEAN
  /\ losses \in 0..MaxLosses
  /\ touchlinks \in 0..MaxTouchlinks
  /\ unfinished \in BOOLEAN

(* Power on: ZBOSS has read its NVRAM, the device may have been on a       *)
(* network before.                                                         *)
Init ==
  /\ build \in Build
  /\ rejoin = [
       stack_initialised |-> FALSE,
       procedure_started |-> FALSE,
       stop_requested |-> FALSE,
       in_progress |-> FALSE,
       attempt_cnt |-> 0,
       wait_for_user_input |-> FALSE,
       start_scheduled |-> FALSE,
       commissioning_active |-> FALSE,
       pending |-> [cb \in Callback |-> 0]]
  /\ bdb = "stop"
  /\ op_cancelled = FALSE
  /\ tc_rejoin = FALSE
  /\ joined = FALSE
  /\ factory_new \in BOOLEAN
  /\ signals = <<Sig("SKIP_STARTUP", TRUE)>>
  /\ touchlink_start_pending = FALSE
  /\ losses = 0
  /\ touchlinks = 0
  /\ unfinished = FALSE

-------------------------------------------------------------------------------
(* The functions of the procedure.                                         *)

Schedule(s, cb) == [s EXCEPT !.pending[cb] = IF @ = MaxPending THEN @ ELSE @ + 1]

(* With ZB_ALARM_ANY_PARAM one alarm of the function is cancelled.         *)
Cancel(s, cb) == [s EXCEPT !.pending[cb] = IF @ = 0 THEN 0 ELSE @ - 1]

CommissioningIdle(s) == [s EXCEPT !.commissioning_active = FALSE]

rejoin_attempt_finished_in_progress(s) ==
  Cancel(Cancel(s, "network_steering_timeout"), "tc_rejoin_timeout")
rejoin_attempt_finished_keeps_timer(s) ==
  [Cancel(s, "tc_rejoin_timeout") EXCEPT !.in_progress = FALSE]
rejoin_attempt_finished(s) ==
  [Cancel(Cancel(s, "network_steering_timeout"), "tc_rejoin_timeout")
     EXCEPT !.in_progress = FALSE]

MayStartWhileWaiting(s, force) ==
  (force \/ ~joined) /\ s.stack_initialised /\ ~s.procedure_started

(* A BDB failure may leave the device joined but not commissioned, so the  *)
(* handlers of failures force a start.                                     *)
MayStart(s, force) ==
  /\ force \/ ~joined
  /\ s.stack_initialised
  /\ ~(EndDevice /\ s.wait_for_user_input)
  /\ ~s.procedure_started

StopLaterNever(s) == s

(* After CONFIG_ZIGBEE_DEV_REJOIN_TIMEOUT_MS.                              *)
StopLater(s) == Schedule(s, "stop_network_rejoin")

start_network_rejoin(s, force) ==
  LET started == [s EXCEPT !.procedure_started = TRUE,
                           !.stop_requested = FALSE,
                           !.attempt_cnt = 0]
  IN  IF ~MayStart(s, force) THEN s
      ELSE IF EndDevice
        THEN StopLater([started EXCEPT !.start_scheduled = FALSE])
        ELSE started

AttemptCancelled(s, attempt) ==
  CommissioningIdle([Cancel(s, attempt) EXCEPT
    !.procedure_started = FALSE,
    !.stop_requested = FALSE,
    !.in_progress = FALSE])

(* The attempt that still waits for its start alarm is cancelled and the   *)
(* procedure ends; otherwise it ends with the next rejoin_the_network.     *)
StopAttempt(s) ==
  LET steering == s.pending["start_network_steering"] > 0
      attempt == IF steering THEN "start_network_steering" ELSE "start_tc_rejoin"
  IN  IF ~s.procedure_started THEN s
      ELSE IF s.pending[attempt] > 0
        THEN AttemptCancelled(s, attempt)
        ELSE [s EXCEPT !.stop_requested = TRUE]

stop_network_rejoin(s, was_scheduled) ==
  IF EndDevice
    THEN Cancel(StopAttempt([s EXCEPT !.wait_for_user_input = was_scheduled]),
                "stop_network_rejoin")
    ELSE StopAttempt(s)

CountAttemptUncapped(cnt, capped) == cnt + 1
CountAttempt(cnt, capped) == IF capped THEN cnt ELSE cnt + 1

(* The next attempt comes after 2^n seconds, a Trust Center rejoin when    *)
(* that is long and the device knows a network.                            *)
NextAttempt(s) ==
  LET capped == 2^s.attempt_cnt > IntervalMax
      timeout_s == IF capped THEN IntervalMax ELSE 2^s.attempt_cnt
      tc == TcRejoin /\ timeout_s > TcThreshold /\ ~factory_new
      counted == [s EXCEPT !.attempt_cnt = CountAttempt(@, capped),
                           !.commissioning_active = @ \/ tc,
                           !.in_progress = TRUE]
  IN  Schedule(counted, IF tc THEN "start_tc_rejoin" ELSE "start_network_steering")

rejoin_the_network(s) ==
  IF ~(s.stack_initialised /\ s.procedure_started) THEN s
  ELSE IF s.stop_requested
    THEN [s EXCEPT !.procedure_started = FALSE, !.stop_requested = FALSE]
  ELSE IF s.in_progress THEN s
  ELSE NextAttempt(s)

(* The part of the default signal handler that belongs to one signal.  The *)
(* failure of a first start is only logged.                                *)
SignalCase(s, sig) ==
  CASE sig.name = "SKIP_STARTUP" ->
         Schedule([s EXCEPT !.stack_initialised = TRUE], "skip_startup_continue")
    [] sig.name = "FIRST_START" /\ ~sig.ok -> s
    [] sig.name = "LEAVE" \/ (sig.name = "FIRST_START" /\ sig.ok) ->
         start_network_rejoin(s, FALSE)
    [] sig.name \in JoinSignals /\ sig.ok ->
         stop_network_rejoin(CommissioningIdle(rejoin_attempt_finished(s)), FALSE)
    [] sig.name = "REBOOT" /\ ~sig.ok ->
         start_network_rejoin(rejoin_attempt_finished(s), TRUE)
    [] sig.name \in JoinSignals \ {"REBOOT"} /\ ~sig.ok ->
         start_network_rejoin(CommissioningIdle(rejoin_attempt_finished(s)), TRUE)
    [] sig.name = "STEERING_CANCELLED" ->
         start_network_rejoin(rejoin_attempt_finished(s), TRUE)
    [] sig.name = "TOUCHLINK" -> CommissioningIdle(s)

zigbee_default_signal_handler(s, sig) == rejoin_the_network(SignalCase(s, sig))

zigbee_network_rejoin_abort(s) ==
  [s EXCEPT
    !.pending = [cb \in Callback |->
       IF cb \in {"network_steering_timeout", "tc_rejoin_timeout", "rejoin_the_network",
                  "start_network_steering", "start_tc_rejoin"}
         THEN Cancel(s, cb).pending[cb] ELSE @[cb]],
    !.wait_for_user_input = FALSE,
    !.start_scheduled = FALSE,
    !.stop_requested = FALSE,
    !.in_progress = FALSE,
    !.procedure_started = FALSE,
    !.attempt_cnt = 0,
    !.commissioning_active = FALSE]

-------------------------------------------------------------------------------
(* Callbacks in the ZBOSS thread.                                          *)

Due(cb) == rejoin.pending[cb] > 0
Rest(cb) == Cancel(rejoin, cb)
Expires(cb) == Due(cb) /\ Len(signals) <= MaxSignals
Settled == signals = <<>> /\ ~Due("cancel_joining") /\ ~Due("cancelled") /\ ~Due("initiate_tc_rejoin")

(* BDB steers at once when the device is joined.  Otherwise it starts with *)
(* the initialization, through zboss_start_continue of the binary library, *)
(* which decides whether a later steering is a first start again.  A       *)
(* device that is not factory new rejoins, or, when it lacks the keys,     *)
(* leaves what it knew and goes on as a factory new one.                   *)
BdbStarts(commissioning) ==
  /\ bdb' \in IF joined THEN {"steering"}
              ELSE IF factory_new THEN {"init", commissioning}
              ELSE {"rejoin", "init"}
  /\ factory_new' = (factory_new \/ bdb' = "init")

skip_startup_continue ==
  /\ Due("skip_startup_continue")
  /\ BdbStarts("init")
  /\ rejoin' = Rest("skip_startup_continue")
  /\ UNCHANGED <<op_cancelled, tc_rejoin, joined, signals, app_vars>>

(* BDB refuses while another commissioning runs; then nothing is armed.    *)
start_network_steering ==
  /\ Due("start_network_steering") /\ Settled
  /\ LET s == Rest("start_network_steering")
         active == [s EXCEPT !.commissioning_active = TRUE]
     IN  rejoin' = IF bdb = "stop" THEN Schedule(active, "network_steering_timeout") ELSE s
  /\ IF bdb = "stop" THEN BdbStarts("steering") ELSE UNCHANGED <<bdb, factory_new>>
  /\ UNCHANGED <<op_cancelled, tc_rejoin, joined, signals, app_vars>>

network_steering_timeout ==
  /\ Expires("network_steering_timeout") /\ ~Due("cancel_joining")
  /\ rejoin' = Schedule(Rest("network_steering_timeout"), "cancel_joining")
  /\ UNCHANGED <<zboss_vars, signals, app_vars>>

(* bdb_cancel_joining answers in every case with a signal, sooner or later *)
(* than the steering ends; the steering ends early only in some of them,   *)
(* and the initialization of a device that is not factory new in none.     *)
CanCancel == ~joined /\ bdb \in {"init", "steering"}

cancel_joining ==
  /\ Due("cancel_joining")
  /\ rejoin' = Schedule(Rest("cancel_joining"), "cancelled")
  /\ op_cancelled' = (op_cancelled \/ CanCancel)
  /\ UNCHANGED <<bdb, tc_rejoin, joined, factory_new, signals, app_vars>>

SignalCancelled ==
  /\ Due("cancelled")
  /\ rejoin' = Rest("cancelled")
  /\ signals' = Append(signals, Sig("STEERING_CANCELLED", TRUE))
  /\ UNCHANGED <<zboss_vars, app_vars>>

start_tc_rejoin_unguarded ==
  /\ Due("start_tc_rejoin") /\ Settled
  /\ rejoin' = Schedule(Rest("start_tc_rejoin"), "initiate_tc_rejoin")
  /\ UNCHANGED <<zboss_vars, signals, app_vars>>

start_tc_rejoin ==
  /\ Due("start_tc_rejoin") /\ Settled
  /\ rejoin' = Schedule(Schedule(Rest("start_tc_rejoin"), "initiate_tc_rejoin"),
                        "tc_rejoin_timeout")
  /\ UNCHANGED <<zboss_vars, signals, app_vars>>

(* Refused at once, with a signal, when there is neither a link key of the *)
(* Trust Center nor the permission to do without.                          *)
zb_bdb_initiate_tc_rejoin ==
  /\ Due("initiate_tc_rejoin")
  /\ rejoin' = Rest("initiate_tc_rejoin")
  /\ \E allowed \in BOOLEAN :
       /\ tc_rejoin' = (tc_rejoin \/ allowed)
       /\ signals' = IF allowed THEN signals
                     ELSE Append(signals, Sig("TC_REJOIN_DONE", FALSE))
  /\ UNCHANGED <<bdb, op_cancelled, joined, factory_new, app_vars>>

tc_rejoin_timeout_only_finishes ==
  /\ Expires("tc_rejoin_timeout") /\ ~Due("initiate_tc_rejoin")
  /\ rejoin' = rejoin_attempt_finished(Rest("tc_rejoin_timeout"))
  /\ UNCHANGED <<zboss_vars, signals, app_vars>>

tc_rejoin_timeout ==
  /\ Expires("tc_rejoin_timeout") /\ ~Due("initiate_tc_rejoin")
  /\ rejoin' = rejoin_the_network(rejoin_attempt_finished(Rest("tc_rejoin_timeout")))
  /\ UNCHANGED <<zboss_vars, signals, app_vars>>

RejoinTheNetwork ==
  /\ Due("rejoin_the_network") /\ Settled
  /\ rejoin' = rejoin_the_network(Rest("rejoin_the_network"))
  /\ UNCHANGED <<zboss_vars, signals, app_vars>>

StopNetworkRejoin ==
  /\ Expires("stop_network_rejoin")
  /\ rejoin' = stop_network_rejoin(Rest("stop_network_rejoin"), TRUE)
  /\ UNCHANGED <<zboss_vars, signals, app_vars>>

start_network_rejoin_ED_joined ==
  /\ Due("start_network_rejoin_ED")
  /\ LET s == Rest("start_network_rejoin_ED")
         awake == [s EXCEPT !.wait_for_user_input = FALSE, !.start_scheduled = FALSE]
         again == Schedule(start_network_rejoin(awake, FALSE), "rejoin_the_network")
     IN  rejoin' = IF ~joined /\ s.wait_for_user_input THEN again ELSE s
  /\ UNCHANGED <<zboss_vars, signals, app_vars>>

start_network_rejoin_ED ==
  /\ Due("start_network_rejoin_ED")
  /\ LET s == Rest("start_network_rejoin_ED")
         awake == [s EXCEPT !.wait_for_user_input = FALSE]
         again == Schedule(start_network_rejoin(awake, FALSE), "rejoin_the_network")
     IN  rejoin' = [(IF ~joined /\ s.wait_for_user_input THEN again ELSE s)
                      EXCEPT !.start_scheduled = FALSE]
  /\ UNCHANGED <<zboss_vars, signals, app_vars>>

Swallows_nothing(sig) == FALSE
Swallows(sig) == sig.name = "STEERING_CANCELLED" /\ touchlink_start_pending

(* The end of a first start ends no attempt: a guard of the attempt stays, *)
(* and without one no handler follows until another attempt is scheduled.  *)
Unfinished(s, sig) ==
  /\ sig.name = "FIRST_START" \/ unfinished
  /\ \/ s.pending["network_steering_timeout"] > 0
     \/ \A cb \in {"start_network_steering", "start_tc_rejoin", "tc_rejoin_timeout"} :
          s.pending[cb] = 0

(* The switch case of the signal, then rejoin_the_network.  The light      *)
(* switch keeps the answer to its own bdb_cancel_joining for itself.       *)
HandleSignal ==
  /\ signals # <<>>
  /\ signals' = Tail(signals)
  /\ IF Swallows(Head(signals))
       THEN /\ rejoin' = Schedule(rejoin, "touchlink_begin")
            /\ touchlink_start_pending' = FALSE
            /\ UNCHANGED unfinished
       ELSE /\ rejoin' = zigbee_default_signal_handler(rejoin, Head(signals))
            /\ unfinished' = Unfinished(rejoin', Head(signals))
            /\ UNCHANGED touchlink_start_pending
  /\ UNCHANGED <<zboss_vars, build, losses, touchlinks>>

-------------------------------------------------------------------------------
(* Buttons.  user_input_indicate is called by an ISR or by the system work *)
(* queue, which the ZBOSS thread does not preempt.                         *)

user_input_indicate ==
  /\ rejoin.wait_for_user_input /\ ~rejoin.start_scheduled
  /\ rejoin' = Schedule([rejoin EXCEPT !.start_scheduled = TRUE],
                        "start_network_rejoin_ED")
  /\ UNCHANGED <<zboss_vars, signals, app_vars>>

TouchlinkButton ==
  /\ touchlinks < MaxTouchlinks
  /\ rejoin.stack_initialised
  /\ touchlinks' = touchlinks + 1
  /\ rejoin' = Schedule(rejoin, "touchlink_start")
  /\ UNCHANGED <<zboss_vars, signals, build, touchlink_start_pending, losses, unfinished>>

touchlink_initiator_start_cb ==
  /\ Due("touchlink_start") /\ ~Due("skip_startup_continue")
  /\ rejoin' = Schedule(zigbee_network_rejoin_abort(Rest("touchlink_start")),
                        "touchlink_begin")
  /\ UNCHANGED <<zboss_vars, signals, app_vars>>

touchlink_begin ==
  /\ Due("touchlink_begin")
  /\ LET s == [Rest("touchlink_begin") EXCEPT !.commissioning_active = (bdb = "stop")]
     IN  rejoin' = IF bdb = "stop" THEN s ELSE Schedule(s, "touchlink_cancel")
  /\ bdb' = IF bdb = "stop" THEN "touchlink" ELSE bdb
  /\ UNCHANGED <<op_cancelled, tc_rejoin, joined, factory_new, signals, app_vars>>

touchlink_cancel_then_begin ==
  /\ Due("touchlink_cancel")
  /\ rejoin' = Schedule(Rest("touchlink_cancel"), "cancelled")
  /\ op_cancelled' = (op_cancelled \/ CanCancel)
  /\ touchlink_start_pending' = TRUE
  /\ UNCHANGED <<bdb, tc_rejoin, joined, factory_new, signals, build, losses, touchlinks, unfinished>>

-------------------------------------------------------------------------------
(* ZBOSS and the network.                                                  *)

Finish(name, ok) ==
  /\ bdb' = "stop"
  /\ op_cancelled' = FALSE
  /\ signals' = Append(signals, Sig(name, ok))
  /\ factory_new' = (factory_new /\ ~joined')
  /\ UNCHANGED <<rejoin, tc_rejoin, app_vars>>

(* A commissioning that fails may leave the device joined, see the comment *)
(* in start_network_rejoin.                                                *)
MayJoin(ok) ==
  \/ joined' = (ok \/ joined)
  \/ ~ok /\ ~op_cancelled /\ joined' = TRUE

(* A first start that had nothing to steer succeeds off the network.       *)
FirstStartEnds(ok) ==
  /\ bdb \in {"init", "late_init"}
  /\ ok => ~op_cancelled
  /\ MayJoin(ok) \/ (ok /\ UNCHANGED joined)
  /\ Finish("FIRST_START", ok)

RebootEnds(ok) ==
  /\ bdb = "rejoin"
  /\ MayJoin(ok)
  /\ Finish("REBOOT", ok)

SteeringTooLate ==
  /\ bdb \in {"init", "steering"} /\ ~op_cancelled
  /\ bdb' = IF bdb = "init" THEN "late_init" ELSE "late"
  /\ UNCHANGED <<rejoin, op_cancelled, tc_rejoin, joined, factory_new, signals, app_vars>>

SteeringEnds(ok) ==
  /\ bdb \in {"steering", "late"}
  /\ ok => ~op_cancelled
  /\ MayJoin(ok)
  /\ Finish("STEERING", ok)

TouchlinkEnds(ok) ==
  /\ bdb = "touchlink"
  /\ joined' = (joined \/ ok)
  /\ Finish("TOUCHLINK", ok)

TcRejoinEnds(ok) ==
  /\ tc_rejoin
  /\ tc_rejoin' = FALSE
  /\ joined' = (joined \/ ok)
  /\ signals' = Append(signals, Sig("TC_REJOIN_DONE", ok))
  /\ UNCHANGED <<rejoin, bdb, op_cancelled, factory_new, app_vars>>

(* The device leaves the network, perhaps with a reset of what it knows;   *)
(* a steering that runs comes to an end by itself.                         *)
Leave ==
  /\ joined /\ losses < MaxLosses
  /\ joined' = FALSE
  /\ bdb' = IF bdb = "steering" THEN "late" ELSE bdb
  /\ factory_new' \in BOOLEAN
  /\ losses' = losses + 1
  /\ signals' = Append(signals, Sig("LEAVE", TRUE))
  /\ UNCHANGED <<rejoin, op_cancelled, tc_rejoin, build, touchlink_start_pending, touchlinks, unfinished>>

-------------------------------------------------------------------------------
CallbackStep ==
  \/ skip_startup_continue
  \/ start_network_steering \/ network_steering_timeout
  \/ cancel_joining \/ SignalCancelled
  \/ start_tc_rejoin \/ zb_bdb_initiate_tc_rejoin \/ tc_rejoin_timeout
  \/ RejoinTheNetwork \/ StopNetworkRejoin \/ start_network_rejoin_ED
  \/ touchlink_initiator_start_cb \/ touchlink_begin \/ touchlink_cancel_then_begin

ZbossStep ==
  \/ SteeringTooLate
  \/ \E ok \in BOOLEAN :
       \/ FirstStartEnds(ok) \/ RebootEnds(ok) \/ SteeringEnds(ok)
       \/ TouchlinkEnds(ok) \/ TcRejoinEnds(ok)

Next ==
  \/ CallbackStep
  \/ HandleSignal
  \/ ZbossStep
  \/ Leave
  \/ user_input_indicate
  \/ TouchlinkButton

Spec == Init /\ [][Next]_vars

(* ZBOSS runs what it was given and comes to an end with a Touchlink and   *)
(* with a steering that is cancelled or has got beyond that.  All else may *)
(* hang: a Trust Center rejoin, a steering nobody cancels, and the rejoin  *)
(* of a device that is not factory new, which nobody can cancel.           *)
CommissioningEnds == \E ok \in BOOLEAN :
  \/ TouchlinkEnds(ok)
  \/ (op_cancelled \/ bdb \in {"late", "late_init"}) /\ (SteeringEnds(ok) \/ FirstStartEnds(ok))

Fairness ==
  /\ WF_vars(skip_startup_continue)
  /\ WF_vars(start_network_steering) /\ SF_vars(network_steering_timeout)
  /\ WF_vars(cancel_joining) /\ WF_vars(SignalCancelled)
  /\ WF_vars(start_tc_rejoin) /\ WF_vars(zb_bdb_initiate_tc_rejoin)
  /\ SF_vars(tc_rejoin_timeout)
  /\ WF_vars(RejoinTheNetwork) /\ SF_vars(StopNetworkRejoin)
  /\ WF_vars(start_network_rejoin_ED)
  /\ WF_vars(HandleSignal) /\ WF_vars(CommissioningEnds)

FairSpec == Spec /\ Fairness

-------------------------------------------------------------------------------
(* Safety.                                                                 *)

Queued(name) == \E i \in DOMAIN signals : signals[i].name = name

(* Something in ZBOSS or in its scheduler that ends with a signal or with  *)
(* rejoin_the_network.                                                     *)
Underway ==
  \/ \E cb \in {"skip_startup_continue", "start_network_steering", "start_tc_rejoin",
                "initiate_tc_rejoin", "network_steering_timeout", "tc_rejoin_timeout",
                "rejoin_the_network", "cancel_joining", "cancelled"} : Due(cb)
  \/ signals # <<>>
  \/ bdb # "stop"

GivenUp == unfinished /\ ~Due("network_steering_timeout")

OffDuty == bdb = "stop" /\ Settled /\ ~Due("skip_startup_continue")

(* A router that is not joined is never left alone: something that will    *)
(* call the signal handler or rejoin_the_network is under way, and once    *)
(* all signals are handled and BDB is idle the procedure is running.  The  *)
(* exception is a first start that failed, which is only logged.           *)
(* Touchlink, which aborts the procedure, is of a sample that is no        *)
(* router.                                                                 *)
NeverStranded ==
  ~joined /\ ~EndDevice /\ touchlinks = 0 /\ ~GivenUp =>
    /\ Underway
    /\ OffDuty => rejoin.procedure_started

(* is_rejoin_in_progress blocks rejoin_the_network, so it is set only      *)
(* while something is under way that will clear it, unless the user        *)
(* pressed the Touchlink button: the sample then swallows the signal that  *)
(* would have cleared it.                                                  *)
AttemptEnds == touchlinks = 0 /\ ~GivenUp /\ rejoin.in_progress => Underway

(* A procedure that is started, not told to stop and between two attempts  *)
(* has a handler to come that will call rejoin_the_network.                *)
ProcedureResumes ==
  rejoin.procedure_started /\ ~rejoin.stop_requested /\ ~rejoin.in_progress =>
    \/ signals # <<>> \/ bdb # "stop"
    \/ \E cb \in {"rejoin_the_network", "cancel_joining", "cancelled"} : Due(cb)

(* The safe-guard timer of start_network_steering never outlives what it   *)
(* guards, for it would cancel a younger steering: that runs, or has ended *)
(* with a signal to come.  Only the end of a first start leaves it behind. *)
NoStaleGuard ==
  Due("network_steering_timeout") =>
    \/ bdb \notin {"stop", "touchlink"} \/ unfinished
    \/ \E name \in {"STEERING", "REBOOT", "FIRST_START"} : Queued(name)

(* wait_for_user_input is set by the stop alarm: while an end device waits *)
(* for its user the procedure does not run, or only until the attempt in   *)
(* progress ends, whatever late signals force it to start.                 *)
WaitMeansStopped ==
  rejoin.wait_for_user_input => ~rejoin.procedure_started \/ rejoin.stop_requested

(* is_rejoin_start_scheduled suppresses further presses, so it is set only *)
(* while start_network_rejoin_ED is still to come.                         *)
PressIsHeard == rejoin.start_scheduled => Due("start_network_rejoin_ED")

(* The light switch swallows a STEERING_CANCELLED while                    *)
(* touchlink_start_pending is set: one is on its way to be swallowed.      *)
TouchlinkIsAnswered == touchlink_start_pending => Due("cancelled") \/ Queued("STEERING_CANCELLED")

-------------------------------------------------------------------------------
(* Liveness.                                                               *)

Attempt == (bdb = "stop" /\ start_network_steering) \/ zb_bdb_initiate_tc_rejoin

(* "Safe-guard timer to cancel commissioning if it is stuck for some       *)
(* reason" (zigbee_app_utils.c:880): a steering of the procedure that may  *)
(* hang has its timer running, or the timer has already done its work.     *)
SteeringGuarded ==
  /\ bdb = "steering" \/ (bdb = "init" /\ rejoin.procedure_started)
  /\ ~joined /\ ~op_cancelled /\ signals = <<>>
  => Due("network_steering_timeout") \/ Due("cancel_joining")

(* What hangs without a timer of the procedure: the first start, before    *)
(* the procedure runs, and the rejoin BDB does in place of a steering.     *)
Unguarded == bdb = "rejoin" \/ (bdb = "init" /\ ~rejoin.procedure_started)

(* A router that stays off the network keeps trying, although steerings    *)
(* and Trust Center rejoins may hang, as long as no steering loses its     *)
(* timer, what has none comes to an end and no failed first start ends it. *)
KeepsTrying ==
  ~EndDevice /\ <>[]~joined /\ []SteeringGuarded /\ []<>~Unguarded /\ []<>~GivenUp
    => []<><<Attempt>>_vars

(* An end device does not try for ever: without the user there is an end   *)
(* to the attempts unless it joins again and again.                        *)
EndsTrying == (EndDevice /\ []<><<Attempt>>_vars) => ([]<>joined \/ []<><<user_input_indicate>>_vars)

-------------------------------------------------------------------------------
(* What the documentation says and the code does not do.                   *)

(* "user_input_indicate restarts the rejoin procedure if the device did    *)
(* not join the network and is not trying to join a network"               *)
(* (docs/lib/zigbee_app_utils.rst:314): the flag it tests is then set.     *)
UserInputRestarts == EndDevice /\ ~joined /\ ~Underway /\ ~GivenUp => rejoin.wait_for_user_input
===============================================================================
