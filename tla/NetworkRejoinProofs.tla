------------------------- MODULE NetworkRejoinProofs --------------------------
(***************************************************************************)
(* The invariants of NetworkRejoin for every build, any back-off, and any  *)
(* number of alarms, losses of the network and presses of the buttons.     *)
(* In the first invariant the attempts and the alarms are any numbers;     *)
(* their bounds are shown last, from it and of their own.                  *)
(***************************************************************************)
EXTENDS NetworkRejoin, TLAPS

Flags == [
  stack_initialised : BOOLEAN,
  procedure_started : BOOLEAN,
  stop_requested : BOOLEAN,
  in_progress : BOOLEAN,
  attempt_cnt : Nat,
  wait_for_user_input : BOOLEAN,
  start_scheduled : BOOLEAN,
  commissioning_active : BOOLEAN,
  pending : [Callback -> Nat]]

SameFlags(s, t) ==
  /\ t.stack_initialised = s.stack_initialised
  /\ t.procedure_started = s.procedure_started
  /\ t.stop_requested = s.stop_requested
  /\ t.in_progress = s.in_progress
  /\ t.wait_for_user_input = s.wait_for_user_input
  /\ t.start_scheduled = s.start_scheduled
KeepsBut(s, t, cbs) == \A cb \in Callback \ cbs : t.pending[cb] = s.pending[cb]

-------------------------------------------------------------------------------
(* What the functions of the procedure do to the flags and to what ZBOSS   *)
(* owes.                                                                   *)

LEMMA Scheduled ==
  ASSUME NEW s \in Flags, NEW cb \in Callback
  PROVE  /\ Schedule(s, cb) \in Flags
         /\ SameFlags(s, Schedule(s, cb))
         /\ KeepsBut(s, Schedule(s, cb), {cb})
         /\ Schedule(s, cb).pending[cb] > 0
         /\ Schedule(s, cb).pending[cb] <= s.pending[cb] + 1
<1> DEFINE n == IF s.pending[cb] = MaxPending THEN s.pending[cb] ELSE s.pending[cb] + 1
           p == [s.pending EXCEPT ![cb] = n]
           t == [s EXCEPT !.pending = p]
<1>1. Schedule(s, cb) = t
  BY DEF Schedule
<1>2. n \in Nat /\ n > 0 /\ n <= s.pending[cb] + 1
  BY BoundAssumption DEF Flags
<1>3. p \in [Callback -> Nat] /\ p[cb] = n /\ \A c \in Callback \ {cb} : p[c] = s.pending[c]
  <2> HIDE DEF n
  <2> QED BY <1>2 DEF Flags
<1>4. t.pending = p /\ t \in Flags /\ SameFlags(s, t)
  <2> HIDE DEF p
  <2> QED BY <1>3 DEF Flags, SameFlags
<1> HIDE DEF n, p, t
<1> QED
  BY <1>1, <1>2, <1>3, <1>4 DEF KeepsBut

LEMMA Cancelled ==
  ASSUME NEW s \in Flags, NEW cb \in Callback
  PROVE  /\ Cancel(s, cb) \in Flags
         /\ SameFlags(s, Cancel(s, cb))
         /\ KeepsBut(s, Cancel(s, cb), {cb})
         /\ Cancel(s, cb).pending[cb] <= s.pending[cb]
         /\ s.pending[cb] <= 1 => Cancel(s, cb).pending[cb] = 0
<1> DEFINE n == IF s.pending[cb] = 0 THEN 0 ELSE s.pending[cb] - 1
           p == [s.pending EXCEPT ![cb] = n]
           t == [s EXCEPT !.pending = p]
<1>1. Cancel(s, cb) = t
  BY DEF Cancel
<1>2. n \in Nat /\ n <= s.pending[cb] /\ (s.pending[cb] <= 1 => n = 0)
  BY DEF Flags
<1>3. p \in [Callback -> Nat] /\ p[cb] = n /\ \A c \in Callback \ {cb} : p[c] = s.pending[c]
  <2> HIDE DEF n
  <2> QED BY <1>2 DEF Flags
<1>4. t.pending = p /\ t \in Flags /\ SameFlags(s, t)
  <2> HIDE DEF p
  <2> QED BY <1>3 DEF Flags, SameFlags
<1> HIDE DEF n, p, t
<1> QED
  BY <1>1, <1>2, <1>3, <1>4 DEF KeepsBut

LEMMA Finished ==
  ASSUME NEW s \in Flags
  PROVE  LET t == rejoin_attempt_finished(s) IN
         /\ t \in Flags
         /\ ~t.in_progress
         /\ SameFlags(s, [t EXCEPT !.in_progress = s.in_progress])
         /\ KeepsBut(s, t, {"network_steering_timeout", "tc_rejoin_timeout"})
         /\ t.pending["network_steering_timeout"] <= s.pending["network_steering_timeout"]
         /\ s.pending["network_steering_timeout"] <= 1 => t.pending["network_steering_timeout"] = 0
<1> DEFINE a == Cancel(s, "network_steering_timeout")
           b == Cancel(a, "tc_rejoin_timeout")
           t == [b EXCEPT !.in_progress = FALSE]
<1>0. "network_steering_timeout" \in Callback /\ "tc_rejoin_timeout" \in Callback
  BY DEF Callback
<1>1. rejoin_attempt_finished(s) = t
  BY DEF rejoin_attempt_finished
<1>2. /\ a \in Flags /\ SameFlags(s, a) /\ KeepsBut(s, a, {"network_steering_timeout"})
      /\ a.pending["network_steering_timeout"] <= s.pending["network_steering_timeout"]
      /\ s.pending["network_steering_timeout"] <= 1 => a.pending["network_steering_timeout"] = 0
  BY <1>0, Cancelled
<1> HIDE DEF a
<1>3. b \in Flags /\ SameFlags(a, b) /\ KeepsBut(a, b, {"tc_rejoin_timeout"})
  BY <1>0, <1>2, Cancelled
<1> HIDE DEF b
<1>4. t \in Flags /\ ~t.in_progress /\ t.pending = b.pending
      /\ SameFlags(s, [t EXCEPT !.in_progress = s.in_progress])
  BY <1>2, <1>3 DEF Flags, SameFlags
<1> HIDE DEF t
<1>5. KeepsBut(s, t, {"network_steering_timeout", "tc_rejoin_timeout"})
      /\ t.pending["network_steering_timeout"] = a.pending["network_steering_timeout"]
  BY <1>0, <1>2, <1>3, <1>4 DEF KeepsBut
<1> QED
  BY <1>1, <1>2, <1>4, <1>5

LEMMA Started ==
  ASSUME NEW s \in Flags, NEW force \in BOOLEAN
  PROVE  LET t == start_network_rejoin(s, force) IN
         /\ t \in Flags
         /\ t.stack_initialised = s.stack_initialised
         /\ t.in_progress = s.in_progress
         /\ t.wait_for_user_input = s.wait_for_user_input
         /\ t.start_scheduled => s.start_scheduled
         /\ KeepsBut(s, t, {"stop_network_rejoin"})
         /\ ~EndDevice => t.pending = s.pending
         /\ ~MayStart(s, force) => t = s
         /\ MayStart(s, force) => t.procedure_started /\ ~t.stop_requested
<1> DEFINE a == [s EXCEPT !.procedure_started = TRUE, !.stop_requested = FALSE, !.attempt_cnt = 0]
           b == [a EXCEPT !.start_scheduled = FALSE]
           c == Schedule(b, "stop_network_rejoin")
<1>0. start_network_rejoin(s, force) =
        IF ~MayStart(s, force) THEN s ELSE IF EndDevice THEN c ELSE a
  BY DEF start_network_rejoin, StopLater
<1>1. /\ a \in Flags /\ a.pending = s.pending
      /\ a.stack_initialised = s.stack_initialised
      /\ a.in_progress = s.in_progress
      /\ a.wait_for_user_input = s.wait_for_user_input
      /\ a.start_scheduled = s.start_scheduled
      /\ a.procedure_started = TRUE /\ a.stop_requested = FALSE
  BY DEF Flags
<1> HIDE DEF a
<1>2. /\ b \in Flags /\ b.pending = s.pending
      /\ b.stack_initialised = s.stack_initialised
      /\ b.in_progress = s.in_progress
      /\ b.wait_for_user_input = s.wait_for_user_input
      /\ b.start_scheduled = FALSE
      /\ b.procedure_started = TRUE /\ b.stop_requested = FALSE
  BY <1>1 DEF Flags
<1> HIDE DEF b
<1>3. c \in Flags /\ SameFlags(b, c) /\ KeepsBut(b, c, {"stop_network_rejoin"})
  BY <1>2, Scheduled DEF Callback
<1> HIDE DEF c
<1>4. CASE ~MayStart(s, force)
  BY <1>0, <1>4 DEF KeepsBut
<1>5. CASE MayStart(s, force) /\ EndDevice
  BY <1>0, <1>2, <1>3, <1>5 DEF KeepsBut, SameFlags
<1>6. CASE MayStart(s, force) /\ ~EndDevice
  BY <1>0, <1>1, <1>6 DEF KeepsBut
<1> QED
  BY <1>4, <1>5, <1>6

Starts == {"start_network_steering", "start_tc_rejoin"}

LEMMA Halted ==
  ASSUME NEW s \in Flags
  PROVE  LET t == StopAttempt(s) IN
         /\ t \in Flags
         /\ t.stack_initialised = s.stack_initialised
         /\ t.wait_for_user_input = s.wait_for_user_input
         /\ t.start_scheduled = s.start_scheduled
         /\ KeepsBut(s, t, Starts)
         /\ ~s.procedure_started => t = s
         /\ s.procedure_started =>
              \/ ~t.procedure_started /\ ~t.stop_requested /\ ~t.in_progress
              \/ /\ t.procedure_started /\ t.stop_requested
                 /\ t.in_progress = s.in_progress /\ t.pending = s.pending
<1> DEFINE attempt == IF s.pending["start_network_steering"] > 0
                        THEN "start_network_steering" ELSE "start_tc_rejoin"
           a == Cancel(s, attempt)
           b == [a EXCEPT !.procedure_started = FALSE, !.stop_requested = FALSE, !.in_progress = FALSE]
           c == [b EXCEPT !.commissioning_active = FALSE]
           d == [s EXCEPT !.stop_requested = TRUE]
<1>0. StopAttempt(s) = IF ~s.procedure_started THEN s
                       ELSE IF s.pending[attempt] > 0 THEN c ELSE d
  BY DEF StopAttempt, AttemptCancelled, CommissioningIdle
<1>1. attempt \in Starts /\ Starts \subseteq Callback
  BY DEF Starts, Callback
<1> HIDE DEF attempt
<1>2. a \in Flags /\ SameFlags(s, a) /\ KeepsBut(s, a, {attempt})
  BY <1>1, Cancelled
<1> HIDE DEF a
<1>3. /\ b \in Flags /\ b.pending = a.pending
      /\ b.stack_initialised = s.stack_initialised
      /\ b.wait_for_user_input = s.wait_for_user_input
      /\ b.start_scheduled = s.start_scheduled
      /\ b.procedure_started = FALSE /\ b.stop_requested = FALSE /\ b.in_progress = FALSE
  BY <1>2 DEF Flags, SameFlags
<1> HIDE DEF b
<1>4. /\ c \in Flags /\ c.pending = a.pending
      /\ c.stack_initialised = s.stack_initialised
      /\ c.wait_for_user_input = s.wait_for_user_input
      /\ c.start_scheduled = s.start_scheduled
      /\ c.procedure_started = FALSE /\ c.stop_requested = FALSE /\ c.in_progress = FALSE
  BY <1>3 DEF Flags
<1> HIDE DEF c
<1>5. /\ d \in Flags /\ d.pending = s.pending
      /\ d.stack_initialised = s.stack_initialised
      /\ d.wait_for_user_input = s.wait_for_user_input
      /\ d.start_scheduled = s.start_scheduled
      /\ d.procedure_started = s.procedure_started /\ d.stop_requested = TRUE
      /\ d.in_progress = s.in_progress
  BY DEF Flags
<1> HIDE DEF d
<1>6. CASE ~s.procedure_started
  BY <1>0, <1>6 DEF KeepsBut
<1>7. CASE s.procedure_started /\ s.pending[attempt] > 0
  BY <1>0, <1>1, <1>2, <1>4, <1>7 DEF KeepsBut
<1>8. CASE s.procedure_started /\ ~(s.pending[attempt] > 0)
  BY <1>0, <1>5, <1>8 DEF KeepsBut
<1> QED
  BY <1>6, <1>7, <1>8

LEMMA Stopped ==
  ASSUME NEW s \in Flags, NEW scheduled \in BOOLEAN, EndDevice \in BOOLEAN
  PROVE  LET t == stop_network_rejoin(s, scheduled) IN
         /\ t \in Flags
         /\ t.stack_initialised = s.stack_initialised
         /\ t.wait_for_user_input = (IF EndDevice THEN scheduled ELSE s.wait_for_user_input)
         /\ t.start_scheduled = s.start_scheduled
         /\ KeepsBut(s, t, Starts \cup {"stop_network_rejoin"})
         /\ t.pending["stop_network_rejoin"] <= s.pending["stop_network_rejoin"]
         /\ ~s.procedure_started =>
              /\ ~t.procedure_started /\ t.stop_requested = s.stop_requested
              /\ t.in_progress = s.in_progress
              /\ KeepsBut(s, t, {"stop_network_rejoin"})
         /\ s.procedure_started =>
              \/ ~t.procedure_started /\ ~t.stop_requested /\ ~t.in_progress
              \/ /\ t.procedure_started /\ t.stop_requested
                 /\ t.in_progress = s.in_progress
                 /\ KeepsBut(s, t, {"stop_network_rejoin"})
<1> DEFINE a == [s EXCEPT !.wait_for_user_input = scheduled]
           b == StopAttempt(a)
           c == Cancel(b, "stop_network_rejoin")
           d == StopAttempt(s)
<1>0. stop_network_rejoin(s, scheduled) = IF EndDevice THEN c ELSE d
  BY DEF stop_network_rejoin
<1>1. /\ a \in Flags /\ a.pending = s.pending
      /\ a.wait_for_user_input = scheduled
      /\ a.stack_initialised = s.stack_initialised
      /\ a.start_scheduled = s.start_scheduled
      /\ a.procedure_started = s.procedure_started /\ a.stop_requested = s.stop_requested
      /\ a.in_progress = s.in_progress
  BY DEF Flags
<1> HIDE DEF a
<1>2. CASE EndDevice
  <2>1. /\ b \in Flags
        /\ b.stack_initialised = a.stack_initialised
        /\ b.wait_for_user_input = a.wait_for_user_input
        /\ b.start_scheduled = a.start_scheduled
        /\ KeepsBut(a, b, Starts)
        /\ ~a.procedure_started => b = a
        /\ a.procedure_started =>
              \/ ~b.procedure_started /\ ~b.stop_requested /\ ~b.in_progress
              \/ /\ b.procedure_started /\ b.stop_requested
                 /\ b.in_progress = a.in_progress /\ b.pending = a.pending
    BY <1>1, Halted
  <2> HIDE DEF b
  <2>2. /\ c \in Flags /\ SameFlags(b, c) /\ KeepsBut(b, c, {"stop_network_rejoin"})
        /\ c.pending["stop_network_rejoin"] <= b.pending["stop_network_rejoin"]
    BY <2>1, Cancelled DEF Callback
  <2> HIDE DEF c
  <2>3. "stop_network_rejoin" \in Callback \ Starts
    BY DEF Callback, Starts
  <2> QED
    BY <1>0, <1>1, <1>2, <2>1, <2>2, <2>3 DEF SameFlags, KeepsBut
<1>3. CASE ~EndDevice
  <2>1. /\ d \in Flags
        /\ d.stack_initialised = s.stack_initialised
        /\ d.wait_for_user_input = s.wait_for_user_input
        /\ d.start_scheduled = s.start_scheduled
        /\ KeepsBut(s, d, Starts)
        /\ ~s.procedure_started => d = s
        /\ s.procedure_started =>
              \/ ~d.procedure_started /\ ~d.stop_requested /\ ~d.in_progress
              \/ /\ d.procedure_started /\ d.stop_requested
                 /\ d.in_progress = s.in_progress /\ d.pending = s.pending
    BY Halted
  <2> HIDE DEF d
  <2>2. "stop_network_rejoin" \in Callback \ Starts /\ s.pending["stop_network_rejoin"] \in Nat
    BY DEF Callback, Starts, Flags
  <2> QED
    BY <1>0, <1>3, <2>1, <2>2 DEF KeepsBut
<1> QED
  BY <1>2, <1>3

(* After rejoin_the_network the procedure is stopped, or an attempt runs.  *)
LEMMA Rejoined ==
  ASSUME NEW s \in Flags
  PROVE  LET t == rejoin_the_network(s) IN
         /\ t \in Flags
         /\ t.stack_initialised = s.stack_initialised
         /\ t.wait_for_user_input = s.wait_for_user_input
         /\ t.start_scheduled = s.start_scheduled
         /\ KeepsBut(s, t, Starts)
         /\ ~(s.stack_initialised /\ s.procedure_started) => t = s
         /\ s.stack_initialised /\ s.procedure_started /\ s.stop_requested =>
              /\ ~t.procedure_started /\ ~t.stop_requested
              /\ t.in_progress = s.in_progress /\ t.pending = s.pending
         /\ s.stack_initialised /\ s.procedure_started /\ ~s.stop_requested =>
              /\ t.procedure_started /\ ~t.stop_requested /\ t.in_progress
              /\ \/ s.in_progress /\ t.pending = s.pending
                 \/ \E cb \in Starts : t.pending[cb] > 0
<1> DEFINE a == [s EXCEPT !.procedure_started = FALSE, !.stop_requested = FALSE]
<1>1. CASE ~(s.stack_initialised /\ s.procedure_started)
  <2>1. rejoin_the_network(s) = s
    BY <1>1 DEF rejoin_the_network
  <2> QED
    BY <1>1, <2>1 DEF KeepsBut
<1>2. CASE s.stack_initialised /\ s.procedure_started /\ s.stop_requested
  <2>1. rejoin_the_network(s) = a
    BY <1>2 DEF rejoin_the_network
  <2>2. /\ a \in Flags /\ a.pending = s.pending
        /\ a.stack_initialised = s.stack_initialised
        /\ a.wait_for_user_input = s.wait_for_user_input
        /\ a.start_scheduled = s.start_scheduled
        /\ a.procedure_started = FALSE /\ a.stop_requested = FALSE
        /\ a.in_progress = s.in_progress
    BY DEF Flags
  <2> HIDE DEF a
  <2> QED
    BY <1>2, <2>1, <2>2 DEF KeepsBut
<1>3. CASE s.stack_initialised /\ s.procedure_started /\ ~s.stop_requested /\ s.in_progress
  <2>1. rejoin_the_network(s) = s
    BY <1>3 DEF rejoin_the_network
  <2> QED
    BY <1>3, <2>1 DEF KeepsBut
<1>4. CASE s.stack_initialised /\ s.procedure_started /\ ~s.stop_requested /\ ~s.in_progress
  <2> DEFINE capped == 2^s.attempt_cnt > IntervalMax
             timeout_s == IF capped THEN IntervalMax ELSE 2^s.attempt_cnt
             tc == TcRejoin /\ timeout_s > TcThreshold /\ ~factory_new
             cnt == IF capped THEN s.attempt_cnt ELSE s.attempt_cnt + 1
             active == s.commissioning_active \/ tc
             b == [s EXCEPT !.attempt_cnt = cnt, !.commissioning_active = active, !.in_progress = TRUE]
             cb == IF tc THEN "start_tc_rejoin" ELSE "start_network_steering"
             c == Schedule(b, cb)
  <2>1. rejoin_the_network(s) = c
    BY <1>4 DEF rejoin_the_network, NextAttempt, CountAttempt
  <2>2. cnt \in Nat /\ active \in BOOLEAN
    <3> HIDE DEF capped
    <3> QED BY DEF Flags
  <2>3. cb \in Starts /\ Starts \subseteq Callback
    BY DEF Starts, Callback
  <2> HIDE DEF cnt, active, cb
  <2>4. /\ b \in Flags /\ b.pending = s.pending
        /\ b.stack_initialised = s.stack_initialised
        /\ b.wait_for_user_input = s.wait_for_user_input
        /\ b.start_scheduled = s.start_scheduled
        /\ b.procedure_started = s.procedure_started /\ b.stop_requested = s.stop_requested
        /\ b.in_progress = TRUE
    BY <2>2 DEF Flags
  <2> HIDE DEF b
  <2>5. c \in Flags /\ SameFlags(b, c) /\ KeepsBut(b, c, {cb}) /\ c.pending[cb] > 0
    BY <2>3, <2>4, Scheduled
  <2> HIDE DEF c
  <2> QED
    BY <1>4, <2>1, <2>3, <2>4, <2>5 DEF KeepsBut, SameFlags
<1> QED
  BY <1>1, <1>2, <1>3, <1>4

LEMMA Aborted ==
  ASSUME NEW s \in Flags
  PROVE  LET t == zigbee_network_rejoin_abort(s) IN
         /\ t \in Flags
         /\ t.stack_initialised = s.stack_initialised
         /\ ~t.procedure_started /\ ~t.stop_requested /\ ~t.in_progress
         /\ ~t.wait_for_user_input /\ ~t.start_scheduled
         /\ \A cb \in Callback : t.pending[cb] <= s.pending[cb]
         /\ KeepsBut(s, t, Starts \cup {"network_steering_timeout", "tc_rejoin_timeout",
                                        "rejoin_the_network"})
<1> DEFINE gone == {"network_steering_timeout", "tc_rejoin_timeout", "rejoin_the_network",
                    "start_network_steering", "start_tc_rejoin"}
           p == [cb \in Callback |-> IF cb \in gone THEN Cancel(s, cb).pending[cb] ELSE s.pending[cb]]
           t == [s EXCEPT !.pending = p, !.wait_for_user_input = FALSE, !.start_scheduled = FALSE,
                          !.stop_requested = FALSE, !.in_progress = FALSE,
                          !.procedure_started = FALSE, !.attempt_cnt = 0,
                          !.commissioning_active = FALSE]
<1>1. zigbee_network_rejoin_abort(s) = t
  BY DEF zigbee_network_rejoin_abort
<1>2. ASSUME NEW cb \in Callback
      PROVE  p[cb] \in Nat /\ p[cb] <= s.pending[cb] /\ (cb \notin gone => p[cb] = s.pending[cb])
  <2>1. Cancel(s, cb) \in Flags /\ Cancel(s, cb).pending[cb] <= s.pending[cb]
    BY Cancelled
  <2>2. Cancel(s, cb).pending[cb] \in Nat /\ s.pending[cb] \in Nat
    BY <2>1 DEF Flags
  <2> QED
    BY <2>1, <2>2
<1>3. p \in [Callback -> Nat]
  BY <1>2
<1>4. gone = Starts \cup {"network_steering_timeout", "tc_rejoin_timeout", "rejoin_the_network"}
  BY DEF Starts
<1> HIDE DEF p, gone
<1>5. /\ t \in Flags /\ t.pending = p
      /\ t.stack_initialised = s.stack_initialised
      /\ ~t.procedure_started /\ ~t.stop_requested /\ ~t.in_progress
      /\ ~t.wait_for_user_input /\ ~t.start_scheduled
  BY <1>3 DEF Flags
<1> HIDE DEF t
<1> QED
  BY <1>1, <1>2, <1>4, <1>5 DEF KeepsBut

-------------------------------------------------------------------------------
(* The default signal handler.                                             *)

IsStart(sig) == \/ sig.name \in {"LEAVE", "STEERING_CANCELLED"}
                \/ sig.name = "FIRST_START" /\ sig.ok
                \/ sig.name \in JoinSignals /\ ~sig.ok
IsStop(sig) == sig.name \in JoinSignals /\ sig.ok
Ends(sig) == sig.name \in JoinSignals \cup {"STEERING_CANCELLED"}

(* Flags that agree with each other.                                       *)
Sound(s) ==
  /\ s.procedure_started => s.stack_initialised
  /\ s.wait_for_user_input => EndDevice
  /\ s.stop_requested => EndDevice
  /\ s.wait_for_user_input => ~s.procedure_started \/ s.stop_requested
(* A started procedure that was not told to stop attempts to join.         *)
Attempts(s) == s.procedure_started /\ ~s.stop_requested => s.in_progress

Guards == {"network_steering_timeout", "tc_rejoin_timeout"}

(* The case of a signal, other than the one of the start-up: what it       *)
(* leaves for rejoin_the_network.                                          *)
CaseFlags(s, t) ==
  /\ t \in Flags
  /\ t.stack_initialised = s.stack_initialised
  /\ t.wait_for_user_input => EndDevice
  /\ t.wait_for_user_input => ~t.procedure_started \/ t.stop_requested
  /\ t.start_scheduled => s.start_scheduled
  /\ t.procedure_started => t.stack_initialised
  /\ t.stop_requested => t.procedure_started \/ EndDevice
CasePending(s, t) ==
  /\ KeepsBut(s, t, Starts \cup Guards \cup {"stop_network_rejoin"})
  /\ t.pending["stop_network_rejoin"] > 0 => EndDevice
  /\ t.pending["network_steering_timeout"] <= s.pending["network_steering_timeout"]
CaseEnds(s, t, sig) ==
  /\ Ends(sig) => ~t.in_progress
  /\ Ends(sig) /\ s.pending["network_steering_timeout"] <= 1 =>
       t.pending["network_steering_timeout"] = 0
  /\ ~Ends(sig) => t.in_progress = s.in_progress
                   /\ KeepsBut(s, t, {"stop_network_rejoin"})
CaseStarts(s, t, sig) ==
  /\ ~EndDevice /\ ~joined /\ IsStart(sig) /\ s.stack_initialised =>
       t.procedure_started /\ ~t.stop_requested
  /\ ~EndDevice /\ ~IsStop(sig) /\ s.procedure_started =>
       t.procedure_started /\ ~t.stop_requested
CaseQuiet(s, t, sig) ==
  ~IsStart(sig) /\ ~IsStop(sig) /\ ~s.procedure_started =>
    SameFlags(s, t) /\ t.pending = s.pending
CaseOf(s, t, sig) ==
  /\ CaseFlags(s, t) /\ CasePending(s, t) /\ CaseEnds(s, t, sig) /\ CaseStarts(s, t, sig)
  /\ CaseQuiet(s, t, sig)

LEMMA SignalCases ==
  ASSUME NEW s \in Flags, NEW sig \in Signal, sig.name # "SKIP_STARTUP",
         EndDevice \in BOOLEAN, joined \in BOOLEAN, Sound(s),
         s.pending["stop_network_rejoin"] > 0 => EndDevice
  PROVE  CaseOf(s, SignalCase(s, sig), sig)
<1> DEFINE f == rejoin_attempt_finished(s)
           i == CommissioningIdle(f)
<1>0. /\ "stop_network_rejoin" \in Callback /\ Starts \subseteq Callback /\ Guards \subseteq Callback
      /\ "stop_network_rejoin" \notin Starts \cup Guards
      /\ "network_steering_timeout" \in Guards /\ "network_steering_timeout" \notin Starts
      /\ s.pending["network_steering_timeout"] \in Nat
  BY DEF Callback, Starts, Guards, Flags
<1>1. /\ f \in Flags /\ ~f.in_progress
      /\ f.stack_initialised = s.stack_initialised
      /\ f.procedure_started = s.procedure_started
      /\ f.stop_requested = s.stop_requested
      /\ f.wait_for_user_input = s.wait_for_user_input
      /\ f.start_scheduled = s.start_scheduled
      /\ KeepsBut(s, f, Guards)
      /\ f.pending["network_steering_timeout"] <= s.pending["network_steering_timeout"]
      /\ s.pending["network_steering_timeout"] <= 1 => f.pending["network_steering_timeout"] = 0
  <2>1. /\ f \in Flags /\ ~f.in_progress
        /\ SameFlags(s, [f EXCEPT !.in_progress = s.in_progress])
        /\ KeepsBut(s, f, {"network_steering_timeout", "tc_rejoin_timeout"})
        /\ f.pending["network_steering_timeout"] <= s.pending["network_steering_timeout"]
        /\ s.pending["network_steering_timeout"] <= 1 => f.pending["network_steering_timeout"] = 0
    BY Finished
  <2> HIDE DEF f
  <2> QED
    BY <2>1 DEF SameFlags, Guards
<1> HIDE DEF f
<1>2. /\ i \in Flags /\ i.pending = f.pending /\ SameFlags(f, i)
  BY <1>1 DEF CommissioningIdle, Flags, SameFlags
<1> HIDE DEF i
<1>3. ASSUME NEW a \in {f, i}, NEW force \in BOOLEAN, Ends(sig), ~IsStop(sig), force
      PROVE  CaseOf(s, start_network_rejoin(a, force), sig)
  <2> DEFINE t == start_network_rejoin(a, force)
  <2>1. /\ a \in Flags /\ a.pending = f.pending /\ SameFlags(f, a)
    BY <1>1, <1>2 DEF SameFlags
  <2>2. /\ t \in Flags
        /\ t.stack_initialised = a.stack_initialised
        /\ t.in_progress = a.in_progress
        /\ t.wait_for_user_input = a.wait_for_user_input
        /\ t.start_scheduled => a.start_scheduled
        /\ KeepsBut(a, t, {"stop_network_rejoin"})
        /\ ~EndDevice => t.pending = a.pending
        /\ ~MayStart(a, force) => t = a
        /\ MayStart(a, force) => t.procedure_started /\ ~t.stop_requested
    BY <2>1, Started
  <2> HIDE DEF t
  <2>3. /\ KeepsBut(s, t, Guards \cup {"stop_network_rejoin"})
        /\ t.pending["network_steering_timeout"] = f.pending["network_steering_timeout"]
    BY <1>0, <1>1, <2>1, <2>2 DEF KeepsBut
  <2>4. t.pending["stop_network_rejoin"] > 0 => EndDevice
    BY <1>0, <1>1, <2>1, <2>2 DEF KeepsBut
  <2>5. KeepsBut(s, t, Starts \cup Guards \cup {"stop_network_rejoin"})
    BY <2>3 DEF KeepsBut
  <2>6. MayStart(a, force) <=> a.stack_initialised /\ ~(EndDevice /\ a.wait_for_user_input)
                                /\ ~a.procedure_started
    BY <1>3 DEF MayStart
  <2>7. CaseFlags(s, t)
    BY <1>1, <2>1, <2>2, <2>6 DEF CaseFlags, SameFlags, Sound
  <2>8. CasePending(s, t)
    BY <1>0, <1>1, <2>3, <2>4, <2>5 DEF CasePending
  <2>9. CaseEnds(s, t, sig)
    BY <1>1, <1>3, <2>1, <2>2, <2>3 DEF CaseEnds, SameFlags
  <2>10. CaseStarts(s, t, sig)
    BY <1>1, <2>1, <2>2, <2>6 DEF CaseStarts, SameFlags, Sound
  <2>11. IsStart(sig)
    BY <1>3 DEF IsStart, IsStop, Ends
  <2> QED
    BY <2>7, <2>8, <2>9, <2>10, <2>11 DEF CaseOf, CaseQuiet, t
<1>4. CASE IsStop(sig)
  <2> DEFINE t == stop_network_rejoin(i, FALSE)
  <2>1. SignalCase(s, sig) = t
    BY <1>4 DEF SignalCase, IsStop, JoinSignals, i, f
  <2>2. /\ t \in Flags
        /\ t.stack_initialised = i.stack_initialised
        /\ t.wait_for_user_input = (IF EndDevice THEN FALSE ELSE i.wait_for_user_input)
        /\ t.start_scheduled = i.start_scheduled
        /\ KeepsBut(i, t, Starts \cup {"stop_network_rejoin"})
        /\ t.pending["stop_network_rejoin"] <= i.pending["stop_network_rejoin"]
        /\ ~i.procedure_started =>
             /\ ~t.procedure_started /\ t.stop_requested = i.stop_requested
             /\ t.in_progress = i.in_progress
             /\ KeepsBut(i, t, {"stop_network_rejoin"})
        /\ i.procedure_started =>
             \/ ~t.procedure_started /\ ~t.stop_requested /\ ~t.in_progress
             \/ /\ t.procedure_started /\ t.stop_requested
                /\ t.in_progress = i.in_progress
                /\ KeepsBut(i, t, {"stop_network_rejoin"})
    BY <1>2, Stopped
  <2> HIDE DEF t
  <2>3. /\ KeepsBut(s, t, Starts \cup Guards \cup {"stop_network_rejoin"})
        /\ t.pending["network_steering_timeout"] = f.pending["network_steering_timeout"]
    BY <1>0, <1>1, <1>2, <2>2 DEF KeepsBut
  <2>4. t.pending["stop_network_rejoin"] > 0 => EndDevice
    <3>1. i.pending["stop_network_rejoin"] = s.pending["stop_network_rejoin"]
          /\ t.pending["stop_network_rejoin"] \in Nat /\ s.pending["stop_network_rejoin"] \in Nat
      BY <1>0, <1>1, <1>2, <2>2 DEF KeepsBut, Flags
    <3> QED
      BY <2>2, <3>1
  <2>5. Ends(sig) /\ ~IsStart(sig)
    BY <1>4 DEF IsStop, IsStart, Ends, JoinSignals
  <2>6. CaseFlags(s, t)
    BY <1>1, <1>2, <2>2 DEF CaseFlags, SameFlags, Sound
  <2>7. CasePending(s, t)
    BY <1>0, <1>1, <1>2, <2>3, <2>4 DEF CasePending
  <2>8. CaseEnds(s, t, sig)
    BY <1>1, <1>2, <2>2, <2>3, <2>5 DEF CaseEnds, SameFlags
  <2>9. CaseStarts(s, t, sig)
    BY <1>1, <1>2, <1>4, <2>5 DEF CaseStarts
  <2> QED
    BY <1>4, <2>6, <2>7, <2>8, <2>9, <2>1 DEF CaseOf, CaseQuiet
<1>5. CASE ~IsStop(sig) /\ sig.name \in {"REBOOT", "STEERING_CANCELLED"}
  <2>1. SignalCase(s, sig) = start_network_rejoin(f, TRUE) /\ Ends(sig)
    BY <1>5 DEF SignalCase, IsStop, JoinSignals, Ends, f
  <2> QED
    BY <1>3, <1>5, <2>1
<1>6. CASE ~IsStop(sig) /\ sig.name \in {"STEERING", "TC_REJOIN_DONE"}
  <2>1. SignalCase(s, sig) = start_network_rejoin(i, TRUE) /\ Ends(sig)
    BY <1>6 DEF SignalCase, IsStop, JoinSignals, Ends, i, f
  <2> QED
    BY <1>3, <1>6, <2>1
<1>7. CASE sig.name = "LEAVE" \/ (sig.name = "FIRST_START" /\ sig.ok)
  <2> DEFINE t == start_network_rejoin(s, FALSE)
  <2>1. SignalCase(s, sig) = t
    BY <1>7 DEF SignalCase, JoinSignals
  <2>2. /\ t \in Flags
        /\ t.stack_initialised = s.stack_initialised
        /\ t.in_progress = s.in_progress
        /\ t.wait_for_user_input = s.wait_for_user_input
        /\ t.start_scheduled => s.start_scheduled
        /\ KeepsBut(s, t, {"stop_network_rejoin"})
        /\ ~EndDevice => t.pending = s.pending
        /\ ~MayStart(s, FALSE) => t = s
        /\ MayStart(s, FALSE) => t.procedure_started /\ ~t.stop_requested
    BY Started
  <2> HIDE DEF t
  <2>3. /\ KeepsBut(s, t, Starts \cup Guards \cup {"stop_network_rejoin"})
        /\ t.pending["network_steering_timeout"] = s.pending["network_steering_timeout"]
    BY <1>0, <2>2 DEF KeepsBut
  <2>4. MayStart(s, FALSE) <=> ~joined /\ s.stack_initialised
                                /\ ~(EndDevice /\ s.wait_for_user_input) /\ ~s.procedure_started
    BY DEF MayStart
  <2>5. ~Ends(sig) /\ ~IsStop(sig) /\ IsStart(sig)
    BY <1>7 DEF IsStop, IsStart, Ends, JoinSignals
  <2>6. CaseFlags(s, t)
    BY <2>2, <2>4 DEF CaseFlags, Sound
  <2>7. CasePending(s, t)
    BY <1>0, <2>2, <2>3 DEF CasePending
  <2>8. CaseEnds(s, t, sig)
    BY <2>2, <2>5 DEF CaseEnds
  <2>9. CaseStarts(s, t, sig)
    BY <2>2, <2>4 DEF CaseStarts, Sound
  <2> QED
    BY <2>5, <2>6, <2>7, <2>8, <2>9, <2>1 DEF CaseOf, CaseQuiet
<1>8. CASE sig.name = "TOUCHLINK" \/ (sig.name = "FIRST_START" /\ ~sig.ok)
  <2> DEFINE t == IF sig.name = "TOUCHLINK" THEN CommissioningIdle(s) ELSE s
  <2>1. SignalCase(s, sig) = t
    BY <1>8 DEF SignalCase, JoinSignals
  <2>2. /\ t \in Flags /\ t.pending = s.pending /\ SameFlags(s, t)
    BY DEF CommissioningIdle, Flags, SameFlags
  <2> HIDE DEF t
  <2>3. ~Ends(sig) /\ ~IsStop(sig) /\ ~IsStart(sig)
    BY <1>8 DEF IsStop, IsStart, Ends, JoinSignals
  <2>4. CaseFlags(s, t)
    BY <2>2 DEF CaseFlags, Sound, SameFlags
  <2>5. CasePending(s, t)
    BY <1>0, <2>2 DEF CasePending, KeepsBut
  <2>6. CaseEnds(s, t, sig)
    BY <2>2, <2>3 DEF CaseEnds, SameFlags, KeepsBut
  <2>7. CaseStarts(s, t, sig)
    BY <2>2, <2>3 DEF CaseStarts, Sound, SameFlags
  <2> QED
    BY <2>2, <2>4, <2>5, <2>6, <2>7, <2>1 DEF CaseOf, CaseQuiet
<1> QED
  BY <1>4, <1>5, <1>6, <1>7, <1>8 DEF Signal, JoinSignals

LEMMA Handled ==
  ASSUME NEW s \in Flags, NEW sig \in Signal, sig.name # "SKIP_STARTUP",
         EndDevice \in BOOLEAN, joined \in BOOLEAN, Sound(s),
         s.pending["stop_network_rejoin"] > 0 => EndDevice
  PROVE  LET t == zigbee_default_signal_handler(s, sig) IN
         /\ t \in Flags /\ Sound(t) /\ Attempts(t)
         /\ t.stack_initialised = s.stack_initialised
         /\ t.start_scheduled => s.start_scheduled
         /\ CasePending(s, t)
         /\ Ends(sig) /\ s.pending["network_steering_timeout"] <= 1 =>
              t.pending["network_steering_timeout"] = 0
         /\ t.in_progress => \/ \E cb \in Starts : t.pending[cb] > 0
                             \/ /\ ~Ends(sig) /\ s.in_progress
                                /\ KeepsBut(s, t, {"stop_network_rejoin"})
         /\ ~EndDevice /\ ~joined /\ IsStart(sig) /\ s.stack_initialised => t.procedure_started
         /\ ~EndDevice /\ ~IsStop(sig) /\ s.procedure_started => t.procedure_started
         /\ CaseQuiet(s, t, sig)
<1> DEFINE c == SignalCase(s, sig)
           t == rejoin_the_network(c)
<1>1. /\ CaseFlags(s, c) /\ CasePending(s, c) /\ CaseEnds(s, c, sig) /\ CaseStarts(s, c, sig)
      /\ CaseQuiet(s, c, sig)
  BY SignalCases DEF CaseOf
<1> HIDE DEF c
<1>2. c \in Flags
  BY <1>1 DEF CaseFlags
<1>3. /\ t \in Flags
      /\ t.stack_initialised = c.stack_initialised
      /\ t.wait_for_user_input = c.wait_for_user_input
      /\ t.start_scheduled = c.start_scheduled
      /\ KeepsBut(c, t, Starts)
      /\ ~(c.stack_initialised /\ c.procedure_started) => t = c
      /\ c.stack_initialised /\ c.procedure_started /\ c.stop_requested =>
           /\ ~t.procedure_started /\ ~t.stop_requested
           /\ t.in_progress = c.in_progress /\ t.pending = c.pending
      /\ c.stack_initialised /\ c.procedure_started /\ ~c.stop_requested =>
           /\ t.procedure_started /\ ~t.stop_requested /\ t.in_progress
           /\ \/ c.in_progress /\ t.pending = c.pending
              \/ \E cb \in Starts : t.pending[cb] > 0
  BY <1>2, Rejoined
<1>4. zigbee_default_signal_handler(s, sig) = t
  BY DEF zigbee_default_signal_handler, c
<1> HIDE DEF t
<1>5. Sound(t) /\ Attempts(t)
  BY <1>1, <1>3 DEF CaseFlags, Sound, Attempts
<1>6. /\ t.stack_initialised = s.stack_initialised
      /\ t.start_scheduled => s.start_scheduled
  BY <1>1, <1>3 DEF CaseFlags
<1>7. /\ CasePending(s, t)
      /\ Ends(sig) /\ s.pending["network_steering_timeout"] <= 1 =>
           t.pending["network_steering_timeout"] = 0
  <2>1. /\ {"stop_network_rejoin", "network_steering_timeout"} \subseteq Callback \ Starts
    BY DEF Callback, Starts
  <2>2. KeepsBut(s, t, Starts \cup Guards \cup {"stop_network_rejoin"})
    BY <1>1, <1>3 DEF CasePending, KeepsBut
  <2> QED
    BY <1>1, <1>3, <2>1 DEF CasePending, CaseEnds, KeepsBut
<1>8. ASSUME t.in_progress, ~(\E cb \in Starts : t.pending[cb] > 0)
      PROVE  ~Ends(sig) /\ s.in_progress /\ KeepsBut(s, t, {"stop_network_rejoin"})
  <2>1. c.in_progress /\ t.pending = c.pending
    BY <1>3, <1>8
  <2>2. ~Ends(sig)
    BY <1>1, <2>1 DEF CaseEnds
  <2>3. c.in_progress = s.in_progress /\ KeepsBut(s, c, {"stop_network_rejoin"})
    BY <1>1, <2>2 DEF CaseEnds
  <2> QED
    BY <2>1, <2>2, <2>3 DEF KeepsBut
<1>9. /\ ~EndDevice /\ ~joined /\ IsStart(sig) /\ s.stack_initialised => t.procedure_started
      /\ ~EndDevice /\ ~IsStop(sig) /\ s.procedure_started => t.procedure_started
  BY <1>1, <1>3 DEF CaseFlags, CaseStarts
<1>10. CaseQuiet(s, t, sig)
  BY <1>1, <1>3 DEF CaseQuiet, SameFlags
<1> QED
  BY <1>3, <1>4, <1>5, <1>6, <1>7, <1>8, <1>9, <1>10

LEMMA HandledStartup ==
  ASSUME NEW s \in Flags, NEW sig \in Signal, sig.name = "SKIP_STARTUP", ~s.procedure_started
  PROVE  LET t == zigbee_default_signal_handler(s, sig) IN
         /\ t \in Flags /\ t.stack_initialised
         /\ SameFlags(s, [t EXCEPT !.stack_initialised = s.stack_initialised])
         /\ KeepsBut(s, t, {"skip_startup_continue"})
         /\ t.pending["skip_startup_continue"] > 0
         /\ t.pending["skip_startup_continue"] <= s.pending["skip_startup_continue"] + 1
<1> DEFINE a == [s EXCEPT !.stack_initialised = TRUE]
           b == Schedule(a, "skip_startup_continue")
<1>1. SignalCase(s, sig) = b
  BY DEF SignalCase, JoinSignals
<1>2. /\ a \in Flags /\ a.pending = s.pending
      /\ a.stack_initialised = TRUE
      /\ a.procedure_started = s.procedure_started
      /\ a.stop_requested = s.stop_requested
      /\ a.in_progress = s.in_progress
      /\ a.wait_for_user_input = s.wait_for_user_input
      /\ a.start_scheduled = s.start_scheduled
  BY DEF Flags
<1> HIDE DEF a
<1>3. /\ b \in Flags /\ SameFlags(a, b) /\ KeepsBut(a, b, {"skip_startup_continue"})
      /\ b.pending["skip_startup_continue"] > 0
      /\ b.pending["skip_startup_continue"] <= a.pending["skip_startup_continue"] + 1
  BY <1>2, Scheduled DEF Callback
<1> HIDE DEF b
<1>4. rejoin_the_network(b) = b
  BY <1>2, <1>3 DEF rejoin_the_network, SameFlags
<1>5. zigbee_default_signal_handler(s, sig) = b
  BY <1>1, <1>4 DEF zigbee_default_signal_handler
<1>6. SameFlags(s, [b EXCEPT !.stack_initialised = s.stack_initialised])
  BY <1>2, <1>3 DEF SameFlags
<1> QED
  BY <1>2, <1>3, <1>5, <1>6 DEF SameFlags, KeepsBut

-------------------------------------------------------------------------------
(* Signals on their way.                                                   *)

Has(q, name) == \E i \in 1..Len(q) : q[i].name = name
(* Commissioning that ends with one of these signals.                      *)
Commissioning == {"init", "late_init", "steering", "late", "rejoin"}
IsEnd(sig) == sig.name \in {"STEERING", "REBOOT", "FIRST_START"}
HasEnd(q) == \E i \in 1..Len(q) : IsEnd(q[i])
(* Once these signals are handled the procedure of a router runs.          *)
WillStart(q) ==
  \E i \in 1..Len(q) : IsStart(q[i]) /\ \A j \in i+1..Len(q) : ~IsStop(q[j])
WontStop(q) == \A i \in 1..Len(q) : ~IsStop(q[i])

LEMMA Appended ==
  ASSUME NEW q \in Seq(Signal), NEW sig \in Signal
  PROVE  /\ Append(q, sig) \in Seq(Signal) /\ Append(q, sig) # <<>>
         /\ \A name : Has(Append(q, sig), name) <=> Has(q, name) \/ sig.name = name
         /\ HasEnd(Append(q, sig)) <=> HasEnd(q) \/ IsEnd(sig)
         /\ WillStart(q) /\ ~IsStop(sig) => WillStart(Append(q, sig))
         /\ IsStart(sig) => WillStart(Append(q, sig))
         /\ WontStop(q) /\ ~IsStop(sig) => WontStop(Append(q, sig))
<1> DEFINE a == Append(q, sig)
<1>1. /\ a \in Seq(Signal) /\ Len(a) = Len(q) + 1 /\ Len(q) \in Nat
      /\ a[Len(q) + 1] = sig /\ \A i \in 1..Len(q) : a[i] = q[i]
  OBVIOUS
<1> HIDE DEF a
<1>2. \A name : Has(a, name) <=> Has(q, name) \/ sig.name = name
  BY <1>1 DEF Has
<1>7. HasEnd(a) <=> HasEnd(q) \/ IsEnd(sig)
  BY <1>1 DEF HasEnd
<1>3. ASSUME WillStart(q), ~IsStop(sig)
      PROVE  WillStart(a)
  <2>1. PICK i \in 1..Len(q) : IsStart(q[i]) /\ \A j \in i+1..Len(q) : ~IsStop(q[j])
    BY <1>3 DEF WillStart
  <2>2. i \in 1..Len(a) /\ IsStart(a[i])
    BY <1>1, <2>1
  <2>3. ASSUME NEW j \in i+1..Len(a)
        PROVE  ~IsStop(a[j])
    <3>1. CASE j = Len(q) + 1
      BY <1>1, <1>3, <3>1
    <3>2. CASE j # Len(q) + 1
      <4>1. j \in i+1..Len(q) /\ j \in 1..Len(q)
        BY <1>1, <3>2
      <4> QED
        BY <1>1, <2>1, <4>1
    <3> QED
      BY <3>1, <3>2
  <2> QED
    BY <2>2, <2>3 DEF WillStart
<1>4. ASSUME IsStart(sig)
      PROVE  WillStart(a)
  <2>1. Len(q) + 1 \in 1..Len(a) /\ IsStart(a[Len(q) + 1])
    BY <1>1, <1>4
  <2>2. \A j \in (Len(q) + 1) + 1..Len(a) : ~IsStop(a[j])
    BY <1>1
  <2> QED
    BY <2>1, <2>2 DEF WillStart
<1>5. WontStop(q) /\ ~IsStop(sig) => WontStop(a)
  BY <1>1 DEF WontStop
<1>6. a # <<>>
  BY <1>1
<1> QED
  BY <1>1, <1>2, <1>3, <1>4, <1>5, <1>6, <1>7 DEF a

LEMMA Taken ==
  ASSUME NEW q \in Seq(Signal), q # <<>>
  PROVE  /\ Head(q) \in Signal /\ Tail(q) \in Seq(Signal)
         /\ \A name : Has(q, name) <=> Head(q).name = name \/ Has(Tail(q), name)
         /\ HasEnd(q) <=> IsEnd(Head(q)) \/ HasEnd(Tail(q))
         /\ WillStart(q) => WillStart(Tail(q)) \/ (IsStart(Head(q)) /\ WontStop(Tail(q)))
         /\ WontStop(q) => ~IsStop(Head(q)) /\ WontStop(Tail(q))
         /\ Len(Tail(q)) = Len(q) - 1
<1> DEFINE r == Tail(q)
           h == Head(q)
<1>1. /\ h \in Signal /\ r \in Seq(Signal) /\ Len(q) \in Nat \ {0} /\ Len(r) = Len(q) - 1
      /\ h = q[1] /\ \A i \in 1..Len(r) : r[i] = q[i + 1]
  OBVIOUS
<1> HIDE DEF r, h
<1>2. \A i \in 1..Len(q) : i = 1 \/ (i - 1 \in 1..Len(r) /\ r[i - 1] = q[i])
  <2> TAKE i \in 1..Len(q)
  <2>1. CASE i # 1
    BY <1>1, <2>1
  <2> QED
    BY <2>1
<1>4. \A name : Has(q, name) <=> h.name = name \/ Has(r, name)
  BY <1>1, <1>2 DEF Has
<1>3. HasEnd(q) <=> IsEnd(h) \/ HasEnd(r)
  BY <1>1, <1>2 DEF HasEnd
<1>5. ASSUME WillStart(q), ~WillStart(r)
      PROVE  IsStart(h) /\ WontStop(r)
  <2>1. PICK i \in 1..Len(q) : IsStart(q[i]) /\ \A j \in i+1..Len(q) : ~IsStop(q[j])
    BY <1>5 DEF WillStart
  <2>2. i = 1
    <3>1. SUFFICES ASSUME i # 1 PROVE FALSE
      OBVIOUS
    <3>2. i - 1 \in 1..Len(r) /\ IsStart(r[i - 1])
      BY <1>2, <2>1, <3>1
    <3>3. ASSUME NEW j \in (i - 1) + 1..Len(r)
          PROVE  ~IsStop(r[j])
      BY <1>1, <2>1
    <3> QED
      BY <1>5, <3>2, <3>3 DEF WillStart
  <2> QED
    BY <1>1, <2>1, <2>2 DEF WontStop
<1>6. WontStop(q) => ~IsStop(h) /\ WontStop(r)
  BY <1>1 DEF WontStop
<1> QED
  BY <1>1, <1>3, <1>4, <1>5, <1>6 DEF r, h

-------------------------------------------------------------------------------
(* The inductive invariant.                                                *)

Types ==
  /\ build \in Build
  /\ rejoin \in Flags
  /\ bdb \in Bdb
  /\ op_cancelled \in BOOLEAN /\ tc_rejoin \in BOOLEAN
  /\ joined \in BOOLEAN /\ factory_new \in BOOLEAN
  /\ signals \in Seq(Signal)
  /\ touchlink_start_pending \in BOOLEAN /\ unfinished \in BOOLEAN
  /\ losses \in Nat /\ touchlinks \in Nat

FlagsAgree == Sound(rejoin) /\ (Due("stop_network_rejoin") => EndDevice)

(* A started procedure between two attempts waits for rejoin_the_network   *)
(* only.                                                                   *)
Resumes == Attempts(rejoin) \/ Due("rejoin_the_network")

(* There is one guard timer, so that the end of what it guards leaves      *)
(* none, unless a first start has left one.                                *)
Guarded ==
  \/ unfinished
  \/ /\ rejoin.pending["network_steering_timeout"] <= 1
     /\ Due("network_steering_timeout") => bdb \in Commissioning \/ HasEnd(signals)

(* What clears is_rejoin_in_progress is the end of the attempt it stands   *)
(* for, or of a commissioning, unless that was a first start.              *)
AttemptLives ==
  touchlinks = 0 /\ rejoin.in_progress =>
    \/ Due("start_network_steering") \/ Due("start_tc_rejoin") \/ Due("tc_rejoin_timeout")
    \/ bdb \in Commissioning \/ HasEnd(signals) \/ unfinished

TouchlinkQuiet ==
  touchlinks = 0 =>
    /\ ~Due("touchlink_start") /\ ~Due("touchlink_begin") /\ ~Due("touchlink_cancel")
    /\ bdb # "touchlink" /\ ~touchlink_start_pending

SwallowsOwn ==
  touchlink_start_pending => Due("cancelled") \/ Has(signals, "STEERING_CANCELLED")

(* Until the first commissioning starts nothing else is under way, but for *)
(* the Touchlink button.                                                   *)
Booting == Has(signals, "SKIP_STARTUP") \/ Due("skip_startup_continue")
Quiet ==
  /\ \A cb \in Callback \ {"skip_startup_continue", "touchlink_start"} : ~Due(cb)
  /\ ~rejoin.procedure_started /\ ~rejoin.stop_requested /\ ~rejoin.in_progress
  /\ ~rejoin.wait_for_user_input /\ ~rejoin.start_scheduled
  /\ ~tc_rejoin /\ ~joined /\ ~touchlink_start_pending
BootIsQuiet == Booting => bdb = "stop" /\ Quiet
BootIsOnce ==
  /\ Has(signals, "SKIP_STARTUP") =>
       Len(signals) = 1 /\ ~Due("skip_startup_continue") /\ ~Due("touchlink_start")
  /\ Due("skip_startup_continue") => signals = <<>>
  /\ rejoin.pending["skip_startup_continue"] <= 1
  /\ rejoin.stack_initialised <=> ~Has(signals, "SKIP_STARTUP")

(* A router off the network: its procedure runs, or starts once the        *)
(* signals on their way are handled; or nothing has happened yet but the   *)
(* first commissioning, which may have failed.                             *)
RouterStarts ==
  ~joined /\ ~EndDevice /\ touchlinks = 0 =>
    \/ WillStart(signals)
    \/ WontStop(signals) /\ (rejoin.procedure_started \/ Booting)
    \/ WontStop(signals) /\ Quiet
          /\ (bdb \in Commissioning \/ Has(signals, "FIRST_START") \/ unfinished)

IInv ==
  /\ Types /\ FlagsAgree /\ Resumes /\ PressIsHeard /\ Guarded /\ AttemptLives
  /\ TouchlinkQuiet /\ SwallowsOwn /\ BootIsQuiet /\ BootIsOnce /\ RouterStarts

LEMMA BuildFlags ==
  ASSUME Types
  PROVE  EndDevice \in BOOLEAN
BY BuildAssumption DEF Types, EndDevice

(* What is under way only after the start-up.                              *)
LEMMA Running ==
  ASSUME IInv,
         \/ ~Quiet \/ bdb # "stop"
         \/ signals # <<>> /\ Head(signals).name # "SKIP_STARTUP"
  PROVE  ~Has(signals, "SKIP_STARTUP") /\ ~Due("skip_startup_continue")
<1>1. BootIsQuiet /\ BootIsOnce /\ signals \in Seq(Signal)
  BY DEF IInv, Types
<1>2. ASSUME signals # <<>>, Head(signals).name # "SKIP_STARTUP"
      PROVE  ~Has(signals, "SKIP_STARTUP")
  <2>1. SUFFICES ASSUME Has(signals, "SKIP_STARTUP") PROVE FALSE
    OBVIOUS
  <2>2. Len(signals) = 1
    BY <1>1, <2>1 DEF BootIsOnce
  <2>3. PICK i \in 1..Len(signals) : signals[i].name = "SKIP_STARTUP"
    BY <2>1 DEF Has
  <2>4. i = 1 /\ Head(signals) = signals[1]
    BY <1>1, <1>2, <2>2, <2>3
  <2> QED
    BY <1>2, <2>3, <2>4
<1>3. CASE signals # <<>> /\ Head(signals).name # "SKIP_STARTUP"
  BY <1>1, <1>2, <1>3 DEF BootIsOnce
<1>4. CASE ~Quiet \/ bdb # "stop"
  BY <1>1, <1>4 DEF BootIsQuiet, Booting
<1> QED
  BY <1>3, <1>4

LEMMA Busy ==
  ASSUME IInv,
         \/ \E cb \in Callback \ {"skip_startup_continue", "touchlink_start"} : Due(cb)
         \/ rejoin.wait_for_user_input \/ joined \/ tc_rejoin
  PROVE  ~Has(signals, "SKIP_STARTUP") /\ ~Due("skip_startup_continue") /\ ~Quiet
<1>1. ~Quiet
  BY DEF Quiet
<1> QED
  BY <1>1, Running

LEMMA Booted ==
  ASSUME Types', ~Has(signals', "SKIP_STARTUP"), rejoin'.pending["skip_startup_continue"] = 0,
         rejoin'.stack_initialised
  PROVE  BootIsQuiet' /\ BootIsOnce'
BY DEF BootIsQuiet, BootIsOnce, Booting, Due

-------------------------------------------------------------------------------
(* Every action keeps the invariant.                                       *)

LEMMA SkipStep ==
  ASSUME IInv, skip_startup_continue
  PROVE  IInv'
<1>1. /\ Types /\ FlagsAgree /\ Resumes /\ PressIsHeard /\ Guarded /\ AttemptLives
      /\ TouchlinkQuiet /\ SwallowsOwn /\ BootIsQuiet /\ BootIsOnce /\ RouterStarts
      /\ EndDevice \in BOOLEAN
  BY BuildFlags DEF IInv
<1>2. /\ Due("skip_startup_continue")
      /\ bdb' \in Bdb \cap Commissioning /\ factory_new' \in BOOLEAN
      /\ rejoin' = Cancel(rejoin, "skip_startup_continue")
      /\ UNCHANGED <<build, op_cancelled, tc_rejoin, joined, signals,
                     touchlink_start_pending, losses, touchlinks, unfinished>>
  BY DEF skip_startup_continue, BdbStarts, Rest, app_vars, Bdb, Commissioning
<1>3. /\ rejoin' \in Flags /\ SameFlags(rejoin, rejoin')
      /\ KeepsBut(rejoin, rejoin', {"skip_startup_continue"})
      /\ rejoin'.pending["skip_startup_continue"] = 0
  BY <1>1, <1>2, Cancelled DEF Types, BootIsOnce, Callback
<1>4. /\ Quiet /\ bdb = "stop" /\ signals = <<>> /\ ~Has(signals, "SKIP_STARTUP")
      /\ ~HasEnd(signals)
  <2>1. Quiet /\ bdb = "stop" /\ signals = <<>>
    BY <1>1, <1>2 DEF BootIsQuiet, BootIsOnce, Booting
  <2> QED
    BY <2>1 DEF Has, HasEnd
<1>5. ~rejoin.in_progress /\ rejoin.pending["network_steering_timeout"] = 0
  BY <1>1, <1>4 DEF Quiet, Due, Callback, Types, Flags
<1>6. Types'
  BY <1>1, <1>2, <1>3 DEF Types
<1>7. FlagsAgree'
  BY <1>1, <1>2, <1>3 DEF FlagsAgree, Sound, Due, EndDevice, SameFlags, KeepsBut, Callback
<1>8. Resumes'
  BY <1>1, <1>2, <1>3 DEF Resumes, Attempts, Due, SameFlags, KeepsBut, Callback
<1>9. PressIsHeard'
  BY <1>1, <1>2, <1>3 DEF PressIsHeard, Due, SameFlags, KeepsBut, Callback
<1>10. Guarded'
  <2>1. rejoin'.pending["network_steering_timeout"] = 0
    BY <1>3, <1>5 DEF KeepsBut, Callback
  <2> QED
    BY <2>1 DEF Guarded, Due
<1>11. AttemptLives'
  BY <1>1, <1>2, <1>3, <1>5 DEF AttemptLives, SameFlags
<1>12. TouchlinkQuiet'
  BY <1>1, <1>2, <1>3 DEF TouchlinkQuiet, Due, KeepsBut, Callback, Commissioning
<1>13. SwallowsOwn'
  BY <1>1, <1>2, <1>3 DEF SwallowsOwn, Due, KeepsBut, Callback
<1>14. BootIsQuiet'
  <2>1. Quiet'
    BY <1>2, <1>3, <1>4 DEF Quiet, Due, SameFlags, KeepsBut
  <2> QED
    BY <1>2, <1>3, <1>4, <2>1 DEF BootIsQuiet, Booting, Due
<1>15. BootIsOnce'
  BY <1>1, <1>2, <1>3 DEF BootIsOnce, SameFlags
<1>16. RouterStarts'
  <2>1. Quiet' /\ WontStop(signals')
    BY <1>2, <1>3, <1>4 DEF Quiet, Due, SameFlags, KeepsBut, WontStop
  <2> QED
    BY <1>2, <2>1 DEF RouterStarts
<1> QED
  BY <1>6, <1>7, <1>8, <1>9, <1>10, <1>11, <1>12, <1>13, <1>14, <1>15, <1>16 DEF IInv

LEMMA SteeringStep ==
  ASSUME IInv, start_network_steering
  PROVE  IInv'
<1>1. /\ Types /\ FlagsAgree /\ Resumes /\ PressIsHeard /\ Guarded /\ AttemptLives
      /\ TouchlinkQuiet /\ SwallowsOwn /\ BootIsQuiet /\ BootIsOnce /\ RouterStarts
      /\ EndDevice \in BOOLEAN
  BY BuildFlags DEF IInv
<1> DEFINE s == Cancel(rejoin, "start_network_steering")
           a == [s EXCEPT !.commissioning_active = TRUE]
<1>2. /\ Due("start_network_steering") /\ Settled
      /\ rejoin' = IF bdb = "stop" THEN Schedule(a, "network_steering_timeout") ELSE s
      /\ IF bdb = "stop" THEN bdb' \in Commissioning ELSE bdb' = bdb
      /\ bdb' \in Bdb /\ factory_new' \in BOOLEAN
      /\ UNCHANGED <<build, op_cancelled, tc_rejoin, joined, signals,
                     touchlink_start_pending, losses, touchlinks, unfinished>>
  BY <1>1 DEF start_network_steering, BdbStarts, Rest, app_vars, Types, Bdb, Commissioning
<1>3. s \in Flags /\ SameFlags(rejoin, s) /\ KeepsBut(rejoin, s, {"start_network_steering"})
  BY <1>1, Cancelled DEF Types, Callback
<1> HIDE DEF s
<1>4. a \in Flags /\ SameFlags(rejoin, a) /\ KeepsBut(rejoin, a, {"start_network_steering"})
  BY <1>3 DEF Flags, SameFlags, KeepsBut
<1> HIDE DEF a
<1>5. /\ rejoin' \in Flags /\ SameFlags(rejoin, rejoin')
      /\ KeepsBut(rejoin, rejoin', {"start_network_steering", "network_steering_timeout"})
      /\ bdb # "stop" => rejoin'.pending["network_steering_timeout"]
                           = rejoin.pending["network_steering_timeout"]
      /\ bdb = "stop" => rejoin'.pending["network_steering_timeout"]
                           <= rejoin.pending["network_steering_timeout"] + 1
  <2>1. "network_steering_timeout" \in Callback /\ "start_network_steering" \in Callback
    BY DEF Callback
  <2>2. CASE bdb = "stop"
    <3>1. /\ rejoin' \in Flags /\ SameFlags(a, rejoin')
          /\ KeepsBut(a, rejoin', {"network_steering_timeout"})
          /\ rejoin'.pending["network_steering_timeout"] <= a.pending["network_steering_timeout"] + 1
      BY <1>2, <1>4, <2>1, <2>2, Scheduled
    <3> QED
      BY <1>4, <2>1, <2>2, <3>1 DEF SameFlags, KeepsBut
  <2>3. CASE bdb # "stop"
    BY <1>2, <1>3, <2>1, <2>3 DEF KeepsBut
  <2> QED
    BY <2>2, <2>3
<1>6. signals = <<>> /\ ~HasEnd(signals)
  BY <1>2 DEF Settled, HasEnd
<1>7. /\ ~Has(signals, "SKIP_STARTUP") /\ ~Due("skip_startup_continue")
      /\ ~Quiet
      /\ rejoin.stack_initialised /\ rejoin.pending["skip_startup_continue"] = 0
  <2>1. /\ ~Has(signals, "SKIP_STARTUP") /\ ~Due("skip_startup_continue")
        /\ ~Quiet
    BY <1>2, Busy DEF Callback
  <2> QED
    BY <1>1, <2>1 DEF BootIsOnce, Due, Types, Flags, Callback
<1>8. rejoin.pending["network_steering_timeout"] \in Nat
  BY <1>1 DEF Types, Flags, Callback
<1>9. touchlinks = 0 => bdb \in Commissioning \cup {"stop"}
  BY <1>1 DEF Types, TouchlinkQuiet, Bdb, Commissioning
<1>10. Types'
  BY <1>1, <1>2, <1>5 DEF Types
<1>11. FlagsAgree'
  BY <1>1, <1>2, <1>5 DEF FlagsAgree, Sound, Due, EndDevice, SameFlags, KeepsBut, Callback
<1>12. Resumes'
  BY <1>1, <1>2, <1>5 DEF Resumes, Attempts, Due, SameFlags, KeepsBut, Callback
<1>13. PressIsHeard'
  BY <1>1, <1>2, <1>5 DEF PressIsHeard, Due, SameFlags, KeepsBut, Callback
<1>14. Guarded'
  BY <1>1, <1>2, <1>5, <1>6, <1>8 DEF Guarded, Due, Commissioning
<1>15. AttemptLives'
  <2>1. touchlinks = 0 => bdb' \in Commissioning
    BY <1>2, <1>9
  <2> QED
    BY <1>2, <2>1 DEF AttemptLives
<1>16. TouchlinkQuiet'
  BY <1>1, <1>2, <1>5 DEF TouchlinkQuiet, Due, KeepsBut, Callback, Commissioning
<1>17. SwallowsOwn'
  BY <1>1, <1>2, <1>5 DEF SwallowsOwn, Due, KeepsBut, Callback
<1>18. BootIsQuiet' /\ BootIsOnce'
  <2>1. rejoin'.pending["skip_startup_continue"] = 0 /\ rejoin'.stack_initialised
    BY <1>1, <1>2, <1>5, <1>7 DEF Due, SameFlags, KeepsBut, Callback
  <2> QED
    BY <1>1, <1>2, <1>7, <1>10, <2>1, Booted
<1>20. RouterStarts'
  BY <1>1, <1>2, <1>7, <1>5
     DEF RouterStarts, Booting, Due, EndDevice, SameFlags, KeepsBut, Callback
<1> QED
  BY <1>10, <1>11, <1>12, <1>13, <1>14, <1>15, <1>16, <1>17, <1>18, <1>20 DEF IInv

LEMMA SteeringTimeoutStep ==
  ASSUME IInv, network_steering_timeout
  PROVE  IInv'
<1>1. /\ Types /\ FlagsAgree /\ Resumes /\ PressIsHeard /\ Guarded /\ AttemptLives
      /\ TouchlinkQuiet /\ SwallowsOwn /\ BootIsQuiet /\ BootIsOnce /\ RouterStarts
      /\ EndDevice \in BOOLEAN
  BY BuildFlags DEF IInv
<1> DEFINE s == Cancel(rejoin, "network_steering_timeout")
<1>2. /\ Due("network_steering_timeout") /\ rejoin' = Schedule(s, "cancel_joining")
      /\ UNCHANGED <<build, bdb, op_cancelled, tc_rejoin, joined, factory_new, signals,
                     touchlink_start_pending, losses, touchlinks, unfinished>>
  BY DEF network_steering_timeout, Expires, Rest, zboss_vars, app_vars
<1>3. s \in Flags /\ SameFlags(rejoin, s) /\ KeepsBut(rejoin, s, {"network_steering_timeout"})
      /\ s.pending["network_steering_timeout"] <= rejoin.pending["network_steering_timeout"]
  BY <1>1, Cancelled DEF Types, Callback
<1> HIDE DEF s
<1>4. /\ rejoin' \in Flags /\ SameFlags(s, rejoin') /\ KeepsBut(s, rejoin', {"cancel_joining"})
      /\ rejoin'.pending["cancel_joining"] > 0
  BY <1>2, <1>3, Scheduled DEF Callback
<1>5. /\ SameFlags(rejoin, rejoin')
      /\ KeepsBut(rejoin, rejoin', {"network_steering_timeout", "cancel_joining"})
      /\ rejoin'.pending["network_steering_timeout"] <= rejoin.pending["network_steering_timeout"]
  BY <1>3, <1>4 DEF SameFlags, KeepsBut, Callback
<1>6. /\ ~Has(signals, "SKIP_STARTUP") /\ ~Due("skip_startup_continue")
      /\ ~Quiet
      /\ rejoin.stack_initialised /\ rejoin.pending["skip_startup_continue"] = 0
  <2>1. /\ ~Has(signals, "SKIP_STARTUP") /\ ~Due("skip_startup_continue")
        /\ ~Quiet
    BY <1>2, Busy DEF Callback
  <2> QED
    BY <1>1, <2>1 DEF BootIsOnce, Due, Types, Flags, Callback
<1>7. /\ rejoin.pending["network_steering_timeout"] \in Nat
      /\ rejoin'.pending["network_steering_timeout"] \in Nat
  BY <1>1, <1>4 DEF Types, Flags, Callback
<1>8. Types'
  BY <1>1, <1>2, <1>4 DEF Types
<1>9. FlagsAgree'
  BY <1>1, <1>2, <1>5 DEF FlagsAgree, Sound, Due, EndDevice, SameFlags, KeepsBut, Callback
<1>10. Resumes'
  BY <1>1, <1>2, <1>5 DEF Resumes, Attempts, Due, SameFlags, KeepsBut, Callback
<1>11. PressIsHeard'
  BY <1>1, <1>2, <1>5 DEF PressIsHeard, Due, SameFlags, KeepsBut, Callback
<1>12. Guarded'
  BY <1>1, <1>2, <1>5, <1>7 DEF Guarded
<1>13. AttemptLives'
  BY <1>1, <1>2, <1>5 DEF AttemptLives, Due, SameFlags, KeepsBut, Callback
<1>14. TouchlinkQuiet'
  BY <1>1, <1>2, <1>5 DEF TouchlinkQuiet, Due, KeepsBut, Callback
<1>15. SwallowsOwn'
  BY <1>1, <1>2, <1>5 DEF SwallowsOwn, Due, KeepsBut, Callback
<1>16. BootIsQuiet' /\ BootIsOnce'
  <2>1. rejoin'.pending["skip_startup_continue"] = 0 /\ rejoin'.stack_initialised
    BY <1>1, <1>2, <1>5, <1>6 DEF Due, SameFlags, KeepsBut, Callback
  <2> QED
    BY <1>1, <1>2, <1>6, <1>8, <2>1, Booted
<1>18. RouterStarts'
  BY <1>1, <1>2, <1>6, <1>5
     DEF RouterStarts, Booting, Due, EndDevice, SameFlags, KeepsBut, Callback
<1> QED
  BY <1>8, <1>9, <1>10, <1>11, <1>12, <1>13, <1>14, <1>15, <1>16, <1>18 DEF IInv

LEMMA CancelStep ==
  ASSUME IInv, cancel_joining
  PROVE  IInv'
<1>1. /\ Types /\ FlagsAgree /\ Resumes /\ PressIsHeard /\ Guarded /\ AttemptLives
      /\ TouchlinkQuiet /\ SwallowsOwn /\ BootIsQuiet /\ BootIsOnce /\ RouterStarts
      /\ EndDevice \in BOOLEAN
  BY BuildFlags DEF IInv
<1> DEFINE s == Cancel(rejoin, "cancel_joining")
<1>2. /\ Due("cancel_joining") /\ rejoin' = Schedule(s, "cancelled")
      /\ UNCHANGED <<build, bdb, tc_rejoin, joined, factory_new, signals,
                     touchlink_start_pending, losses, touchlinks, unfinished>>
      /\ op_cancelled' = (op_cancelled \/ CanCancel)
  BY DEF cancel_joining, Rest, app_vars
<1>3. s \in Flags /\ SameFlags(rejoin, s) /\ KeepsBut(rejoin, s, {"cancel_joining"})
      /\ s.pending["cancel_joining"] <= rejoin.pending["cancel_joining"]
  BY <1>1, Cancelled DEF Types, Callback
<1> HIDE DEF s
<1>4. /\ rejoin' \in Flags /\ SameFlags(s, rejoin') /\ KeepsBut(s, rejoin', {"cancelled"})
      /\ rejoin'.pending["cancelled"] > 0
  BY <1>2, <1>3, Scheduled DEF Callback
<1>5. /\ SameFlags(rejoin, rejoin') /\ KeepsBut(rejoin, rejoin', {"cancel_joining", "cancelled"})
      /\ rejoin'.pending["cancel_joining"] <= rejoin.pending["cancel_joining"]
  BY <1>3, <1>4 DEF SameFlags, KeepsBut, Callback
<1>6. /\ ~Has(signals, "SKIP_STARTUP") /\ ~Due("skip_startup_continue")
      /\ ~Quiet
      /\ rejoin.stack_initialised /\ rejoin.pending["skip_startup_continue"] = 0
  <2>1. /\ ~Has(signals, "SKIP_STARTUP") /\ ~Due("skip_startup_continue")
        /\ ~Quiet
    BY <1>2, Busy DEF Callback
  <2> QED
    BY <1>1, <2>1 DEF BootIsOnce, Due, Types, Flags, Callback
<1>9. Types'
  BY <1>1, <1>2, <1>4 DEF Types
<1>10. FlagsAgree'
  BY <1>1, <1>2, <1>5 DEF FlagsAgree, Sound, Due, EndDevice, SameFlags, KeepsBut, Callback
<1>11. Resumes'
  BY <1>1, <1>2, <1>5 DEF Resumes, Attempts, Due, SameFlags, KeepsBut, Callback
<1>12. PressIsHeard'
  BY <1>1, <1>2, <1>5 DEF PressIsHeard, Due, SameFlags, KeepsBut, Callback
<1>13. Guarded'
  BY <1>1, <1>2, <1>5 DEF Guarded, Due, KeepsBut, Callback
<1>14. AttemptLives'
  BY <1>1, <1>2, <1>5 DEF AttemptLives, Due, SameFlags, KeepsBut, Callback
<1>15. TouchlinkQuiet'
  BY <1>1, <1>2, <1>5 DEF TouchlinkQuiet, Due, KeepsBut, Callback
<1>16. SwallowsOwn'
  BY <1>1, <1>2, <1>4 DEF SwallowsOwn, Due
<1>17. BootIsQuiet' /\ BootIsOnce'
  <2>1. rejoin'.pending["skip_startup_continue"] = 0 /\ rejoin'.stack_initialised
    BY <1>1, <1>2, <1>5, <1>6 DEF Due, SameFlags, KeepsBut, Callback
  <2> QED
    BY <1>1, <1>2, <1>6, <1>9, <2>1, Booted
<1>19. RouterStarts'
  BY <1>1, <1>2, <1>6, <1>5
     DEF RouterStarts, Booting, Due, EndDevice, SameFlags, KeepsBut, Callback
<1> QED
  BY <1>9, <1>10, <1>11, <1>12, <1>13, <1>14, <1>15, <1>16, <1>17, <1>19 DEF IInv

LEMMA CancelledStep ==
  ASSUME IInv, SignalCancelled
  PROVE  IInv'
<1>1. /\ Types /\ FlagsAgree /\ Resumes /\ PressIsHeard /\ Guarded /\ AttemptLives
      /\ TouchlinkQuiet /\ SwallowsOwn /\ BootIsQuiet /\ BootIsOnce /\ RouterStarts
      /\ EndDevice \in BOOLEAN
  BY BuildFlags DEF IInv
<1>2. /\ Due("cancelled") /\ rejoin' = Cancel(rejoin, "cancelled")
      /\ signals' = Append(signals, Sig("STEERING_CANCELLED", TRUE))
      /\ UNCHANGED <<build, bdb, op_cancelled, tc_rejoin, joined, factory_new,
                     touchlink_start_pending, losses, touchlinks, unfinished>>
  BY DEF SignalCancelled, Rest, zboss_vars, app_vars
<1>3. rejoin' \in Flags /\ SameFlags(rejoin, rejoin') /\ KeepsBut(rejoin, rejoin', {"cancelled"})
  BY <1>1, <1>2, Cancelled DEF Types, Callback
<1>4. /\ ~Has(signals, "SKIP_STARTUP") /\ ~Due("skip_startup_continue")
      /\ ~Quiet
      /\ rejoin.stack_initialised /\ rejoin.pending["skip_startup_continue"] = 0
  <2>1. /\ ~Has(signals, "SKIP_STARTUP") /\ ~Due("skip_startup_continue")
        /\ ~Quiet
    BY <1>2, Busy DEF Callback
  <2> QED
    BY <1>1, <2>1 DEF BootIsOnce, Due, Types, Flags, Callback
<1>5. /\ signals' \in Seq(Signal) /\ WillStart(signals')
      /\ HasEnd(signals') <=> HasEnd(signals)
      /\ Has(signals', "STEERING_CANCELLED") /\ ~Has(signals', "SKIP_STARTUP")
  <2>1. /\ Sig("STEERING_CANCELLED", TRUE) \in Signal
        /\ Sig("STEERING_CANCELLED", TRUE).name = "STEERING_CANCELLED"
        /\ IsStart(Sig("STEERING_CANCELLED", TRUE))
    BY DEF Sig, Signal, IsStart
  <2> QED
    BY <1>1, <1>2, <1>4, <2>1, Appended DEF Types, IsEnd
<1>6. Types'
  BY <1>1, <1>2, <1>3, <1>5 DEF Types
<1>7. FlagsAgree'
  BY <1>1, <1>2, <1>3 DEF FlagsAgree, Sound, Due, EndDevice, SameFlags, KeepsBut, Callback
<1>8. Resumes'
  BY <1>1, <1>2, <1>3 DEF Resumes, Attempts, Due, SameFlags, KeepsBut, Callback
<1>9. PressIsHeard'
  BY <1>1, <1>2, <1>3 DEF PressIsHeard, Due, SameFlags, KeepsBut, Callback
<1>10. Guarded'
  BY <1>1, <1>2, <1>3, <1>5 DEF Guarded, Due, KeepsBut, Callback
<1>11. AttemptLives'
  BY <1>1, <1>2, <1>3, <1>5 DEF AttemptLives, Due, SameFlags, KeepsBut, Callback
<1>12. TouchlinkQuiet'
  BY <1>1, <1>2, <1>3 DEF TouchlinkQuiet, Due, KeepsBut, Callback
<1>13. SwallowsOwn'
  BY <1>1, <1>2, <1>5 DEF SwallowsOwn
<1>14. BootIsQuiet' /\ BootIsOnce'
  <2>1. rejoin'.pending["skip_startup_continue"] = 0 /\ rejoin'.stack_initialised
    BY <1>1, <1>2, <1>3, <1>4 DEF Due, SameFlags, KeepsBut, Callback
  <2> QED
    BY <1>1, <1>2, <1>4, <1>5, <1>6, <2>1, Booted
<1>16. RouterStarts'
  BY <1>1, <1>2, <1>4, <1>5 DEF RouterStarts
<1> QED
  BY <1>6, <1>7, <1>8, <1>9, <1>10, <1>11, <1>12, <1>13, <1>14, <1>16 DEF IInv

LEMMA StartTcRejoinStep ==
  ASSUME IInv, start_tc_rejoin
  PROVE  IInv'
<1>1. /\ Types /\ FlagsAgree /\ Resumes /\ PressIsHeard /\ Guarded /\ AttemptLives
      /\ TouchlinkQuiet /\ SwallowsOwn /\ BootIsQuiet /\ BootIsOnce /\ RouterStarts
      /\ EndDevice \in BOOLEAN
  BY BuildFlags DEF IInv
<1> DEFINE s == Cancel(rejoin, "start_tc_rejoin")
           a == Schedule(s, "initiate_tc_rejoin")
<1>2. /\ Due("start_tc_rejoin") /\ rejoin' = Schedule(a, "tc_rejoin_timeout")
      /\ UNCHANGED <<build, bdb, op_cancelled, tc_rejoin, joined, factory_new, signals,
                     touchlink_start_pending, losses, touchlinks, unfinished>>
  BY DEF start_tc_rejoin, Rest, zboss_vars, app_vars
<1>3. s \in Flags /\ SameFlags(rejoin, s) /\ KeepsBut(rejoin, s, {"start_tc_rejoin"})
  BY <1>1, Cancelled DEF Types, Callback
<1> HIDE DEF s
<1>4. a \in Flags /\ SameFlags(s, a) /\ KeepsBut(s, a, {"initiate_tc_rejoin"})
  BY <1>3, Scheduled DEF Callback
<1> HIDE DEF a
<1>5. /\ rejoin' \in Flags /\ SameFlags(a, rejoin') /\ KeepsBut(a, rejoin', {"tc_rejoin_timeout"})
      /\ rejoin'.pending["tc_rejoin_timeout"] > 0
  BY <1>2, <1>4, Scheduled DEF Callback
<1>6. /\ SameFlags(rejoin, rejoin')
      /\ KeepsBut(rejoin, rejoin', {"start_tc_rejoin", "initiate_tc_rejoin", "tc_rejoin_timeout"})
  BY <1>3, <1>4, <1>5 DEF SameFlags, KeepsBut
<1>7. /\ ~Has(signals, "SKIP_STARTUP") /\ ~Due("skip_startup_continue")
      /\ ~Quiet
      /\ rejoin.stack_initialised /\ rejoin.pending["skip_startup_continue"] = 0
  <2>1. /\ ~Has(signals, "SKIP_STARTUP") /\ ~Due("skip_startup_continue")
        /\ ~Quiet
    BY <1>2, Busy DEF Callback
  <2> QED
    BY <1>1, <2>1 DEF BootIsOnce, Due, Types, Flags, Callback
<1>8. Types'
  BY <1>1, <1>2, <1>5 DEF Types
<1>9. FlagsAgree'
  BY <1>1, <1>2, <1>6 DEF FlagsAgree, Sound, Due, EndDevice, SameFlags, KeepsBut, Callback
<1>10. Resumes'
  BY <1>1, <1>2, <1>6 DEF Resumes, Attempts, Due, SameFlags, KeepsBut, Callback
<1>11. PressIsHeard'
  BY <1>1, <1>2, <1>6 DEF PressIsHeard, Due, SameFlags, KeepsBut, Callback
<1>12. Guarded'
  BY <1>1, <1>2, <1>6 DEF Guarded, Due, KeepsBut, Callback
<1>13. AttemptLives'
  BY <1>1, <1>2, <1>5 DEF AttemptLives, Due
<1>14. TouchlinkQuiet'
  BY <1>1, <1>2, <1>6 DEF TouchlinkQuiet, Due, KeepsBut, Callback
<1>15. SwallowsOwn'
  BY <1>1, <1>2, <1>6 DEF SwallowsOwn, Due, KeepsBut, Callback
<1>16. BootIsQuiet' /\ BootIsOnce'
  <2>1. rejoin'.pending["skip_startup_continue"] = 0 /\ rejoin'.stack_initialised
    BY <1>1, <1>2, <1>6, <1>7 DEF Due, SameFlags, KeepsBut, Callback
  <2> QED
    BY <1>1, <1>2, <1>7, <1>8, <2>1, Booted
<1>18. RouterStarts'
  BY <1>1, <1>2, <1>7, <1>6
     DEF RouterStarts, Booting, Due, EndDevice, SameFlags, KeepsBut, Callback
<1> QED
  BY <1>8, <1>9, <1>10, <1>11, <1>12, <1>13, <1>14, <1>15, <1>16, <1>18 DEF IInv

LEMMA InitiateStep ==
  ASSUME IInv, zb_bdb_initiate_tc_rejoin
  PROVE  IInv'
<1>1. /\ Types /\ FlagsAgree /\ Resumes /\ PressIsHeard /\ Guarded /\ AttemptLives
      /\ TouchlinkQuiet /\ SwallowsOwn /\ BootIsQuiet /\ BootIsOnce /\ RouterStarts
      /\ EndDevice \in BOOLEAN
  BY BuildFlags DEF IInv
<1> DEFINE refused == Sig("TC_REJOIN_DONE", FALSE)
<1>2. /\ Due("initiate_tc_rejoin") /\ rejoin' = Cancel(rejoin, "initiate_tc_rejoin")
      /\ tc_rejoin' \in BOOLEAN
      /\ signals' = signals \/ signals' = Append(signals, refused)
      /\ UNCHANGED <<build, bdb, op_cancelled, joined, factory_new,
                     touchlink_start_pending, losses, touchlinks, unfinished>>
  BY <1>1 DEF zb_bdb_initiate_tc_rejoin, Rest, app_vars
<1>3. /\ rejoin' \in Flags /\ SameFlags(rejoin, rejoin')
      /\ KeepsBut(rejoin, rejoin', {"initiate_tc_rejoin"})
  BY <1>1, <1>2, Cancelled DEF Types, Callback
<1>4. /\ ~Has(signals, "SKIP_STARTUP") /\ ~Due("skip_startup_continue")
      /\ ~Quiet
      /\ rejoin.stack_initialised /\ rejoin.pending["skip_startup_continue"] = 0
  <2>1. /\ ~Has(signals, "SKIP_STARTUP") /\ ~Due("skip_startup_continue")
        /\ ~Quiet
    BY <1>2, Busy DEF Callback
  <2> QED
    BY <1>1, <2>1 DEF BootIsOnce, Due, Types, Flags, Callback
<1>5. /\ signals' \in Seq(Signal) /\ (signals' = signals \/ WillStart(signals'))
      /\ HasEnd(signals') <=> HasEnd(signals)
      /\ Has(signals', "STEERING_CANCELLED") <=> Has(signals, "STEERING_CANCELLED")
      /\ ~Has(signals', "SKIP_STARTUP")
  <2>1. refused \in Signal /\ refused.name = "TC_REJOIN_DONE" /\ IsStart(refused)
    BY DEF Sig, Signal, IsStart, JoinSignals
  <2> HIDE DEF refused
  <2>2. signals \in Seq(Signal)
    BY <1>1 DEF Types
  <2>3. CASE signals' = signals
    BY ONLY <1>4, <2>2, <2>3
  <2>4. CASE signals' = Append(signals, refused)
    <3>1. /\ signals' \in Seq(Signal) /\ WillStart(signals')
          /\ \A name : Has(signals', name) <=> Has(signals, name) \/ refused.name = name
          /\ HasEnd(signals') <=> HasEnd(signals) \/ IsEnd(refused)
      BY ONLY <2>1, <2>2, <2>4, Appended
    <3> QED
      BY ONLY <1>4, <2>1, <3>1 DEF IsEnd
  <2> QED
    BY <1>2, <2>3, <2>4
<1>6. Types'
  BY <1>1, <1>2, <1>3, <1>5 DEF Types
<1>7. FlagsAgree'
  BY <1>1, <1>2, <1>3 DEF FlagsAgree, Sound, Due, EndDevice, SameFlags, KeepsBut, Callback
<1>8. Resumes'
  BY <1>1, <1>2, <1>3 DEF Resumes, Attempts, Due, SameFlags, KeepsBut, Callback
<1>9. PressIsHeard'
  BY <1>1, <1>2, <1>3 DEF PressIsHeard, Due, SameFlags, KeepsBut, Callback
<1>10. Guarded'
  BY <1>1, <1>2, <1>3, <1>5 DEF Guarded, Due, KeepsBut, Callback
<1>11. AttemptLives'
  BY <1>1, <1>2, <1>3, <1>5 DEF AttemptLives, Due, SameFlags, KeepsBut, Callback
<1>12. TouchlinkQuiet'
  BY <1>1, <1>2, <1>3 DEF TouchlinkQuiet, Due, KeepsBut, Callback
<1>13. SwallowsOwn'
  BY <1>1, <1>2, <1>3, <1>5 DEF SwallowsOwn, Due, KeepsBut, Callback
<1>14. BootIsQuiet' /\ BootIsOnce'
  <2>1. rejoin'.pending["skip_startup_continue"] = 0 /\ rejoin'.stack_initialised
    BY <1>1, <1>2, <1>3, <1>4 DEF Due, SameFlags, KeepsBut, Callback
  <2> QED
    BY <1>1, <1>2, <1>4, <1>5, <1>6, <2>1, Booted
<1>16. RouterStarts'
  BY <1>1, <1>2, <1>4, <1>3, <1>5
     DEF RouterStarts, Booting, Due, EndDevice, SameFlags, KeepsBut, Callback
<1> QED
  BY <1>6, <1>7, <1>8, <1>9, <1>10, <1>11, <1>12, <1>13, <1>14, <1>16 DEF IInv

LEMMA TcTimeoutStep ==
  ASSUME IInv, tc_rejoin_timeout
  PROVE  IInv'
<1>1. /\ Types /\ FlagsAgree /\ Resumes /\ PressIsHeard /\ Guarded /\ AttemptLives
      /\ TouchlinkQuiet /\ SwallowsOwn /\ BootIsQuiet /\ BootIsOnce /\ RouterStarts
      /\ EndDevice \in BOOLEAN
  BY BuildFlags DEF IInv
<1> DEFINE s == Cancel(rejoin, "tc_rejoin_timeout")
           f == rejoin_attempt_finished(s)
           t == rejoin_the_network(f)
<1>2. /\ Due("tc_rejoin_timeout") /\ rejoin' = t
      /\ UNCHANGED <<build, bdb, op_cancelled, tc_rejoin, joined, factory_new, signals,
                     touchlink_start_pending, losses, touchlinks, unfinished>>
  BY DEF tc_rejoin_timeout, Expires, Rest, zboss_vars, app_vars
<1>3. s \in Flags /\ SameFlags(rejoin, s) /\ KeepsBut(rejoin, s, {"tc_rejoin_timeout"})
  BY <1>1, Cancelled DEF Types, Callback
<1> HIDE DEF s
<1>4. /\ f \in Flags /\ ~f.in_progress
      /\ SameFlags(s, [f EXCEPT !.in_progress = s.in_progress])
      /\ KeepsBut(s, f, {"network_steering_timeout", "tc_rejoin_timeout"})
      /\ f.pending["network_steering_timeout"] <= s.pending["network_steering_timeout"]
  BY <1>3, Finished
<1> HIDE DEF f
<1>5. /\ f.stack_initialised = rejoin.stack_initialised
      /\ f.procedure_started = rejoin.procedure_started
      /\ f.stop_requested = rejoin.stop_requested
      /\ f.wait_for_user_input = rejoin.wait_for_user_input
      /\ f.start_scheduled = rejoin.start_scheduled
      /\ KeepsBut(rejoin, f, Guards)
      /\ f.pending["network_steering_timeout"] <= rejoin.pending["network_steering_timeout"]
  BY <1>3, <1>4 DEF SameFlags, KeepsBut, Guards, Callback
<1>6. /\ t \in Flags
      /\ t.stack_initialised = f.stack_initialised
      /\ t.wait_for_user_input = f.wait_for_user_input
      /\ t.start_scheduled = f.start_scheduled
      /\ KeepsBut(f, t, Starts)
      /\ ~(f.stack_initialised /\ f.procedure_started) => t = f
      /\ f.stack_initialised /\ f.procedure_started /\ f.stop_requested =>
           /\ ~t.procedure_started /\ ~t.stop_requested
           /\ t.in_progress = f.in_progress /\ t.pending = f.pending
      /\ f.stack_initialised /\ f.procedure_started /\ ~f.stop_requested =>
           /\ t.procedure_started /\ ~t.stop_requested /\ t.in_progress
           /\ \/ f.in_progress /\ t.pending = f.pending
              \/ \E cb \in Starts : t.pending[cb] > 0
  BY <1>4, Rejoined
<1> HIDE DEF t
<1>7. KeepsBut(rejoin, t, Starts \cup Guards)
  BY <1>5, <1>6 DEF KeepsBut
<1>8. t.pending["network_steering_timeout"] <= rejoin.pending["network_steering_timeout"]
  BY <1>5, <1>6 DEF KeepsBut, Callback, Starts
<1>9. /\ rejoin.pending["network_steering_timeout"] \in Nat
      /\ t.pending["network_steering_timeout"] \in Nat
  BY <1>1, <1>6 DEF Types, Flags, Callback
<1>10. Sound(t) /\ Attempts(t) /\ (t.in_progress => \E cb \in Starts : t.pending[cb] > 0)
  BY <1>1, <1>4, <1>5, <1>6 DEF Sound, FlagsAgree, Attempts
<1>11. ~EndDevice /\ rejoin.procedure_started => t.procedure_started
  BY <1>1, <1>5, <1>6 DEF Sound, FlagsAgree
<1>12. /\ ~Has(signals, "SKIP_STARTUP") /\ ~Due("skip_startup_continue")
       /\ ~Quiet
       /\ rejoin.stack_initialised /\ rejoin.pending["skip_startup_continue"] = 0
  <2>1. /\ ~Has(signals, "SKIP_STARTUP") /\ ~Due("skip_startup_continue")
        /\ ~Quiet
    BY <1>2, Busy DEF Callback
  <2> QED
    BY <1>1, <2>1 DEF BootIsOnce, Due, Types, Flags, Callback
<1>13. Types'
  BY <1>1, <1>2, <1>6 DEF Types
<1>14. FlagsAgree'
  BY <1>1, <1>2, <1>7, <1>10
     DEF FlagsAgree, Sound, Due, EndDevice, KeepsBut, Callback, Starts, Guards
<1>15. Resumes'
  BY <1>1, <1>2, <1>10 DEF Resumes
<1>16. PressIsHeard'
  BY <1>1, <1>2, <1>5, <1>6 DEF PressIsHeard, Due, KeepsBut, Callback, Starts, Guards
<1>17. Guarded'
  BY <1>1, <1>2, <1>8, <1>9 DEF Guarded, Due
<1>18. AttemptLives'
  BY <1>1, <1>2, <1>10 DEF AttemptLives, Due, Starts
<1>19. TouchlinkQuiet'
  BY <1>1, <1>2, <1>7 DEF TouchlinkQuiet, Due, KeepsBut, Callback, Starts, Guards
<1>20. SwallowsOwn'
  BY <1>1, <1>2, <1>7 DEF SwallowsOwn, Due, KeepsBut, Callback, Starts, Guards
<1>21. BootIsQuiet' /\ BootIsOnce'
  <2>1. rejoin'.pending["skip_startup_continue"] = 0 /\ rejoin'.stack_initialised
    BY <1>2, <1>5, <1>6, <1>12 DEF Due, KeepsBut, Callback, Starts, Guards
  <2> QED
    BY <1>2, <1>12, <1>13, <2>1, Booted
<1>23. RouterStarts'
  BY <1>1, <1>2, <1>11, <1>12 DEF RouterStarts, Booting, EndDevice
<1> QED
  BY <1>13, <1>14, <1>15, <1>16, <1>17, <1>18, <1>19, <1>20, <1>21, <1>23 DEF IInv

LEMMA RejoinStep ==
  ASSUME IInv, RejoinTheNetwork
  PROVE  IInv'
<1>1. /\ Types /\ FlagsAgree /\ Resumes /\ PressIsHeard /\ Guarded /\ AttemptLives
      /\ TouchlinkQuiet /\ SwallowsOwn /\ BootIsQuiet /\ BootIsOnce /\ RouterStarts
      /\ EndDevice \in BOOLEAN
  BY BuildFlags DEF IInv
<1> DEFINE s == Cancel(rejoin, "rejoin_the_network")
           t == rejoin_the_network(s)
<1>2. /\ Due("rejoin_the_network") /\ rejoin' = t
      /\ UNCHANGED <<build, bdb, op_cancelled, tc_rejoin, joined, factory_new, signals,
                     touchlink_start_pending, losses, touchlinks, unfinished>>
  BY DEF RejoinTheNetwork, Rest, zboss_vars, app_vars
<1>3. s \in Flags /\ SameFlags(rejoin, s) /\ KeepsBut(rejoin, s, {"rejoin_the_network"})
  BY <1>1, Cancelled DEF Types, Callback
<1> HIDE DEF s
<1>4. /\ t \in Flags
      /\ t.stack_initialised = s.stack_initialised
      /\ t.wait_for_user_input = s.wait_for_user_input
      /\ t.start_scheduled = s.start_scheduled
      /\ KeepsBut(s, t, Starts)
      /\ ~(s.stack_initialised /\ s.procedure_started) => t = s
      /\ s.stack_initialised /\ s.procedure_started /\ s.stop_requested =>
           /\ ~t.procedure_started /\ ~t.stop_requested
           /\ t.in_progress = s.in_progress /\ t.pending = s.pending
      /\ s.stack_initialised /\ s.procedure_started /\ ~s.stop_requested =>
           /\ t.procedure_started /\ ~t.stop_requested /\ t.in_progress
           /\ \/ s.in_progress /\ t.pending = s.pending
              \/ \E cb \in Starts : t.pending[cb] > 0
  BY <1>3, Rejoined
<1> HIDE DEF t
<1>5. KeepsBut(rejoin, t, Starts \cup {"rejoin_the_network"})
  BY <1>3, <1>4 DEF KeepsBut
<1>6. /\ Sound(t) /\ Attempts(t)
      /\ t.in_progress => \/ \E cb \in Starts : t.pending[cb] > 0
                          \/ rejoin.in_progress /\ KeepsBut(rejoin, t, {"rejoin_the_network"})
  BY <1>1, <1>3, <1>4 DEF Sound, FlagsAgree, Attempts, SameFlags, KeepsBut
<1>7. ~EndDevice /\ rejoin.procedure_started => t.procedure_started
  BY <1>1, <1>3, <1>4 DEF Sound, FlagsAgree, SameFlags
<1>8. /\ ~Has(signals, "SKIP_STARTUP") /\ ~Due("skip_startup_continue")
      /\ ~Quiet
      /\ rejoin.stack_initialised /\ rejoin.pending["skip_startup_continue"] = 0
  <2>1. /\ ~Has(signals, "SKIP_STARTUP") /\ ~Due("skip_startup_continue")
        /\ ~Quiet
    BY <1>2, Busy DEF Callback
  <2> QED
    BY <1>1, <2>1 DEF BootIsOnce, Due, Types, Flags, Callback
<1>9. t.stack_initialised = rejoin.stack_initialised /\ t.start_scheduled = rejoin.start_scheduled
  BY <1>3, <1>4 DEF SameFlags
<1>10. Types'
  BY <1>1, <1>2, <1>4 DEF Types
<1>11. FlagsAgree'
  BY <1>1, <1>2, <1>5, <1>6
     DEF FlagsAgree, Sound, Due, EndDevice, KeepsBut, Callback, Starts
<1>12. Resumes'
  BY <1>1, <1>2, <1>6 DEF Resumes
<1>13. PressIsHeard'
  BY <1>1, <1>2, <1>5, <1>9 DEF PressIsHeard, Due, KeepsBut, Callback, Starts
<1>14. Guarded'
  BY <1>1, <1>2, <1>5 DEF Guarded, Due, KeepsBut, Callback, Starts
<1>15. AttemptLives'
  BY <1>1, <1>2, <1>6 DEF AttemptLives, Due, KeepsBut, Callback, Starts
<1>16. TouchlinkQuiet'
  BY <1>1, <1>2, <1>5 DEF TouchlinkQuiet, Due, KeepsBut, Callback, Starts
<1>17. SwallowsOwn'
  BY <1>1, <1>2, <1>5 DEF SwallowsOwn, Due, KeepsBut, Callback, Starts
<1>18. BootIsQuiet' /\ BootIsOnce'
  <2>1. rejoin'.pending["skip_startup_continue"] = 0 /\ rejoin'.stack_initialised
    BY <1>1, <1>2, <1>5, <1>8, <1>9 DEF Due, KeepsBut, Callback, Starts
  <2> QED
    BY <1>1, <1>2, <1>8, <1>10, <2>1, Booted
<1>20. RouterStarts'
  BY <1>1, <1>2, <1>7, <1>8 DEF RouterStarts, Booting, EndDevice
<1> QED
  BY <1>10, <1>11, <1>12, <1>13, <1>14, <1>15, <1>16, <1>17, <1>18, <1>20 DEF IInv

LEMMA StopStep ==
  ASSUME IInv, StopNetworkRejoin
  PROVE  IInv'
<1>1. /\ Types /\ FlagsAgree /\ Resumes /\ PressIsHeard /\ Guarded /\ AttemptLives
      /\ TouchlinkQuiet /\ SwallowsOwn /\ BootIsQuiet /\ BootIsOnce /\ RouterStarts
      /\ EndDevice \in BOOLEAN
  BY BuildFlags DEF IInv
<1> DEFINE s == Cancel(rejoin, "stop_network_rejoin")
           t == stop_network_rejoin(s, TRUE)
<1>2. /\ Due("stop_network_rejoin") /\ rejoin' = t
      /\ UNCHANGED <<build, bdb, op_cancelled, tc_rejoin, joined, factory_new, signals,
                     touchlink_start_pending, losses, touchlinks, unfinished>>
  BY DEF StopNetworkRejoin, Expires, Rest, zboss_vars, app_vars
<1>3. s \in Flags /\ SameFlags(rejoin, s) /\ KeepsBut(rejoin, s, {"stop_network_rejoin"})
  BY <1>1, Cancelled DEF Types, Callback
<1> HIDE DEF s
<1>4. /\ t \in Flags
      /\ t.stack_initialised = s.stack_initialised
      /\ t.wait_for_user_input = (IF EndDevice THEN TRUE ELSE s.wait_for_user_input)
      /\ t.start_scheduled = s.start_scheduled
      /\ KeepsBut(s, t, Starts \cup {"stop_network_rejoin"})
      /\ ~s.procedure_started =>
           /\ ~t.procedure_started /\ t.stop_requested = s.stop_requested
           /\ t.in_progress = s.in_progress
           /\ KeepsBut(s, t, {"stop_network_rejoin"})
      /\ s.procedure_started =>
           \/ ~t.procedure_started /\ ~t.stop_requested /\ ~t.in_progress
           \/ /\ t.procedure_started /\ t.stop_requested
              /\ t.in_progress = s.in_progress
              /\ KeepsBut(s, t, {"stop_network_rejoin"})
  BY <1>1, <1>3, Stopped
<1> HIDE DEF t
<1>5. KeepsBut(rejoin, t, Starts \cup {"stop_network_rejoin"}) /\ EndDevice
  BY <1>1, <1>2, <1>3, <1>4 DEF KeepsBut, FlagsAgree
<1>6. /\ Sound(t) /\ Attempts(t)
      /\ ~t.in_progress \/ (rejoin.in_progress /\ KeepsBut(rejoin, t, {"stop_network_rejoin"}))
  BY <1>1, <1>3, <1>4, <1>5 DEF Sound, FlagsAgree, Attempts, SameFlags, KeepsBut
<1>7. /\ ~Has(signals, "SKIP_STARTUP") /\ ~Due("skip_startup_continue")
      /\ ~Quiet
      /\ rejoin.stack_initialised /\ rejoin.pending["skip_startup_continue"] = 0
  <2>1. /\ ~Has(signals, "SKIP_STARTUP") /\ ~Due("skip_startup_continue")
        /\ ~Quiet
    BY <1>2, Busy DEF Callback
  <2> QED
    BY <1>1, <2>1 DEF BootIsOnce, Due, Types, Flags, Callback
<1>8. t.stack_initialised = rejoin.stack_initialised /\ t.start_scheduled = rejoin.start_scheduled
  BY <1>3, <1>4 DEF SameFlags
<1>9. Types'
  BY <1>1, <1>2, <1>4 DEF Types
<1>10. FlagsAgree'
  BY <1>1, <1>2, <1>6 DEF FlagsAgree, Sound, EndDevice
<1>11. Resumes'
  BY <1>1, <1>2, <1>5, <1>6 DEF Resumes, Due, KeepsBut, Callback, Starts
<1>12. PressIsHeard'
  BY <1>1, <1>2, <1>5, <1>8 DEF PressIsHeard, Due, KeepsBut, Callback, Starts
<1>13. Guarded'
  BY <1>1, <1>2, <1>5 DEF Guarded, Due, KeepsBut, Callback, Starts
<1>14. AttemptLives'
  BY <1>1, <1>2, <1>6 DEF AttemptLives, Due, KeepsBut, Callback
<1>15. TouchlinkQuiet'
  BY <1>1, <1>2, <1>5 DEF TouchlinkQuiet, Due, KeepsBut, Callback, Starts
<1>16. SwallowsOwn'
  BY <1>1, <1>2, <1>5 DEF SwallowsOwn, Due, KeepsBut, Callback, Starts
<1>17. BootIsQuiet' /\ BootIsOnce'
  <2>1. rejoin'.pending["skip_startup_continue"] = 0 /\ rejoin'.stack_initialised
    BY <1>1, <1>2, <1>5, <1>7, <1>8 DEF Due, KeepsBut, Callback, Starts
  <2> QED
    BY <1>1, <1>2, <1>7, <1>9, <2>1, Booted
<1>19. RouterStarts'
  BY <1>1, <1>2, <1>7, <1>5 DEF RouterStarts, EndDevice
<1> QED
  BY <1>9, <1>10, <1>11, <1>12, <1>13, <1>14, <1>15, <1>16, <1>17, <1>19 DEF IInv

LEMMA UserStartStep ==
  ASSUME IInv, start_network_rejoin_ED
  PROVE  IInv'
<1>1. /\ Types /\ FlagsAgree /\ Resumes /\ PressIsHeard /\ Guarded /\ AttemptLives
      /\ TouchlinkQuiet /\ SwallowsOwn /\ BootIsQuiet /\ BootIsOnce /\ RouterStarts
      /\ EndDevice \in BOOLEAN
  BY BuildFlags DEF IInv
<1> DEFINE s == Cancel(rejoin, "start_network_rejoin_ED")
           awake == [s EXCEPT !.wait_for_user_input = FALSE]
           started == start_network_rejoin(awake, FALSE)
           again == Schedule(started, "rejoin_the_network")
           t == IF ~joined /\ s.wait_for_user_input THEN again ELSE s
<1>2. /\ Due("start_network_rejoin_ED") /\ rejoin' = [t EXCEPT !.start_scheduled = FALSE]
      /\ UNCHANGED <<build, bdb, op_cancelled, tc_rejoin, joined, factory_new, signals,
                     touchlink_start_pending, losses, touchlinks, unfinished>>
  BY DEF start_network_rejoin_ED, Rest, zboss_vars, app_vars
<1>3. s \in Flags /\ SameFlags(rejoin, s) /\ KeepsBut(rejoin, s, {"start_network_rejoin_ED"})
  BY <1>1, Cancelled DEF Types, Callback
<1> HIDE DEF s
<1>4. /\ awake \in Flags /\ awake.pending = s.pending
      /\ awake.stack_initialised = s.stack_initialised
      /\ awake.procedure_started = s.procedure_started
      /\ awake.stop_requested = s.stop_requested
      /\ awake.in_progress = s.in_progress
      /\ ~awake.wait_for_user_input
  BY <1>3 DEF Flags
<1> HIDE DEF awake
<1>5. /\ started \in Flags
      /\ started.stack_initialised = awake.stack_initialised
      /\ started.in_progress = awake.in_progress
      /\ started.wait_for_user_input = awake.wait_for_user_input
      /\ KeepsBut(awake, started, {"stop_network_rejoin"})
      /\ ~MayStart(awake, FALSE) => started = awake
      /\ MayStart(awake, FALSE) => started.procedure_started /\ ~started.stop_requested
  BY <1>4, Started
<1> HIDE DEF started
<1>6. /\ again \in Flags /\ SameFlags(started, again)
      /\ KeepsBut(started, again, {"rejoin_the_network"})
      /\ again.pending["rejoin_the_network"] > 0
  BY <1>5, Scheduled DEF Callback
<1> HIDE DEF again
<1>7. MayStart(awake, FALSE) => awake.stack_initialised
  BY DEF MayStart
<1>8. /\ t \in Flags /\ Sound(t)
      /\ t.stack_initialised = rejoin.stack_initialised
      /\ t.in_progress = rejoin.in_progress
      /\ t.pending["rejoin_the_network"] > 0 \/ (SameFlags(rejoin, t) /\
           t.pending["rejoin_the_network"] = rejoin.pending["rejoin_the_network"])
      /\ KeepsBut(rejoin, t, {"start_network_rejoin_ED", "stop_network_rejoin",
                              "rejoin_the_network"})
      /\ t.pending["stop_network_rejoin"] > 0 => EndDevice
      /\ ~EndDevice => t.procedure_started = rejoin.procedure_started
  <2>1. CASE ~joined /\ s.wait_for_user_input
    <3>1. EndDevice /\ t = again
      BY <1>1, <1>3, <2>1 DEF FlagsAgree, Sound, SameFlags
    <3>2. /\ t \in Flags /\ t.pending["rejoin_the_network"] > 0
      BY <1>6, <3>1
    <3>3. t.stack_initialised = rejoin.stack_initialised /\ t.in_progress = rejoin.in_progress
      BY <1>3, <1>4, <1>5, <1>6, <3>1 DEF SameFlags
    <3>4. Sound(t)
      <4>1. Sound(rejoin) /\ ~ t.wait_for_user_input
        BY <1>1, <1>4, <1>5, <1>6, <3>1 DEF FlagsAgree, SameFlags
      <4>2. CASE MayStart(awake, FALSE)
        <5>1. t.stack_initialised
          BY <1>5, <1>6, <1>7, <3>1, <4>2 DEF SameFlags
        <5> QED
          BY <3>1, <4>1, <5>1 DEF Sound
      <4>3. CASE ~ MayStart(awake, FALSE)
        <5>1. t.procedure_started = rejoin.procedure_started
          BY <1>3, <1>4, <1>5, <1>6, <3>1, <4>3 DEF SameFlags
        <5> QED
          BY <3>1, <3>3, <4>1, <5>1 DEF Sound
      <4> QED
        BY <4>2, <4>3
    <3>5. KeepsBut(rejoin, t, {"start_network_rejoin_ED", "stop_network_rejoin",
                              "rejoin_the_network"})
      BY <1>3, <1>4, <1>5, <1>6, <3>1 DEF KeepsBut
    <3> QED
      BY ONLY <3>1, <3>2, <3>3, <3>4, <3>5
  <2>2. CASE ~(~joined /\ s.wait_for_user_input)
    BY <1>1, <1>3, <2>2 DEF FlagsAgree, Sound, SameFlags, KeepsBut, Due, Callback
  <2> QED
    BY <2>1, <2>2
<1> HIDE DEF t
<1>9. /\ rejoin' \in Flags /\ rejoin'.pending = t.pending
      /\ rejoin'.stack_initialised = t.stack_initialised
      /\ rejoin'.procedure_started = t.procedure_started
      /\ rejoin'.stop_requested = t.stop_requested
      /\ rejoin'.in_progress = t.in_progress
      /\ rejoin'.wait_for_user_input = t.wait_for_user_input
      /\ ~rejoin'.start_scheduled
  BY <1>2, <1>8 DEF Flags
<1>10. /\ ~Has(signals, "SKIP_STARTUP") /\ ~Due("skip_startup_continue")
       /\ ~Quiet
       /\ rejoin.stack_initialised /\ rejoin.pending["skip_startup_continue"] = 0
  <2>1. /\ ~Has(signals, "SKIP_STARTUP") /\ ~Due("skip_startup_continue")
        /\ ~Quiet
    BY <1>2, Busy DEF Callback
  <2> QED
    BY <1>1, <2>1 DEF BootIsOnce, Due, Types, Flags, Callback
<1>11. Types'
  BY <1>1, <1>2, <1>9 DEF Types
<1>12. FlagsAgree'
  BY <1>1, <1>2, <1>8, <1>9 DEF FlagsAgree, Sound, Due, EndDevice
<1>13. Resumes'
  BY <1>1, <1>2, <1>8 DEF Resumes, Attempts, Due, SameFlags
<1>14. PressIsHeard'
  BY <1>1, <1>2 DEF PressIsHeard
<1>15. Guarded'
  BY <1>1, <1>2, <1>8 DEF Guarded, Due, KeepsBut, Callback
<1>16. AttemptLives'
  BY <1>1, <1>2, <1>8 DEF AttemptLives, Due, KeepsBut, Callback
<1>17. TouchlinkQuiet'
  BY <1>1, <1>2, <1>8 DEF TouchlinkQuiet, Due, KeepsBut, Callback
<1>18. SwallowsOwn'
  BY <1>1, <1>2, <1>8 DEF SwallowsOwn, Due, KeepsBut, Callback
<1>19. BootIsQuiet' /\ BootIsOnce'
  <2>1. rejoin'.pending["skip_startup_continue"] = 0 /\ rejoin'.stack_initialised
    BY <1>8, <1>9, <1>10 DEF Due, KeepsBut, Callback
  <2> QED
    BY <1>2, <1>10, <1>11, <2>1, Booted
<1>21. RouterStarts'
  BY <1>1, <1>2, <1>8, <1>9, <1>10 DEF RouterStarts, Booting, Due, EndDevice, KeepsBut, Callback
<1> QED
  BY <1>11, <1>12, <1>13, <1>14, <1>15, <1>16, <1>17, <1>18, <1>19, <1>21 DEF IInv

LEMMA TouchlinkStartStep ==
  ASSUME IInv, touchlink_initiator_start_cb
  PROVE  IInv'
<1>1. /\ Types /\ FlagsAgree /\ Resumes /\ PressIsHeard /\ Guarded /\ AttemptLives
      /\ TouchlinkQuiet /\ SwallowsOwn /\ BootIsQuiet /\ BootIsOnce /\ RouterStarts
      /\ EndDevice \in BOOLEAN
  BY BuildFlags DEF IInv
<1> DEFINE s == Cancel(rejoin, "touchlink_start")
           a == zigbee_network_rejoin_abort(s)
<1>2. /\ Due("touchlink_start") /\ ~Due("skip_startup_continue")
      /\ rejoin' = Schedule(a, "touchlink_begin")
      /\ UNCHANGED <<build, bdb, op_cancelled, tc_rejoin, joined, factory_new, signals,
                     touchlink_start_pending, losses, touchlinks, unfinished>>
  BY DEF touchlink_initiator_start_cb, Rest, zboss_vars, app_vars
<1>3. s \in Flags /\ SameFlags(rejoin, s) /\ KeepsBut(rejoin, s, {"touchlink_start"})
  BY <1>1, Cancelled DEF Types, Callback
<1> HIDE DEF s
<1>4. /\ a \in Flags /\ a.stack_initialised = s.stack_initialised
      /\ ~a.procedure_started /\ ~a.stop_requested /\ ~a.in_progress
      /\ ~a.wait_for_user_input /\ ~a.start_scheduled
      /\ \A cb \in Callback : a.pending[cb] <= s.pending[cb]
      /\ KeepsBut(s, a, Starts \cup {"network_steering_timeout", "tc_rejoin_timeout",
                                     "rejoin_the_network"})
  BY <1>3, Aborted
<1> HIDE DEF a
<1>5. rejoin' \in Flags /\ SameFlags(a, rejoin') /\ KeepsBut(a, rejoin', {"touchlink_begin"})
  BY <1>2, <1>4, Scheduled DEF Callback
<1>6. /\ Sound(rejoin') /\ Attempts(rejoin') /\ ~rejoin'.start_scheduled /\ ~rejoin'.in_progress
      /\ rejoin'.stack_initialised = rejoin.stack_initialised
  BY <1>3, <1>4, <1>5 DEF Sound, Attempts, SameFlags
<1>7. /\ rejoin'.pending["network_steering_timeout"] <= rejoin.pending["network_steering_timeout"]
      /\ rejoin'.pending["stop_network_rejoin"] = rejoin.pending["stop_network_rejoin"]
      /\ rejoin'.pending["skip_startup_continue"] = rejoin.pending["skip_startup_continue"]
      /\ rejoin'.pending["cancelled"] = rejoin.pending["cancelled"]
  BY <1>3, <1>4, <1>5 DEF KeepsBut, Callback, Starts
<1>8. /\ rejoin.pending["network_steering_timeout"] \in Nat
      /\ rejoin'.pending["network_steering_timeout"] \in Nat
      /\ rejoin.pending["skip_startup_continue"] \in Nat
  BY <1>1, <1>5 DEF Types, Flags, Callback
<1>9. /\ touchlinks # 0 /\ ~Has(signals, "SKIP_STARTUP") /\ rejoin.stack_initialised
      /\ rejoin.pending["skip_startup_continue"] = 0
  BY <1>1, <1>2, <1>8 DEF TouchlinkQuiet, BootIsOnce, Due
<1>10. Types'
  BY <1>1, <1>2, <1>5 DEF Types
<1>11. FlagsAgree'
  BY <1>1, <1>2, <1>6, <1>7 DEF FlagsAgree, Sound, Due, EndDevice
<1>12. Resumes'
  BY <1>1, <1>2, <1>6 DEF Resumes
<1>13. PressIsHeard'
  BY <1>1, <1>2, <1>6 DEF PressIsHeard
<1>14. Guarded'
  BY <1>1, <1>2, <1>7, <1>8 DEF Guarded, Due
<1>15. AttemptLives'
  BY <1>1, <1>2, <1>9 DEF AttemptLives
<1>16. TouchlinkQuiet'
  BY <1>1, <1>2 DEF TouchlinkQuiet
<1>17. SwallowsOwn'
  BY <1>1, <1>2, <1>7 DEF SwallowsOwn, Due
<1>18. BootIsQuiet' /\ BootIsOnce'
  <2>1. rejoin'.pending["skip_startup_continue"] = 0 /\ rejoin'.stack_initialised
    BY <1>1, <1>2, <1>6, <1>7, <1>9 DEF Due
  <2> QED
    BY <1>1, <1>2, <1>9, <1>10, <2>1, Booted
<1>20. RouterStarts'
  BY <1>1, <1>2, <1>9 DEF RouterStarts
<1> QED
  BY <1>10, <1>11, <1>12, <1>13, <1>14, <1>15, <1>16, <1>17, <1>18, <1>20 DEF IInv

LEMMA TouchlinkBeginStep ==
  ASSUME IInv, touchlink_begin
  PROVE  IInv'
<1>1. /\ Types /\ FlagsAgree /\ Resumes /\ PressIsHeard /\ Guarded /\ AttemptLives
      /\ TouchlinkQuiet /\ SwallowsOwn /\ BootIsQuiet /\ BootIsOnce /\ RouterStarts
      /\ EndDevice \in BOOLEAN
  BY BuildFlags DEF IInv
<1> DEFINE s == Cancel(rejoin, "touchlink_begin")
           a == [s EXCEPT !.commissioning_active = (bdb = "stop")]
<1>2. /\ Due("touchlink_begin")
      /\ rejoin' = IF bdb = "stop" THEN a ELSE Schedule(a, "touchlink_cancel")
      /\ bdb' = IF bdb = "stop" THEN "touchlink" ELSE bdb
      /\ UNCHANGED <<build, op_cancelled, tc_rejoin, joined, factory_new, signals,
                     touchlink_start_pending, losses, touchlinks, unfinished>>
  BY DEF touchlink_begin, Rest, app_vars
<1>3. s \in Flags /\ SameFlags(rejoin, s) /\ KeepsBut(rejoin, s, {"touchlink_begin"})
  BY <1>1, Cancelled DEF Types, Callback
<1> HIDE DEF s
<1>4. /\ a \in Flags /\ SameFlags(s, a) /\ a.pending = s.pending
  BY <1>3 DEF Flags, SameFlags
<1> HIDE DEF a
<1>5. /\ rejoin' \in Flags /\ SameFlags(a, rejoin')
      /\ KeepsBut(a, rejoin', {"touchlink_cancel"})
  <2>1. CASE bdb = "stop"
    BY <1>2, <1>4, <2>1 DEF SameFlags, KeepsBut
  <2>2. CASE bdb # "stop"
    BY <1>2, <1>4, <2>2, Scheduled DEF Callback
  <2> QED
    BY <2>1, <2>2
<1>6. /\ SameFlags(rejoin, rejoin')
      /\ KeepsBut(rejoin, rejoin', {"touchlink_begin", "touchlink_cancel"})
  BY <1>3, <1>4, <1>5 DEF SameFlags, KeepsBut
<1>7. /\ ~Has(signals, "SKIP_STARTUP") /\ ~Due("skip_startup_continue")
      /\ ~Quiet
      /\ rejoin.stack_initialised /\ rejoin.pending["skip_startup_continue"] = 0
  <2>1. /\ ~Has(signals, "SKIP_STARTUP") /\ ~Due("skip_startup_continue")
        /\ ~Quiet
    BY <1>2, Busy DEF Callback
  <2> QED
    BY <1>1, <2>1 DEF BootIsOnce, Due, Types, Flags, Callback
<1>8. touchlinks # 0
  BY <1>1, <1>2 DEF TouchlinkQuiet
<1>9. Types'
  BY <1>1, <1>2, <1>5 DEF Types, Bdb
<1>10. FlagsAgree'
  BY <1>1, <1>2, <1>6 DEF FlagsAgree, Sound, Due, EndDevice, SameFlags, KeepsBut, Callback
<1>11. Resumes'
  BY <1>1, <1>2, <1>6 DEF Resumes, Attempts, Due, SameFlags, KeepsBut, Callback
<1>12. PressIsHeard'
  BY <1>1, <1>2, <1>6 DEF PressIsHeard, Due, SameFlags, KeepsBut, Callback
<1>13. Guarded'
  BY <1>1, <1>2, <1>6 DEF Guarded, Due, KeepsBut, Callback, Commissioning
<1>14. AttemptLives'
  BY <1>1, <1>2, <1>8 DEF AttemptLives
<1>15. TouchlinkQuiet'
  BY <1>1, <1>2 DEF TouchlinkQuiet
<1>16. SwallowsOwn'
  BY <1>1, <1>2, <1>6 DEF SwallowsOwn, Due, KeepsBut, Callback
<1>17. BootIsQuiet' /\ BootIsOnce'
  <2>1. rejoin'.pending["skip_startup_continue"] = 0 /\ rejoin'.stack_initialised
    BY <1>1, <1>2, <1>6, <1>7 DEF Due, SameFlags, KeepsBut, Callback
  <2> QED
    BY <1>1, <1>2, <1>7, <1>9, <2>1, Booted
<1>19. RouterStarts'
  BY <1>1, <1>2, <1>7, <1>8 DEF RouterStarts
<1> QED
  BY <1>9, <1>10, <1>11, <1>12, <1>13, <1>14, <1>15, <1>16, <1>17, <1>19 DEF IInv

LEMMA TouchlinkCancelStep ==
  ASSUME IInv, touchlink_cancel_then_begin
  PROVE  IInv'
<1>1. /\ Types /\ FlagsAgree /\ Resumes /\ PressIsHeard /\ Guarded /\ AttemptLives
      /\ TouchlinkQuiet /\ SwallowsOwn /\ BootIsQuiet /\ BootIsOnce /\ RouterStarts
      /\ EndDevice \in BOOLEAN
  BY BuildFlags DEF IInv
<1> DEFINE s == Cancel(rejoin, "touchlink_cancel")
<1>2. /\ Due("touchlink_cancel") /\ rejoin' = Schedule(s, "cancelled")
      /\ op_cancelled' = (op_cancelled \/ CanCancel)
      /\ touchlink_start_pending' = TRUE
      /\ UNCHANGED <<build, bdb, tc_rejoin, joined, factory_new, signals, losses, touchlinks, unfinished>>
  BY DEF touchlink_cancel_then_begin, Rest
<1>3. s \in Flags /\ SameFlags(rejoin, s) /\ KeepsBut(rejoin, s, {"touchlink_cancel"})
  BY <1>1, Cancelled DEF Types, Callback
<1> HIDE DEF s
<1>4. /\ rejoin' \in Flags /\ SameFlags(s, rejoin') /\ KeepsBut(s, rejoin', {"cancelled"})
      /\ rejoin'.pending["cancelled"] > 0
  BY <1>2, <1>3, Scheduled DEF Callback
<1>5. /\ SameFlags(rejoin, rejoin')
      /\ KeepsBut(rejoin, rejoin', {"touchlink_cancel", "cancelled"})
  BY <1>3, <1>4 DEF SameFlags, KeepsBut
<1>6. /\ ~Has(signals, "SKIP_STARTUP") /\ ~Due("skip_startup_continue")
      /\ ~Quiet
      /\ rejoin.stack_initialised /\ rejoin.pending["skip_startup_continue"] = 0
  <2>1. /\ ~Has(signals, "SKIP_STARTUP") /\ ~Due("skip_startup_continue")
        /\ ~Quiet
    BY <1>2, Busy DEF Callback
  <2> QED
    BY <1>1, <2>1 DEF BootIsOnce, Due, Types, Flags, Callback
<1>7. touchlinks # 0 /\ op_cancelled' \in BOOLEAN
  BY <1>1, <1>2 DEF TouchlinkQuiet
<1>8. Types'
  BY <1>1, <1>2, <1>4 DEF Types
<1>9. FlagsAgree'
  BY <1>1, <1>2, <1>5 DEF FlagsAgree, Sound, Due, EndDevice, SameFlags, KeepsBut, Callback
<1>10. Resumes'
  BY <1>1, <1>2, <1>5 DEF Resumes, Attempts, Due, SameFlags, KeepsBut, Callback
<1>11. PressIsHeard'
  BY <1>1, <1>2, <1>5 DEF PressIsHeard, Due, SameFlags, KeepsBut, Callback
<1>12. Guarded'
  BY <1>1, <1>2, <1>5 DEF Guarded, Due, KeepsBut, Callback
<1>13. AttemptLives'
  BY <1>1, <1>2, <1>7 DEF AttemptLives
<1>14. TouchlinkQuiet'
  BY <1>1, <1>2 DEF TouchlinkQuiet
<1>15. SwallowsOwn'
  BY <1>1, <1>2, <1>4 DEF SwallowsOwn, Due
<1>16. BootIsQuiet' /\ BootIsOnce'
  <2>1. rejoin'.pending["skip_startup_continue"] = 0 /\ rejoin'.stack_initialised
    BY <1>1, <1>2, <1>5, <1>6 DEF Due, SameFlags, KeepsBut, Callback
  <2> QED
    BY <1>1, <1>2, <1>6, <1>8, <2>1, Booted
<1>18. RouterStarts'
  BY <1>1, <1>2, <1>6, <1>7 DEF RouterStarts
<1> QED
  BY <1>8, <1>9, <1>10, <1>11, <1>12, <1>13, <1>14, <1>15, <1>16, <1>18 DEF IInv

LEMMA SwallowStep ==
  ASSUME IInv, HandleSignal, Swallows(Head(signals))
  PROVE  IInv'
<1>1. /\ Types /\ FlagsAgree /\ Resumes /\ PressIsHeard /\ Guarded /\ AttemptLives
      /\ TouchlinkQuiet /\ SwallowsOwn /\ BootIsQuiet /\ BootIsOnce /\ RouterStarts
      /\ EndDevice \in BOOLEAN
  BY BuildFlags DEF IInv
<1>2. /\ signals # <<>> /\ signals' = Tail(signals)
      /\ Head(signals).name = "STEERING_CANCELLED" /\ touchlink_start_pending
      /\ rejoin' = Schedule(rejoin, "touchlink_begin") /\ touchlink_start_pending' = FALSE
      /\ UNCHANGED <<build, bdb, op_cancelled, tc_rejoin, joined, factory_new,
                     losses, touchlinks, unfinished>>
  BY DEF HandleSignal, Swallows, zboss_vars
<1>3. rejoin' \in Flags /\ SameFlags(rejoin, rejoin') /\ KeepsBut(rejoin, rejoin', {"touchlink_begin"})
  BY <1>1, <1>2, Scheduled DEF Types, Callback
<1>4. /\ ~Has(signals, "SKIP_STARTUP") /\ ~Due("skip_startup_continue")
      /\ rejoin.stack_initialised /\ rejoin.pending["skip_startup_continue"] = 0
  <2>1. ~Has(signals, "SKIP_STARTUP") /\ ~Due("skip_startup_continue")
    BY <1>2, Running
  <2> QED
    BY <1>1, <2>1 DEF BootIsOnce, Due, Types, Flags, Callback
<1>5. /\ signals' \in Seq(Signal)
      /\ HasEnd(signals') <=> HasEnd(signals)
      /\ ~Has(signals', "SKIP_STARTUP")
  <2>1. /\ signals' \in Seq(Signal)
        /\ \A name : Has(signals, name) <=> Head(signals).name = name \/ Has(signals', name)
        /\ HasEnd(signals) <=> IsEnd(Head(signals)) \/ HasEnd(signals')
    BY <1>1, <1>2, Taken DEF Types
  <2> QED
    BY <1>2, <1>4, <2>1 DEF IsEnd
<1>6. touchlinks # 0
  BY <1>1, <1>2 DEF TouchlinkQuiet
<1>7. Types'
  BY <1>1, <1>2, <1>3, <1>5 DEF Types
<1>8. FlagsAgree'
  BY <1>1, <1>2, <1>3 DEF FlagsAgree, Sound, Due, EndDevice, SameFlags, KeepsBut, Callback
<1>9. Resumes'
  BY <1>1, <1>2, <1>3 DEF Resumes, Attempts, Due, SameFlags, KeepsBut, Callback
<1>10. PressIsHeard'
  BY <1>1, <1>2, <1>3 DEF PressIsHeard, Due, SameFlags, KeepsBut, Callback
<1>11. Guarded'
  BY <1>1, <1>2, <1>3, <1>5 DEF Guarded, Due, KeepsBut, Callback
<1>12. AttemptLives'
  BY <1>1, <1>2, <1>6 DEF AttemptLives
<1>13. TouchlinkQuiet'
  BY <1>1, <1>2 DEF TouchlinkQuiet
<1>14. SwallowsOwn'
  BY <1>1, <1>2 DEF SwallowsOwn
<1>15. BootIsQuiet' /\ BootIsOnce'
  <2>1. rejoin'.pending["skip_startup_continue"] = 0 /\ rejoin'.stack_initialised
    BY <1>1, <1>2, <1>3, <1>4 DEF Due, SameFlags, KeepsBut, Callback
  <2> QED
    BY <1>1, <1>2, <1>5, <1>6, <1>7, <2>1, Booted
<1>17. RouterStarts'
  BY <1>1, <1>2, <1>4, <1>6 DEF RouterStarts
<1> QED
  BY <1>7, <1>8, <1>9, <1>10, <1>11, <1>12, <1>13, <1>14, <1>15, <1>17 DEF IInv

LEMMA StartupStep ==
  ASSUME IInv, HandleSignal, Head(signals).name = "SKIP_STARTUP"
  PROVE  IInv'
<1>1. /\ Types /\ FlagsAgree /\ Resumes /\ PressIsHeard /\ Guarded /\ AttemptLives
      /\ TouchlinkQuiet /\ SwallowsOwn /\ BootIsQuiet /\ BootIsOnce /\ RouterStarts
      /\ EndDevice \in BOOLEAN
  BY BuildFlags DEF IInv
<1> DEFINE t == zigbee_default_signal_handler(rejoin, Head(signals))
<1>2. /\ signals # <<>> /\ signals' = Tail(signals) /\ Head(signals) \in Signal
      /\ rejoin' = t
      /\ UNCHANGED <<build, bdb, op_cancelled, tc_rejoin, joined, factory_new,
                     touchlink_start_pending, losses, touchlinks>>
      /\ unfinished' = Unfinished(t, Head(signals))
  BY <1>1 DEF HandleSignal, Swallows, zboss_vars, Types
<1>3. Has(signals, "SKIP_STARTUP")
  <2>1. 1 \in 1..Len(signals) /\ signals[1] = Head(signals)
    BY <1>1, <1>2 DEF Types
  <2> QED
    BY <2>1 DEF Has
<1>4. /\ Quiet /\ bdb = "stop" /\ Len(signals) = 1
      /\ ~Due("skip_startup_continue") /\ ~Due("touchlink_start")
  BY <1>1, <1>3 DEF BootIsQuiet, BootIsOnce, Booting
<1>5. /\ t \in Flags /\ t.stack_initialised
      /\ SameFlags(rejoin, [t EXCEPT !.stack_initialised = rejoin.stack_initialised])
      /\ KeepsBut(rejoin, t, {"skip_startup_continue"})
      /\ t.pending["skip_startup_continue"] > 0
      /\ t.pending["skip_startup_continue"] <= rejoin.pending["skip_startup_continue"] + 1
  BY <1>1, <1>2, <1>4, HandledStartup DEF Types, Quiet
<1> HIDE DEF t
<1>6. /\ t.procedure_started = rejoin.procedure_started
      /\ t.stop_requested = rejoin.stop_requested
      /\ t.in_progress = rejoin.in_progress
      /\ t.wait_for_user_input = rejoin.wait_for_user_input
      /\ t.start_scheduled = rejoin.start_scheduled
  BY <1>5 DEF SameFlags
<1>7. /\ signals' = <<>> /\ signals' \in Seq(Signal)
      /\ ~Has(signals', "SKIP_STARTUP") /\ ~HasEnd(signals')
      /\ ~Has(signals', "STEERING_CANCELLED") /\ WontStop(signals')
  <2>1. signals' = <<>> /\ signals' \in Seq(Signal)
    BY <1>1, <1>2, <1>4 DEF Types
  <2> QED
    BY <2>1 DEF Has, HasEnd, WontStop
<1>8. /\ ~Due("network_steering_timeout") /\ ~Due("stop_network_rejoin")
      /\ ~rejoin.in_progress /\ ~rejoin.procedure_started /\ ~rejoin.start_scheduled
      /\ ~touchlink_start_pending /\ rejoin.pending["network_steering_timeout"] = 0
      /\ rejoin.pending["skip_startup_continue"] \in Nat
  BY <1>1, <1>4 DEF Quiet, Due, Callback, Types, Flags
<1>9. Types'
  <2>1. unfinished' \in BOOLEAN
    BY <1>1, <1>2 DEF Unfinished, Types
  <2> QED
    BY <1>1, <1>2, <1>5, <2>1 DEF Types
<1>10. FlagsAgree'
  BY <1>1, <1>2, <1>5, <1>6 DEF FlagsAgree, Sound, Due, EndDevice, KeepsBut, Callback
<1>11. Resumes'
  BY <1>1, <1>2, <1>6, <1>8 DEF Resumes, Attempts
<1>12. PressIsHeard'
  BY <1>1, <1>2, <1>6, <1>8 DEF PressIsHeard
<1>13. Guarded'
  BY <1>1, <1>2, <1>5, <1>8 DEF Guarded, Due, KeepsBut, Callback
<1>14. AttemptLives'
  BY <1>1, <1>2, <1>6, <1>8 DEF AttemptLives
<1>15. TouchlinkQuiet'
  BY <1>1, <1>2, <1>5 DEF TouchlinkQuiet, Due, KeepsBut, Callback
<1>16. SwallowsOwn'
  BY <1>1, <1>2, <1>8 DEF SwallowsOwn
<1>17. BootIsQuiet'
  <2>1. Quiet'
    BY <1>2, <1>4, <1>5, <1>6 DEF Quiet, Due, KeepsBut
  <2> QED
    BY <1>2, <1>4, <2>1 DEF BootIsQuiet
<1>18. BootIsOnce'
  BY <1>1, <1>2, <1>5, <1>7, <1>8 DEF BootIsOnce, Due
<1>19. RouterStarts'
  BY <1>1, <1>2, <1>5, <1>7 DEF RouterStarts, Booting, Due
<1> QED
  BY <1>9, <1>10, <1>11, <1>12, <1>13, <1>14, <1>15, <1>16, <1>17, <1>18, <1>19 DEF IInv

LEMMA SignalStep ==
  ASSUME IInv, HandleSignal, ~Swallows(Head(signals)), Head(signals).name # "SKIP_STARTUP"
  PROVE  IInv'
<1>1. /\ Types /\ FlagsAgree /\ Resumes /\ PressIsHeard /\ Guarded /\ AttemptLives
      /\ TouchlinkQuiet /\ SwallowsOwn /\ BootIsQuiet /\ BootIsOnce /\ RouterStarts
      /\ EndDevice \in BOOLEAN
  BY BuildFlags DEF IInv
<1> DEFINE sig == Head(signals)
           t == zigbee_default_signal_handler(rejoin, sig)
<1>2. /\ signals # <<>> /\ signals' = Tail(signals) /\ rejoin' = t
      /\ sig.name = "STEERING_CANCELLED" => ~touchlink_start_pending
      /\ sig.name # "SKIP_STARTUP"
      /\ UNCHANGED <<build, bdb, op_cancelled, tc_rejoin, joined, factory_new,
                     touchlink_start_pending, losses, touchlinks>>
      /\ unfinished' = Unfinished(t, sig)
  BY DEF HandleSignal, Swallows, zboss_vars
<1>3. /\ sig \in Signal /\ signals' \in Seq(Signal)
      /\ \A name : Has(signals, name) <=> sig.name = name \/ Has(signals', name)
      /\ HasEnd(signals) <=> IsEnd(sig) \/ HasEnd(signals')
      /\ WillStart(signals) => WillStart(signals') \/ (IsStart(sig) /\ WontStop(signals'))
      /\ WontStop(signals) => ~IsStop(sig) /\ WontStop(signals')
  BY <1>1, <1>2, Taken DEF Types
<1> HIDE DEF sig
<1>4. /\ Has(signals, "STEERING_CANCELLED") <=>
           sig.name = "STEERING_CANCELLED" \/ Has(signals', "STEERING_CANCELLED")
      /\ Has(signals, "SKIP_STARTUP") <=>
           sig.name = "SKIP_STARTUP" \/ Has(signals', "SKIP_STARTUP")
  BY <1>3
<1>5. IsEnd(sig) => Ends(sig) \/ sig.name = "FIRST_START"
  BY DEF IsEnd, Ends, JoinSignals
<1>6. /\ t \in Flags /\ Sound(t) /\ Attempts(t)
      /\ t.stack_initialised = rejoin.stack_initialised
      /\ t.start_scheduled => rejoin.start_scheduled
      /\ CasePending(rejoin, t)
      /\ Ends(sig) /\ rejoin.pending["network_steering_timeout"] <= 1 =>
           t.pending["network_steering_timeout"] = 0
      /\ t.in_progress => \/ \E cb \in Starts : t.pending[cb] > 0
                          \/ /\ ~Ends(sig) /\ rejoin.in_progress
                             /\ KeepsBut(rejoin, t, {"stop_network_rejoin"})
      /\ ~EndDevice /\ ~joined /\ IsStart(sig) /\ rejoin.stack_initialised => t.procedure_started
      /\ ~EndDevice /\ ~IsStop(sig) /\ rejoin.procedure_started => t.procedure_started
      /\ CaseQuiet(rejoin, t, sig)
  BY <1>1, <1>2, <1>3, Handled DEF Types, FlagsAgree, Guarded, Due
<1> HIDE DEF t
<1>7. /\ KeepsBut(rejoin, t, Starts \cup Guards \cup {"stop_network_rejoin"})
      /\ t.pending["stop_network_rejoin"] > 0 => EndDevice
      /\ t.pending["network_steering_timeout"] <= rejoin.pending["network_steering_timeout"]
  BY <1>6 DEF CasePending
<1>8. /\ ~Has(signals, "SKIP_STARTUP") /\ ~Due("skip_startup_continue")
      /\ rejoin.stack_initialised /\ rejoin.pending["skip_startup_continue"] = 0
  <2>1. ~Has(signals, "SKIP_STARTUP") /\ ~Due("skip_startup_continue")
    BY <1>2, Running DEF sig
  <2> QED
    BY <1>1, <2>1 DEF BootIsOnce, Due, Types, Flags, Callback
<1>9. /\ rejoin.pending["network_steering_timeout"] \in Nat
      /\ t.pending["network_steering_timeout"] \in Nat
  BY <1>1, <1>6 DEF Types, Flags, Callback
<1>10. /\ unfinished' \in BOOLEAN
       /\ unfinished \/ sig.name = "FIRST_START" =>
            \/ unfinished'
            \/ /\ t.pending["network_steering_timeout"] = 0
               /\ \E cb \in {"start_network_steering", "start_tc_rejoin", "tc_rejoin_timeout"} :
                    t.pending[cb] > 0
  <2>1. \A cb \in {"start_network_steering", "start_tc_rejoin", "tc_rejoin_timeout"} :
          t.pending[cb] \in Nat
    BY <1>6 DEF Flags, Callback
  <2>2. unfinished' = Unfinished(t, sig)
    BY <1>2
  <2>3. unfinished' \in BOOLEAN
    BY <2>2 DEF Unfinished
  <2>4. ASSUME unfinished \/ sig.name = "FIRST_START", ~unfinished'
        PROVE  /\ t.pending["network_steering_timeout"] = 0
               /\ \E cb \in {"start_network_steering", "start_tc_rejoin", "tc_rejoin_timeout"} :
                    t.pending[cb] > 0
    <3>1. /\ ~(t.pending["network_steering_timeout"] > 0)
          /\ ~(\A cb \in {"start_network_steering", "start_tc_rejoin", "tc_rejoin_timeout"} :
                 t.pending[cb] = 0)
      BY <2>2, <2>4 DEF Unfinished
    <3> QED
      BY <1>9, <2>1, <3>1
  <2> QED
    BY <2>3, <2>4
<1>11. Types'
  BY <1>1, <1>2, <1>6, <1>10 DEF Types
<1>12. FlagsAgree'
  BY <1>2, <1>6, <1>7 DEF FlagsAgree, Sound, Due, EndDevice
<1>13. Resumes'
  BY <1>2, <1>6 DEF Resumes
<1>14. PressIsHeard'
  BY <1>1, <1>2, <1>6, <1>7 DEF PressIsHeard, Due, KeepsBut, Callback, Starts, Guards
<1>15. Guarded'
  <2>1. CASE unfinished \/ sig.name = "FIRST_START"
    BY <1>2, <1>10, <2>1 DEF Guarded, Due
  <2>2. CASE ~unfinished /\ sig.name # "FIRST_START"
    BY <1>1, <1>2, <1>3, <1>5, <1>6, <1>7, <1>9, <2>2 DEF Guarded, Due
  <2> QED
    BY <2>1, <2>2
<1>16. AttemptLives'
  <2>1. CASE unfinished \/ sig.name = "FIRST_START"
    BY <1>2, <1>10, <2>1 DEF AttemptLives, Due
  <2>2. CASE ~unfinished /\ sig.name # "FIRST_START"
    BY <1>1, <1>2, <1>3, <1>5, <1>6, <2>2 DEF AttemptLives, Due, KeepsBut, Callback, Starts
  <2> QED
    BY <2>1, <2>2
<1>17. TouchlinkQuiet'
  BY <1>1, <1>2, <1>7 DEF TouchlinkQuiet, Due, KeepsBut, Callback, Starts, Guards
<1>18. SwallowsOwn'
  BY <1>1, <1>2, <1>4, <1>7 DEF SwallowsOwn, Due, KeepsBut, Callback, Starts, Guards
<1>19. BootIsQuiet' /\ BootIsOnce'
  <2>1. rejoin'.pending["skip_startup_continue"] = 0 /\ rejoin'.stack_initialised
    BY <1>2, <1>6, <1>7, <1>8 DEF Due, KeepsBut, Callback, Starts, Guards
  <2> QED
    BY <1>2, <1>4, <1>8, <1>11, <2>1, Booted
<1>21. RouterStarts'
  <2>1. SUFFICES ASSUME ~joined, ~EndDevice, touchlinks = 0, ~t.procedure_started
                 PROVE  RouterStarts'
    BY <1>2, <1>3, <1>6, <1>8, <1>1 DEF RouterStarts, EndDevice, Booting
  <2>2. \/ WillStart(signals')
        \/ /\ ~IsStop(sig) /\ ~IsStart(sig) /\ WontStop(signals') /\ Quiet
           /\ bdb \in Commissioning \/ Has(signals, "FIRST_START") \/ unfinished
    BY <1>1, <1>3, <1>6, <1>8, <2>1 DEF RouterStarts, Booting
  <2>3. ASSUME ~IsStop(sig), ~IsStart(sig), Quiet
        PROVE  /\ Quiet'
               /\ unfinished \/ sig.name = "FIRST_START" => unfinished'
    <3>1. SameFlags(rejoin, t) /\ t.pending = rejoin.pending
      BY <1>6, <2>3 DEF CaseQuiet, Quiet
    <3>2. Quiet'
      BY <1>2, <2>3, <3>1 DEF Quiet, Due, SameFlags
    <3>3. \A cb \in Callback \ {"skip_startup_continue", "touchlink_start"} : ~(t.pending[cb] > 0)
      BY <2>3, <3>1 DEF Quiet, Due
    <3> QED
      BY <1>10, <3>2, <3>3 DEF Callback
  <2> QED
    BY <1>2, <1>3, <2>2, <2>3 DEF RouterStarts
<1> QED
  BY <1>11, <1>12, <1>13, <1>14, <1>15, <1>16, <1>17, <1>18, <1>19, <1>21 DEF IInv

LEMMA UserInputStep ==
  ASSUME IInv, user_input_indicate
  PROVE  IInv'
<1>1. /\ Types /\ FlagsAgree /\ Resumes /\ PressIsHeard /\ Guarded /\ AttemptLives
      /\ TouchlinkQuiet /\ SwallowsOwn /\ BootIsQuiet /\ BootIsOnce /\ RouterStarts
      /\ EndDevice \in BOOLEAN
  BY BuildFlags DEF IInv
<1> DEFINE a == [rejoin EXCEPT !.start_scheduled = TRUE]
<1>2. /\ rejoin.wait_for_user_input /\ rejoin' = Schedule(a, "start_network_rejoin_ED")
      /\ UNCHANGED <<build, bdb, op_cancelled, tc_rejoin, joined, factory_new, signals,
                     touchlink_start_pending, losses, touchlinks, unfinished>>
  BY DEF user_input_indicate, zboss_vars, app_vars
<1>3. /\ a \in Flags /\ a.pending = rejoin.pending
      /\ a.stack_initialised = rejoin.stack_initialised
      /\ a.procedure_started = rejoin.procedure_started
      /\ a.stop_requested = rejoin.stop_requested
      /\ a.in_progress = rejoin.in_progress
      /\ a.wait_for_user_input = rejoin.wait_for_user_input
  BY <1>1 DEF Types, Flags
<1> HIDE DEF a
<1>4. /\ rejoin' \in Flags /\ SameFlags(a, rejoin')
      /\ KeepsBut(a, rejoin', {"start_network_rejoin_ED"})
      /\ rejoin'.pending["start_network_rejoin_ED"] > 0
  BY <1>2, <1>3, Scheduled DEF Callback
<1>5. /\ ~Has(signals, "SKIP_STARTUP") /\ ~Due("skip_startup_continue")
      /\ ~Quiet
      /\ rejoin.stack_initialised /\ rejoin.pending["skip_startup_continue"] = 0
  <2>1. /\ ~Has(signals, "SKIP_STARTUP") /\ ~Due("skip_startup_continue")
        /\ ~Quiet
    BY <1>2, Busy DEF Quiet
  <2> QED
    BY <1>1, <2>1 DEF BootIsOnce, Due, Types, Flags, Callback
<1>6. Types'
  BY <1>1, <1>2, <1>4 DEF Types
<1>7. FlagsAgree'
  BY <1>1, <1>2, <1>3, <1>4 DEF FlagsAgree, Sound, EndDevice, SameFlags
<1>8. Resumes'
  BY <1>1, <1>2, <1>3, <1>4 DEF Resumes, Attempts, Due, SameFlags, KeepsBut, Callback
<1>9. PressIsHeard'
  BY <1>1, <1>2, <1>4 DEF PressIsHeard, Due
<1>10. Guarded'
  BY <1>1, <1>2, <1>3, <1>4 DEF Guarded, Due, KeepsBut, Callback
<1>11. AttemptLives'
  BY <1>1, <1>2, <1>3, <1>4 DEF AttemptLives, Due, SameFlags, KeepsBut, Callback
<1>12. TouchlinkQuiet'
  BY <1>1, <1>2, <1>3, <1>4 DEF TouchlinkQuiet, Due, KeepsBut, Callback
<1>13. SwallowsOwn'
  BY <1>1, <1>2, <1>3, <1>4 DEF SwallowsOwn, Due, KeepsBut, Callback
<1>14. BootIsQuiet' /\ BootIsOnce'
  <2>1. rejoin'.pending["skip_startup_continue"] = 0 /\ rejoin'.stack_initialised
    BY <1>1, <1>2, <1>3, <1>4, <1>5 DEF Due, SameFlags, KeepsBut, Callback
  <2> QED
    BY <1>1, <1>2, <1>5, <1>6, <2>1, Booted
<1>16. RouterStarts'
  BY <1>1, <1>2, <1>5, <1>3, <1>4
     DEF RouterStarts, Booting, Due, EndDevice, SameFlags, KeepsBut, Callback
<1> QED
  BY <1>6, <1>7, <1>8, <1>9, <1>10, <1>11, <1>12, <1>13, <1>14, <1>16 DEF IInv

LEMMA TouchlinkButtonStep ==
  ASSUME IInv, TouchlinkButton
  PROVE  IInv'
<1>1. /\ Types /\ FlagsAgree /\ Resumes /\ PressIsHeard /\ Guarded /\ AttemptLives
      /\ TouchlinkQuiet /\ SwallowsOwn /\ BootIsQuiet /\ BootIsOnce /\ RouterStarts
      /\ EndDevice \in BOOLEAN
  BY BuildFlags DEF IInv
<1>2. /\ rejoin.stack_initialised /\ touchlinks' = touchlinks + 1
      /\ rejoin' = Schedule(rejoin, "touchlink_start")
      /\ UNCHANGED <<build, bdb, op_cancelled, tc_rejoin, joined, factory_new, signals,
                     touchlink_start_pending, losses, unfinished>>
  BY DEF TouchlinkButton, zboss_vars
<1>3. /\ rejoin' \in Flags /\ SameFlags(rejoin, rejoin')
      /\ KeepsBut(rejoin, rejoin', {"touchlink_start"})
  BY <1>1, <1>2, Scheduled DEF Types, Callback
<1>4. touchlinks' \in Nat /\ touchlinks' # 0
  BY <1>1, <1>2 DEF Types
<1>6. Types'
  BY <1>1, <1>2, <1>3 DEF Types
<1>7. FlagsAgree'
  BY <1>1, <1>2, <1>3 DEF FlagsAgree, Sound, Due, EndDevice, SameFlags, KeepsBut, Callback
<1>8. Resumes'
  BY <1>1, <1>2, <1>3 DEF Resumes, Attempts, Due, SameFlags, KeepsBut, Callback
<1>9. PressIsHeard'
  BY <1>1, <1>2, <1>3 DEF PressIsHeard, Due, SameFlags, KeepsBut, Callback
<1>10. Guarded'
  BY <1>1, <1>2, <1>3 DEF Guarded, Due, KeepsBut, Callback
<1>11. AttemptLives'
  BY <1>1, <1>2, <1>4 DEF AttemptLives
<1>12. TouchlinkQuiet'
  BY <1>1, <1>2, <1>4 DEF TouchlinkQuiet
<1>13. SwallowsOwn'
  BY <1>1, <1>2, <1>3 DEF SwallowsOwn, Due, KeepsBut, Callback
<1>14. BootIsQuiet'
  <2>1. Quiet => Quiet'
    BY <1>2, <1>3 DEF Quiet, Due, SameFlags, KeepsBut
  <2>2. Booting' => Booting
    BY <1>2, <1>3 DEF Booting, Due, KeepsBut, Callback
  <2> QED
    BY <1>1, <1>2, <1>4, <2>1, <2>2 DEF BootIsQuiet
<1>15. BootIsOnce'
  BY <1>1, <1>2, <1>3 DEF BootIsOnce, Due, SameFlags, KeepsBut, Callback
<1>16. RouterStarts'
  BY <1>1, <1>2, <1>4 DEF RouterStarts
<1> QED
  BY <1>6, <1>7, <1>8, <1>9, <1>10, <1>11, <1>12, <1>13, <1>14, <1>15, <1>16 DEF IInv

LEMMA TooLateStep ==
  ASSUME IInv, SteeringTooLate
  PROVE  IInv'
<1>1. /\ Types /\ FlagsAgree /\ Resumes /\ PressIsHeard /\ Guarded /\ AttemptLives
      /\ TouchlinkQuiet /\ SwallowsOwn /\ BootIsQuiet /\ BootIsOnce /\ RouterStarts
      /\ EndDevice \in BOOLEAN
  BY BuildFlags DEF IInv
<1>2. /\ bdb # "stop" /\ bdb \in Commissioning /\ bdb' \in Commissioning \cap Bdb /\ bdb' # "touchlink"
      /\ UNCHANGED <<rejoin, build, op_cancelled, tc_rejoin, joined, factory_new, signals,
                     touchlink_start_pending, losses, touchlinks, unfinished>>
  BY DEF SteeringTooLate, app_vars, Bdb, Commissioning
<1>3. /\ ~Has(signals, "SKIP_STARTUP") /\ ~Due("skip_startup_continue")
      /\ rejoin.stack_initialised /\ rejoin.pending["skip_startup_continue"] = 0
  <2>1. ~Has(signals, "SKIP_STARTUP") /\ ~Due("skip_startup_continue")
    BY <1>2, Running
  <2> QED
    BY <1>1, <2>1 DEF BootIsOnce, Due, Types, Flags, Callback
<1>4. Types'
  BY <1>1, <1>2 DEF Types
<1>5. FlagsAgree'
  BY <1>1, <1>2 DEF FlagsAgree, Sound, Due, EndDevice
<1>6. Resumes'
  BY <1>1, <1>2 DEF Resumes, Due
<1>7. PressIsHeard'
  BY <1>1, <1>2 DEF PressIsHeard, Due
<1>8. Guarded'
  BY <1>1, <1>2 DEF Guarded
<1>9. AttemptLives'
  BY <1>1, <1>2 DEF AttemptLives
<1>10. TouchlinkQuiet'
  BY <1>1, <1>2 DEF TouchlinkQuiet, Due
<1>11. SwallowsOwn'
  BY <1>1, <1>2 DEF SwallowsOwn, Due
<1>12. BootIsQuiet' /\ BootIsOnce'
  <2>1. rejoin'.pending["skip_startup_continue"] = 0 /\ rejoin'.stack_initialised
    BY <1>1, <1>2, <1>3 DEF Due
  <2> QED
    BY <1>1, <1>2, <1>3, <1>4, Booted
<1>14. RouterStarts'
  BY <1>1, <1>2, <1>3 DEF RouterStarts, Booting, Quiet, Due, EndDevice
<1> QED
  BY <1>4, <1>5, <1>6, <1>7, <1>8, <1>9, <1>10, <1>11, <1>12, <1>14 DEF IInv

LEMMA FirstStartStep ==
  ASSUME IInv, NEW ok \in BOOLEAN, FirstStartEnds(ok)
  PROVE  IInv'
<1>1. /\ Types /\ FlagsAgree /\ Resumes /\ PressIsHeard /\ Guarded /\ AttemptLives
      /\ TouchlinkQuiet /\ SwallowsOwn /\ BootIsQuiet /\ BootIsOnce /\ RouterStarts
      /\ EndDevice \in BOOLEAN
  BY BuildFlags DEF IInv
<1> DEFINE sig == Sig("FIRST_START", ok)
<1>2. /\ bdb \in {"init", "late_init"} /\ bdb' = "stop" /\ joined' \in BOOLEAN /\ (joined => joined')
      /\ op_cancelled' = FALSE /\ factory_new' \in BOOLEAN /\ signals' = Append(signals, sig)
      /\ UNCHANGED <<rejoin, build, tc_rejoin, touchlink_start_pending, losses, touchlinks, unfinished>>
  BY <1>1 DEF FirstStartEnds, Finish, MayJoin, app_vars, Types, Bdb
<1>3. /\ sig \in Signal /\ sig.name = "FIRST_START" /\ ~IsStop(sig)
  BY DEF Sig, Signal, IsStop, JoinSignals
<1> HIDE DEF sig
<1>4. /\ ~Has(signals, "SKIP_STARTUP") /\ ~Due("skip_startup_continue")
      /\ rejoin.stack_initialised /\ rejoin.pending["skip_startup_continue"] = 0
  <2>1. ~Has(signals, "SKIP_STARTUP") /\ ~Due("skip_startup_continue")
    BY <1>2, Running
  <2> QED
    BY <1>1, <2>1 DEF BootIsOnce, Due, Types, Flags, Callback
<1>5. /\ signals' \in Seq(Signal)
      /\ HasEnd(signals')
      /\ Has(signals', "STEERING_CANCELLED") <=> Has(signals, "STEERING_CANCELLED")
      /\ ~Has(signals', "SKIP_STARTUP")
      /\ Has(signals', "FIRST_START")
      /\ WillStart(signals) => WillStart(signals')
      /\ WontStop(signals) => WontStop(signals')
  BY <1>1, <1>2, <1>3, <1>4, Appended DEF Types, IsEnd
<1>6. Types'
  BY <1>1, <1>2, <1>5 DEF Types, Bdb
<1>7. FlagsAgree'
  BY <1>1, <1>2 DEF FlagsAgree, Sound, Due, EndDevice
<1>8. Resumes'
  BY <1>1, <1>2 DEF Resumes, Due
<1>9. PressIsHeard'
  BY <1>1, <1>2 DEF PressIsHeard, Due
<1>10. Guarded'
  BY <1>1, <1>2, <1>5 DEF Guarded, Bdb
<1>11. AttemptLives'
  BY <1>1, <1>2, <1>5 DEF AttemptLives
<1>12. TouchlinkQuiet'
  BY <1>1, <1>2 DEF TouchlinkQuiet, Due, Bdb
<1>13. SwallowsOwn'
  BY <1>1, <1>2, <1>5 DEF SwallowsOwn, Due
<1>14. BootIsQuiet' /\ BootIsOnce'
  <2>1. rejoin'.pending["skip_startup_continue"] = 0 /\ rejoin'.stack_initialised
    BY <1>1, <1>2, <1>4 DEF Due
  <2> QED
    BY <1>1, <1>2, <1>5, <1>6, <2>1, Booted
<1>16. RouterStarts'
  <2>1. ~joined' /\ Quiet => Quiet'
    BY <1>2 DEF Quiet, Due
  <2>2. Booting => FALSE
    BY <1>4 DEF Booting
  <2> QED
    BY <1>1, <1>2, <1>5, <2>1, <2>2 DEF RouterStarts, EndDevice
<1> QED
  BY <1>6, <1>7, <1>8, <1>9, <1>10, <1>11, <1>12, <1>13, <1>14, <1>16 DEF IInv

LEMMA RebootStep ==
  ASSUME IInv, NEW ok \in BOOLEAN, RebootEnds(ok)
  PROVE  IInv'
<1>1. /\ Types /\ FlagsAgree /\ Resumes /\ PressIsHeard /\ Guarded /\ AttemptLives
      /\ TouchlinkQuiet /\ SwallowsOwn /\ BootIsQuiet /\ BootIsOnce /\ RouterStarts
      /\ EndDevice \in BOOLEAN
  BY BuildFlags DEF IInv
<1> DEFINE sig == Sig("REBOOT", ok)
<1>2. /\ bdb = "rejoin" /\ bdb' = "stop" /\ joined' \in BOOLEAN /\ (ok => joined')
      /\ op_cancelled' = FALSE /\ factory_new' \in BOOLEAN /\ signals' = Append(signals, sig)
      /\ UNCHANGED <<rejoin, build, tc_rejoin, touchlink_start_pending, losses, touchlinks, unfinished>>
  BY <1>1 DEF RebootEnds, Finish, MayJoin, app_vars, Types, Bdb
<1>3. /\ sig \in Signal /\ sig.name = "REBOOT" /\ (~ok => IsStart(sig))
  BY DEF Sig, Signal, IsStart, JoinSignals
<1> HIDE DEF sig
<1>4. /\ ~Has(signals, "SKIP_STARTUP") /\ ~Due("skip_startup_continue")
      /\ rejoin.stack_initialised /\ rejoin.pending["skip_startup_continue"] = 0
  <2>1. ~Has(signals, "SKIP_STARTUP") /\ ~Due("skip_startup_continue")
    BY <1>2, Running
  <2> QED
    BY <1>1, <2>1 DEF BootIsOnce, Due, Types, Flags, Callback
<1>5. /\ signals' \in Seq(Signal)
      /\ HasEnd(signals')
      /\ Has(signals', "STEERING_CANCELLED") <=> Has(signals, "STEERING_CANCELLED")
      /\ ~Has(signals', "SKIP_STARTUP")
      /\ ~joined' => WillStart(signals')
  BY <1>1, <1>2, <1>3, <1>4, Appended DEF Types, IsEnd
<1>6. Types'
  BY <1>1, <1>2, <1>5 DEF Types, Bdb
<1>7. FlagsAgree'
  BY <1>1, <1>2 DEF FlagsAgree, Sound, Due, EndDevice
<1>8. Resumes'
  BY <1>1, <1>2 DEF Resumes, Due
<1>9. PressIsHeard'
  BY <1>1, <1>2 DEF PressIsHeard, Due
<1>10. Guarded'
  BY <1>1, <1>2, <1>5 DEF Guarded, Bdb
<1>11. AttemptLives'
  BY <1>1, <1>2, <1>5 DEF AttemptLives
<1>12. TouchlinkQuiet'
  BY <1>1, <1>2 DEF TouchlinkQuiet, Due, Bdb
<1>13. SwallowsOwn'
  BY <1>1, <1>2, <1>5 DEF SwallowsOwn, Due
<1>14. BootIsQuiet' /\ BootIsOnce'
  <2>1. rejoin'.pending["skip_startup_continue"] = 0 /\ rejoin'.stack_initialised
    BY <1>1, <1>2, <1>4 DEF Due
  <2> QED
    BY <1>1, <1>2, <1>5, <1>6, <2>1, Booted
<1>16. RouterStarts'
  BY <1>1, <1>2, <1>4, <1>5 DEF RouterStarts, EndDevice
<1> QED
  BY <1>6, <1>7, <1>8, <1>9, <1>10, <1>11, <1>12, <1>13, <1>14, <1>16 DEF IInv

LEMMA SteeringEndStep ==
  ASSUME IInv, NEW ok \in BOOLEAN, SteeringEnds(ok)
  PROVE  IInv'
<1>1. /\ Types /\ FlagsAgree /\ Resumes /\ PressIsHeard /\ Guarded /\ AttemptLives
      /\ TouchlinkQuiet /\ SwallowsOwn /\ BootIsQuiet /\ BootIsOnce /\ RouterStarts
      /\ EndDevice \in BOOLEAN
  BY BuildFlags DEF IInv
<1> DEFINE sig == Sig("STEERING", ok)
<1>2. /\ bdb \in {"steering", "late"} /\ bdb' = "stop" /\ joined' \in BOOLEAN /\ (ok => joined')
      /\ op_cancelled' = FALSE /\ factory_new' \in BOOLEAN /\ signals' = Append(signals, sig)
      /\ UNCHANGED <<rejoin, build, tc_rejoin, touchlink_start_pending, losses, touchlinks, unfinished>>
  BY <1>1 DEF SteeringEnds, Finish, MayJoin, app_vars, Types, Bdb
<1>3. /\ sig \in Signal /\ sig.name = "STEERING" /\ (~ok => IsStart(sig))
  BY DEF Sig, Signal, IsStart, JoinSignals
<1> HIDE DEF sig
<1>4. /\ ~Has(signals, "SKIP_STARTUP") /\ ~Due("skip_startup_continue")
      /\ rejoin.stack_initialised /\ rejoin.pending["skip_startup_continue"] = 0
  <2>1. ~Has(signals, "SKIP_STARTUP") /\ ~Due("skip_startup_continue")
    BY <1>2, Running
  <2> QED
    BY <1>1, <2>1 DEF BootIsOnce, Due, Types, Flags, Callback
<1>5. /\ signals' \in Seq(Signal)
      /\ HasEnd(signals')
      /\ Has(signals', "STEERING_CANCELLED") <=> Has(signals, "STEERING_CANCELLED")
      /\ ~Has(signals', "SKIP_STARTUP")
      /\ ~joined' => WillStart(signals')
  BY <1>1, <1>2, <1>3, <1>4, Appended DEF Types, IsEnd
<1>6. Types'
  BY <1>1, <1>2, <1>5 DEF Types, Bdb
<1>7. FlagsAgree'
  BY <1>1, <1>2 DEF FlagsAgree, Sound, Due, EndDevice
<1>8. Resumes'
  BY <1>1, <1>2 DEF Resumes, Due
<1>9. PressIsHeard'
  BY <1>1, <1>2 DEF PressIsHeard, Due
<1>10. Guarded'
  BY <1>1, <1>2, <1>5 DEF Guarded, Bdb
<1>11. AttemptLives'
  BY <1>1, <1>2, <1>5 DEF AttemptLives
<1>12. TouchlinkQuiet'
  BY <1>1, <1>2 DEF TouchlinkQuiet, Due, Bdb
<1>13. SwallowsOwn'
  BY <1>1, <1>2, <1>5 DEF SwallowsOwn, Due
<1>14. BootIsQuiet' /\ BootIsOnce'
  <2>1. rejoin'.pending["skip_startup_continue"] = 0 /\ rejoin'.stack_initialised
    BY <1>1, <1>2, <1>4 DEF Due
  <2> QED
    BY <1>1, <1>2, <1>5, <1>6, <2>1, Booted
<1>16. RouterStarts'
  BY <1>1, <1>2, <1>4, <1>5 DEF RouterStarts, EndDevice
<1> QED
  BY <1>6, <1>7, <1>8, <1>9, <1>10, <1>11, <1>12, <1>13, <1>14, <1>16 DEF IInv

LEMMA TouchlinkEndStep ==
  ASSUME IInv, NEW ok \in BOOLEAN, TouchlinkEnds(ok)
  PROVE  IInv'
<1>1. /\ Types /\ FlagsAgree /\ Resumes /\ PressIsHeard /\ Guarded /\ AttemptLives
      /\ TouchlinkQuiet /\ SwallowsOwn /\ BootIsQuiet /\ BootIsOnce /\ RouterStarts
      /\ EndDevice \in BOOLEAN
  BY BuildFlags DEF IInv
<1> DEFINE sig == Sig("TOUCHLINK", ok)
<1>2. /\ bdb = "touchlink" /\ bdb' = "stop" /\ joined' \in BOOLEAN
      /\ op_cancelled' = FALSE /\ factory_new' \in BOOLEAN /\ signals' = Append(signals, sig)
      /\ UNCHANGED <<rejoin, build, tc_rejoin, touchlink_start_pending, losses, touchlinks, unfinished>>
  BY <1>1 DEF TouchlinkEnds, Finish, app_vars
<1>3. sig \in Signal /\ sig.name = "TOUCHLINK"
  BY DEF Sig, Signal
<1> HIDE DEF sig
<1>4. /\ ~Has(signals, "SKIP_STARTUP") /\ ~Due("skip_startup_continue")
      /\ rejoin.stack_initialised /\ rejoin.pending["skip_startup_continue"] = 0
  <2>1. ~Has(signals, "SKIP_STARTUP") /\ ~Due("skip_startup_continue")
    BY <1>2, Running
  <2> QED
    BY <1>1, <2>1 DEF BootIsOnce, Due, Types, Flags, Callback
<1>5. /\ signals' \in Seq(Signal)
      /\ HasEnd(signals') <=> HasEnd(signals)
      /\ Has(signals', "STEERING_CANCELLED") <=> Has(signals, "STEERING_CANCELLED")
      /\ ~Has(signals', "SKIP_STARTUP")
  BY <1>1, <1>2, <1>3, <1>4, Appended DEF Types, IsEnd
<1>6. touchlinks # 0
  BY <1>1, <1>2 DEF TouchlinkQuiet
<1>7. Types'
  BY <1>1, <1>2, <1>5 DEF Types, Bdb
<1>8. FlagsAgree'
  BY <1>1, <1>2 DEF FlagsAgree, Sound, Due, EndDevice
<1>9. Resumes'
  BY <1>1, <1>2 DEF Resumes, Due
<1>10. PressIsHeard'
  BY <1>1, <1>2 DEF PressIsHeard, Due
<1>11. Guarded'
  BY <1>1, <1>2, <1>5 DEF Guarded, Due, Commissioning
<1>12. AttemptLives'
  BY <1>1, <1>2, <1>6 DEF AttemptLives
<1>13. TouchlinkQuiet'
  BY <1>1, <1>2 DEF TouchlinkQuiet
<1>14. SwallowsOwn'
  BY <1>1, <1>2, <1>5 DEF SwallowsOwn, Due
<1>15. BootIsQuiet' /\ BootIsOnce'
  <2>1. rejoin'.pending["skip_startup_continue"] = 0 /\ rejoin'.stack_initialised
    BY <1>1, <1>2, <1>4 DEF Due
  <2> QED
    BY <1>1, <1>2, <1>5, <1>7, <2>1, Booted
<1>17. RouterStarts'
  BY <1>1, <1>2, <1>4, <1>6 DEF RouterStarts
<1> QED
  BY <1>7, <1>8, <1>9, <1>10, <1>11, <1>12, <1>13, <1>14, <1>15, <1>17 DEF IInv

LEMMA TcRejoinEndStep ==
  ASSUME IInv, NEW ok \in BOOLEAN, TcRejoinEnds(ok)
  PROVE  IInv'
<1>1. /\ Types /\ FlagsAgree /\ Resumes /\ PressIsHeard /\ Guarded /\ AttemptLives
      /\ TouchlinkQuiet /\ SwallowsOwn /\ BootIsQuiet /\ BootIsOnce /\ RouterStarts
      /\ EndDevice \in BOOLEAN
  BY BuildFlags DEF IInv
<1> DEFINE sig == Sig("TC_REJOIN_DONE", ok)
<1>2. /\ tc_rejoin /\ tc_rejoin' = FALSE /\ joined' \in BOOLEAN /\ (ok => joined')
      /\ signals' = Append(signals, sig)
      /\ UNCHANGED <<rejoin, build, bdb, op_cancelled, factory_new,
                     touchlink_start_pending, losses, touchlinks, unfinished>>
  BY <1>1 DEF TcRejoinEnds, app_vars
<1>3. /\ sig \in Signal /\ sig.name = "TC_REJOIN_DONE" /\ (~ok => IsStart(sig))
  BY DEF Sig, Signal, IsStart, JoinSignals
<1> HIDE DEF sig
<1>4. /\ ~Has(signals, "SKIP_STARTUP") /\ ~Due("skip_startup_continue")
      /\ ~Quiet
      /\ rejoin.stack_initialised /\ rejoin.pending["skip_startup_continue"] = 0
  <2>1. /\ ~Has(signals, "SKIP_STARTUP") /\ ~Due("skip_startup_continue")
        /\ ~Quiet
    BY <1>2, Busy DEF Quiet
  <2> QED
    BY <1>1, <2>1 DEF BootIsOnce, Due, Types, Flags, Callback
<1>5. /\ signals' \in Seq(Signal)
      /\ HasEnd(signals') <=> HasEnd(signals)
      /\ Has(signals', "STEERING_CANCELLED") <=> Has(signals, "STEERING_CANCELLED")
      /\ ~Has(signals', "SKIP_STARTUP")
      /\ ~joined' => WillStart(signals')
  BY <1>1, <1>2, <1>3, <1>4, Appended DEF Types, IsEnd
<1>6. Types'
  BY <1>1, <1>2, <1>5 DEF Types
<1>7. FlagsAgree'
  BY <1>1, <1>2 DEF FlagsAgree, Sound, Due, EndDevice
<1>8. Resumes'
  BY <1>1, <1>2 DEF Resumes, Due
<1>9. PressIsHeard'
  BY <1>1, <1>2 DEF PressIsHeard, Due
<1>10. Guarded'
  BY <1>1, <1>2, <1>5 DEF Guarded, Due
<1>11. AttemptLives'
  BY <1>1, <1>2, <1>5 DEF AttemptLives, Due
<1>12. TouchlinkQuiet'
  BY <1>1, <1>2 DEF TouchlinkQuiet, Due
<1>13. SwallowsOwn'
  BY <1>1, <1>2, <1>5 DEF SwallowsOwn, Due
<1>14. BootIsQuiet' /\ BootIsOnce'
  <2>1. rejoin'.pending["skip_startup_continue"] = 0 /\ rejoin'.stack_initialised
    BY <1>1, <1>2, <1>4 DEF Due
  <2> QED
    BY <1>1, <1>2, <1>4, <1>5, <1>6, Booted
<1>16. RouterStarts'
  BY <1>1, <1>2, <1>4, <1>5 DEF RouterStarts
<1> QED
  BY <1>6, <1>7, <1>8, <1>9, <1>10, <1>11, <1>12, <1>13, <1>14, <1>16 DEF IInv

LEMMA LeaveStep ==
  ASSUME IInv, Leave
  PROVE  IInv'
<1>1. /\ Types /\ FlagsAgree /\ Resumes /\ PressIsHeard /\ Guarded /\ AttemptLives
      /\ TouchlinkQuiet /\ SwallowsOwn /\ BootIsQuiet /\ BootIsOnce /\ RouterStarts
      /\ EndDevice \in BOOLEAN
  BY BuildFlags DEF IInv
<1> DEFINE sig == Sig("LEAVE", TRUE)
<1>2. /\ joined /\ joined' = FALSE /\ bdb' = (IF bdb = "steering" THEN "late" ELSE bdb)
      /\ factory_new' \in BOOLEAN /\ losses' = losses + 1 /\ signals' = Append(signals, sig)
      /\ UNCHANGED <<rejoin, build, op_cancelled, tc_rejoin, touchlink_start_pending, touchlinks, unfinished>>
  BY DEF Leave
<1>3. sig \in Signal /\ sig.name = "LEAVE" /\ IsStart(sig)
  BY DEF Sig, Signal, IsStart
<1> HIDE DEF sig
<1>4. /\ ~Has(signals, "SKIP_STARTUP") /\ ~Due("skip_startup_continue")
      /\ ~Quiet
      /\ rejoin.stack_initialised /\ rejoin.pending["skip_startup_continue"] = 0
  <2>1. /\ ~Has(signals, "SKIP_STARTUP") /\ ~Due("skip_startup_continue")
        /\ ~Quiet
    BY <1>2, Busy DEF Quiet
  <2> QED
    BY <1>1, <2>1 DEF BootIsOnce, Due, Types, Flags, Callback
<1>5. /\ signals' \in Seq(Signal)
      /\ HasEnd(signals') <=> HasEnd(signals)
      /\ Has(signals', "STEERING_CANCELLED") <=> Has(signals, "STEERING_CANCELLED")
      /\ ~Has(signals', "SKIP_STARTUP")
      /\ ~joined' => WillStart(signals')
  BY <1>1, <1>2, <1>3, <1>4, Appended DEF Types, IsEnd
<1>6. /\ bdb' \in Bdb /\ losses' \in Nat
      /\ joined' \in BOOLEAN
  <2>1. joined' \in BOOLEAN
    BY <1>2
  <2>2. losses' \in Nat
    BY <1>1, <1>2 DEF Types
  <2>3. bdb' \in Bdb
    BY <1>1, <1>2 DEF Types, Bdb
  <2> QED
    BY <2>1, <2>2, <2>3
<1>7. Types'
  BY <1>1, <1>2, <1>5, <1>6 DEF Types
<1>8. FlagsAgree'
  BY <1>1, <1>2 DEF FlagsAgree, Sound, Due, EndDevice
<1>9. Resumes'
  BY <1>1, <1>2 DEF Resumes, Due
<1>10. PressIsHeard'
  BY <1>1, <1>2 DEF PressIsHeard, Due
<1>11. Guarded'
  BY <1>1, <1>2, <1>5 DEF Guarded, Due, Commissioning
<1>12. AttemptLives'
  BY <1>1, <1>2, <1>5 DEF AttemptLives, Due, Commissioning
<1>13. TouchlinkQuiet'
  BY <1>1, <1>2 DEF TouchlinkQuiet, Due
<1>14. SwallowsOwn'
  BY <1>1, <1>2, <1>5 DEF SwallowsOwn, Due
<1>15. BootIsQuiet' /\ BootIsOnce'
  <2>1. rejoin'.pending["skip_startup_continue"] = 0 /\ rejoin'.stack_initialised
    BY <1>1, <1>2, <1>4 DEF Due
  <2> QED
    BY <1>1, <1>2, <1>4, <1>5, <1>7, Booted
<1>17. RouterStarts'
  BY <1>1, <1>2, <1>4, <1>5 DEF RouterStarts
<1> QED
  BY <1>7, <1>8, <1>9, <1>10, <1>11, <1>12, <1>13, <1>14, <1>15, <1>17 DEF IInv

LEMMA Stutter ==
  ASSUME IInv, UNCHANGED vars
  PROVE  IInv'
<1>1. /\ Types /\ FlagsAgree /\ Resumes /\ PressIsHeard /\ Guarded /\ AttemptLives
      /\ TouchlinkQuiet /\ SwallowsOwn /\ BootIsQuiet /\ BootIsOnce /\ RouterStarts
      /\ EndDevice \in BOOLEAN
  BY BuildFlags DEF IInv
<1>2. UNCHANGED <<rejoin, build, bdb, op_cancelled, tc_rejoin, joined, factory_new, signals,
                touchlink_start_pending, losses, touchlinks, unfinished>>
  BY DEF vars, zboss_vars, app_vars
<1>3. Types'
  BY <1>1, <1>2 DEF Types
<1>4. FlagsAgree'
  BY <1>1, <1>2 DEF FlagsAgree, Sound, Due, EndDevice
<1>5. Resumes'
  BY <1>1, <1>2 DEF Resumes, Due
<1>6. PressIsHeard'
  BY <1>1, <1>2 DEF PressIsHeard, Due
<1>7. Guarded'
  BY <1>1, <1>2 DEF Guarded, Due
<1>8. AttemptLives'
  BY <1>1, <1>2 DEF AttemptLives, Due
<1>9. TouchlinkQuiet'
  BY <1>1, <1>2 DEF TouchlinkQuiet, Due
<1>10. SwallowsOwn'
  BY <1>1, <1>2 DEF SwallowsOwn, Due
<1>11. BootIsQuiet'
  BY <1>1, <1>2 DEF BootIsQuiet, Booting, Quiet, Due
<1>12. BootIsOnce'
  BY <1>1, <1>2 DEF BootIsOnce, Due
<1>13. RouterStarts'
  BY <1>1, <1>2 DEF RouterStarts, Booting, Quiet, Due, EndDevice
<1> QED
  BY <1>3, <1>4, <1>5, <1>6, <1>7, <1>8, <1>9, <1>10, <1>11, <1>12, <1>13 DEF IInv

-------------------------------------------------------------------------------
(* The invariant holds initially and in every state.                       *)

LEMMA Initially ==
  ASSUME Init
  PROVE  IInv
<1>1. /\ build \in Build /\ bdb = "stop" /\ op_cancelled = FALSE /\ tc_rejoin = FALSE
      /\ joined = FALSE /\ factory_new \in BOOLEAN /\ signals = <<Sig("SKIP_STARTUP", TRUE)>>
      /\ touchlink_start_pending = FALSE /\ losses = 0 /\ touchlinks = 0
      /\ unfinished = FALSE
  BY DEF Init
<1>2. /\ rejoin \in Flags /\ ~rejoin.stack_initialised /\ ~rejoin.procedure_started
      /\ ~rejoin.stop_requested /\ ~rejoin.in_progress /\ ~rejoin.wait_for_user_input
      /\ ~rejoin.start_scheduled /\ \A cb \in Callback : rejoin.pending[cb] = 0
  BY DEF Init, Flags
<1>3. /\ signals \in Seq(Signal) /\ Len(signals) = 1 /\ Has(signals, "SKIP_STARTUP")
      /\ WontStop(signals)
  <2> DEFINE sig == Sig("SKIP_STARTUP", TRUE)
  <2>1. sig \in Signal /\ sig.name = "SKIP_STARTUP" /\ ~IsStop(sig)
    BY DEF Sig, Signal, IsStop, JoinSignals
  <2>2. signals = <<sig>>
    BY <1>1
  <2> HIDE DEF sig
  <2>3. signals \in Seq(Signal) /\ Len(signals) = 1 /\ signals[1] = sig
    BY <2>1, <2>2
  <2> QED
    BY <2>1, <2>3 DEF Has, WontStop
<1>4. Types
  BY <1>1, <1>2, <1>3 DEF Types, Bdb
<1>5. FlagsAgree /\ Resumes /\ PressIsHeard /\ Guarded /\ AttemptLives
  BY <1>2
     DEF FlagsAgree, Sound, Resumes, Attempts, PressIsHeard, Guarded, AttemptLives, Due, Callback
<1>6. TouchlinkQuiet /\ SwallowsOwn
  BY <1>1, <1>2 DEF TouchlinkQuiet, SwallowsOwn, Due, Callback
<1>7. BootIsQuiet /\ BootIsOnce
  BY <1>1, <1>2, <1>3 DEF BootIsQuiet, Quiet, BootIsOnce, Due, Callback
<1>8. RouterStarts
  BY <1>3 DEF RouterStarts, Booting
<1> QED
  BY <1>4, <1>5, <1>6, <1>7, <1>8 DEF IInv

LEMMA Inductive ==
  ASSUME IInv, [Next]_vars
  PROVE  IInv'
<1>1. CASE CallbackStep
  BY <1>1, SkipStep, SteeringStep, SteeringTimeoutStep, CancelStep, CancelledStep,
     StartTcRejoinStep, InitiateStep, TcTimeoutStep, RejoinStep, StopStep, UserStartStep,
     TouchlinkStartStep, TouchlinkBeginStep, TouchlinkCancelStep DEF CallbackStep
<1>2. CASE HandleSignal
  BY <1>2, SwallowStep, StartupStep, SignalStep
<1>3. CASE ZbossStep
  BY <1>3, TooLateStep, FirstStartStep, RebootStep, SteeringEndStep, TouchlinkEndStep,
     TcRejoinEndStep DEF ZbossStep
<1>4. CASE Leave \/ user_input_indicate \/ TouchlinkButton
  BY <1>4, LeaveStep, UserInputStep, TouchlinkButtonStep
<1>5. CASE UNCHANGED vars
  BY <1>5, Stutter
<1> QED
  BY <1>1, <1>2, <1>3, <1>4, <1>5 DEF Next

THEOREM Invariant == Spec => []IInv
<1>1. Init => IInv
  BY Initially
<1>2. IInv /\ [Next]_vars => IInv'
  BY Inductive
<1> QED
  BY <1>1, <1>2, PTL DEF Spec

-------------------------------------------------------------------------------
(* The invariants of NetworkRejoin.                                        *)

LEMMA IsQueued ==
  ASSUME Types, NEW name
  PROVE  Queued(name) <=> Has(signals, name)
BY DEF Types, Queued, Has

(* A started procedure that nothing told to stop has something to come.    *)
LEMMA OnItsWay ==
  ASSUME IInv, touchlinks = 0, ~GivenUp, rejoin.in_progress \/ Due("rejoin_the_network")
  PROVE  Underway
<1>1. AttemptLives /\ signals \in Seq(Signal)
  BY DEF IInv, Types
<1>2. HasEnd(signals) => signals # <<>>
  BY <1>1 DEF HasEnd
<1>3. bdb \in Commissioning => bdb # "stop"
  BY DEF Commissioning
<1> QED
  BY <1>1, <1>2, <1>3 DEF AttemptLives, GivenUp, Underway

(* A router that is not joined is never left alone by                      *)
(* zigbee_default_signal_handler and rejoin_the_network, unless its first  *)
(* start has failed and no timer of the procedure runs.                    *)
THEOREM RouterNeverStranded == Spec => []NeverStranded
<1>1. IInv => NeverStranded
  <2> SUFFICES ASSUME IInv, ~joined, ~EndDevice, touchlinks = 0, ~GivenUp
               PROVE  Underway /\ (OffDuty => rejoin.procedure_started)
    BY DEF NeverStranded
  <2>1. /\ RouterStarts /\ Resumes /\ FlagsAgree /\ signals \in Seq(Signal)
    BY DEF IInv, Types
  <2>2. WillStart(signals) \/ Has(signals, "SKIP_STARTUP") \/ Has(signals, "FIRST_START")
          => signals # <<>>
    BY <2>1 DEF WillStart, Has
  <2>3. ASSUME Quiet, unfinished
        PROVE  FALSE
    BY <2>3 DEF GivenUp, Quiet, Callback
  <2>4. \/ WillStart(signals)
        \/ rejoin.procedure_started \/ Booting
        \/ bdb \in Commissioning \/ Has(signals, "FIRST_START")
    BY <2>1, <2>3 DEF RouterStarts
  <2>5. Underway
    <3>1. CASE rejoin.procedure_started
      <4>1. rejoin.in_progress \/ Due("rejoin_the_network")
        BY <2>1, <3>1 DEF Resumes, Attempts, FlagsAgree, Sound
      <4> QED
        BY <4>1, OnItsWay
    <3>2. CASE ~rejoin.procedure_started
      BY <2>2, <2>4, <3>2 DEF Underway, Booting, Commissioning
    <3> QED
      BY <3>1, <3>2
  <2>6. OffDuty => rejoin.procedure_started
    BY <2>2, <2>4 DEF OffDuty, Settled, Booting, Commissioning
  <2> QED
    BY <2>5, <2>6
<1> QED
  BY <1>1, Invariant, PTL

(* is_rejoin_in_progress is set only while something is under way that     *)
(* will clear it, with the same exception.                                 *)
THEOREM AttemptAlwaysEnds == Spec => []AttemptEnds
<1>1. IInv => AttemptEnds
  BY OnItsWay DEF AttemptEnds
<1> QED
  BY <1>1, Invariant, PTL

(* A procedure between two attempts has rejoin_the_network to come.        *)
THEOREM ProcedureAlwaysResumes == Spec => []ProcedureResumes
<1>1. IInv => ProcedureResumes
  BY DEF IInv, Resumes, Attempts, ProcedureResumes
<1> QED
  BY <1>1, Invariant, PTL

(* The safe-guard timer of start_network_steering outlives the steering it *)
(* guards only when that was a first start.                                *)
THEOREM GuardNeverStale == Spec => []NoStaleGuard
<1>1. IInv => NoStaleGuard
  <2> SUFFICES ASSUME IInv, Due("network_steering_timeout"), ~unfinished
               PROVE  \/ bdb \notin {"stop", "touchlink"}
                      \/ \E name \in {"STEERING", "REBOOT", "FIRST_START"} : Queued(name)
    BY DEF NoStaleGuard
  <2>1. signals \in Seq(Signal) /\ (bdb \in Commissioning \/ HasEnd(signals))
    BY DEF IInv, Types, Guarded
  <2>2. CASE bdb \in Commissioning
    BY <2>2 DEF Commissioning
  <2>3. CASE HasEnd(signals)
    <3>1. PICK i \in 1..Len(signals) : IsEnd(signals[i])
      BY <2>3 DEF HasEnd
    <3>2. i \in DOMAIN signals /\ signals[i].name \in {"STEERING", "REBOOT", "FIRST_START"}
      BY <2>1, <3>1 DEF IsEnd
    <3> QED
      BY <3>2 DEF Queued
  <2> QED
    BY <2>1, <2>2, <2>3
<1> QED
  BY <1>1, Invariant, PTL

(* While an end device waits for its user the procedure does not run, or   *)
(* only until the attempt in progress ends.                                *)
THEOREM WaitAlwaysStopped == Spec => []WaitMeansStopped
<1>1. IInv => WaitMeansStopped
  BY DEF IInv, FlagsAgree, Sound, WaitMeansStopped
<1> QED
  BY <1>1, Invariant, PTL

(* is_rejoin_start_scheduled never suppresses the presses for good.        *)
THEOREM PressAlwaysHeard == Spec => []PressIsHeard
<1>1. IInv => PressIsHeard
  BY DEF IInv
<1> QED
  BY <1>1, Invariant, PTL

(* The light switch waits to swallow only a signal that is on its way.     *)
THEOREM TouchlinkAlwaysAnswered == Spec => []TouchlinkIsAnswered
<1>1. IInv => TouchlinkIsAnswered
  BY IsQueued DEF IInv, SwallowsOwn, TouchlinkIsAnswered
<1> QED
  BY <1>1, Invariant, PTL

-------------------------------------------------------------------------------
(* The bound of the back-off.                                              *)

Capped(s) ==
  /\ s.attempt_cnt > 0 => 2^(s.attempt_cnt - 1) <= IntervalMax
  /\ \A cb \in Callback : s.pending[cb] <= MaxPending

LEMMA CappedSame ==
  ASSUME NEW s, NEW t, Capped(s), t.attempt_cnt = s.attempt_cnt, t.pending = s.pending
  PROVE  Capped(t)
BY DEF Capped

LEMMA ScheduledCapped ==
  ASSUME NEW s \in Flags, Capped(s), NEW cb \in Callback
  PROVE  Capped(Schedule(s, cb))
<1> DEFINE n == IF s.pending[cb] = MaxPending THEN s.pending[cb] ELSE s.pending[cb] + 1
           p == [s.pending EXCEPT ![cb] = n]
           t == [s EXCEPT !.pending = p]
<1>1. n <= MaxPending
  BY BoundAssumption DEF Capped, Flags
<1> HIDE DEF n
<1>2. \A c \in Callback : p[c] <= MaxPending
  BY <1>1 DEF Capped, Flags
<1> HIDE DEF p
<1>3. t.attempt_cnt = s.attempt_cnt /\ t.pending = p
  BY DEF Flags
<1>4. Capped(t)
  BY <1>2, <1>3 DEF Capped
<1> QED
  BY <1>4 DEF Schedule, n, p

LEMMA CancelledCapped ==
  ASSUME NEW s \in Flags, Capped(s), NEW cb \in Callback
  PROVE  Capped(Cancel(s, cb))
<1> DEFINE n == IF s.pending[cb] = 0 THEN 0 ELSE s.pending[cb] - 1
           p == [s.pending EXCEPT ![cb] = n]
           t == [s EXCEPT !.pending = p]
<1>1. n <= MaxPending
  BY BoundAssumption DEF Capped, Flags
<1> HIDE DEF n
<1>2. \A c \in Callback : p[c] <= MaxPending
  BY <1>1 DEF Capped, Flags
<1> HIDE DEF p
<1>3. t.attempt_cnt = s.attempt_cnt /\ t.pending = p
  BY DEF Flags
<1>4. Capped(t)
  BY <1>2, <1>3 DEF Capped
<1> QED
  BY <1>4 DEF Cancel, n, p

LEMMA FinishedCapped ==
  ASSUME NEW s \in Flags, Capped(s)
  PROVE  Capped(rejoin_attempt_finished(s))
<1> DEFINE a == Cancel(s, "network_steering_timeout")
           b == Cancel(a, "tc_rejoin_timeout")
           t == [b EXCEPT !.in_progress = FALSE]
<1>0. "network_steering_timeout" \in Callback /\ "tc_rejoin_timeout" \in Callback
  BY DEF Callback
<1>1. a \in Flags /\ Capped(a)
  BY <1>0, Cancelled, CancelledCapped
<1> HIDE DEF a
<1>2. b \in Flags /\ Capped(b)
  BY <1>0, <1>1, Cancelled, CancelledCapped
<1> HIDE DEF b
<1>3. t.attempt_cnt = b.attempt_cnt /\ t.pending = b.pending
  BY <1>2 DEF Flags
<1>4. Capped(t)
  BY <1>2, <1>3, CappedSame
<1> QED
  BY <1>4 DEF rejoin_attempt_finished, a, b

LEMMA StartedCapped ==
  ASSUME NEW s \in Flags, Capped(s), NEW force \in BOOLEAN
  PROVE  Capped(start_network_rejoin(s, force))
<1> DEFINE a == [s EXCEPT !.procedure_started = TRUE, !.stop_requested = FALSE, !.attempt_cnt = 0]
           b == [a EXCEPT !.start_scheduled = FALSE]
           c == Schedule(b, "stop_network_rejoin")
<1>0. start_network_rejoin(s, force) =
        IF ~MayStart(s, force) THEN s ELSE IF EndDevice THEN c ELSE a
  BY DEF start_network_rejoin, StopLater
<1>1. a \in Flags /\ a.attempt_cnt = 0 /\ a.pending = s.pending
  BY DEF Flags
<1> HIDE DEF a
<1>2. Capped(a)
  BY <1>1 DEF Capped
<1>3. b \in Flags /\ b.attempt_cnt = a.attempt_cnt /\ b.pending = a.pending
  BY <1>1 DEF Flags
<1> HIDE DEF b
<1>4. Capped(b)
  BY <1>2, <1>3, CappedSame
<1>5. Capped(c)
  BY <1>3, <1>4, ScheduledCapped DEF Callback
<1> QED
  BY <1>0, <1>2, <1>5

LEMMA HaltedCapped ==
  ASSUME NEW s \in Flags, Capped(s)
  PROVE  Capped(StopAttempt(s))
<1> DEFINE attempt == IF s.pending["start_network_steering"] > 0
                        THEN "start_network_steering" ELSE "start_tc_rejoin"
           a == Cancel(s, attempt)
           c == AttemptCancelled(s, attempt)
           d == [s EXCEPT !.stop_requested = TRUE]
<1>0. StopAttempt(s) = IF ~s.procedure_started THEN s
                       ELSE IF s.pending[attempt] > 0 THEN c ELSE d
  BY DEF StopAttempt
<1>1. attempt \in Callback
  BY DEF Callback
<1> HIDE DEF attempt
<1>2. a \in Flags /\ Capped(a)
  BY <1>1, Cancelled, CancelledCapped
<1>3. c.attempt_cnt = a.attempt_cnt /\ c.pending = a.pending
  <2> HIDE DEF a
  <2> QED BY <1>2 DEF AttemptCancelled, CommissioningIdle, Flags, a
<1>4. Capped(c)
  <2> HIDE DEF a, c
  <2> QED BY <1>2, <1>3, CappedSame
<1>5. d.attempt_cnt = s.attempt_cnt /\ d.pending = s.pending
  BY DEF Flags
<1>6. Capped(d)
  BY <1>5, CappedSame
<1> HIDE DEF c, d
<1> QED
  BY <1>0, <1>4, <1>6

LEMMA StoppedCapped ==
  ASSUME NEW s \in Flags, Capped(s), NEW was_scheduled \in BOOLEAN
  PROVE  Capped(stop_network_rejoin(s, was_scheduled))
<1> DEFINE a == [s EXCEPT !.wait_for_user_input = was_scheduled]
           b == StopAttempt(a)
           c == Cancel(b, "stop_network_rejoin")
<1>0. stop_network_rejoin(s, was_scheduled) = IF EndDevice THEN c ELSE StopAttempt(s)
  BY DEF stop_network_rejoin
<1>1. a \in Flags /\ a.attempt_cnt = s.attempt_cnt /\ a.pending = s.pending
  BY DEF Flags
<1> HIDE DEF a
<1>2. b \in Flags /\ Capped(b)
  BY <1>1, CappedSame, Halted, HaltedCapped
<1> HIDE DEF b
<1>3. Capped(c)
  BY <1>2, CancelledCapped DEF Callback
<1> QED
  BY <1>0, <1>3, HaltedCapped

(* The only function that counts.                                          *)
LEMMA RejoinedCapped ==
  ASSUME NEW s \in Flags, Capped(s), IntervalMax \in Nat
  PROVE  Capped(rejoin_the_network(s))
<1> DEFINE a == [s EXCEPT !.procedure_started = FALSE, !.stop_requested = FALSE]
<1>1. a.attempt_cnt = s.attempt_cnt /\ a.pending = s.pending
  BY DEF Flags
<1>2. Capped(a)
  BY <1>1, CappedSame
<1>3. Capped(NextAttempt(s))
  <2> DEFINE capped == 2^s.attempt_cnt > IntervalMax
             timeout_s == IF capped THEN IntervalMax ELSE 2^s.attempt_cnt
             tc == TcRejoin /\ timeout_s > TcThreshold /\ ~factory_new
             cnt == IF capped THEN s.attempt_cnt ELSE s.attempt_cnt + 1
             active == s.commissioning_active \/ tc
             b == [s EXCEPT !.attempt_cnt = cnt, !.commissioning_active = active, !.in_progress = TRUE]
             cb == IF tc THEN "start_tc_rejoin" ELSE "start_network_steering"
             c == Schedule(b, cb)
  <2>1. NextAttempt(s) = c
    BY DEF NextAttempt, CountAttempt
  <2>2. cnt \in Nat /\ active \in BOOLEAN
    <3> HIDE DEF capped
    <3> QED BY DEF Flags
  <2>3. cnt > 0 => 2^(cnt - 1) <= IntervalMax
    <3>1. CASE capped
      BY <3>1 DEF Capped
    <3>2. CASE ~capped
      <4>1. 2^s.attempt_cnt <= IntervalMax
        <5>1. s.attempt_cnt \in Nat
          BY DEF Flags
        <5> QED BY <3>2, <5>1
      <4>2. cnt = s.attempt_cnt + 1 /\ (s.attempt_cnt + 1) - 1 = s.attempt_cnt
        <5> HIDE DEF capped
        <5> QED BY <3>2 DEF Flags
      <4>3. 2^((s.attempt_cnt + 1) - 1) <= IntervalMax
        BY <4>1, <4>2
      <4> HIDE DEF cnt
      <4> QED BY <4>2, <4>3
    <3> QED BY <3>1, <3>2
  <2>4. cb \in Callback
    BY DEF Callback
  <2> HIDE DEF cnt, active, cb
  <2>5. b \in Flags /\ b.attempt_cnt = cnt /\ b.pending = s.pending
    BY <2>2 DEF Flags
  <2> HIDE DEF b
  <2>6. Capped(b)
    BY <2>3, <2>5 DEF Capped
  <2> QED
    BY <2>1, <2>4, <2>5, <2>6, ScheduledCapped
<1> QED
  BY <1>2, <1>3 DEF rejoin_the_network

LEMMA AbortedCapped ==
  ASSUME NEW s \in Flags, Capped(s)
  PROVE  Capped(zigbee_network_rejoin_abort(s))
<1> DEFINE t == zigbee_network_rejoin_abort(s)
<1>1. t.attempt_cnt = 0
  BY DEF zigbee_network_rejoin_abort, Flags
<1>2. t \in Flags /\ \A cb \in Callback : t.pending[cb] <= s.pending[cb]
  BY Aborted
<1> HIDE DEF t
<1>3. ASSUME NEW cb \in Callback
      PROVE  t.pending[cb] <= MaxPending
  <2>1. t.pending[cb] \in Nat /\ s.pending[cb] \in Nat /\ MaxPending \in Nat
    BY <1>2, BoundAssumption DEF Flags
  <2> QED
    BY <1>2, <2>1 DEF Capped
<1>4. Capped(t)
  BY <1>1, <1>3 DEF Capped
<1> QED
  BY <1>4 DEF t

LEMMA HandledCapped ==
  ASSUME NEW s \in Flags, Capped(s), NEW sig \in Signal, IntervalMax \in Nat, EndDevice \in BOOLEAN
  PROVE  Capped(zigbee_default_signal_handler(s, sig))
<1> DEFINE c == SignalCase(s, sig)
           f == rejoin_attempt_finished(s)
           i == CommissioningIdle(f)
           j == CommissioningIdle(s)
           b == [s EXCEPT !.stack_initialised = TRUE]
<1>1. f \in Flags /\ Capped(f)
  BY Finished, FinishedCapped
<1>2. i \in Flags /\ Capped(i)
  <2> HIDE DEF f
  <2>1. i \in Flags /\ i.attempt_cnt = f.attempt_cnt /\ i.pending = f.pending
    BY <1>1 DEF CommissioningIdle, Flags
  <2> QED
    BY <1>1, <2>1, CappedSame
<1>3. j \in Flags /\ Capped(j)
  <2>1. j \in Flags /\ j.attempt_cnt = s.attempt_cnt /\ j.pending = s.pending
    BY DEF CommissioningIdle, Flags
  <2> QED
    BY <2>1, CappedSame
<1>4. b \in Flags /\ Capped(b)
  <2>1. b \in Flags /\ b.attempt_cnt = s.attempt_cnt /\ b.pending = s.pending
    BY DEF Flags
  <2> QED
    BY <2>1, CappedSame
<1> HIDE DEF f, i, j, b
<1>5. c \in Flags /\ Capped(c)
  <2>1. CASE sig.name = "SKIP_STARTUP"
    <3>1. c = Schedule(b, "skip_startup_continue")
      BY <2>1 DEF SignalCase, JoinSignals, b
    <3> HIDE DEF c
    <3> QED
      BY <1>4, <3>1, Scheduled, ScheduledCapped DEF Callback
  <2>2. CASE sig.name = "LEAVE" \/ (sig.name = "FIRST_START" /\ sig.ok)
    <3>1. c = start_network_rejoin(s, FALSE)
      BY <2>2 DEF SignalCase, JoinSignals
    <3> HIDE DEF c
    <3> QED
      BY <3>1, Started, StartedCapped
  <2>3. CASE sig.name \in JoinSignals /\ sig.ok
    <3>1. c = stop_network_rejoin(i, FALSE)
      BY <2>3 DEF SignalCase, JoinSignals, i, f
    <3> HIDE DEF c
    <3> QED
      BY <1>2, <3>1, Stopped, StoppedCapped
  <2>4. CASE (sig.name = "REBOOT" /\ ~sig.ok) \/ sig.name = "STEERING_CANCELLED"
    <3>1. c = start_network_rejoin(f, TRUE)
      BY <2>4 DEF SignalCase, JoinSignals, f
    <3> HIDE DEF c
    <3> QED
      BY <1>1, <3>1, Started, StartedCapped
  <2>5. CASE sig.name \in JoinSignals \ {"REBOOT"} /\ ~sig.ok
    <3>1. c = start_network_rejoin(i, TRUE)
      BY <2>5 DEF SignalCase, JoinSignals, i, f
    <3> HIDE DEF c
    <3> QED
      BY <1>2, <3>1, Started, StartedCapped
  <2>6. CASE sig.name = "TOUCHLINK"
    <3>1. c = j
      BY <2>6 DEF SignalCase, JoinSignals, j
    <3> QED
      BY <1>3, <3>1
  <2>7. CASE sig.name = "FIRST_START" /\ ~sig.ok
    <3>1. c = s
      BY <2>7 DEF SignalCase, JoinSignals
    <3> QED
      BY <3>1
  <2> QED
    BY <2>1, <2>2, <2>3, <2>4, <2>5, <2>6, <2>7 DEF Signal, JoinSignals
<1>6. Capped(rejoin_the_network(c))
  <2> HIDE DEF c
  <2> QED BY <1>5, RejoinedCapped
<1> QED
  BY <1>6 DEF zigbee_default_signal_handler

(* What no action exceeds, beside the invariant.                           *)
Within == /\ Capped(rejoin)
          /\ losses <= MaxLosses /\ touchlinks <= MaxTouchlinks

LEMMA WithinInitially ==
  ASSUME Init
  PROVE  Within
<1>1. IntervalMax \in Nat /\ MaxTouchlinks \in Nat /\ MaxLosses \in Nat
  BY BuildAssumption DEF Init, IntervalMax, MaxTouchlinks, MaxLosses
<1>2. rejoin.attempt_cnt = 0 /\ \A cb \in Callback : rejoin.pending[cb] = 0
  BY DEF Init
<1>3. losses = 0 /\ touchlinks = 0
  BY DEF Init
<1> QED
  BY <1>1, <1>2, <1>3, BoundAssumption DEF Within, Capped

(* An action that only moves alarms.                                       *)
LEMMA ResultWithin ==
  ASSUME Within, NEW t, Capped(t), rejoin' = t, UNCHANGED build,
         losses' <= MaxLosses, touchlinks' <= MaxTouchlinks
  PROVE  Within'
BY DEF Within, Capped, IntervalMax, MaxTouchlinks, MaxLosses

LEMMA CallbackWithin ==
  ASSUME IInv, Within, CallbackStep
  PROVE  Within'
<1>1. rejoin \in Flags /\ Capped(rejoin)
  BY DEF IInv, Types, Within
<1>2. IntervalMax \in Nat /\ EndDevice \in BOOLEAN
  BY BuildAssumption, BuildFlags DEF IInv, Types, IntervalMax
<1>3. ASSUME NEW cb \in Callback
      PROVE  Rest(cb) \in Flags /\ Capped(Rest(cb))
  BY <1>1, <1>3, Cancelled, CancelledCapped DEF Rest
<1>4. UNCHANGED <<build, losses, touchlinks>>
  BY DEF CallbackStep, skip_startup_continue, start_network_steering, network_steering_timeout,
     cancel_joining, SignalCancelled, start_tc_rejoin, zb_bdb_initiate_tc_rejoin,
     tc_rejoin_timeout, RejoinTheNetwork, StopNetworkRejoin, start_network_rejoin_ED,
     touchlink_initiator_start_cb, touchlink_begin, touchlink_cancel_then_begin, app_vars
<1>5. losses' <= MaxLosses /\ touchlinks' <= MaxTouchlinks
  BY <1>4 DEF Within
<1>6. SUFFICES \E t : Capped(t) /\ rejoin' = t
  BY <1>4, <1>5, ResultWithin
<1>7. CASE \/ skip_startup_continue \/ SignalCancelled \/ zb_bdb_initiate_tc_rejoin
  <2>1. PICK cb \in Callback : rejoin' = Rest(cb)
    BY <1>7 DEF skip_startup_continue, SignalCancelled, zb_bdb_initiate_tc_rejoin, Callback
  <2> QED
    BY <1>3, <2>1
<1>8. CASE network_steering_timeout \/ cancel_joining \/ touchlink_cancel_then_begin
  <2>1. PICK cb \in Callback, next \in Callback : rejoin' = Schedule(Rest(cb), next)
    BY <1>8 DEF network_steering_timeout, cancel_joining, touchlink_cancel_then_begin, Callback
  <2> QED
    BY <1>3, <2>1, ScheduledCapped
<1>9. CASE start_network_steering
  <2> DEFINE s == Rest("start_network_steering")
             active == [s EXCEPT !.commissioning_active = TRUE]
             t == Schedule(active, "network_steering_timeout")
  <2>1. rejoin' = IF bdb = "stop" THEN t ELSE s
    BY <1>9 DEF start_network_steering
  <2>2. s \in Flags /\ Capped(s)
    BY <1>3 DEF Callback
  <2> HIDE DEF s
  <2>3. active \in Flags /\ active.attempt_cnt = s.attempt_cnt /\ active.pending = s.pending
    BY <2>2 DEF Flags
  <2> HIDE DEF active
  <2>4. Capped(t)
    BY <2>2, <2>3, CappedSame, ScheduledCapped DEF Callback
  <2> HIDE DEF t
  <2> QED
    BY <2>1, <2>2, <2>4
<1>10. CASE start_tc_rejoin
  <2> DEFINE s == Rest("start_tc_rejoin")
             t == Schedule(s, "initiate_tc_rejoin")
             u == Schedule(t, "tc_rejoin_timeout")
  <2>1. rejoin' = u
    BY <1>10 DEF start_tc_rejoin
  <2>2. s \in Flags /\ Capped(s)
    BY <1>3 DEF Callback
  <2> HIDE DEF s
  <2>3. t \in Flags /\ Capped(t)
    BY <2>2, Scheduled, ScheduledCapped DEF Callback
  <2> HIDE DEF t
  <2>4. Capped(u)
    BY <2>3, ScheduledCapped DEF Callback
  <2> QED
    BY <2>1, <2>4
<1>11. CASE tc_rejoin_timeout
  <2> DEFINE s == Rest("tc_rejoin_timeout")
             t == rejoin_attempt_finished(s)
             u == rejoin_the_network(t)
  <2>1. rejoin' = u
    BY <1>11 DEF tc_rejoin_timeout
  <2>2. s \in Flags /\ Capped(s)
    BY <1>3 DEF Callback
  <2> HIDE DEF s
  <2>3. t \in Flags /\ Capped(t)
    BY <2>2, Finished, FinishedCapped
  <2> HIDE DEF t
  <2>4. Capped(u)
    BY <1>2, <2>3, RejoinedCapped
  <2> QED
    BY <2>1, <2>4
<1>12. CASE RejoinTheNetwork
  <2>1. rejoin' = rejoin_the_network(Rest("rejoin_the_network"))
    BY <1>12 DEF RejoinTheNetwork
  <2> QED
    BY <1>2, <1>3, <2>1, RejoinedCapped DEF Callback
<1>13. CASE StopNetworkRejoin
  <2>1. rejoin' = stop_network_rejoin(Rest("stop_network_rejoin"), TRUE)
    BY <1>13 DEF StopNetworkRejoin
  <2> QED
    BY <1>3, <2>1, StoppedCapped DEF Callback
<1>14. CASE start_network_rejoin_ED
  <2> DEFINE s == Rest("start_network_rejoin_ED")
             awake == [s EXCEPT !.wait_for_user_input = FALSE]
             t == start_network_rejoin(awake, FALSE)
             again == Schedule(t, "rejoin_the_network")
             u == IF ~joined /\ s.wait_for_user_input THEN again ELSE s
             v == [u EXCEPT !.start_scheduled = FALSE]
  <2>1. rejoin' = v
    BY <1>14 DEF start_network_rejoin_ED
  <2>2. s \in Flags /\ Capped(s)
    BY <1>3 DEF Callback
  <2> HIDE DEF s
  <2>3. awake \in Flags /\ awake.attempt_cnt = s.attempt_cnt /\ awake.pending = s.pending
    BY <2>2 DEF Flags
  <2> HIDE DEF awake
  <2>4. t \in Flags /\ Capped(t)
    BY <2>2, <2>3, CappedSame, Started, StartedCapped
  <2> HIDE DEF t
  <2>5. again \in Flags /\ Capped(again)
    BY <2>4, Scheduled, ScheduledCapped DEF Callback
  <2> HIDE DEF again
  <2>6. u \in Flags /\ Capped(u)
    BY <2>2, <2>5
  <2> HIDE DEF u
  <2>7. v.attempt_cnt = u.attempt_cnt /\ v.pending = u.pending
    BY <2>6 DEF Flags
  <2>8. Capped(v)
    BY <2>6, <2>7, CappedSame
  <2> QED
    BY <2>1, <2>8
<1>15. CASE touchlink_initiator_start_cb
  <2> DEFINE s == Rest("touchlink_start")
             t == zigbee_network_rejoin_abort(s)
             u == Schedule(t, "touchlink_begin")
  <2>1. rejoin' = u
    BY <1>15 DEF touchlink_initiator_start_cb
  <2>2. s \in Flags /\ Capped(s)
    BY <1>3 DEF Callback
  <2> HIDE DEF s
  <2>3. t \in Flags /\ Capped(t)
    BY <2>2, Aborted, AbortedCapped
  <2> HIDE DEF t
  <2>4. Capped(u)
    BY <2>3, ScheduledCapped DEF Callback
  <2> QED
    BY <2>1, <2>4
<1>16. CASE touchlink_begin
  <2> DEFINE s == Rest("touchlink_begin")
             t == [s EXCEPT !.commissioning_active = (bdb = "stop")]
             u == Schedule(t, "touchlink_cancel")
  <2>1. rejoin' = IF bdb = "stop" THEN t ELSE u
    BY <1>16 DEF touchlink_begin
  <2>2. s \in Flags /\ Capped(s)
    BY <1>3 DEF Callback
  <2> HIDE DEF s
  <2>3. t \in Flags /\ t.attempt_cnt = s.attempt_cnt /\ t.pending = s.pending
    BY <2>2 DEF Flags
  <2> HIDE DEF t
  <2>4. Capped(t) /\ Capped(u)
    BY <2>2, <2>3, CappedSame, ScheduledCapped DEF Callback
  <2> HIDE DEF u
  <2> QED
    BY <2>1, <2>4
<1> QED
  BY <1>7, <1>8, <1>9, <1>10, <1>11, <1>12, <1>13, <1>14, <1>15, <1>16 DEF CallbackStep

LEMMA OthersWithin ==
  ASSUME IInv, Within, [HandleSignal \/ ZbossStep \/ Leave \/ user_input_indicate \/ TouchlinkButton]_vars
  PROVE  Within'
<1>1. rejoin \in Flags /\ Capped(rejoin) /\ losses <= MaxLosses /\ touchlinks <= MaxTouchlinks
      /\ losses \in Nat /\ touchlinks \in Nat
  BY DEF IInv, Types, Within
<1>2. IntervalMax \in Nat /\ MaxTouchlinks \in Nat /\ MaxLosses \in Nat /\ EndDevice \in BOOLEAN
  BY BuildAssumption, BuildFlags DEF IInv, Types, IntervalMax, MaxTouchlinks, MaxLosses
<1>3. CASE HandleSignal
  <2>1. UNCHANGED <<build, losses, touchlinks>> /\ signals # <<>>
    BY <1>3 DEF HandleSignal
  <2>2. Head(signals) \in Signal
    BY <2>1 DEF IInv, Types
  <2>3. \/ rejoin' = Schedule(rejoin, "touchlink_begin")
        \/ rejoin' = zigbee_default_signal_handler(rejoin, Head(signals))
    BY <1>3 DEF HandleSignal
  <2>4. PICK t : Capped(t) /\ rejoin' = t
    BY <1>1, <1>2, <2>2, <2>3, ScheduledCapped, HandledCapped DEF Callback
  <2> QED
    BY <1>1, <2>1, <2>4, ResultWithin
<1>4. CASE ZbossStep
  <2>1. UNCHANGED <<rejoin, build, losses, touchlinks>>
    BY <1>4 DEF ZbossStep, SteeringTooLate, FirstStartEnds, RebootEnds, SteeringEnds,
       TouchlinkEnds, TcRejoinEnds, Finish, app_vars
  <2> QED
    BY <1>1, <2>1, ResultWithin
<1>5. CASE Leave
  <2>1. UNCHANGED <<rejoin, build, touchlinks>> /\ losses' <= MaxLosses
    BY <1>1, <1>2, <1>5 DEF Leave
  <2> QED
    BY <1>1, <2>1, ResultWithin
<1>6. CASE user_input_indicate
  <2> DEFINE s == [rejoin EXCEPT !.start_scheduled = TRUE]
             t == Schedule(s, "start_network_rejoin_ED")
  <2>1. rejoin' = t /\ UNCHANGED <<build, losses, touchlinks>>
    BY <1>6 DEF user_input_indicate, app_vars
  <2>2. s \in Flags /\ s.attempt_cnt = rejoin.attempt_cnt /\ s.pending = rejoin.pending
    BY <1>1 DEF Flags
  <2> HIDE DEF s
  <2>3. Capped(t)
    BY <1>1, <2>2, CappedSame, ScheduledCapped DEF Callback
  <2> HIDE DEF t
  <2> QED
    BY <1>1, <2>1, <2>3, ResultWithin
<1>7. CASE TouchlinkButton
  <2>1. rejoin' = Schedule(rejoin, "touchlink_start") /\ UNCHANGED <<build, losses>>
        /\ touchlinks' <= MaxTouchlinks
    BY <1>1, <1>2, <1>7 DEF TouchlinkButton
  <2>2. Capped(Schedule(rejoin, "touchlink_start"))
    BY <1>1, ScheduledCapped DEF Callback
  <2> QED
    BY <1>1, <2>1, <2>2, ResultWithin
<1>8. CASE UNCHANGED vars
  BY <1>1, <1>8, ResultWithin DEF vars, app_vars
<1> QED
  BY <1>3, <1>4, <1>5, <1>6, <1>7, <1>8

(* Every flag and every alarm has its type, and the shift of the back-off, *)
(* 1 << rejoin_attempt_cnt, stays within the width of an int.              *)
THEOREM TypeCorrect == Spec => []TypeOK
<1>1. Init => Within
  BY WithinInitially
<1>2. IInv /\ Within /\ [Next]_vars => Within'
  BY CallbackWithin, OthersWithin DEF Next
<1>3. IInv /\ Within => TypeOK
  <2> SUFFICES ASSUME IInv, Within
               PROVE  TypeOK
    OBVIOUS
  <2>1. Types /\ Capped(rejoin) /\ losses <= MaxLosses /\ touchlinks <= MaxTouchlinks
    BY DEF IInv, Within
  <2>2. MaxTouchlinks \in Nat /\ MaxLosses \in Nat
    BY <2>1, BuildAssumption DEF Types, MaxTouchlinks, MaxLosses
  <2>3. rejoin.pending \in [Callback -> 0..MaxPending]
    BY <2>1, BoundAssumption DEF Types, Flags, Capped
  <2>4. rejoin \in Rejoin
    BY <2>1, <2>3 DEF Types, Flags, Rejoin
  <2>5. losses \in 0..MaxLosses /\ touchlinks \in 0..MaxTouchlinks
    BY <2>1, <2>2, BoundAssumption DEF Types
  <2> QED
    BY <2>1, <2>4, <2>5 DEF TypeOK, Types, Capped
<1> QED
  BY <1>1, <1>2, <1>3, Invariant, PTL DEF Spec
===============================================================================
