----------------------------- MODULE MCAppCbQueue -----------------------------
(* Two alarms compete for one place in the alarm table of ZBOSS, the       *)
(* cancel of the first waits behind them; a callback and a buffer request  *)
(* fill the other tables.                                                  *)
EXTENDS AppCbQueue

CONSTANTS isr, thread, alarm, otherAlarm, cancel, callback, otherCallback, buffer

Callers == {isr, thread}
OneCaller == {isr}
Requests == {alarm, otherAlarm, cancel, buffer}
LiveRequests == {alarm, otherAlarm, callback, otherCallback}
MCKind == [r \in Request |->
  CASE r \in {alarm, otherAlarm} -> "alarm"
    [] r = cancel -> "cancel"
    [] r \in {callback, otherCallback} -> "callback"
    [] r = buffer -> "buf"]
MCTarget == [r \in Request |-> alarm]
MCTableLen == [k \in Tables |-> 1]
===============================================================================
