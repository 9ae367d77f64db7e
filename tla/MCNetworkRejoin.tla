--------------------------- MODULE MCNetworkRejoin ----------------------------
(* A router with Trust Center rejoin and a back-off of 1, 2 s, the second  *)
(* attempt already a Trust Center rejoin; and an end device without it,    *)
(* for which the length of the back-off makes no difference: once with a   *)
(* user who may press the Touchlink button, once with a network that it    *)
(* may lose after it has joined.                                           *)
EXTENDS NetworkRejoin

Router == [end_device |-> FALSE, tc_rejoin |-> TRUE, interval |-> 2,
           touchlinks |-> 0, losses |-> 1]
SleepyDevice == [end_device |-> TRUE, tc_rejoin |-> FALSE, interval |-> 1,
                 touchlinks |-> 0, losses |-> 1]
TouchlinkDevice == [SleepyDevice EXCEPT !.touchlinks = 1, !.losses = 0]

AnyBuild == {Router, SleepyDevice, TouchlinkDevice}
OnlyRouter == {Router}
OnlySleepyDevice == {SleepyDevice}
===============================================================================
