------------------------------- MODULE MCScenes -------------------------------
EXTENDS Scenes

(* Two scenes of one group and one of another, for a table of two.         *)
MCKeys == {[group |-> "g1", scene |-> 0], [group |-> "g1", scene |-> 1],
           [group |-> "g2", scene |-> 0]}
(* One field set names a single attribute, the other both.                 *)
MCAdded == {[onoff |-> 1, level |-> NoValue], [onoff |-> 0, level |-> 0]}
(* The application refuses to switch off.                                  *)
MCAccepted == {<<"onoff", 1>>, <<"level", 0>>, <<"level", 1>>}
MCPowerOn == [onoff |-> 1, level |-> 0]
===============================================================================
