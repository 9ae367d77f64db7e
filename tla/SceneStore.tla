------------------------------ MODULE SceneStore ------------------------------
(***************************************************************************)
(* What the scenes server promises: it remembers up to Capacity scenes     *)
(* under their keys.  A request changes the scene it names and no other,   *)
(* recalling one sets what it holds, as far as the device accepts it, and  *)
(* leaves the rest of the device alone, and a restart brings back the      *)
(* scenes as they were at some change: the last one unless saving failed.  *)
(***************************************************************************)
EXTENDS Naturals, FiniteSets

CONSTANTS
  Capacity,  \* how many scenes fit
  Keys,      \* group and scene identifiers: records with fields group and scene
  Fields,    \* attributes a scene may hold
  Values,    \* their values
  Accepted,  \* pairs of attribute and value that can be recalled
  NoValue,   \* the scene does not hold the attribute
  NoScene    \* there is no scene under the key

VARIABLES
  scenes,  \* by key
  kept,    \* the scenes a restart would bring back
  unsaved, \* the last attempt to keep them failed
  device,  \* the attributes of the device
  status   \* the answer to the last request

vars == <<scenes, kept, unsaved, device, status>>

Fieldsets == [Fields -> Values \cup {NoValue}]
Nothing == [f \in Fields |-> NoValue]
Overlay(old, new) == [f \in Fields |-> IF new[f] = NoValue THEN old[f] ELSE new[f]]

Known == {k \in Keys : scenes[k] # NoScene}
Held(k) == IF k \in Known THEN scenes[k] ELSE Nothing
(* Only a failure leaves what is kept behind.                              *)
Keep ==
  \/ kept' = scenes' /\ ~unsaved'
  \/ kept' = kept /\ unsaved'

Init ==
  /\ scenes = [k \in Keys |-> NoScene] /\ kept = scenes /\ ~unsaved
  /\ device \in [Fields -> Values]
  /\ status = "none"

(* A scene that is there keeps what new does not name.                     *)
Put(k, new) ==
  /\ k \in Known \/ Cardinality(Known) < Capacity
  /\ scenes' = [scenes EXCEPT ![k] = Overlay(Held(k), new)]
  /\ Keep
  /\ status' = "success"
  /\ UNCHANGED device
Add(k) == \E new \in Fieldsets : Put(k, new)
Store(k) == Put(k, device)
Refuse(k) ==
  /\ k \notin Known /\ Cardinality(Known) = Capacity
  /\ status' = "insuff_space"
  /\ UNCHANGED <<scenes, kept, unsaved, device>>

Forget(gone) ==
  /\ scenes' = [k \in Keys |-> IF k \in gone THEN NoScene ELSE scenes[k]]
  /\ Keep
  /\ UNCHANGED device
OfGroup(g) == {k \in Keys : k.group = g}
Remove(k) == k \in Known /\ Forget({k}) /\ status' = "success"
RemoveGroup(g) == Forget(OfGroup(g)) /\ status' \in {status, "success"}
RemoveEvery == Forget(Keys) /\ UNCHANGED status

Recall(k) ==
  /\ k \in Known
  /\ device' = [f \in Fields |-> IF <<f, scenes[k][f]>> \in Accepted THEN scenes[k][f]
                                ELSE device[f]]
  /\ status' = "success"
  /\ UNCHANGED <<scenes, kept, unsaved>>
NotFound(k) ==
  /\ k \notin Known
  /\ status' = "not_found"
  /\ UNCHANGED <<scenes, kept, unsaved, device>>
OutsideGroup ==
  /\ status' = "invalid_field"
  /\ UNCHANGED <<scenes, kept, unsaved, device>>

Change ==
  /\ device' \in [Fields -> Values]
  /\ UNCHANGED <<scenes, kept, unsaved, status>>
Restart ==
  /\ scenes' = kept /\ ~unsaved'
  /\ device' \in [Fields -> Values]
  /\ UNCHANGED <<kept, status>>

Next ==
  \/ \E k \in Keys : \/ Add(k) \/ Store(k) \/ Refuse(k) \/ Remove(k) \/ Recall(k)
                     \/ NotFound(k) \/ RemoveGroup(k.group)
  \/ RemoveEvery \/ OutsideGroup \/ Change \/ Restart

Spec == Init /\ [][Next]_vars
===============================================================================
