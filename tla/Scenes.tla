-------------------------------- MODULE Scenes --------------------------------
(***************************************************************************)
(* The scenes server (subsys/lib/zigbee_scenes): a table of scenes, saved  *)
(* in the settings after each change, behind the ZCL callbacks of ZBOSS.   *)
(* A callback runs to its end in the ZBOSS thread and is one action.  The  *)
(* responses to View Scene and Get Scene Membership wait for a buffer, and *)
(* so does the removal of the scenes of a group that was left.             *)
(*                                                                         *)
(* Scene names and transition times are left out, for nothing depends on   *)
(* them, and so are the attributes of the cluster (SceneValid, SceneCount, *)
(* CurrentScene), which the table does not depend on.                      *)
(***************************************************************************)
EXTENDS Naturals, Sequences, FiniteSets

CONSTANTS
  TableSize,    \* CONFIG_ZIGBEE_SCENE_TABLE_SIZE
  Keys,         \* the scenes requests name: records with fields group and scene
  Fields,       \* attributes of the device a scene may hold
  Values,       \* their values
  PowerOn,      \* the attributes after a boot
  Accepted,     \* pairs of attribute and value the application accepts when a scene sets them
  NoValue,      \* the has_... flag of the attribute is false
  NoScene,      \* what SceneStore calls a scene that is not there
  FreeRecord,   \* ZB_ZCL_SCENES_FREE_SCENE_TABLE_RECORD
  Added,        \* the extension field sets of the Add Scene requests
  Requesters,   \* devices that send requests
  MaxEvents,    \* bound: requests, and changes of the groups and of the device
  MaxWaiting,   \* bound: functions that wait for a buffer
  MaxReboots    \* bound: reboots

Groups == {k.group : k \in Keys}
Fieldsets == [Fields -> Values \cup {NoValue}]

ASSUME TableAssumption == TableSize \in Nat \ {0}
ASSUME KeyAssumption == FreeRecord \notin Keys
ASSUME FieldAssumption ==
  NoValue \notin Values /\ NoScene \notin Fieldsets /\ Added \subseteq Fieldsets
ASSUME AcceptedAssumption == Accepted \subseteq Fields \X Values
ASSUME PowerOnAssumption == PowerOn \in [Fields -> Values]
ASSUME BoundAssumption == MaxEvents \in Nat /\ MaxWaiting \in Nat /\ MaxReboots \in Nat

VARIABLES
  scenes_table,
  saved,         \* the table in the settings
  unsaved,       \* the last attempt to save it failed (history)
  resp_info,     \* whom to answer what: one context for all responses
  waiting,       \* ZBOSS: functions that wait for a buffer, in order
  answer,        \* the response this step sent
  status,        \* what the last request was answered
  device,        \* the application: the attributes of the device
  groups,        \* ZBOSS: the groups the end point is in
  events, reboots  \* counters

vars == <<scenes_table, saved, unsaved, resp_info, waiting, answer, status, device, groups,
          events, reboots>>

Records == 1 .. TableSize
NoRecord == 0
Nothing == [f \in Fields |-> NoValue]
Free == [key |-> FreeRecord, fields |-> Nothing]
NoAnswer == [to |-> FreeRecord]
NoContext == [to |-> FreeRecord, view |-> FreeRecord, group |-> FreeRecord]

Used == {i \in Records : scenes_table[i].key # FreeRecord}

scene_table_init == [i \in Records |-> Free]
Init ==
  /\ scenes_table = scene_table_init /\ saved = scenes_table /\ unsaved = FALSE
  /\ resp_info = NoContext /\ waiting = <<>> /\ answer = NoAnswer /\ status = "none"
  /\ device = PowerOn
  /\ groups = Groups
  /\ events = 0 /\ reboots = 0

-------------------------------------------------------------------------------
(* The table.                                                              *)

First(i, S) == i \in S /\ \A j \in S : i <= j

(* scene_table_get_entry finds the scene, else the first free record, else *)
(* none.                                                                   *)
Matching(k) == {i \in Records : scenes_table[i].key = k}
scene_table_get_entry_first(k, i) ==
  \/ First(i, Matching(k) \cup (Records \ Used))
  \/ Matching(k) \cup (Records \ Used) = {} /\ i = NoRecord
scene_table_get_entry(k, i) ==
  \/ First(i, Matching(k))
  \/ Matching(k) = {} /\ First(i, Records \ Used)
  \/ Matching(k) = {} /\ Records \subseteq Used /\ i = NoRecord

Without(gone) ==
  [i \in Records |-> IF scenes_table[i].key \in gone THEN Free ELSE scenes_table[i]]
OfGroup(g) == {k \in Keys : k.group = g}

(* The result of settings_save_one is not looked at.                       *)
scenes_table_save ==
  \/ saved' = scenes_table' /\ unsaved' = FALSE
  \/ saved' = saved /\ unsaved' = TRUE

Overlay(old, new) == [f \in Fields |-> IF new[f] = NoValue THEN old[f] ELSE new[f]]

(* add_fieldset and save_state_as_scene write over what the record holds.  *)
PutInto(i, k, new) ==
  /\ scenes_table' = [scenes_table EXCEPT
                        ![i] = [key |-> k, fields |-> Overlay(scenes_table[i].fields, new)]]
  /\ scenes_table_save
  /\ status' = "success"
RefusedFor(code) == status' = code /\ UNCHANGED <<scenes_table, saved, unsaved>>

-------------------------------------------------------------------------------
(* zcl_scenes_cb, by the request.                                          *)

Event ==
  /\ events < MaxEvents /\ events' = events + 1
  /\ answer' = NoAnswer
  /\ UNCHANGED reboots
Request == Event /\ UNCHANGED groups

AddScene(k, new) ==
  /\ Request
  /\ \E i \in Records \cup {NoRecord} :
       /\ scene_table_get_entry(k, i)
       /\ IF i # NoRecord THEN PutInto(i, k, new) ELSE RefusedFor("insuff_space")
  /\ UNCHANGED <<resp_info, waiting, device>>

StoreScene(k) ==
  /\ Request
  /\ IF k.group \notin groups THEN RefusedFor("invalid_field")
     ELSE \E i \in Records \cup {NoRecord} :
            /\ scene_table_get_entry(k, i)
            /\ IF i # NoRecord THEN PutInto(i, k, device) ELSE RefusedFor("insuff_space")
  /\ UNCHANGED <<resp_info, waiting, device>>

RemoveScene(k) ==
  /\ Request
  /\ \E i \in Records \cup {NoRecord} :
       /\ scene_table_get_entry(k, i)
       /\ IF i \in Used
          THEN /\ scenes_table' = [scenes_table EXCEPT ![i] = Free]
               /\ scenes_table_save
               /\ status' = "success"
          ELSE RefusedFor(IF k.group \in groups THEN "not_found" ELSE "invalid_field")
  /\ UNCHANGED <<resp_info, waiting, device>>

RemoveAllScenes(g) ==
  /\ Request
  /\ IF g \notin groups THEN RefusedFor("invalid_field")
     ELSE /\ scenes_table' = Without(OfGroup(g))
          /\ scenes_table_save
          /\ status' = "success"
  /\ UNCHANGED <<resp_info, waiting, device>>

(* What the application refuses is left as it is, and nobody is told.      *)
recall_scene(fields) ==
  device' = [f \in Fields |-> IF <<f, fields[f]>> \in Accepted THEN fields[f] ELSE device[f]]
RecallScene(k) ==
  /\ Request
  /\ \E i \in Records \cup {NoRecord} :
       /\ scene_table_get_entry(k, i)
       /\ IF i \in Used
          THEN recall_scene(scenes_table[i].fields) /\ status' = "success"
          ELSE UNCHANGED device /\ status' = "not_found"
  /\ UNCHANGED <<scenes_table, saved, unsaved, resp_info, waiting>>

-------------------------------------------------------------------------------
(* Responses.  The record number is taken when the request comes, its      *)
(* contents when there is a buffer, and whom to answer what is stored once *)
(* for all.  Each waiting function remembers who asked for what (history). *)

Wait(function) == Len(waiting) < MaxWaiting /\ waiting' = Append(waiting, function)
Buffer(function) ==
  /\ waiting # <<>> /\ Head(waiting).function = function
  /\ waiting' = Tail(waiting)

ViewScene(by, k) ==
  /\ Request
  /\ \E i \in Records \cup {NoRecord} :
       /\ scene_table_get_entry(k, i)
       /\ Wait([function |-> "view", by |-> by, about |-> k, idx |-> i])
  /\ resp_info' = [resp_info EXCEPT !.to = by, !.view = k]
  /\ UNCHANGED <<scenes_table, saved, unsaved, status, device>>

GetSceneMembership(by, g) ==
  /\ Request
  /\ Wait([function |-> "membership", by |-> by, about |-> g])
  /\ resp_info' = [resp_info EXCEPT !.to = by, !.group = g]
  /\ UNCHANGED <<scenes_table, saved, unsaved, status, device>>

Send(about, content) ==
  /\ answer' = [to |-> resp_info.to, about |-> about, content |-> content]
  /\ UNCHANGED <<scenes_table, saved, unsaved, resp_info, status, device, groups, events, reboots>>

ViewOf(i) ==
  IF i \in Used THEN <<"success", scenes_table[i].fields>>
  ELSE <<IF resp_info.view.group \in groups THEN "not_found" ELSE "invalid_field">>
send_view_scene_resp ==
  /\ Buffer("view")
  /\ Send(resp_info.view, ViewOf(Head(waiting).idx))

MembersOf(g) ==
  IF g \in groups THEN <<"success", {k \in OfGroup(g) : Matching(k) # {}}, Records \ Used>>
  ELSE <<"invalid_field">>
send_get_scene_membership_resp ==
  /\ Buffer("membership")
  /\ Send(resp_info.group, MembersOf(resp_info.group))

-------------------------------------------------------------------------------
(* Groups, as far as the groups server of ZBOSS calls the scenes server.   *)

GroupsChange ==
  /\ Event
  /\ UNCHANGED <<scenes_table, saved, unsaved, resp_info, status, device>>
AddGroup(g) ==
  /\ g \notin groups /\ groups' = groups \cup {g}
  /\ UNCHANGED waiting
  /\ GroupsChange
RemoveGroup(g) ==
  /\ groups' = groups \ {g}
  /\ Wait([function |-> "remove_group", group |-> g])
  /\ GroupsChange
RemoveAllGroups ==
  /\ groups' = {}
  /\ Wait([function |-> "remove_every"])
  /\ GroupsChange

InternalRemove(gone) ==
  /\ scenes_table' = Without(gone)
  /\ scenes_table_save
  /\ answer' = NoAnswer
  /\ UNCHANGED <<resp_info, status, device, groups, events, reboots>>
InternalRemoveGroup ==
  /\ Buffer("remove_group")
  /\ InternalRemove(OfGroup(Head(waiting).group))
InternalRemoveEvery ==
  /\ Buffer("remove_every")
  /\ InternalRemove(Keys)

-------------------------------------------------------------------------------
(* The device changes; it reboots, and the table is initialized and loaded *)
(* from the settings.                                                      *)

DeviceChanges ==
  /\ Event
  /\ \E f \in Fields, v \in Values : device[f] # v /\ device' = [device EXCEPT ![f] = v]
  /\ UNCHANGED <<scenes_table, saved, unsaved, resp_info, waiting, status, groups>>

Reboot ==
  /\ reboots < MaxReboots /\ reboots' = reboots + 1
  /\ scenes_table' = saved /\ unsaved' = FALSE
  /\ resp_info' = NoContext /\ waiting' = <<>> /\ answer' = NoAnswer
  /\ device' = PowerOn
  /\ UNCHANGED <<saved, status, groups, events>>

-------------------------------------------------------------------------------
Requested ==
  \/ \E k \in Keys, new \in Added : AddScene(k, new)
  \/ \E k \in Keys : StoreScene(k) \/ RemoveScene(k) \/ RecallScene(k)
  \/ \E g \in Groups : RemoveAllScenes(g)
  \/ \E by \in Requesters, k \in Keys : ViewScene(by, k)
  \/ \E by \in Requesters, g \in Groups : GetSceneMembership(by, g)
Buffered ==
  \/ send_view_scene_resp \/ send_get_scene_membership_resp
  \/ InternalRemoveGroup \/ InternalRemoveEvery
Next ==
  \/ Requested \/ Buffered
  \/ \E g \in Groups : AddGroup(g) \/ RemoveGroup(g)
  \/ RemoveAllGroups
  \/ DeviceChanges \/ Reboot

Spec == Init /\ [][Next]_vars

-------------------------------------------------------------------------------
(* No scene is in the table twice, and a free record holds nothing of the  *)
(* scene that was removed from it, also in the settings: what the next     *)
(* scene does not name would otherwise come back from the dead.            *)
IsSound(table) ==
  /\ table \in [Records -> [key : Keys \cup {FreeRecord}, fields : Fieldsets]]
  /\ \A i, j \in Records : table[i].key = table[j].key /\ i # j => table[i] = Free
  /\ \A i \in Records : table[i].key = FreeRecord => table[i] = Free
Function ==
  [function : {"view"}, by : Requesters, about : Keys, idx : Records \cup {NoRecord}]
  \cup [function : {"membership"}, by : Requesters, about : Groups]
  \cup [function : {"remove_group"}, group : Groups] \cup [function : {"remove_every"}]
TypeOK ==
  /\ IsSound(scenes_table) /\ IsSound(saved)
  /\ device \in [Fields -> Values]
  /\ unsaved \in BOOLEAN
  /\ waiting \in Seq(Function)

(* The table with its records, gaps and saving is a store of scenes: a     *)
(* request changes the scene it names and no other, whatever was removed   *)
(* before it, and a boot finds the scenes saved last (zcl_scenes_cb).      *)
ScenesIn(table) ==
  [k \in Keys |-> IF \E i \in Records : table[i].key = k
                  THEN table[CHOOSE i \in Records : table[i].key = k].fields
                  ELSE NoScene]
Store == INSTANCE SceneStore
           WITH Capacity <- TableSize, scenes <- ScenesIn(scenes_table), kept <- ScenesIn(saved)
ImplementsSceneStore == Store!Spec

(* A response goes to who asked and names what was asked, and the scene    *)
(* that is shown as found is the one it names (send_view_scene_resp).      *)
Fits(request, response) ==
  /\ response.to = request.by /\ response.about = request.about
  /\ request.function = "view" /\ response.content[1] = "success"
       => response.content[2] = ScenesIn(scenes_table)[request.about]
AnswersFit == [][answer' # NoAnswer => Fits(Head(waiting), answer')]_vars
===============================================================================
