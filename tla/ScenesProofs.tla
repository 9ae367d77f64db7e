----------------------------- MODULE ScenesProofs -----------------------------
(***************************************************************************)
(* Proofs about Scenes for any size of the table, any scenes and fields:   *)
(* its types, and that the table of records is a SceneStore.               *)
(***************************************************************************)
EXTENDS Scenes, FiniteSetTheorems, SequenceTheorems, TLAPS

UsedIn(t) == {i \in Records : t[i].key # FreeRecord}
KnownIn(t) == {k \in Keys : ScenesIn(t)[k] # NoScene}

-------------------------------------------------------------------------------
(* What a sound table says of a scene is what the only record with its key *)
(* says.                                                                   *)
LEMMA SceneAt ==
  ASSUME NEW t, IsSound(t), NEW k \in Keys, NEW i \in Records, t[i].key = k
  PROVE  ScenesIn(t)[k] = t[i].fields
<1> DEFINE j == CHOOSE n \in Records : t[n].key = k
<1>1. j \in Records /\ t[j].key = k
  OBVIOUS
<1>2. j = i
  <2> SUFFICES ASSUME j # i PROVE FALSE
    OBVIOUS
  <2>1. t[i] = Free
    BY <1>1 DEF IsSound
  <2> QED
    BY <2>1, KeyAssumption DEF Free
<1> QED
  BY <1>1, <1>2 DEF ScenesIn

LEMMA NoSceneAt ==
  ASSUME NEW t, NEW k \in Keys, \A i \in Records : t[i].key # k
  PROVE  ScenesIn(t)[k] = NoScene
BY DEF ScenesIn

(* A scene is known exactly if a record holds it.                          *)
LEMMA KnownHeld ==
  ASSUME NEW t, IsSound(t)
  PROVE  \A k \in Keys : k \in KnownIn(t) <=> \E i \in Records : t[i].key = k
<1> SUFFICES ASSUME NEW k \in Keys
             PROVE  k \in KnownIn(t) <=> \E i \in Records : t[i].key = k
  OBVIOUS
<1>1. ASSUME NEW i \in Records, t[i].key = k
      PROVE  k \in KnownIn(t)
  <2>1. ScenesIn(t)[k] = t[i].fields
    BY <1>1, SceneAt
  <2>2. t[i].fields \in Fieldsets
    BY DEF IsSound
  <2> QED
    BY <2>1, <2>2, FieldAssumption DEF KnownIn
<1>2. ASSUME \A i \in Records : t[i].key # k
      PROVE  k \notin KnownIn(t)
  BY <1>2, NoSceneAt DEF KnownIn
<1> QED
  BY <1>1, <1>2

(* As many scenes are known as records are used.                           *)
LEMMA KnownCount ==
  ASSUME NEW t, IsSound(t)
  PROVE  /\ Cardinality(KnownIn(t)) = Cardinality(UsedIn(t))
         /\ Cardinality(UsedIn(t)) \in Nat
         /\ UsedIn(t) = Records => Cardinality(KnownIn(t)) = TableSize
         /\ UsedIn(t) # Records => Cardinality(KnownIn(t)) < TableSize
<1> DEFINE f == [i \in UsedIn(t) |-> t[i].key]
<1>1. IsFiniteSet(Records) /\ Cardinality(Records) = TableSize
  BY FS_Interval, TableAssumption DEF Records
<1>2. UsedIn(t) \in SUBSET Records
  BY DEF UsedIn
<1>3. \A i \in UsedIn(t) : f[i] \in KnownIn(t)
  BY KnownHeld DEF UsedIn, IsSound
<1>4. \A i, j \in UsedIn(t) : f[i] = f[j] => i = j
  BY DEF UsedIn, IsSound, Free
<1>5. \A k \in KnownIn(t) : \E i \in UsedIn(t) : f[i] = k
  BY KnownHeld, KeyAssumption DEF KnownIn, UsedIn
<1>6. f \in Bijection(UsedIn(t), KnownIn(t))
  BY <1>3, <1>4, <1>5 DEF Bijection, Injection, Surjection, IsInjective
<1>7. IsFiniteSet(UsedIn(t)) /\ Cardinality(UsedIn(t)) <= TableSize
      /\ (Cardinality(UsedIn(t)) = TableSize => UsedIn(t) = Records)
  BY <1>1, <1>2, FS_Subset
<1>8. Cardinality(KnownIn(t)) = Cardinality(UsedIn(t))
  BY <1>6, <1>7, FS_Bijection DEF ExistsBijection
<1>9. Cardinality(UsedIn(t)) \in Nat
  BY <1>7, FS_CardinalityType
<1> QED
  BY <1>1, <1>7, <1>8, <1>9, TableAssumption

-------------------------------------------------------------------------------
(* The changes of the table.                                               *)

Written(t, i, k, new) ==
  [t EXCEPT ![i] = [key |-> k, fields |-> Overlay(t[i].fields, new)]]
Cleared(t, gone) == [i \in Records |-> IF t[i].key \in gone THEN Free ELSE t[i]]
HeldIn(t, k) == IF k \in KnownIn(t) THEN ScenesIn(t)[k] ELSE Nothing

LEMMA OverlayType ==
  ASSUME NEW old \in Fieldsets, NEW new \in Fieldsets
  PROVE  Overlay(old, new) \in Fieldsets
BY DEF Overlay, Fieldsets

(* Writing into the record of the scene, or a free one when it has none.   *)
LEMMA PutTable ==
  ASSUME NEW t, IsSound(t), NEW i \in Records, NEW k \in Keys, NEW new \in Fieldsets,
         \/ t[i].key = k
         \/ t[i].key = FreeRecord /\ \A j \in Records : t[j].key # k
  PROVE  /\ IsSound(Written(t, i, k, new))
         /\ ScenesIn(Written(t, i, k, new)) =
              [ScenesIn(t) EXCEPT ![k] = Overlay(HeldIn(t, k), new)]
<1> DEFINE fields == Overlay(t[i].fields, new)
           u == Written(t, i, k, new)
<1>1. t \in [Records -> [key : Keys \cup {FreeRecord}, fields : Fieldsets]]
  BY DEF IsSound
<1>2. fields \in Fieldsets
  BY <1>1, OverlayType
<1>3. u = [t EXCEPT ![i] = [key |-> k, fields |-> fields]]
  BY DEF Written
<1> HIDE DEF fields, u
<1>4. u \in [Records -> [key : Keys \cup {FreeRecord}, fields : Fieldsets]]
  BY <1>1, <1>2, <1>3
<1>5. u[i].key = k /\ u[i].fields = fields /\ \A j \in Records : j # i => u[j] = t[j]
  BY <1>1, <1>3
<1>6. \A j \in Records : j # i => t[j].key # k
  BY KeyAssumption DEF IsSound, Free
<1>7. IsSound(u)
  <2>1. ASSUME NEW j \in Records, NEW n \in Records, u[j].key = u[n].key, j # n
        PROVE  u[j] = Free
    BY <2>1, <1>5, <1>6 DEF IsSound
  <2>2. ASSUME NEW j \in Records, u[j].key = FreeRecord
        PROVE  u[j] = Free
    BY <2>2, <1>5, KeyAssumption DEF IsSound
  <2> QED
    BY <1>4, <2>1, <2>2 DEF IsSound
<1>8. t[i].fields = HeldIn(t, k)
  <2>1. CASE t[i].key = k
    BY <2>1, SceneAt, KnownHeld DEF HeldIn
  <2>2. CASE t[i].key = FreeRecord /\ \A j \in Records : t[j].key # k
    BY <2>2, KnownHeld DEF HeldIn, IsSound, Free
  <2> QED
    BY <2>1, <2>2
<1>9. ScenesIn(u)[k] = fields
  BY <1>5, <1>7, SceneAt
<1>10. ASSUME NEW l \in Keys, l # k
       PROVE  ScenesIn(u)[l] = ScenesIn(t)[l]
  <2>1. CASE \E j \in Records : t[j].key = l
    <3>1. PICK j \in Records : t[j].key = l
      BY <2>1
    <3>2. u[j] = t[j]
      BY <1>5, <1>10, <3>1, KeyAssumption
    <3>3. ScenesIn(t)[l] = t[j].fields
      BY <3>1, SceneAt
    <3>4. ScenesIn(u)[l] = u[j].fields
      BY <1>7, <3>1, <3>2, SceneAt
    <3> QED
      BY <3>2, <3>3, <3>4
  <2>2. CASE \A j \in Records : t[j].key # l
    <3>1. \A j \in Records : u[j].key # l
      BY <1>5, <1>10, <2>2
    <3> QED
      BY <2>2, <3>1, NoSceneAt
  <2> QED
    BY <2>1, <2>2
<1>11. ScenesIn(u) = [ScenesIn(t) EXCEPT ![k] = fields]
  <2> DEFINE S == ScenesIn(t)
             T == ScenesIn(u)
  <2>1. S = [l \in Keys |-> S[l]] /\ T = [l \in Keys |-> T[l]]
    BY DEF ScenesIn
  <2>2. T[k] = fields /\ \A l \in Keys : l # k => T[l] = S[l]
    BY <1>9, <1>10
  <2> HIDE DEF S, T
  <2>3. T = [S EXCEPT ![k] = fields]
    BY <2>1, <2>2
  <2> QED
    BY <2>3 DEF S, T
<1> QED
  BY <1>7, <1>8, <1>11 DEF fields, u

(* Clearing the records of some scenes.                                    *)
LEMMA ForgetTable ==
  ASSUME NEW t, IsSound(t), NEW gone \in SUBSET Keys
  PROVE  /\ IsSound(Cleared(t, gone))
         /\ ScenesIn(Cleared(t, gone)) =
              [k \in Keys |-> IF k \in gone THEN NoScene ELSE ScenesIn(t)[k]]
<1> DEFINE u == Cleared(t, gone)
<1>1. t \in [Records -> [key : Keys \cup {FreeRecord}, fields : Fieldsets]]
  BY DEF IsSound
<1>2. Free \in [key : Keys \cup {FreeRecord}, fields : Fieldsets]
  BY DEF Free, Nothing, Fieldsets
<1>3. \A i \in Records : u[i] = IF t[i].key \in gone THEN Free ELSE t[i]
  BY DEF Cleared
<1>4. u \in [Records -> [key : Keys \cup {FreeRecord}, fields : Fieldsets]]
  BY <1>1, <1>2 DEF Cleared
<1> HIDE DEF u
<1>5. Free.key = FreeRecord
  BY DEF Free
<1>6. IsSound(u)
  <2>1. ASSUME NEW j \in Records, NEW n \in Records, u[j].key = u[n].key, j # n
        PROVE  u[j] = Free
    BY <2>1, <1>3, <1>5 DEF IsSound
  <2>2. ASSUME NEW j \in Records, u[j].key = FreeRecord
        PROVE  u[j] = Free
    BY <2>2, <1>3 DEF IsSound
  <2> QED
    BY <1>4, <2>1, <2>2 DEF IsSound
<1>7. ASSUME NEW k \in Keys
      PROVE  ScenesIn(u)[k] = IF k \in gone THEN NoScene ELSE ScenesIn(t)[k]
  <2>1. CASE k \in gone \/ \A i \in Records : t[i].key # k
    <3>1. \A i \in Records : u[i].key # k
      BY <1>3, <1>5, <2>1, KeyAssumption
    <3> QED
      BY <2>1, <3>1, NoSceneAt
  <2>2. CASE k \notin gone /\ \E i \in Records : t[i].key = k
    <3>1. PICK i \in Records : t[i].key = k
      BY <2>2
    <3>2. u[i] = t[i]
      BY <1>3, <2>2, <3>1
    <3> QED
      BY <1>6, <2>2, <3>1, <3>2, SceneAt
  <2> QED
    BY <2>1, <2>2
<1>8. ScenesIn(u) = [k \in Keys |-> ScenesIn(u)[k]]
  BY DEF ScenesIn
<1> QED
  BY <1>6, <1>7, <1>8 DEF u

-------------------------------------------------------------------------------
(* The steps, as steps of the store.                                       *)

LEMMA StoreKnows ==
  Store!Known = KnownIn(scenes_table)
BY DEF Store!Known, KnownIn

LEMMA SameCardinality ==
  ASSUME NEW S
  PROVE  Store!Cardinality(S) = Cardinality(S)
BY DEF Store!Cardinality, Cardinality

LEMMA ScenesThen ==
  /\ ScenesIn(scenes_table)' = ScenesIn(scenes_table')
  /\ ScenesIn(saved)' = ScenesIn(saved')
BY DEF ScenesIn

LEMMA SavedStep ==
  ASSUME IsSound(saved), IsSound(scenes_table'), scenes_table_save
  PROVE  IsSound(saved') /\ unsaved' \in BOOLEAN /\ Store!Keep
BY DEF scenes_table_save, Store!Keep

(* scene_table_get_entry returns the record of the scene, else a free one. *)
LEMMA EntryFound ==
  ASSUME IsSound(scenes_table), NEW k \in Keys, NEW i \in Records \cup {NoRecord},
         scene_table_get_entry(k, i)
  PROVE  /\ i # NoRecord =>
              /\ i \in Records
              /\ \/ scenes_table[i].key = k
                 \/ /\ scenes_table[i].key = FreeRecord
                    /\ \A j \in Records : scenes_table[j].key # k
         /\ i = NoRecord => k \notin KnownIn(scenes_table) /\ UsedIn(scenes_table) = Records
         /\ i \notin Used => k \notin KnownIn(scenes_table)
         /\ i \in Used => i \in Records /\ scenes_table[i].key = k
<1> USE DEF First, Matching, Used, UsedIn, NoRecord, Records
<1>1. NoRecord \notin Records
  OBVIOUS
<1>2. CASE First(i, Matching(k))
  BY <1>1, <1>2, KeyAssumption
<1>3. CASE Matching(k) = {} /\ First(i, Records \ Used)
  BY <1>1, <1>3, KnownHeld
<1>4. CASE Matching(k) = {} /\ Records \subseteq Used /\ i = NoRecord
  BY <1>1, <1>4, KnownHeld
<1> QED
  BY <1>2, <1>3, <1>4 DEF scene_table_get_entry

(* Add Scene and Store Scene.                                              *)
LEMMA PutStep ==
  ASSUME TypeOK, NEW k \in Keys, NEW new \in Fieldsets, NEW i \in Records \cup {NoRecord},
         scene_table_get_entry(k, i),
         IF i # NoRecord THEN PutInto(i, k, new) ELSE RefusedFor("insuff_space"),
         UNCHANGED device
  PROVE  /\ IsSound(scenes_table') /\ IsSound(saved') /\ unsaved' \in BOOLEAN
         /\ Store!Put(k, new) \/ Store!Refuse(k)
<1>1. IsSound(scenes_table) /\ IsSound(saved)
  BY DEF TypeOK
<1>2. CASE i # NoRecord
  <2>1. PutInto(i, k, new)
    BY <1>2
  <2>2. /\ i \in Records
        /\ \/ scenes_table[i].key = k
           \/ /\ scenes_table[i].key = FreeRecord
              /\ \A j \in Records : scenes_table[j].key # k
    BY <1>1, <1>2, EntryFound
  <2>3. /\ IsSound(scenes_table')
        /\ ScenesIn(scenes_table') =
             [ScenesIn(scenes_table) EXCEPT ![k] = Overlay(HeldIn(scenes_table, k), new)]
    <3>1. scenes_table' = Written(scenes_table, i, k, new)
      BY <2>1 DEF PutInto, Written
    <3> QED
      BY <1>1, <2>2, <3>1, PutTable
  <2>4. k \in KnownIn(scenes_table) \/ Cardinality(KnownIn(scenes_table)) < TableSize
    <3>1. CASE scenes_table[i].key = k
      BY <1>1, <2>2, <3>1, KnownHeld
    <3>2. CASE scenes_table[i].key = FreeRecord
      <4>1. UsedIn(scenes_table) # Records
        BY <2>2, <3>2 DEF UsedIn
      <4> QED
        BY <1>1, <4>1, KnownCount
    <3> QED
      BY <2>2, <3>1, <3>2
  <2>5. IsSound(saved') /\ unsaved' \in BOOLEAN /\ Store!Keep
    BY <1>1, <2>1, <2>3, SavedStep DEF PutInto
  <2>6. Store!Held(k) = HeldIn(scenes_table, k)
    BY StoreKnows DEF Store!Held, Store!Nothing, Nothing, HeldIn
  <2>7. Store!Overlay(Store!Held(k), new) = Overlay(HeldIn(scenes_table, k), new)
    BY <2>6 DEF Store!Overlay, Overlay
  <2>8. status' = "success"
    BY <2>1 DEF PutInto
  <2>9. Store!Put(k, new)
    BY <2>3, <2>4, <2>5, <2>7, <2>8, StoreKnows, SameCardinality, ScenesThen, Zenon DEF Store!Put
  <2> QED
    BY <2>3, <2>5, <2>9
<1>3. CASE i = NoRecord
  <2>1. RefusedFor("insuff_space")
    BY <1>3
  <2>2. k \notin KnownIn(scenes_table) /\ Cardinality(KnownIn(scenes_table)) = TableSize
    BY <1>1, <1>3, EntryFound, KnownCount
  <2>3. status' = "insuff_space" /\ UNCHANGED <<scenes_table, saved, unsaved>>
    BY <2>1 DEF RefusedFor
  <2>4. Store!Refuse(k)
    BY <2>2, <2>3, StoreKnows, SameCardinality, ScenesThen DEF Store!Refuse
  <2>5. IsSound(scenes_table') /\ IsSound(saved') /\ unsaved' \in BOOLEAN
    BY <1>1, <2>3 DEF TypeOK
  <2> QED
    BY <2>4, <2>5
<1> QED
  BY <1>2, <1>3

(* Remove Scene, Remove All Scenes, and the removals ZBOSS asks for.       *)
LEMMA ForgetStep ==
  ASSUME TypeOK, NEW gone \in SUBSET Keys,
         scenes_table' = Without(gone), scenes_table_save, UNCHANGED device
  PROVE  IsSound(scenes_table') /\ IsSound(saved') /\ unsaved' \in BOOLEAN /\ Store!Forget(gone)
<1>1. IsSound(scenes_table) /\ IsSound(saved)
  BY DEF TypeOK
<1>2. /\ IsSound(scenes_table')
      /\ ScenesIn(scenes_table') =
           [k \in Keys |-> IF k \in gone THEN NoScene ELSE ScenesIn(scenes_table)[k]]
  <2>1. scenes_table' = Cleared(scenes_table, gone)
    BY DEF Without, Cleared
  <2> QED
    BY <1>1, <2>1, ForgetTable
<1>3. IsSound(saved') /\ unsaved' \in BOOLEAN /\ Store!Keep
  BY <1>1, <1>2, SavedStep
<1> QED
  BY <1>2, <1>3, ScenesThen DEF Store!Forget

(* A waiting function keeps its type.                                      *)
LEMMA WaitStep ==
  ASSUME waiting \in Seq(Function), NEW f \in Function, Wait(f)
  PROVE  waiting' \in Seq(Function)
BY AppendProperties DEF Wait
LEMMA BufferStep ==
  ASSUME waiting \in Seq(Function), NEW name, Buffer(name)
  PROVE  waiting' \in Seq(Function) /\ Head(waiting) \in Function
BY HeadTailProperties DEF Buffer

LEMMA InitFits ==
  ASSUME Init
  PROVE  TypeOK /\ Store!Init
<1>1. scenes_table = scene_table_init /\ saved = scenes_table /\ device = PowerOn /\ waiting = <<>>
      /\ status = "none" /\ unsaved = FALSE
  BY DEF Init
<1>2. Free \in [key : Keys \cup {FreeRecord}, fields : Fieldsets] /\ Free.key = FreeRecord
  BY DEF Free, Nothing, Fieldsets
<1>3. IsSound(scenes_table)
  BY <1>1, <1>2 DEF IsSound, scene_table_init
<1>4. TypeOK
  <2>1. unsaved \in BOOLEAN
    BY <1>1
  <2>2. waiting \in Seq(Function)
    BY <1>1
  <2> QED
    BY <1>1, <1>3, <2>1, <2>2, PowerOnAssumption, Zenon DEF TypeOK
<1>5. ScenesIn(scenes_table) = [k \in Keys |-> NoScene]
  BY <1>1, <1>2, KeyAssumption DEF ScenesIn, scene_table_init
<1>6. Store!Init
  BY <1>1, <1>5, PowerOnAssumption DEF Store!Init
<1> QED
  BY <1>4, <1>6

StoreStep == [Store!Next]_(Store!vars)

LEMMA Step ==
  ASSUME TypeOK, Next
  PROVE  TypeOK' /\ StoreStep
<1> USE DEF StoreStep
<1>0. /\ IsSound(scenes_table) /\ IsSound(saved) /\ device \in [Fields -> Values]
      /\ waiting \in Seq(Function) /\ unsaved \in BOOLEAN
  BY DEF TypeOK
<1>u. ASSUME UNCHANGED <<scenes_table, saved, unsaved>>
      PROVE  /\ IsSound(scenes_table') /\ IsSound(saved') /\ unsaved' \in BOOLEAN
             /\ UNCHANGED <<ScenesIn(scenes_table), ScenesIn(saved), unsaved>>
  BY <1>0, <1>u, ScenesThen
<1>1. ASSUME NEW k \in Keys, NEW new \in Added, AddScene(k, new)
      PROVE  TypeOK' /\ StoreStep
  <2>1. PICK i \in Records \cup {NoRecord} :
          /\ scene_table_get_entry(k, i)
          /\ IF i # NoRecord THEN PutInto(i, k, new) ELSE RefusedFor("insuff_space")
    BY <1>1, Zenon DEF AddScene
  <2>2. UNCHANGED <<waiting, device>>
    BY <1>1, Zenon DEF AddScene
  <2>3. new \in Fieldsets /\ new \in Store!Fieldsets
    BY FieldAssumption DEF Store!Fieldsets, Fieldsets
  <2>4. /\ IsSound(scenes_table') /\ IsSound(saved') /\ unsaved' \in BOOLEAN
        /\ Store!Put(k, new) \/ Store!Refuse(k)
    BY <2>1, <2>2, <2>3, PutStep
  <2>5. TypeOK'
    BY <1>0, <2>2, <2>4 DEF TypeOK
  <2> QED
    BY <2>3, <2>4, <2>5, Zenon DEF Store!Next, Store!Add
<1>2. ASSUME NEW k \in Keys, StoreScene(k)
      PROVE  TypeOK' /\ StoreStep
  <2>1. UNCHANGED <<waiting, device>>
    BY <1>2, Zenon DEF StoreScene
  <2>2. CASE k.group \notin groups
    <3>1. status' = "invalid_field" /\ UNCHANGED <<scenes_table, saved, unsaved>>
      BY <1>2, <2>2, Zenon DEF StoreScene, RefusedFor
    <3>2. Store!OutsideGroup
      BY <1>u, <2>1, <3>1 DEF Store!OutsideGroup
    <3> QED
      BY <1>0, <1>u, <2>1, <3>1, <3>2 DEF TypeOK, Store!Next
  <2>3. CASE k.group \in groups
    <3>1. PICK i \in Records \cup {NoRecord} :
            /\ scene_table_get_entry(k, i)
            /\ IF i # NoRecord THEN PutInto(i, k, device) ELSE RefusedFor("insuff_space")
      BY <1>2, <2>3, Zenon DEF StoreScene
    <3>2. device \in Fieldsets
      BY <1>0 DEF Fieldsets
    <3>3. /\ IsSound(scenes_table') /\ IsSound(saved') /\ unsaved' \in BOOLEAN
          /\ Store!Put(k, device) \/ Store!Refuse(k)
      BY <2>1, <3>1, <3>2, PutStep
    <3>4. TypeOK'
      BY <1>0, <2>1, <3>3 DEF TypeOK
    <3> QED
      BY <3>3, <3>4, Zenon DEF Store!Next, Store!Store
  <2> QED
    BY <2>2, <2>3
<1>3. ASSUME NEW k \in Keys, RemoveScene(k)
      PROVE  TypeOK' /\ StoreStep
  <2>1. PICK i \in Records \cup {NoRecord} :
          /\ scene_table_get_entry(k, i)
          /\ IF i \in Used
             THEN /\ scenes_table' = [scenes_table EXCEPT ![i] = Free]
                  /\ scenes_table_save
                  /\ status' = "success"
             ELSE RefusedFor(IF k.group \in groups THEN "not_found" ELSE "invalid_field")
    BY <1>3, Zenon DEF RemoveScene
  <2>2. UNCHANGED <<waiting, device>>
    BY <1>3, Zenon DEF RemoveScene
  <2>3. CASE i \in Used
    <3>1. i \in Records /\ scenes_table[i].key = k
      BY <1>0, <2>1, <2>3, EntryFound
    <3>2. \A j \in Records : scenes_table[j].key = k => j = i
      BY <1>0, <3>1, KeyAssumption DEF IsSound, Free
    <3>3. scenes_table = [j \in Records |-> scenes_table[j]]
      BY <1>0 DEF IsSound
    <3>4. scenes_table' = Without({k})
      BY <2>1, <2>3, <3>1, <3>2, <3>3 DEF Without
    <3>5. IsSound(scenes_table') /\ IsSound(saved') /\ unsaved' \in BOOLEAN /\ Store!Forget({k})
      BY <2>1, <2>2, <2>3, <3>4, ForgetStep
    <3>6. k \in Store!Known
      BY <1>0, <3>1, KnownHeld, StoreKnows
    <3>7. Store!Remove(k)
      BY <2>1, <2>3, <3>5, <3>6 DEF Store!Remove
    <3>8. TypeOK'
      BY <1>0, <2>2, <3>5 DEF TypeOK
    <3> QED
      BY <3>7, <3>8, Zenon DEF Store!Next
  <2>4. CASE i \notin Used
    <3>1. status' \in {"not_found", "invalid_field"} /\ UNCHANGED <<scenes_table, saved, unsaved>>
      BY <2>1, <2>4 DEF RefusedFor
    <3>2. k \notin Store!Known
      BY <1>0, <2>1, <2>4, EntryFound, StoreKnows
    <3>3. Store!NotFound(k) \/ Store!OutsideGroup
      BY <1>u, <2>2, <3>1, <3>2 DEF Store!NotFound, Store!OutsideGroup
    <3>4. TypeOK'
      BY <1>0, <1>u, <2>2, <3>1 DEF TypeOK
    <3> QED
      BY <3>3, <3>4, Zenon DEF Store!Next
  <2> QED
    BY <2>3, <2>4
<1>4. ASSUME NEW g \in Groups, RemoveAllScenes(g)
      PROVE  TypeOK' /\ StoreStep
  <2>1. UNCHANGED <<waiting, device>>
    BY <1>4, Zenon DEF RemoveAllScenes
  <2>2. CASE g \notin groups
    <3>1. status' = "invalid_field" /\ UNCHANGED <<scenes_table, saved, unsaved>>
      BY <1>4, <2>2, Zenon DEF RemoveAllScenes, RefusedFor
    <3>2. Store!OutsideGroup
      BY <1>u, <2>1, <3>1 DEF Store!OutsideGroup
    <3> QED
      BY <1>0, <1>u, <2>1, <3>1, <3>2 DEF TypeOK, Store!Next
  <2>3. CASE g \in groups
    <3>1. scenes_table' = Without(OfGroup(g)) /\ scenes_table_save /\ status' = "success"
      BY <1>4, <2>3, Zenon DEF RemoveAllScenes
    <3>2. /\ IsSound(scenes_table') /\ IsSound(saved') /\ unsaved' \in BOOLEAN
          /\ Store!Forget(OfGroup(g))
      BY <2>1, <3>1, ForgetStep DEF OfGroup
    <3>3. PICK k \in Keys : g = k.group
      BY DEF Groups
    <3>4. Store!RemoveGroup(k.group)
      BY <3>1, <3>2, <3>3 DEF Store!RemoveGroup, Store!OfGroup, OfGroup
    <3>5. TypeOK'
      BY <1>0, <2>1, <3>2 DEF TypeOK
    <3> QED
      BY <3>4, <3>5, Zenon DEF Store!Next
  <2> QED
    BY <2>2, <2>3
<1>5. ASSUME NEW k \in Keys, RecallScene(k)
      PROVE  TypeOK' /\ StoreStep
  <2>1. PICK i \in Records \cup {NoRecord} :
          /\ scene_table_get_entry(k, i)
          /\ IF i \in Used
             THEN recall_scene(scenes_table[i].fields) /\ status' = "success"
             ELSE UNCHANGED device /\ status' = "not_found"
    BY <1>5, Zenon DEF RecallScene
  <2>2. UNCHANGED <<scenes_table, saved, unsaved, waiting>>
    BY <1>5, Zenon DEF RecallScene
  <2>3. CASE i \in Used
    <3>1. i \in Records /\ scenes_table[i].key = k
      BY <1>0, <2>1, <2>3, EntryFound
    <3>2. k \in Store!Known /\ ScenesIn(scenes_table)[k] = scenes_table[i].fields
      BY <1>0, <3>1, KnownHeld, SceneAt, StoreKnows
    <3>3. recall_scene(scenes_table[i].fields) /\ status' = "success"
      BY <2>1, <2>3
    <3>4. Store!Recall(k)
      BY <1>u, <2>2, <3>2, <3>3 DEF Store!Recall, recall_scene
    <3>5. scenes_table[i].fields \in Fieldsets
      BY <1>0, <3>1 DEF IsSound
    <3>6. device' \in [Fields -> Values]
      BY <1>0, <3>3, AcceptedAssumption DEF recall_scene
    <3>7. TypeOK'
      BY <1>0, <1>u, <2>2, <3>6 DEF TypeOK
    <3> QED
      BY <3>4, <3>7, Zenon DEF Store!Next
  <2>4. CASE i \notin Used
    <3>1. k \notin Store!Known
      BY <1>0, <2>1, <2>4, EntryFound, StoreKnows
    <3>2. Store!NotFound(k)
      BY <1>u, <2>1, <2>2, <2>4, <3>1 DEF Store!NotFound
    <3>3. TypeOK'
      BY <1>0, <1>u, <2>1, <2>2, <2>4 DEF TypeOK
    <3> QED
      BY <3>2, <3>3, Zenon DEF Store!Next
  <2> QED
    BY <2>3, <2>4
<1>6. ASSUME NEW by \in Requesters, NEW k \in Keys, ViewScene(by, k)
      PROVE  TypeOK' /\ StoreStep
  <2>1. PICK i \in Records \cup {NoRecord} :
          Wait([function |-> "view", by |-> by, about |-> k, idx |-> i])
    BY <1>6, Zenon DEF ViewScene
  <2>2. UNCHANGED <<scenes_table, saved, unsaved, status, device>>
    BY <1>6, Zenon DEF ViewScene
  <2>3. [function |-> "view", by |-> by, about |-> k, idx |-> i] \in Function
    BY DEF Function
  <2>4. waiting' \in Seq(Function)
    BY <1>0, <2>1, <2>3, WaitStep
  <2> QED
    BY <1>0, <1>u, <2>2, <2>4 DEF TypeOK, Store!vars
<1>7. ASSUME NEW by \in Requesters, NEW g \in Groups, GetSceneMembership(by, g)
      PROVE  TypeOK' /\ StoreStep
  <2>1. /\ Wait([function |-> "membership", by |-> by, about |-> g])
        /\ UNCHANGED <<scenes_table, saved, unsaved, status, device>>
    BY <1>7, Zenon DEF GetSceneMembership
  <2>2. [function |-> "membership", by |-> by, about |-> g] \in Function
    BY DEF Function
  <2>3. waiting' \in Seq(Function)
    BY <1>0, <2>1, <2>2, WaitStep
  <2> QED
    BY <1>0, <1>u, <2>1, <2>3 DEF TypeOK, Store!vars
<1>8. ASSUME send_view_scene_resp \/ send_get_scene_membership_resp
      PROVE  TypeOK' /\ StoreStep
  <2>1. PICK name \in {"view", "membership"} : Buffer(name)
    BY <1>8 DEF send_view_scene_resp, send_get_scene_membership_resp
  <2>2. UNCHANGED <<scenes_table, saved, unsaved, status, device>>
    BY <1>8 DEF send_view_scene_resp, send_get_scene_membership_resp, Send
  <2>3. waiting' \in Seq(Function)
    BY <1>0, <2>1, BufferStep
  <2> QED
    BY <1>0, <1>u, <2>2, <2>3 DEF TypeOK, Store!vars
<1>9. ASSUME InternalRemoveGroup
      PROVE  TypeOK' /\ StoreStep
  <2> DEFINE g == Head(waiting).group
  <2>1. /\ Buffer("remove_group")
        /\ scenes_table' = Without(OfGroup(g)) /\ scenes_table_save
        /\ UNCHANGED <<status, device>>
    BY <1>9, Zenon DEF InternalRemoveGroup, InternalRemove
  <2>2. waiting' \in Seq(Function) /\ Head(waiting) \in Function
    BY <1>0, <2>1, BufferStep
  <2>3. g \in Groups
    BY <2>1, <2>2 DEF Buffer, Function
  <2>4. PICK k \in Keys : g = k.group
    BY <2>3 DEF Groups
  <2> HIDE DEF g
  <2>5. /\ IsSound(scenes_table') /\ IsSound(saved') /\ unsaved' \in BOOLEAN
        /\ Store!Forget(OfGroup(g))
    BY <2>1, ForgetStep DEF OfGroup
  <2>6. Store!RemoveGroup(k.group)
    BY <2>1, <2>4, <2>5 DEF Store!RemoveGroup, Store!OfGroup, OfGroup
  <2>7. TypeOK'
    BY <1>0, <2>1, <2>2, <2>5 DEF TypeOK
  <2> QED
    BY <2>6, <2>7, Zenon DEF Store!Next
<1>10. ASSUME InternalRemoveEvery
       PROVE  TypeOK' /\ StoreStep
  <2>1. /\ Buffer("remove_every")
        /\ scenes_table' = Without(Keys) /\ scenes_table_save
        /\ UNCHANGED <<status, device>>
    BY <1>10, Zenon DEF InternalRemoveEvery, InternalRemove
  <2>2. waiting' \in Seq(Function)
    BY <1>0, <2>1, BufferStep
  <2>3. IsSound(scenes_table') /\ IsSound(saved') /\ unsaved' \in BOOLEAN /\ Store!Forget(Keys)
    BY <2>1, ForgetStep
  <2>4. Store!RemoveEvery
    BY <2>1, <2>3 DEF Store!RemoveEvery
  <2>5. TypeOK'
    BY <1>0, <2>1, <2>2, <2>3 DEF TypeOK
  <2> QED
    BY <2>4, <2>5, Zenon DEF Store!Next
<1>11. ASSUME NEW g \in Groups, AddGroup(g) \/ RemoveGroup(g)
       PROVE  TypeOK' /\ StoreStep
  <2>1. UNCHANGED <<scenes_table, saved, unsaved, status, device>>
    BY <1>11 DEF AddGroup, RemoveGroup, GroupsChange
  <2>2. waiting' \in Seq(Function)
    <3>1. CASE AddGroup(g)
      BY <1>0, <3>1 DEF AddGroup
    <3>2. CASE RemoveGroup(g)
      <4>1. [function |-> "remove_group", group |-> g] \in Function
        BY DEF Function
      <4> QED
        BY <1>0, <3>2, <4>1, WaitStep DEF RemoveGroup
    <3> QED
      BY <1>11, <3>1, <3>2
  <2> QED
    BY <1>0, <1>u, <2>1, <2>2 DEF TypeOK, Store!vars
<1>12. ASSUME RemoveAllGroups
       PROVE  TypeOK' /\ StoreStep
  <2>1. /\ UNCHANGED <<scenes_table, saved, unsaved, status, device>>
        /\ Wait([function |-> "remove_every"])
    BY <1>12 DEF RemoveAllGroups, GroupsChange
  <2>2. [function |-> "remove_every"] \in Function
    BY DEF Function
  <2>3. waiting' \in Seq(Function)
    BY <1>0, <2>1, <2>2, WaitStep
  <2> QED
    BY <1>0, <1>u, <2>1, <2>3 DEF TypeOK, Store!vars
<1>13. ASSUME DeviceChanges
       PROVE  TypeOK' /\ StoreStep
  <2>1. device' \in [Fields -> Values] /\ UNCHANGED <<scenes_table, saved, unsaved, status, waiting>>
    BY <1>0, <1>13 DEF DeviceChanges
  <2>2. Store!Change
    BY <1>u, <2>1 DEF Store!Change
  <2>3. TypeOK'
    BY <1>0, <1>u, <2>1 DEF TypeOK
  <2> QED
    BY <2>2, <2>3, Zenon DEF Store!Next
<1>14. ASSUME Reboot
       PROVE  TypeOK' /\ StoreStep
  <2>1. /\ scenes_table' = saved /\ device' = PowerOn /\ waiting' = <<>>
        /\ UNCHANGED <<saved, status>> /\ unsaved' = FALSE
    BY <1>14 DEF Reboot
  <2>2. ScenesIn(scenes_table') = ScenesIn(saved) /\ ScenesIn(saved') = ScenesIn(saved)
    BY <2>1
  <2>3. Store!Restart
    BY <2>1, <2>2, ScenesThen, PowerOnAssumption DEF Store!Restart
  <2>4. TypeOK'
    <3>1. <<>> \in Seq(Function)
      OBVIOUS
    <3> QED
      BY <1>0, <2>1, <3>1, PowerOnAssumption DEF TypeOK
  <2> QED
    BY <2>3, <2>4, Zenon DEF Store!Next
<1> QED
  BY <1>1, <1>2, <1>3, <1>4, <1>5, <1>6, <1>7, <1>8, <1>9, <1>10, <1>11, <1>12, <1>13, <1>14, Zenon
  DEF Next, Requested, Buffered

LEMMA Stutter ==
  ASSUME TypeOK, UNCHANGED vars
  PROVE  TypeOK' /\ StoreStep
<1>1. UNCHANGED <<scenes_table, saved, unsaved, status, device, waiting>>
  BY DEF vars
<1> QED
  BY <1>1, ScenesThen DEF TypeOK, StoreStep, Store!vars

-------------------------------------------------------------------------------
(* No scene is in the table twice and free records are empty, also in the  *)
(* settings (scene_table_get_entry, scene_table_remove_entries_by_group).  *)
THEOREM TypeCorrect == Spec => []TypeOK
<1>1. Init => TypeOK
  BY InitFits
<1>2. TypeOK /\ [Next]_vars => TypeOK'
  BY Step, Stutter
<1> QED
  BY <1>1, <1>2, PTL DEF Spec

(* zcl_scenes_cb on its table implements the store of scenes, for any size *)
(* of the table and any scenes and fields.                                 *)
THEOREM ImplementsStore == Spec => ImplementsSceneStore
<1>1. Init => Store!Init
  BY InitFits
<1>2. TypeOK /\ [Next]_vars => [Store!Next]_(Store!vars)
  BY Step, Stutter DEF StoreStep
<1> QED
  BY <1>1, <1>2, TypeCorrect, PTL DEF Spec, ImplementsSceneStore, Store!Spec
===============================================================================
