------------------------ MODULE BridgeHandlesProofs ------------------------
(***************************************************************************)
(* Proofs about BridgeHandles, for any number of slots, engine objects,    *)
(* buffers and ids, whatever the engine frees along with an instance and   *)
(* whichever output buffers it refuses.                                    *)
(***************************************************************************)
EXTENDS BridgeHandles, TLAPS

AnyPtr == Eci \cup Dict \cup Filter
Entry == [ptr : AnyPtr \cup {NULL}, id : Nat, in_use : BOOLEAN]
CbState == [eci_handle_id : HandleId("eci"), has_callback : BOOLEAN,
            output_buffer : Buf \cup {NULL}]

(* hmap_add changes one slot, which was free, and hands out next_id. *)
LEMMA HmapAddEffect ==
    ASSUME TypeOK, NEW t \in Type, NEW p \in AnyPtr, NEW i \in Slot, HmapAdd(t, p, i)
    PROVE  /\ entries' \in [Type -> [Slot -> Entry]]
           /\ next_id' \in [Type -> Nat \ {0}]
           /\ reply' \in Nat
           /\ next_id[t] \in 1..MaxId[t]
           /\ ~entries[t][i].in_use
           /\ \A u \in Type : next_id'[u] = IF u = t THEN next_id[u] + 1 ELSE next_id[u]
           /\ \A u \in Type : \A k \in Slot :
                entries'[u][k] = IF u = t /\ k = i
                                 THEN [ptr |-> p, id |-> next_id[t], in_use |-> TRUE]
                                 ELSE entries[u][k]
<1> USE DEF Entry, AnyPtr
<1>1. MaxId[t] \in Nat
  BY SizeAssumption DEF Type
<1>2. /\ entries \in [Type -> [Slot -> Entry]]
      /\ next_id \in [Type -> Nat \ {0}]
  BY DEF TypeOK
<1>3. next_id[t] \in 1..MaxId[t]
  BY <1>1, <1>2 DEF HmapAdd
<1>4. [ptr |-> p, id |-> next_id[t], in_use |-> TRUE] \in Entry
  BY <1>2
<1>5. entries' = [entries EXCEPT ![t][i] =
                    [ptr |-> p, id |-> next_id[t], in_use |-> TRUE]]
  BY DEF HmapAdd
<1>6. ~entries[t][i].in_use
  BY DEF HmapAdd, IsFirst, FreeSlots
<1>7. entries' \in [Type -> [Slot -> Entry]]
  BY <1>2, <1>4, <1>5
<1>8. /\ next_id' \in [Type -> Nat \ {0}]
      /\ \A u \in Type : next_id'[u] = IF u = t THEN next_id[u] + 1 ELSE next_id[u]
      /\ reply' \in Nat
  BY <1>2 DEF HmapAdd
<1>9. \A u \in Type : \A k \in Slot :
        entries'[u][k] = IF u = t /\ k = i
                         THEN [ptr |-> p, id |-> next_id[t], in_use |-> TRUE]
                         ELSE entries[u][k]
  BY <1>2, <1>5
<1> QED
  BY <1>3, <1>6, <1>7, <1>8, <1>9

(* hmap_remove frees one slot, which keeps its id. *)
LEMMA HmapRemoveEffect ==
    ASSUME TypeOK, NEW t \in Type, NEW i \in Slot, HmapRemove(t, i)
    PROVE  /\ entries' \in [Type -> [Slot -> Entry]]
           /\ ~entries'[t][i].in_use
           /\ \A u \in Type : \A k \in Slot :
                u # t \/ k # i => entries'[u][k] = entries[u][k]
<1> USE DEF Entry, AnyPtr
<1>1. entries \in [Type -> [Slot -> Entry]]
  BY DEF TypeOK
<1>2. entries' = [entries EXCEPT ![t][i] = [@ EXCEPT !.ptr = NULL, !.in_use = FALSE]]
  BY DEF HmapRemove
<1>3. entries[t][i] \in Entry
  BY <1>1
<1>4. [entries[t][i] EXCEPT !.ptr = NULL, !.in_use = FALSE] \in Entry
  BY <1>3
<1> QED
  BY <1>1, <1>2, <1>3, <1>4

(* The engine's own state keeps its type. *)
LEMMA EngineTypes ==
    ASSUME TypeOK
    PROVE  /\ \A S, gone : EngineDelete(S, gone) =>
                /\ dangling' \in SUBSET (Dict \cup Filter)
                /\ live' \in [Type -> SUBSET AnyPtr]
                /\ engBuf' \in [Eci -> Buf \cup {NULL}]
                /\ owner' \in [Dict \cup Filter -> AnyPtr \cup {NULL}]
           /\ \A t \in {"dict", "filter"} : \A d \in Obj(t) : \A h \in AnyPtr \cup {NULL} :
                EngineMake(t, d, h) \/ EngineUnmake(t, d) =>
                /\ live' \in [Type -> SUBSET AnyPtr]
                /\ engBuf' \in [Eci -> Buf \cup {NULL}]
                /\ owner' \in [Dict \cup Filter -> AnyPtr \cup {NULL}]
                /\ live'["eci"] = live["eci"]
<1>1. /\ live \in [Type -> SUBSET AnyPtr]
      /\ engBuf \in [Eci -> Buf \cup {NULL}]
      /\ owner \in [Dict \cup Filter -> AnyPtr \cup {NULL}]
  BY DEF TypeOK, AnyPtr
<1>2. ASSUME NEW S, NEW gone, EngineDelete(S, gone)
      PROVE  /\ dangling' \in SUBSET (Dict \cup Filter)
             /\ live' \in [Type -> SUBSET AnyPtr]
             /\ engBuf' \in [Eci -> Buf \cup {NULL}]
             /\ owner' \in [Dict \cup Filter -> AnyPtr \cup {NULL}]
  <2>1. dangling' \in SUBSET (Dict \cup Filter)
    BY <1>2 DEF EngineDelete, TypeOK
  <2>2. live' \in [Type -> SUBSET AnyPtr]
    BY <1>1, <1>2 DEF EngineDelete
  <2>3. /\ engBuf' \in [Eci -> Buf \cup {NULL}]
        /\ owner' \in [Dict \cup Filter -> AnyPtr \cup {NULL}]
    BY <1>1, <1>2 DEF EngineDelete
  <2> QED
    BY <2>1, <2>2, <2>3
<1>3. ASSUME NEW t \in {"dict", "filter"}, NEW d \in Obj(t), NEW h \in AnyPtr \cup {NULL},
             EngineMake(t, d, h) \/ EngineUnmake(t, d)
      PROVE  /\ live' \in [Type -> SUBSET AnyPtr]
             /\ engBuf' \in [Eci -> Buf \cup {NULL}]
             /\ owner' \in [Dict \cup Filter -> AnyPtr \cup {NULL}]
             /\ live'["eci"] = live["eci"]
  <2>1. d \in AnyPtr /\ t \in Type /\ t # "eci"
    BY DEF Obj, AnyPtr, Type
  <2> QED
    BY <1>1, <1>3, <2>1 DEF EngineMake, EngineUnmake, Type
<1> QED
  BY <1>2, <1>3

-----------------------------------------------------------------------------
(* Every request and the clean-up keep the types of the client's tables, of *)
(* the engine and of the heap.                                              *)
LEMMA TypeStep == TypeOK /\ [Next]_vars => TypeOK'
<1> SUFFICES ASSUME TypeOK, [Next]_vars PROVE TypeOK'
  OBVIOUS
<1> DEFINE Tables == /\ entries' \in [Type -> [Slot -> Entry]]
                     /\ next_id' \in [Type -> Nat \ {0}]
                     /\ reply' \in Nat
           Cbs == cb_states' \in [Slot -> CbState] /\ heap' \in SUBSET Buf
           Eng == /\ live' \in [Type -> SUBSET AnyPtr]
                  /\ engBuf' \in [Eci -> Buf \cup {NULL}]
                  /\ owner' \in [Dict \cup Filter -> AnyPtr \cup {NULL}]
           Rest == /\ open' \in BOOLEAN
                   /\ regd' \in SUBSET HandleId("eci")
                   /\ refused' \in SUBSET HandleId("eci")
                   /\ dangling' \in SUBSET (Dict \cup Filter)
<1>0. SUFFICES Tables /\ Cbs /\ Eng /\ Rest
  BY DEF TypeOK, Entry, CbState, AnyPtr
<1>1. /\ entries \in [Type -> [Slot -> Entry]]
      /\ next_id \in [Type -> Nat \ {0}]
      /\ reply \in Nat
      /\ cb_states \in [Slot -> CbState]
      /\ heap \in SUBSET Buf
      /\ live \in [Type -> SUBSET AnyPtr]
      /\ engBuf \in [Eci -> Buf \cup {NULL}]
      /\ owner \in [Dict \cup Filter -> AnyPtr \cup {NULL}]
      /\ open \in BOOLEAN
      /\ regd \in SUBSET HandleId("eci")
      /\ refused \in SUBSET HandleId("eci")
      /\ dangling \in SUBSET (Dict \cup Filter)
  BY DEF TypeOK, Entry, CbState, AnyPtr
<1>2. "eci" \in Type /\ "dict" \in Type /\ "filter" \in Type
  BY DEF Type
<1>2a. \A t \in Type : \A k \in Slot : /\ entries[t][k].ptr \in AnyPtr \cup {NULL}
                                        /\ entries[t][k].id \in Nat
  BY <1>1 DEF Entry
<1>3. Refuse \/ UNCHANGED vars => Tables /\ Cbs /\ Eng /\ UNCHANGED history
  BY <1>1 DEF Refuse, vars, engine, history
<1>4. ASSUME NEW t \in Type, HmapFull(t) PROVE Tables
  BY <1>1, <1>4 DEF HmapFull
<1>5. MaxId["eci"] \in Nat /\ HandleId("eci") = 0..MaxId["eci"]
  BY SizeAssumption DEF HandleId
<1>6. NoCbState \in CbState
  BY <1>5 DEF NoCbState, CbState
<1>7. CASE EciNew
  <2>1. CASE Refuse
    BY <1>1, <1>3, <1>7, <2>1 DEF EciNew, history
  <2>2. ASSUME NEW p \in Eci \ live["eci"], NEW i \in Slot,
               HmapAdd("eci", p, i), AllocCbState(next_id["eci"]),
               live' = [live EXCEPT !["eci"] = @ \cup {p}],
               UNCHANGED <<owner, engBuf, heap, history, open>>
        PROVE  Tables /\ Cbs /\ Eng /\ Rest
    <3>1. Tables /\ next_id["eci"] \in 1..MaxId["eci"]
      BY <1>2, <2>2, HmapAddEffect DEF AnyPtr
    <3>2. next_id["eci"] \in HandleId("eci")
      BY <1>5, <3>1
    <3>2a. [NoCbState EXCEPT !.eci_handle_id = next_id["eci"]] \in CbState
      BY <1>6, <3>2 DEF CbState
    <3>3. Cbs
      BY <1>1, <2>2, <3>2a DEF AllocCbState
    <3>4. Eng /\ Rest
      BY <1>1, <1>2, <2>2 DEF AnyPtr, history
    <3> QED
      BY <3>1, <3>3, <3>4
  <2>3. CASE HmapFull("eci") /\ UNCHANGED <<cb_states, engine, heap, history, open>>
    BY <1>1, <1>2, <1>4, <2>3 DEF engine, history
  <2> QED
    BY <1>7, <2>1, <2>2, <2>3 DEF EciNew
<1>8. CASE Disconnect
  BY <1>1, <1>8, EngineTypes DEF Disconnect
<1>9. ASSUME NEW hid \in HandleId("eci"), EciDelete(hid)
      PROVE  Tables /\ Cbs /\ Eng /\ Rest
  <2>1. CASE Refuse
    BY <1>1, <1>3, <1>9, <2>1 DEF EciDelete, history
  <2>2. ASSUME NEW i \in Slot, NEW gone, EngineDelete({entries["eci"][i].ptr}, gone),
               HmapRemove("eci", i), FreeCbState(hid), reply' = 0,
               regd' = regd \ {hid}, refused' = refused \ {hid}, UNCHANGED <<next_id, open>>
        PROVE  Tables /\ Cbs /\ Eng /\ Rest
    <3>1. Tables
      BY <1>1, <1>2, <2>2, HmapRemoveEffect
    <3>2. Cbs
      BY <1>1, <1>6, <2>2 DEF FreeCbState
    <3>3. Eng /\ dangling' \in SUBSET (Dict \cup Filter)
      BY <2>2, EngineTypes
    <3> QED
      BY <1>1, <2>2, <3>1, <3>2, <3>3
  <2> QED
    BY <1>9, <2>1, <2>2 DEF EciDelete
<1>10. ASSUME NEW hid \in HandleId("eci"), RegisterCallback(hid)
       PROVE  Tables /\ Cbs /\ Eng /\ Rest
  <2>1. \A j \in Slot : [cb_states[j] EXCEPT !.has_callback = TRUE] \in CbState
    BY <1>1 DEF CbState
  <2>2. cb_states' \in [Slot -> CbState]
    BY <1>1, <1>10, <2>1 DEF RegisterCallback
  <2> QED
    BY <1>1, <1>10, <2>2 DEF RegisterCallback, engine
<1>11. ASSUME NEW hid \in HandleId("eci"), NEW b \in Buf \cup {NULL}, SetOutputBuffer(hid, b)
       PROVE  Tables /\ Cbs /\ Eng /\ Rest
  <2>1. CASE Refuse
    BY <1>1, <1>3, <1>11, <2>1 DEF SetOutputBuffer, history
  <2>2. \A j \in Slot : [cb_states[j] EXCEPT !.output_buffer = b] \in CbState
    BY <1>1 DEF CbState
  <2>3. CASE ~Refuse
    <3>1. Cbs
      BY <1>1, <1>11, <2>2, <2>3 DEF SetOutputBuffer
    <3>2. Tables /\ Eng /\ Rest
      <4>1. PICK p \in AnyPtr \cup {NULL}, c \in Buf \cup {NULL} : EngineSetBuffer(hid, p, c)
        BY <1>2, <1>2a, <1>11, <2>3 DEF SetOutputBuffer
      <4>2. engBuf' \in [Eci -> Buf \cup {NULL}] /\ refused' \in SUBSET HandleId("eci")
        BY <1>1, <4>1 DEF EngineSetBuffer
      <4>3. UNCHANGED <<entries, next_id, live, owner, regd, dangling, open>> /\ reply' = 0
        BY <1>11, <2>3 DEF SetOutputBuffer
      <4> QED
        BY <1>1, <4>2, <4>3
    <3> QED
      BY <3>1, <3>2
  <2> QED
    BY <2>1, <2>3
<1>12. ASSUME NEW hid \in HandleId("eci"), NEW t \in {"dict", "filter"}, NewOwned(t, hid)
       PROVE  Tables /\ Cbs /\ Eng /\ Rest
  <2>1. CASE Refuse
    BY <1>1, <1>3, <1>12, <2>1 DEF NewOwned, history
  <2>2. ASSUME NEW i \in Slot, NEW d \in Obj(t), Resolves("eci", hid, i),
               EngineMake(t, d, entries["eci"][i].ptr),
               HmapFull(t) \/ \E k \in Slot : HmapAdd(t, d, k),
               UNCHANGED <<cb_states, heap, history, open>>
        PROVE  Tables /\ Cbs /\ Eng /\ Rest
    <3>1. t \in Type /\ d \in AnyPtr
      BY DEF Type, Obj, AnyPtr
    <3>2. Tables
      BY <1>4, <2>2, <3>1, HmapAddEffect
    <3>3. Eng
      BY <1>2, <1>2a, <2>2, EngineTypes
    <3> QED
      BY <1>1, <2>2, <3>2, <3>3 DEF history
  <2> QED
    BY <1>12, <2>1, <2>2 DEF NewOwned
<1>13. ASSUME NEW hid \in HandleId("eci"), GetDict(hid)
       PROVE  Tables /\ Cbs /\ Eng /\ Rest
  <2>1. CASE Refuse
    BY <1>1, <1>3, <1>13, <2>1 DEF GetDict, history
  <2>2. ASSUME NEW i \in Slot, NEW d \in Dict,
               UNCHANGED engine \/ EngineMake("dict", d, entries["eci"][i].ptr),
               \/ \E k \in Slot : /\ reply' = entries["dict"][k].id
                                  /\ UNCHANGED <<entries, next_id>>
               \/ HmapFull("dict")
               \/ \E k \in Slot : HmapAdd("dict", d, k),
               UNCHANGED <<cb_states, heap, history, open>>
        PROVE  Tables /\ Cbs /\ Eng /\ Rest
    <3>1. d \in AnyPtr /\ d \in Obj("dict")
      BY DEF Obj, AnyPtr
    <3>2. Tables
      <4>1. CASE \E k \in Slot : /\ reply' = entries["dict"][k].id
                                /\ UNCHANGED <<entries, next_id>>
        BY <1>1, <1>2, <1>2a, <4>1
      <4>2. CASE HmapFull("dict") \/ \E k \in Slot : HmapAdd("dict", d, k)
        BY <1>2, <1>4, <3>1, <4>2, HmapAddEffect
      <4> QED
        BY <2>2, <4>1, <4>2
    <3>3. Eng
      <4>1. CASE UNCHANGED engine
        BY <1>1, <4>1 DEF engine
      <4>2. CASE EngineMake("dict", d, entries["eci"][i].ptr)
        BY <1>2, <1>2a, <3>1, <4>2, EngineTypes
      <4> QED
        BY <2>2, <4>1, <4>2
    <3> QED
      BY <1>1, <2>2, <3>2, <3>3 DEF history
  <2> QED
    BY <1>13, <2>1, <2>2 DEF GetDict
<1>14. ASSUME NEW hid \in HandleId("eci"), NEW t \in {"dict", "filter"},
              NEW oid \in HandleId(t), DeleteOwned(t, hid, oid)
       PROVE  Tables /\ Cbs /\ Eng /\ Rest
  <2>1. CASE Refuse
    BY <1>1, <1>3, <1>14, <2>1 DEF DeleteOwned, history
  <2>2. ASSUME NEW k \in Slot, EngineUnmake(t, entries[t][k].ptr), HmapRemove(t, k),
               reply' = 0, dangling' \subseteq dangling,
               UNCHANGED <<next_id, cb_states, heap, regd, refused, open>>
        PROVE  Tables /\ Cbs /\ Eng /\ Rest
    <3>1. t \in Type
      BY DEF Type
    <3>2. Tables
      BY <1>1, <2>2, <3>1, HmapRemoveEffect
    <3>3. Eng
      BY <1>1, <2>2, <3>1 DEF EngineUnmake
    <3> QED
      BY <1>1, <2>2, <3>2, <3>3
  <2> QED
    BY <1>14, <2>1, <2>2 DEF DeleteOwned
<1> QED
  BY <1>1, <1>3, <1>7, <1>8, <1>9, <1>10, <1>11, <1>12, <1>13, <1>14 DEF Next, vars, history

-----------------------------------------------------------------------------
(* Ids stay distinct when one is entered and when one is removed. *)
LEMMA AddKeepsIds ==
    ASSUME TypeOK, IdsDistinct, NEW t \in Type, NEW p \in AnyPtr, NEW i \in Slot,
           HmapAdd(t, p, i)
    PROVE  IdsDistinct'
<1>1. /\ \A u \in Type : next_id'[u] = IF u = t THEN next_id[u] + 1 ELSE next_id[u]
      /\ \A u \in Type : \A k \in Slot :
           entries'[u][k] = IF u = t /\ k = i
                            THEN [ptr |-> p, id |-> next_id[t], in_use |-> TRUE]
                            ELSE entries[u][k]
  BY HmapAddEffect
<1>2. \A u \in Type : next_id[u] \in Nat \ {0} /\ \A k \in Slot : entries[u][k].id \in Nat
  BY DEF TypeOK
<1>3. SUFFICES ASSUME NEW u \in Type, NEW k \in Slot, entries'[u][k].in_use
               PROVE  /\ entries'[u][k].id \in 1..(next_id'[u] - 1)
                      /\ \A m \in Slot : entries'[u][m].in_use
                                         /\ entries'[u][m].id = entries'[u][k].id => m = k
  BY DEF IdsDistinct, Slot
<1>4. CASE u = t /\ k = i
  BY <1>1, <1>2, <1>4 DEF IdsDistinct
<1>5. CASE ~(u = t /\ k = i)
  BY <1>1, <1>2, <1>3, <1>5 DEF IdsDistinct
<1> QED
  BY <1>4, <1>5

LEMMA RemoveKeepsIds ==
    ASSUME TypeOK, IdsDistinct, NEW t \in Type, NEW i \in Slot,
           HmapRemove(t, i), UNCHANGED next_id
    PROVE  IdsDistinct'
<1>1. /\ ~entries'[t][i].in_use
      /\ \A u \in Type : \A k \in Slot :
           u # t \/ k # i => entries'[u][k] = entries[u][k]
  BY HmapRemoveEffect
<1> QED
  BY <1>1 DEF IdsDistinct, Slot

(* The two tables are searched separately but agree on every slot. *)
LEMMA SlotsAgree ==
    ASSUME TypeOK, HandlesConsistent
    PROVE  /\ CbSlotsOf(0) = FreeSlots("eci")
           /\ \A hid : \A i \in Slot : Resolves("eci", hid, i) =>
                /\ entries["eci"][i].in_use
                /\ entries["eci"][i].id = hid
                /\ CbSlotsOf(hid) = {i}
<1>1. "eci" \in Type /\ next_id["eci"] \in Nat
  BY DEF Type, TypeOK
<1>2. \A i \in Slot : entries["eci"][i].in_use => entries["eci"][i].id # 0
  BY <1>1 DEF HandlesConsistent, IdsDistinct
<1>3. CbSlotsOf(0) = FreeSlots("eci")
  BY <1>2 DEF CbSlotsOf, FreeSlots, HandlesConsistent, CbStatesAligned
<1>4. ASSUME NEW hid, NEW i \in Slot, Resolves("eci", hid, i)
      PROVE  /\ entries["eci"][i].in_use
             /\ entries["eci"][i].id = hid
             /\ CbSlotsOf(hid) = {i}
  <2>1. entries["eci"][i].in_use /\ entries["eci"][i].id = hid /\ hid # 0
    BY <1>4 DEF Resolves, IsFirst, SlotsOf
  <2>2. \A k \in Slot : entries["eci"][k].in_use /\ entries["eci"][k].id = hid => k = i
    BY <1>1, <2>1 DEF HandlesConsistent, IdsDistinct
  <2> QED
    BY <2>1, <2>2 DEF CbSlotsOf, HandlesConsistent, CbStatesAligned
<1> QED
  BY <1>3, <1>4

(* A request that leaves the instances, their slots and the ids of the *)
(* callback states alone keeps the tables in step.                     *)
LEMMA FrameKeepsStep ==
    ASSUME CbStatesAligned, InstancesMapped, open' = open,
           \A k \in Slot : entries'["eci"][k] = entries["eci"][k],
           live'["eci"] = live["eci"],
           \A k \in Slot : cb_states'[k].eci_handle_id = cb_states[k].eci_handle_id
    PROVE  CbStatesAligned' /\ InstancesMapped'
BY DEF CbStatesAligned, InstancesMapped, Slot

(* Each request, and the clean-up, keeps map, callback states and engine in *)
(* agreement.                                                               *)
LEMMA ConsistentStep == TypeOK /\ HandlesConsistent /\ [Next]_vars => HandlesConsistent'
<1> SUFFICES ASSUME TypeOK, HandlesConsistent, [Next]_vars PROVE HandlesConsistent'
  OBVIOUS
<1>1. IdsDistinct /\ CbStatesAligned /\ InstancesMapped
  BY DEF HandlesConsistent
<1>2. "eci" \in Type /\ "dict" \in Type /\ "filter" \in Type
  BY DEF Type
<1>3. /\ \A k \in Slot : entries["eci"][k].id \in Nat
      /\ next_id["eci"] \in Nat \ {0}
      /\ Slot \subseteq Nat
      /\ cb_states \in [Slot -> CbState]
      /\ live \in [Type -> SUBSET AnyPtr]
      /\ MaxId["eci"] \in Nat
  <2>1. /\ \A k \in Slot : entries["eci"][k].id \in Nat
        /\ next_id["eci"] \in Nat \ {0}
    BY <1>2 DEF TypeOK
  <2>2. /\ cb_states \in [Slot -> CbState]
        /\ live \in [Type -> SUBSET AnyPtr]
    BY DEF TypeOK, CbState, AnyPtr
  <2>3. Slot \subseteq Nat /\ MaxId["eci"] \in Nat
    BY SizeAssumption DEF Slot
  <2> QED
    BY <2>1, <2>2, <2>3
<1>4. ASSUME UNCHANGED <<entries, next_id>> PROVE IdsDistinct'
  BY <1>1, <1>4 DEF IdsDistinct, Slot
<1>5. ASSUME Refuse, UNCHANGED open PROVE HandlesConsistent'
  <2>1. UNCHANGED <<entries, next_id, cb_states, live, open>>
    BY <1>5 DEF Refuse, engine
  <2> QED
    BY <1>1, <1>4, <2>1, FrameKeepsStep DEF HandlesConsistent
<1>6. CASE UNCHANGED vars
  <2>1. UNCHANGED <<entries, next_id, cb_states, live, open>>
    BY <1>6 DEF vars
  <2> QED
    BY <1>1, <1>4, <2>1, FrameKeepsStep DEF HandlesConsistent
<1>7. CASE EciNew
  <2>1. ASSUME NEW p \in Eci \ live["eci"], NEW i \in Slot,
               HmapAdd("eci", p, i), AllocCbState(next_id["eci"]),
               live' = [live EXCEPT !["eci"] = @ \cup {p}], UNCHANGED open
        PROVE  HandlesConsistent'
    <3>1. IdsDistinct'
      BY <1>1, <1>2, <2>1, AddKeepsIds DEF AnyPtr
    <3>2. /\ ~entries["eci"][i].in_use
          /\ \A k \in Slot : entries'["eci"][k] =
               IF k = i THEN [ptr |-> p, id |-> next_id["eci"], in_use |-> TRUE]
                        ELSE entries["eci"][k]
      BY <1>2, <2>1, HmapAddEffect DEF AnyPtr
    <3>3. IsFirst(i, CbSlotsOf(0))
      BY <2>1, SlotsAgree DEF HmapAdd
    <3>4. \A j \in Slot : IsFirst(j, CbSlotsOf(0)) => j = i
      BY <1>3, <3>3 DEF IsFirst
    <3>5. cb_states' = [cb_states EXCEPT ![i] =
                          [NoCbState EXCEPT !.eci_handle_id = next_id["eci"]]]
      BY <2>1, <3>3, <3>4 DEF AllocCbState, IsFirst
    <3>6. CbStatesAligned'
      BY <1>1, <1>3, <3>2, <3>5 DEF CbStatesAligned, NoCbState, Slot, CbState
    <3>7. live'["eci"] = live["eci"] \cup {p}
      BY <1>2, <1>3, <2>1
    <3>8. InstancesMapped'
      BY <1>1, <2>1, <3>2, <3>7 DEF InstancesMapped, Slot
    <3> QED
      BY <3>1, <3>6, <3>8 DEF HandlesConsistent
  <2>2. CASE HmapFull("eci") /\ UNCHANGED <<cb_states, engine, open>>
    <3>1. UNCHANGED <<entries, next_id, cb_states, live, open>>
      BY <2>2 DEF HmapFull, engine
    <3> QED
      BY <1>1, <1>4, <3>1, FrameKeepsStep DEF HandlesConsistent
  <2> QED
    BY <1>5, <1>7, <2>1, <2>2 DEF EciNew
<1>8. CASE Disconnect
  <2>1. UNCHANGED <<entries, next_id, cb_states>> /\ open' = FALSE
    BY <1>8 DEF Disconnect
  <2> QED
    BY <1>1, <1>4, <2>1 DEF HandlesConsistent, CbStatesAligned, InstancesMapped, Slot
<1>9. ASSUME NEW hid \in HandleId("eci"), EciDelete(hid) PROVE HandlesConsistent'
  <2>1. ASSUME NEW i \in Slot, Resolves("eci", hid, i),
               NEW gone, EngineDelete({entries["eci"][i].ptr}, gone), HmapRemove("eci", i),
               FreeCbState(hid), UNCHANGED <<next_id, open>>
        PROVE  HandlesConsistent'
    <3>1. IdsDistinct'
      BY <1>1, <1>2, <2>1, RemoveKeepsIds
    <3>2. /\ ~entries'["eci"][i].in_use
          /\ \A k \in Slot : k # i => entries'["eci"][k] = entries["eci"][k]
      BY <1>2, <2>1, HmapRemoveEffect
    <3>3. entries["eci"][i].in_use /\ CbSlotsOf(hid) = {i}
      BY <2>1, SlotsAgree
    <3>4. cb_states' = [cb_states EXCEPT ![i] = NoCbState]
      BY <2>1, <3>3 DEF FreeCbState, IsFirst
    <3>5. CbStatesAligned'
      BY <1>1, <1>3, <3>2, <3>4 DEF CbStatesAligned, NoCbState, Slot, CbState
    <3>6. live'["eci"] = live["eci"] \ {entries["eci"][i].ptr}
      BY <1>2, <2>1 DEF EngineDelete
    <3>7. InstancesMapped'
      BY <1>1, <2>1, <3>2, <3>3, <3>6 DEF InstancesMapped, Slot
    <3> QED
      BY <3>1, <3>5, <3>7 DEF HandlesConsistent
  <2> QED
    BY <1>5, <1>9, <2>1 DEF EciDelete
<1>10. ASSUME NEW hid \in HandleId("eci"), RegisterCallback(hid) PROVE HandlesConsistent'
  <2>1. \A k \in Slot : cb_states'[k].eci_handle_id = cb_states[k].eci_handle_id
    BY <1>3, <1>10 DEF RegisterCallback, CbState
  <2>2. UNCHANGED <<entries, next_id, live, open>>
    BY <1>10 DEF RegisterCallback, engine
  <2> QED
    BY <1>1, <1>4, <2>1, <2>2, FrameKeepsStep DEF HandlesConsistent
<1>11. ASSUME NEW hid \in HandleId("eci"), NEW b \in Buf \cup {NULL}, SetOutputBuffer(hid, b)
       PROVE  HandlesConsistent'
  <2>1. CASE Refuse
    BY <1>5, <1>11, <2>1 DEF SetOutputBuffer
  <2>2. CASE ~Refuse
    <3>1. \A k \in Slot : cb_states'[k].eci_handle_id = cb_states[k].eci_handle_id
      BY <1>3, <1>11, <2>2 DEF SetOutputBuffer, CbState
    <3>2. UNCHANGED <<entries, next_id, live, open>>
      BY <1>11, <2>2 DEF SetOutputBuffer
    <3> QED
      BY <1>1, <1>4, <3>1, <3>2, FrameKeepsStep DEF HandlesConsistent
  <2> QED
    BY <2>1, <2>2
<1>12. ASSUME NEW t \in {"dict", "filter"}, NEW d \in Obj(t),
              HmapFull(t) \/ \E k \in Slot : HmapAdd(t, d, k)
       PROVE  IdsDistinct' /\ \A k \in Slot : entries'["eci"][k] = entries["eci"][k]
  <2>1. t \in Type /\ t # "eci" /\ d \in AnyPtr
    BY DEF Type, Obj, AnyPtr
  <2>2. CASE HmapFull(t)
    BY <1>1, <1>4, <2>2 DEF HmapFull
  <2>3. ASSUME NEW k \in Slot, HmapAdd(t, d, k)
        PROVE  IdsDistinct' /\ \A m \in Slot : entries'["eci"][m] = entries["eci"][m]
    <3>1. IdsDistinct'
      BY <1>1, <2>1, <2>3, AddKeepsIds
    <3>2. entries' = [entries EXCEPT ![t][k] =
                        [ptr |-> d, id |-> next_id[t], in_use |-> TRUE]]
      BY <2>3 DEF HmapAdd
    <3>3. entries'["eci"] = entries["eci"]
      BY <1>2, <2>1, <3>2 DEF TypeOK
    <3> QED
      BY <3>1, <3>3
  <2> QED
    BY <1>12, <2>2, <2>3
<1>13. \A k \in Slot : entries["eci"][k].ptr \in AnyPtr \cup {NULL}
  BY <1>2 DEF TypeOK, AnyPtr
<1>14. ASSUME NEW hid \in HandleId("eci"), NEW t \in {"dict", "filter"}, NewOwned(t, hid)
       PROVE  HandlesConsistent'
  <2>1. ASSUME NEW i \in Slot, NEW d \in Obj(t), EngineMake(t, d, entries["eci"][i].ptr),
               HmapFull(t) \/ \E k \in Slot : HmapAdd(t, d, k), UNCHANGED <<cb_states, open>>
        PROVE  HandlesConsistent'
    <3>1. live'["eci"] = live["eci"]
      BY <1>13, <2>1, EngineTypes
    <3> QED
      BY <1>1, <1>12, <2>1, <3>1, FrameKeepsStep DEF HandlesConsistent
  <2> QED
    BY <1>5, <1>14, <2>1 DEF NewOwned
<1>15. ASSUME NEW hid \in HandleId("eci"), GetDict(hid) PROVE HandlesConsistent'
  <2>1. ASSUME NEW i \in Slot, NEW d \in Dict,
               UNCHANGED engine \/ EngineMake("dict", d, entries["eci"][i].ptr),
               \/ UNCHANGED <<entries, next_id>>
               \/ HmapFull("dict") \/ \E k \in Slot : HmapAdd("dict", d, k),
               UNCHANGED <<cb_states, open>>
        PROVE  HandlesConsistent'
    <3>1. d \in Obj("dict")
      BY DEF Obj
    <3>2. live'["eci"] = live["eci"]
      BY <1>13, <2>1, <3>1, EngineTypes DEF engine
    <3>3. IdsDistinct' /\ \A k \in Slot : entries'["eci"][k] = entries["eci"][k]
      BY <1>4, <1>12, <2>1, <3>1
    <3> QED
      BY <1>1, <2>1, <3>2, <3>3, FrameKeepsStep DEF HandlesConsistent
  <2> QED
    BY <1>5, <1>15, <2>1 DEF GetDict
<1>16. ASSUME NEW hid \in HandleId("eci"), NEW t \in {"dict", "filter"},
              NEW oid \in HandleId(t), DeleteOwned(t, hid, oid)
       PROVE  HandlesConsistent'
  <2>1. ASSUME NEW k \in Slot, EngineUnmake(t, entries[t][k].ptr), HmapRemove(t, k),
               UNCHANGED <<next_id, cb_states, open>>
        PROVE  HandlesConsistent'
    <3>1. t \in Type /\ t # "eci"
      BY DEF Type
    <3>2. live'["eci"] = live["eci"]
      BY <1>2, <1>3, <2>1, <3>1 DEF EngineUnmake
    <3>3. \A m \in Slot : entries'["eci"][m] = entries["eci"][m]
      BY <1>2, <2>1, <3>1, HmapRemoveEffect
    <3>4. IdsDistinct'
      BY <1>1, <2>1, <3>1, RemoveKeepsIds
    <3> QED
      BY <1>1, <2>1, <3>2, <3>3, <3>4, FrameKeepsStep DEF HandlesConsistent
  <2> QED
    BY <1>5, <1>16, <2>1 DEF DeleteOwned
<1> QED
  BY <1>6, <1>7, <1>8, <1>9, <1>10, <1>11, <1>14, <1>15, <1>16 DEF Next

(* Initially every slot is free. *)
LEMMA InitConsistent == Init => TypeOK /\ HandlesConsistent
<1> SUFFICES ASSUME Init PROVE TypeOK /\ HandlesConsistent
  OBVIOUS
<1>1. \A t \in Type : MaxId[t] \in Nat
  BY SizeAssumption DEF Type
<1>2. "eci" \in Type
  BY DEF Type
<1>3. TypeOK
  BY <1>1, <1>2 DEF Init, TypeOK, NoEntry, NoCbState, HandleId
<1>4. HandlesConsistent
  BY <1>2 DEF Init, HandlesConsistent, IdsDistinct, CbStatesAligned, InstancesMapped,
              NoEntry, NoCbState
<1> QED
  BY <1>3, <1>4

-----------------------------------------------------------------------------
(* The tables of a client always have their types (dispatch_rpc). *)
THEOREM TypeCorrect == Spec => []TypeOK
<1>1. Init => TypeOK
  BY InitConsistent
<1> QED
  BY <1>1, TypeStep, PTL DEF Spec

(* However many handles a client makes and deletes, and in whatever order, *)
(* ids stay distinct, the callback states stay in step with the instance   *)
(* map, and the map holds exactly the instances the engine has             *)
(* (hmap_add, hmap_remove, alloc_cb_state, free_cb_state).                 *)
THEOREM HandlesStayConsistent == Spec => []HandlesConsistent
<1>1. Init => HandlesConsistent
  BY InitConsistent
<1> QED
  BY <1>1, ConsistentStep, TypeCorrect, PTL DEF Spec
-----------------------------------------------------------------------------
(* What a step does to the instances, their callback states and buffers.  *)

(* Nothing: the request is refused, or is about dictionaries or filters. *)
StepQuiet ==
    /\ \A k \in Slot : entries'["eci"][k] = entries["eci"][k]
    /\ next_id'["eci"] = next_id["eci"]
    /\ live'["eci"] = live["eci"]
    /\ UNCHANGED <<open, cb_states, heap, regd, refused, engBuf>>

(* Instance p goes into slot i of both tables. *)
StepMade(p, i) ==
    /\ p \in Eci \ live["eci"]
    /\ ~entries["eci"][i].in_use
    /\ \A k \in Slot : entries'["eci"][k] =
         IF k = i THEN [ptr |-> p, id |-> next_id["eci"], in_use |-> TRUE]
                  ELSE entries["eci"][k]
    /\ next_id'["eci"] = next_id["eci"] + 1
    /\ live'["eci"] = live["eci"] \cup {p}
    /\ cb_states' = [cb_states EXCEPT ![i] =
                       [NoCbState EXCEPT !.eci_handle_id = next_id["eci"]]]
    /\ UNCHANGED <<open, heap, regd, refused, engBuf>>

(* The instance of slot i goes, from both tables, with its buffer. *)
StepDeleted(i) ==
    /\ entries["eci"][i].in_use
    /\ ~entries'["eci"][i].in_use
    /\ \A k \in Slot : k # i => entries'["eci"][k] = entries["eci"][k]
    /\ next_id'["eci"] = next_id["eci"]
    /\ live'["eci"] = live["eci"] \ {entries["eci"][i].ptr}
    /\ engBuf' = [p \in Eci |-> IF p = entries["eci"][i].ptr THEN NULL ELSE engBuf[p]]
    /\ cb_states' = [cb_states EXCEPT ![i] = NoCbState]
    /\ heap' = heap \ {cb_states[i].output_buffer}
    /\ regd' = regd \ {entries["eci"][i].id}
    /\ refused' = refused \ {entries["eci"][i].id}
    /\ UNCHANGED open

(* The instance of slot i gets another buffer, or none; the engine takes it *)
(* or refuses it.                                                           *)
StepRebuffered(i, b) ==
    /\ entries["eci"][i].in_use
    /\ b \notin heap \ {cb_states[i].output_buffer}
    /\ heap' = (heap \ {cb_states[i].output_buffer}) \cup ({b} \ {NULL})
    /\ cb_states' = [cb_states EXCEPT ![i].output_buffer = b]
    /\ EngineSetBuffer(entries["eci"][i].id, entries["eci"][i].ptr, b)
    /\ UNCHANGED <<open, entries, next_id, live, regd>>

(* A callback is registered for hid: only a slot in use whose id is hid, or *)
(* a free one, is marked, and hid is remembered if an instance has that id. *)
StepRegistered(hid) ==
    /\ \A k \in Slot :
         /\ cb_states'[k].eci_handle_id = cb_states[k].eci_handle_id
         /\ cb_states'[k].output_buffer = cb_states[k].output_buffer
         /\ entries["eci"][k].in_use =>
              /\ cb_states'[k].has_callback
                   <=> cb_states[k].has_callback \/ entries["eci"][k].id = hid
              /\ entries["eci"][k].id \in regd'
                   <=> entries["eci"][k].id \in regd \/ entries["eci"][k].id = hid
    /\ \A h \in regd' : h \in regd \/ \E k \in Slot : /\ entries["eci"][k].in_use
                                                      /\ entries["eci"][k].id = h
    /\ UNCHANGED <<open, entries, next_id, live, heap, engBuf, refused>>

(* An id that is not unknown resolves, to the one slot that holds it. *)
LEMMA KnownResolves ==
    ASSUME TypeOK, HandlesConsistent, NEW hid, ~Unknown("eci", hid)
    PROVE  \E i \in Slot : Resolves("eci", hid, i)
<1>1. "eci" \in Type /\ Slot \subseteq Nat
  BY SizeAssumption DEF Type, Slot
<1>2. PICK i \in Slot : entries["eci"][i].in_use /\ entries["eci"][i].id = hid
  BY DEF Unknown, SlotsOf
<1>3. \A k \in Slot : entries["eci"][k].in_use /\ entries["eci"][k].id = hid => k = i
  BY <1>1, <1>2 DEF HandlesConsistent, IdsDistinct
<1>4. SlotsOf("eci", hid) = {i} /\ hid # 0
  BY <1>2, <1>3 DEF SlotsOf, Unknown
<1> QED
  BY <1>1, <1>4 DEF Resolves, IsFirst

(* Every step is of one of these kinds, or is the end of the client. *)
LEMMA StepKinds ==
    ASSUME TypeOK, HandlesConsistent, [Next]_vars
    PROVE  \/ StepQuiet
           \/ \E p \in Eci, i \in Slot : StepMade(p, i)
           \/ \E i \in Slot : StepDeleted(i)
           \/ \E i \in Slot, b \in Buf \cup {NULL} : StepRebuffered(i, b)
           \/ \E hid \in HandleId("eci") : StepRegistered(hid)
           \/ Disconnect
<1>1. "eci" \in Type /\ "dict" \in Type /\ "filter" \in Type /\ Slot \subseteq Nat
  BY SizeAssumption DEF Type, Slot
<1>2. /\ cb_states \in [Slot -> CbState]
      /\ live \in [Type -> SUBSET AnyPtr]
      /\ next_id \in [Type -> Nat \ {0}]
      /\ \A k \in Slot : entries["eci"][k].ptr \in AnyPtr \cup {NULL}
  <2>1. /\ cb_states \in [Slot -> CbState]
        /\ live \in [Type -> SUBSET AnyPtr]
        /\ next_id \in [Type -> Nat \ {0}]
    BY DEF TypeOK, CbState, AnyPtr
  <2>2. \A k \in Slot : entries["eci"][k].ptr \in AnyPtr \cup {NULL}
    BY <1>1 DEF TypeOK, AnyPtr
  <2> QED
    BY <2>1, <2>2
<1>3. ASSUME Refuse, UNCHANGED open PROVE StepQuiet
  BY <1>3 DEF Refuse, engine, history, StepQuiet
<1>4. ASSUME UNCHANGED vars PROVE StepQuiet
  BY <1>4 DEF vars, history, StepQuiet
<1>5. ASSUME EciNew PROVE StepQuiet \/ \E p \in Eci, i \in Slot : StepMade(p, i)
  <2>1. CASE Refuse
    BY <1>3, <1>5, <2>1 DEF EciNew
  <2>2. ASSUME NEW p \in Eci \ live["eci"], NEW i \in Slot,
               HmapAdd("eci", p, i), AllocCbState(next_id["eci"]),
               live' = [live EXCEPT !["eci"] = @ \cup {p}],
               UNCHANGED <<owner, engBuf, heap, history, open>>
        PROVE  StepMade(p, i)
    <3>1. /\ ~entries["eci"][i].in_use
          /\ next_id'["eci"] = next_id["eci"] + 1
          /\ \A k \in Slot : entries'["eci"][k] =
               IF k = i THEN [ptr |-> p, id |-> next_id["eci"], in_use |-> TRUE]
                        ELSE entries["eci"][k]
      BY <1>1, <2>2, HmapAddEffect DEF AnyPtr
    <3>2. IsFirst(i, CbSlotsOf(0))
      BY <2>2, SlotsAgree DEF HmapAdd
    <3>3. \A j \in Slot : IsFirst(j, CbSlotsOf(0)) => j = i
      BY <1>1, <3>2 DEF IsFirst
    <3>4. cb_states' = [cb_states EXCEPT ![i] =
                          [NoCbState EXCEPT !.eci_handle_id = next_id["eci"]]]
      BY <2>2, <3>2, <3>3 DEF AllocCbState, IsFirst
    <3>5. live'["eci"] = live["eci"] \cup {p}
      BY <1>1, <1>2, <2>2
    <3> QED
      BY <2>2, <3>1, <3>4, <3>5 DEF StepMade, history
  <2>3. ASSUME HmapFull("eci"), UNCHANGED <<cb_states, engine, heap, history, open>>
        PROVE  StepQuiet
    BY <2>3 DEF HmapFull, engine, history, StepQuiet
  <2> QED
    BY <1>5, <2>1, <2>2, <2>3 DEF EciNew
<1>6. ASSUME NEW hid \in HandleId("eci"), EciDelete(hid)
      PROVE  StepQuiet \/ \E i \in Slot : StepDeleted(i)
  <2>1. CASE Refuse
    BY <1>3, <1>6, <2>1 DEF EciDelete
  <2>2. ASSUME NEW i \in Slot, Resolves("eci", hid, i),
               NEW gone, EngineDelete({entries["eci"][i].ptr}, gone), HmapRemove("eci", i),
               FreeCbState(hid), regd' = regd \ {hid}, refused' = refused \ {hid},
               UNCHANGED <<next_id, open>>
        PROVE  StepDeleted(i)
    <3>1. /\ ~entries'["eci"][i].in_use
          /\ \A k \in Slot : k # i => entries'["eci"][k] = entries["eci"][k]
      BY <1>1, <2>2, HmapRemoveEffect
    <3>2. entries["eci"][i].in_use /\ entries["eci"][i].id = hid /\ CbSlotsOf(hid) = {i}
      BY <2>2, SlotsAgree
    <3>3. /\ cb_states' = [cb_states EXCEPT ![i] = NoCbState]
          /\ heap' = heap \ {cb_states[i].output_buffer}
      BY <2>2, <3>2 DEF FreeCbState, IsFirst
    <3>4. /\ live'["eci"] = live["eci"] \ {entries["eci"][i].ptr}
          /\ engBuf' = [p \in Eci |-> IF p = entries["eci"][i].ptr THEN NULL ELSE engBuf[p]]
      BY <1>1, <2>2 DEF EngineDelete
    <3> QED
      BY <2>2, <3>1, <3>2, <3>3, <3>4 DEF StepDeleted
  <2> QED
    BY <1>6, <2>1, <2>2 DEF EciDelete
<1>7. ASSUME NEW hid \in HandleId("eci"), NEW b \in Buf \cup {NULL}, SetOutputBuffer(hid, b)
      PROVE  StepQuiet \/ \E i \in Slot : StepRebuffered(i, b)
  <2>1. CASE Refuse
    BY <1>3, <1>7, <2>1 DEF SetOutputBuffer
  <2>2. CASE ~Refuse
    <3>1. PICK i \in Slot :
            /\ Resolves("eci", hid, i)
            /\ \/ CbSlotsOf(hid) = {}
               \/ \E j \in Slot :
                    /\ IsFirst(j, CbSlotsOf(hid))
                    /\ b \notin heap \ {cb_states[j].output_buffer}
                    /\ heap' = (heap \ {cb_states[j].output_buffer})
                                 \cup ({b} \ {NULL})
                    /\ cb_states' = [cb_states EXCEPT ![j].output_buffer = b]
                    /\ EngineSetBuffer(hid, entries["eci"][i].ptr, b)
      BY <1>7, <2>2 DEF SetOutputBuffer
    <3>2. entries["eci"][i].in_use /\ entries["eci"][i].id = hid /\ CbSlotsOf(hid) = {i}
      BY <3>1, SlotsAgree
    <3>3. \A j \in Slot : IsFirst(j, CbSlotsOf(hid)) => j = i
      BY <3>2 DEF IsFirst
    <3>4. UNCHANGED <<open, entries, next_id, live, regd>>
      BY <1>7, <2>2 DEF SetOutputBuffer
    <3>5. /\ b \notin heap \ {cb_states[i].output_buffer}
          /\ heap' = (heap \ {cb_states[i].output_buffer}) \cup ({b} \ {NULL})
          /\ cb_states' = [cb_states EXCEPT ![i].output_buffer = b]
          /\ EngineSetBuffer(hid, entries["eci"][i].ptr, b)
      BY <3>1, <3>2, <3>3
    <3> QED
      BY <3>2, <3>4, <3>5 DEF StepRebuffered
  <2> QED
    BY <2>1, <2>2
<1>8. ASSUME NEW hid \in HandleId("eci"), RegisterCallback(hid) PROVE StepRegistered(hid)
  <2>1. UNCHANGED <<open, entries, next_id, live, heap, engBuf, refused>>
    BY <1>8 DEF RegisterCallback, engine
  <2>2. CASE Unknown("eci", hid)
    <3>1. \A k \in Slot : entries["eci"][k].in_use =>
             entries["eci"][k].id # hid /\ cb_states[k].eci_handle_id # hid
      BY <1>1, <2>2 DEF Unknown, SlotsOf, HandlesConsistent, IdsDistinct, CbStatesAligned
    <3>2. regd' = regd
      BY <1>8, <2>2 DEF RegisterCallback
    <3>3. \A k \in Slot :
             /\ cb_states'[k].eci_handle_id = cb_states[k].eci_handle_id
             /\ cb_states'[k].output_buffer = cb_states[k].output_buffer
             /\ cb_states[k].eci_handle_id # hid => cb_states'[k] = cb_states[k]
      BY <1>2, <1>8 DEF RegisterCallback, CbState, IsFirst, CbSlotsOf
    <3> QED
      BY <2>1, <3>1, <3>2, <3>3 DEF StepRegistered
  <2>3. CASE ~Unknown("eci", hid)
    <3>1. PICK i \in Slot : Resolves("eci", hid, i)
      BY <2>3, KnownResolves
    <3>2. /\ entries["eci"][i].in_use
          /\ entries["eci"][i].id = hid
          /\ CbSlotsOf(hid) = {i}
      BY <3>1, SlotsAgree
    <3>3. \A k \in Slot : entries["eci"][k].in_use /\ entries["eci"][k].id = hid => k = i
      BY <1>1, <3>2 DEF HandlesConsistent, IdsDistinct
    <3>4. cb_states' = [cb_states EXCEPT ![i].has_callback = TRUE]
      BY <1>8, <3>2 DEF RegisterCallback, IsFirst
    <3>5. \A k \in Slot :
             /\ cb_states'[k].eci_handle_id = cb_states[k].eci_handle_id
             /\ cb_states'[k].output_buffer = cb_states[k].output_buffer
             /\ cb_states'[k].has_callback <=> cb_states[k].has_callback \/ k = i
      BY <1>2, <3>4 DEF CbState
    <3>6. regd' = regd \cup {hid}
      BY <1>8, <2>3 DEF RegisterCallback
    <3> QED
      BY <2>1, <3>2, <3>3, <3>5, <3>6 DEF StepRegistered
  <2> QED
    BY <2>2, <2>3
<1>9. ASSUME NEW t \in {"dict", "filter"}, NEW d \in Obj(t),
             HmapFull(t) \/ \E k \in Slot : HmapAdd(t, d, k)
      PROVE  /\ \A k \in Slot : entries'["eci"][k] = entries["eci"][k]
             /\ next_id'["eci"] = next_id["eci"]
  <2>1. t \in Type /\ t # "eci" /\ d \in AnyPtr
    BY DEF Type, Obj, AnyPtr
  <2>2. CASE HmapFull(t)
    BY <2>2 DEF HmapFull
  <2>3. ASSUME NEW k \in Slot, HmapAdd(t, d, k)
        PROVE  /\ \A m \in Slot : entries'["eci"][m] = entries["eci"][m]
               /\ next_id'["eci"] = next_id["eci"]
    <3>1. /\ \A u \in Type : next_id'[u] = IF u = t THEN next_id[u] + 1 ELSE next_id[u]
          /\ \A u \in Type : \A m \in Slot :
               entries'[u][m] = IF u = t /\ m = k
                                THEN [ptr |-> d, id |-> next_id[t], in_use |-> TRUE]
                                ELSE entries[u][m]
      BY <2>1, <2>3, HmapAddEffect
    <3> QED
      BY <1>1, <2>1, <3>1
  <2> QED
    BY <1>9, <2>2, <2>3
<1>10. ASSUME NEW hid \in HandleId("eci"), NEW t \in {"dict", "filter"}, NewOwned(t, hid)
       PROVE  StepQuiet
  <2>1. CASE Refuse
    BY <1>3, <1>10, <2>1 DEF NewOwned
  <2>2. ASSUME NEW i \in Slot, NEW d \in Obj(t), EngineMake(t, d, entries["eci"][i].ptr),
               HmapFull(t) \/ \E k \in Slot : HmapAdd(t, d, k),
               UNCHANGED <<cb_states, heap, history, open>>
        PROVE  StepQuiet
    <3>1. live'["eci"] = live["eci"]
      BY <1>2, <2>2, EngineTypes
    <3>2. engBuf' = engBuf
      BY <2>2 DEF EngineMake
    <3> QED
      BY <1>9, <2>2, <3>1, <3>2 DEF StepQuiet, history
  <2> QED
    BY <1>10, <2>1, <2>2 DEF NewOwned
<1>11. ASSUME NEW hid \in HandleId("eci"), GetDict(hid) PROVE StepQuiet
  <2>1. CASE Refuse
    BY <1>3, <1>11, <2>1 DEF GetDict
  <2>2. ASSUME NEW i \in Slot, NEW d \in Dict,
               UNCHANGED engine \/ EngineMake("dict", d, entries["eci"][i].ptr),
               \/ UNCHANGED <<entries, next_id>>
               \/ HmapFull("dict") \/ \E k \in Slot : HmapAdd("dict", d, k),
               UNCHANGED <<cb_states, heap, history, open>>
        PROVE  StepQuiet
    <3>1. d \in Obj("dict")
      BY DEF Obj
    <3>2. live'["eci"] = live["eci"] /\ engBuf' = engBuf
      <4>1. CASE UNCHANGED engine
        BY <4>1 DEF engine
      <4>2. CASE EngineMake("dict", d, entries["eci"][i].ptr)
        BY <1>2, <3>1, <4>2, EngineTypes DEF EngineMake
      <4> QED
        BY <2>2, <4>1, <4>2
    <3>3. /\ \A k \in Slot : entries'["eci"][k] = entries["eci"][k]
          /\ next_id'["eci"] = next_id["eci"]
      BY <1>9, <2>2, <3>1
    <3> QED
      BY <2>2, <3>2, <3>3 DEF StepQuiet, history
  <2> QED
    BY <1>11, <2>1, <2>2 DEF GetDict
<1>12. ASSUME NEW hid \in HandleId("eci"), NEW t \in {"dict", "filter"},
              NEW oid \in HandleId(t), DeleteOwned(t, hid, oid)
       PROVE  StepQuiet
  <2>1. CASE Refuse
    BY <1>3, <1>12, <2>1 DEF DeleteOwned
  <2>2. ASSUME NEW k \in Slot, EngineUnmake(t, entries[t][k].ptr), HmapRemove(t, k),
               UNCHANGED <<next_id, cb_states, heap, regd, refused, open>>
        PROVE  StepQuiet
    <3>1. t \in Type /\ t # "eci"
      BY DEF Type
    <3>2. live'["eci"] = live["eci"] /\ engBuf' = engBuf
      BY <1>1, <1>2, <2>2, <3>1 DEF EngineUnmake
    <3>3. \A m \in Slot : entries'["eci"][m] = entries["eci"][m]
      BY <1>1, <2>2, <3>1, HmapRemoveEffect
    <3> QED
      BY <2>2, <3>2, <3>3 DEF StepQuiet
  <2> QED
    BY <1>12, <2>1, <2>2 DEF DeleteOwned
<1> QED
  BY <1>4, <1>5, <1>6, <1>7, <1>8, <1>10, <1>11, <1>12 DEF Next
-----------------------------------------------------------------------------
(* Which instances the client has registered a callback for: the mark is in *)
(* the callback state that the event's pointer leads to, and an id that has *)
(* not been handed out has no mark waiting for it.                          *)
MarksMatch ==
    /\ \A h \in regd : h < next_id["eci"]
    /\ \A i \in Slot : entries["eci"][i].in_use =>
         (cb_states[i].has_callback <=> entries["eci"][i].id \in regd)

LEMMA MarksStep ==
    ASSUME TypeOK, HandlesConsistent, MarksMatch, [Next]_vars
    PROVE  MarksMatch'
<1>1. "eci" \in Type
  BY DEF Type
<1>2. /\ cb_states \in [Slot -> CbState]
      /\ next_id["eci"] \in Nat
      /\ \A h \in regd : h \in Nat
      /\ \A k \in Slot : entries["eci"][k].in_use =>
           /\ entries["eci"][k].id \in Nat
           /\ entries["eci"][k].id < next_id["eci"]
  <2>1. cb_states \in [Slot -> CbState] /\ next_id["eci"] \in Nat
    BY <1>1 DEF TypeOK, CbState
  <2>2. \A h \in regd : h \in Nat
    BY <1>1, SizeAssumption DEF TypeOK, HandleId
  <2>3. \A k \in Slot : entries["eci"][k].in_use =>
           /\ entries["eci"][k].id \in Nat
           /\ entries["eci"][k].id < next_id["eci"]
    BY <1>1, <2>1 DEF HandlesConsistent, IdsDistinct
  <2> QED
    BY <2>1, <2>2, <2>3
<1>3. \A i, k \in Slot :
         entries["eci"][i].in_use /\ entries["eci"][k].in_use
           /\ entries["eci"][k].id = entries["eci"][i].id => k = i
  BY <1>1 DEF HandlesConsistent, IdsDistinct
<1>4. ASSUME StepQuiet PROVE MarksMatch'
  BY <1>4 DEF StepQuiet, MarksMatch, Slot
<1>5. ASSUME NEW p \in Eci, NEW i \in Slot, StepMade(p, i) PROVE MarksMatch'
  <2>1. regd' = regd /\ next_id'["eci"] = next_id["eci"] + 1
    BY <1>5 DEF StepMade
  <2>2. \A h \in regd' : h < next_id'["eci"]
    BY <1>2, <2>1 DEF MarksMatch
  <2>3. ASSUME NEW k \in Slot, entries'["eci"][k].in_use
        PROVE  cb_states'[k].has_callback <=> entries'["eci"][k].id \in regd'
    <3>1. CASE k = i
      <4>1. cb_states'[k].has_callback = FALSE /\ entries'["eci"][k].id = next_id["eci"]
        BY <1>2, <1>5, <3>1 DEF StepMade, NoCbState
      <4>2. next_id["eci"] \notin regd
        BY <1>2 DEF MarksMatch
      <4> QED
        BY <2>1, <4>1, <4>2
    <3>2. CASE k # i
      BY <1>2, <1>5, <2>1, <2>3, <3>2 DEF StepMade, MarksMatch
    <3> QED
      BY <3>1, <3>2
  <2> QED
    BY <2>2, <2>3 DEF MarksMatch, Slot
<1>6. ASSUME NEW i \in Slot, StepDeleted(i) PROVE MarksMatch'
  <2>1. regd' = regd \ {entries["eci"][i].id} /\ next_id'["eci"] = next_id["eci"]
    BY <1>6 DEF StepDeleted
  <2>2. ASSUME NEW k \in Slot, entries'["eci"][k].in_use
        PROVE  cb_states'[k].has_callback <=> entries'["eci"][k].id \in regd'
    <3>1. k # i /\ entries'["eci"][k] = entries["eci"][k] /\ cb_states'[k] = cb_states[k]
      BY <1>2, <1>6, <2>2 DEF StepDeleted
    <3>2. entries["eci"][k].id # entries["eci"][i].id
      BY <1>3, <1>6, <2>2, <3>1 DEF StepDeleted
    <3> QED
      BY <2>1, <2>2, <3>1, <3>2 DEF MarksMatch
  <2> QED
    BY <2>1, <2>2 DEF MarksMatch, Slot
<1>7. ASSUME NEW i \in Slot, NEW b \in Buf \cup {NULL}, StepRebuffered(i, b)
      PROVE  MarksMatch'
  <2>1. \A k \in Slot : cb_states'[k].has_callback = cb_states[k].has_callback
    BY <1>2, <1>7 DEF StepRebuffered, CbState
  <2>2. UNCHANGED <<entries, next_id, regd>>
    BY <1>7 DEF StepRebuffered
  <2> QED
    BY <2>1, <2>2 DEF MarksMatch, Slot
<1>8. ASSUME NEW hid \in HandleId("eci"), StepRegistered(hid) PROVE MarksMatch'
  <2>1. UNCHANGED <<entries, next_id>>
    BY <1>8 DEF StepRegistered
  <2>2. \A h \in regd' : h < next_id["eci"]
    BY <1>2, <1>8 DEF StepRegistered, MarksMatch
  <2>3. \A k \in Slot : entries["eci"][k].in_use =>
          (cb_states'[k].has_callback <=> entries["eci"][k].id \in regd')
    BY <1>8 DEF StepRegistered, MarksMatch
  <2> QED
    BY <2>1, <2>2, <2>3 DEF MarksMatch, Slot
<1>9. ASSUME Disconnect PROVE MarksMatch'
  BY <1>9 DEF Disconnect, MarksMatch, Slot
<1> QED
  BY <1>4, <1>5, <1>6, <1>7, <1>8, <1>9, StepKinds

(* With the tables in step, the two look-ups of an event, by pointer and *)
(* then by id, end in the callback state of the instance's own slot.     *)
LEMMA MarksRoute ==
    ASSUME TypeOK, HandlesConsistent, MarksMatch
    PROVE  EventRouting
<1>1. SUFFICES ASSUME open, NEW i \in Slot, entries["eci"][i].in_use
               PROVE  /\ FindCbState(entries["eci"][i].ptr, i)
                      /\ cb_states[i].eci_handle_id = entries["eci"][i].id
                      /\ cb_states[i].has_callback <=> entries["eci"][i].id \in regd
  BY DEF EventRouting
<1>2. "eci" \in Type /\ Slot \subseteq Nat
  BY SizeAssumption DEF Type, Slot
<1>3. cb_states[i].eci_handle_id = entries["eci"][i].id
  BY <1>1 DEF HandlesConsistent, CbStatesAligned
<1>4. SlotsAt("eci", entries["eci"][i].ptr) = {i}
  BY <1>1 DEF SlotsAt, HandlesConsistent, InstancesMapped
<1>5. SlotsOf("eci", entries["eci"][i].id) = {i} /\ entries["eci"][i].id # 0
  <2>1. next_id["eci"] \in Nat
    BY <1>2 DEF TypeOK
  <2>2. /\ entries["eci"][i].id \in 1..(next_id["eci"] - 1)
        /\ \A k \in Slot : entries["eci"][k].in_use
             /\ entries["eci"][k].id = entries["eci"][i].id => k = i
    BY <1>1, <1>2 DEF HandlesConsistent, IdsDistinct
  <2>3. entries["eci"][i].id # 0
    BY <2>1, <2>2
  <2> QED
    BY <1>1, <2>2, <2>3 DEF SlotsOf
<1>6. Resolves("eci", entries["eci"][i].id, i)
  BY <1>2, <1>5 DEF Resolves, IsFirst
<1>7. CbSlotsOf(entries["eci"][i].id) = {i}
  BY <1>6, SlotsAgree
<1>8. FindCbState(entries["eci"][i].ptr, i)
  BY <1>2, <1>4, <1>7 DEF FindCbState, IsFirst
<1> QED
  BY <1>1, <1>3, <1>8 DEF MarksMatch

-----------------------------------------------------------------------------
(* BuffersOwned is inductive with two facts about what is not in use: a free *)
(* callback state holds no buffer, which alloc_cb_state would lose, and an   *)
(* instance that does not exist writes nowhere.                              *)
BuffersFree ==
    /\ \A i \in Slot : cb_states[i].eci_handle_id = 0 => cb_states[i].output_buffer = NULL
    /\ open => /\ live["eci"] \subseteq Eci
               /\ \A p \in Eci \ live["eci"] : engBuf[p] = NULL

(* The three parts of BuffersOwned. *)
HeapExact == heap = {cb_states[j].output_buffer : j \in Slot} \ {NULL}
BufferOnce ==
    \A i, j \in Slot : cb_states[i].output_buffer = cb_states[j].output_buffer
                         => i = j \/ cb_states[i].output_buffer = NULL
EngineWrites ==
    open => \A i \in Slot :
       entries["eci"][i].in_use /\ entries["eci"][i].id \notin refused =>
         engBuf[entries["eci"][i].ptr] = cb_states[i].output_buffer

LEMMA BuffersParts == BuffersOwned <=> HeapExact /\ BufferOnce /\ EngineWrites
BY DEF BuffersOwned, HeapExact, BufferOnce, EngineWrites

(* One callback state's buffer changes to one nobody else has. *)
LEMMA BufferChange ==
    ASSUME HeapExact, BufferOnce, NEW i \in Slot, NEW b \in Buf \cup {NULL},
           b \notin heap \ {cb_states[i].output_buffer},
           heap' = (heap \ {cb_states[i].output_buffer}) \cup ({b} \ {NULL}),
           \A k \in Slot : cb_states'[k].output_buffer =
                             IF k = i THEN b ELSE cb_states[k].output_buffer
    PROVE  HeapExact' /\ BufferOnce'
<1>1. \A k \in Slot : k # i /\ cb_states[k].output_buffer # NULL =>
         /\ cb_states[k].output_buffer \in heap \ {cb_states[i].output_buffer}
         /\ cb_states[k].output_buffer # b
  BY DEF HeapExact, BufferOnce
<1>2. HeapExact'
  <2>1. ASSUME NEW x \in heap' PROVE x \in {cb_states'[j].output_buffer : j \in Slot} \ {NULL}
    <3>1. CASE x = b /\ b # NULL
      BY <3>1
    <3>2. CASE x \in heap \ {cb_states[i].output_buffer}
      <4>1. PICK j \in Slot : x = cb_states[j].output_buffer /\ x # NULL
        BY <3>2 DEF HeapExact
      <4>2. j # i
        BY <3>2, <4>1
      <4> QED
        BY <4>1, <4>2
    <3> QED
      BY <2>1, <3>1, <3>2
  <2>2. ASSUME NEW j \in Slot, cb_states'[j].output_buffer # NULL
        PROVE  cb_states'[j].output_buffer \in heap'
    <3>1. CASE j = i
      BY <2>2, <3>1
    <3>2. CASE j # i
      BY <1>1, <2>2, <3>2
    <3> QED
      BY <3>1, <3>2
  <2> QED
    BY <2>1, <2>2 DEF HeapExact, Slot
<1>3. BufferOnce'
  <2>1. ASSUME NEW k \in Slot, NEW j \in Slot,
               cb_states'[k].output_buffer = cb_states'[j].output_buffer
        PROVE  k = j \/ cb_states'[k].output_buffer = NULL
    BY <1>1, <2>1 DEF BufferOnce
  <2> QED
    BY <2>1 DEF BufferOnce, Slot
<1> QED
  BY <1>2, <1>3

LEMMA BuffersStep ==
    ASSUME TypeOK, HandlesConsistent, BuffersOwned, BuffersFree, [Next]_vars
    PROVE  BuffersOwned' /\ BuffersFree'
<1>1. /\ HeapExact
      /\ BufferOnce
      /\ EngineWrites
  BY BuffersParts
<1>2. SUFFICES HeapExact' /\ BufferOnce' /\ EngineWrites' /\ BuffersFree'
  BY DEF BuffersOwned, HeapExact, BufferOnce, EngineWrites
<1>3. /\ "eci" \in Type
      /\ cb_states \in [Slot -> CbState]
      /\ engBuf \in [Eci -> Buf \cup {NULL}]
      /\ heap \in SUBSET Buf
      /\ next_id["eci"] \in Nat \ {0}
      /\ \A k \in Slot : entries["eci"][k].in_use => entries["eci"][k].id # 0
  <2>1. /\ "eci" \in Type
        /\ cb_states \in [Slot -> CbState]
        /\ engBuf \in [Eci -> Buf \cup {NULL}]
        /\ heap \in SUBSET Buf
    BY DEF Type, TypeOK, CbState
  <2>2. next_id["eci"] \in Nat \ {0}
    BY <2>1 DEF TypeOK
  <2>3. \A k \in Slot : entries["eci"][k].in_use => entries["eci"][k].id # 0
    BY <2>1, <2>2 DEF HandlesConsistent, IdsDistinct
  <2> QED
    BY <2>1, <2>2, <2>3
<1>4. \A k \in Slot : cb_states[k].eci_handle_id =
         IF entries["eci"][k].in_use THEN entries["eci"][k].id ELSE 0
  BY DEF HandlesConsistent, CbStatesAligned
<1>5. open => \A i \in Slot : entries["eci"][i].in_use =>
         /\ entries["eci"][i].ptr \in live["eci"]
         /\ entries["eci"][i].ptr \in Eci
         /\ \A k \in Slot : entries["eci"][k].in_use
               /\ entries["eci"][k].ptr = entries["eci"][i].ptr => k = i
  BY DEF HandlesConsistent, InstancesMapped, BuffersFree
<1>6. ASSUME StepQuiet PROVE HeapExact' /\ BufferOnce' /\ EngineWrites' /\ BuffersFree'
  <2>1. UNCHANGED <<open, cb_states, heap, engBuf, refused>> /\ live'["eci"] = live["eci"]
    BY <1>6 DEF StepQuiet
  <2>2. HeapExact' /\ BufferOnce' /\ BuffersFree'
    BY <1>1, <2>1 DEF HeapExact, BufferOnce, BuffersFree, Slot
  <2>3. EngineWrites'
    BY <1>1, <1>6, <2>1 DEF StepQuiet, EngineWrites, Slot
  <2> QED
    BY <2>2, <2>3
<1>7. ASSUME NEW p \in Eci, NEW i \in Slot, StepMade(p, i)
      PROVE  HeapExact' /\ BufferOnce' /\ EngineWrites' /\ BuffersFree'
  <2>1. cb_states[i].output_buffer = NULL
    BY <1>4, <1>7 DEF StepMade, BuffersFree
  <2>2. \A k \in Slot :
          /\ cb_states'[k].output_buffer = cb_states[k].output_buffer
          /\ k # i => cb_states'[k] = cb_states[k]
    BY <1>3, <1>7, <2>1 DEF StepMade, NoCbState
  <2>3. cb_states'[i].eci_handle_id = next_id["eci"]
    BY <1>3, <1>7 DEF StepMade, NoCbState
  <2>4. /\ UNCHANGED <<open, heap, engBuf, refused>>
        /\ live'["eci"] = live["eci"] \cup {p}
        /\ p \notin live["eci"]
    BY <1>7 DEF StepMade
  <2>5. HeapExact' /\ BufferOnce'
    BY <1>1, <2>2, <2>4 DEF HeapExact, BufferOnce, Slot
  <2>6. ASSUME open', NEW k \in Slot, entries'["eci"][k].in_use,
               entries'["eci"][k].id \notin refused'
        PROVE  engBuf'[entries'["eci"][k].ptr] = cb_states'[k].output_buffer
    <3>1. CASE k = i
      <4>1. entries'["eci"][k].ptr = p
        BY <1>7, <3>1 DEF StepMade
      <4>2. engBuf[p] = NULL
        BY <2>4, <2>6 DEF BuffersFree
      <4> QED
        BY <2>1, <2>2, <2>4, <3>1, <4>1, <4>2
    <3>2. CASE k # i
      <4>1. entries'["eci"][k] = entries["eci"][k]
        BY <1>7, <3>2 DEF StepMade
      <4> QED
        BY <1>1, <2>2, <2>4, <2>6, <4>1 DEF EngineWrites
    <3> QED
      BY <3>1, <3>2
  <2>7. EngineWrites'
    BY <2>6 DEF EngineWrites, Slot
  <2>8. BuffersFree'
    BY <1>3, <2>1, <2>2, <2>3, <2>4 DEF BuffersFree, Slot
  <2> QED
    BY <2>5, <2>7, <2>8
<1>12. ASSUME NEW k \in Slot, NEW m \in Slot,
              entries["eci"][k].in_use, entries["eci"][m].in_use,
              entries["eci"][m].id = entries["eci"][k].id
       PROVE  m = k
  <2>1. "eci" \in Type
    BY DEF Type
  <2> QED
    BY <1>12, <2>1 DEF HandlesConsistent, IdsDistinct
<1>8. ASSUME NEW i \in Slot, StepDeleted(i)
      PROVE  HeapExact' /\ BufferOnce' /\ EngineWrites' /\ BuffersFree'
  <2>1. \A k \in Slot :
          /\ cb_states'[k].output_buffer =
               IF k = i THEN NULL ELSE cb_states[k].output_buffer
          /\ k # i => cb_states'[k] = cb_states[k]
    BY <1>3, <1>8 DEF StepDeleted, NoCbState
  <2>2. /\ heap' = (heap \ {cb_states[i].output_buffer}) \cup ({NULL} \ {NULL})
        /\ NULL \notin heap
    BY <1>1, <1>8 DEF StepDeleted, HeapExact
  <2>3. HeapExact' /\ BufferOnce'
    BY <1>1, <2>1, <2>2, BufferChange
  <2>4. /\ open' = open
        /\ live'["eci"] = live["eci"] \ {entries["eci"][i].ptr}
        /\ engBuf' = [p \in Eci |-> IF p = entries["eci"][i].ptr THEN NULL ELSE engBuf[p]]
    BY <1>8 DEF StepDeleted
  <2>5. ASSUME open', NEW k \in Slot, entries'["eci"][k].in_use,
               entries'["eci"][k].id \notin refused'
        PROVE  engBuf'[entries'["eci"][k].ptr] = cb_states'[k].output_buffer
    <3>1. k # i /\ entries'["eci"][k] = entries["eci"][k] /\ entries["eci"][i].in_use
      BY <1>8, <2>5 DEF StepDeleted
    <3>2. /\ entries["eci"][k].ptr \in Eci
          /\ entries["eci"][k].ptr # entries["eci"][i].ptr
      BY <1>5, <2>4, <2>5, <3>1
    <3>3. engBuf'[entries["eci"][k].ptr] = engBuf[entries["eci"][k].ptr]
      BY <2>4, <3>2
    <3>4. entries["eci"][k].id \notin refused
      BY <1>8, <1>12, <2>5, <3>1 DEF StepDeleted
    <3> QED
      BY <1>1, <2>1, <2>4, <2>5, <3>1, <3>3, <3>4 DEF EngineWrites
  <2>6. EngineWrites'
    BY <2>5 DEF EngineWrites, Slot
  <2>7. BuffersFree'
    BY <2>1, <2>4 DEF BuffersFree, Slot
  <2> QED
    BY <2>3, <2>6, <2>7
<1>9. ASSUME NEW i \in Slot, NEW b \in Buf \cup {NULL}, StepRebuffered(i, b)
      PROVE  HeapExact' /\ BufferOnce' /\ EngineWrites' /\ BuffersFree'
  <2>1. \A k \in Slot :
          /\ cb_states'[k].output_buffer =
               IF k = i THEN b ELSE cb_states[k].output_buffer
          /\ cb_states'[k].eci_handle_id = cb_states[k].eci_handle_id
    BY <1>3, <1>9 DEF StepRebuffered, CbState
  <2>2. HeapExact' /\ BufferOnce'
    BY <1>1, <1>9, <2>1, BufferChange DEF StepRebuffered
  <2>3. /\ UNCHANGED <<open, entries, live>>
        /\ entries["eci"][i].in_use
    BY <1>9 DEF StepRebuffered
  <2>3a. \/ /\ engBuf' = [engBuf EXCEPT ![entries["eci"][i].ptr] = b]
            /\ refused' = refused \ {entries["eci"][i].id}
         \/ /\ engBuf' = engBuf
            /\ refused' = refused \cup {entries["eci"][i].id}
    BY <1>9 DEF StepRebuffered, EngineSetBuffer
  <2>4. ASSUME open, NEW k \in Slot, entries["eci"][k].in_use,
               entries["eci"][k].id \notin refused'
        PROVE  engBuf'[entries["eci"][k].ptr] = cb_states'[k].output_buffer
    <3>1. CASE k = i
      BY <1>3, <1>5, <2>1, <2>3, <2>3a, <2>4, <3>1
    <3>2. CASE k # i
      <4>1. entries["eci"][k].id # entries["eci"][i].id
        BY <1>12, <2>3, <2>4, <3>2
      <4>2. entries["eci"][k].id \notin refused
        BY <2>3a, <2>4, <4>1
      <4>3. /\ entries["eci"][k].ptr \in Eci
            /\ entries["eci"][k].ptr # entries["eci"][i].ptr
        BY <1>5, <2>3, <2>4, <3>2
      <4>4. engBuf'[entries["eci"][k].ptr] = engBuf[entries["eci"][k].ptr]
        BY <1>3, <2>3a, <4>3
      <4> QED
        BY <1>1, <2>1, <2>4, <3>2, <4>2, <4>4 DEF EngineWrites
    <3> QED
      BY <3>1, <3>2
  <2>5. EngineWrites'
    BY <2>3, <2>4 DEF EngineWrites, Slot
  <2>6. ASSUME open, NEW p \in Eci \ live["eci"] PROVE engBuf'[p] = NULL
    <3>1. p # entries["eci"][i].ptr
      BY <1>5, <2>3, <2>6
    <3> QED
      BY <1>3, <2>3, <2>3a, <2>6, <3>1 DEF BuffersFree
  <2>7. \A k \in Slot : cb_states'[k].eci_handle_id = 0 => cb_states'[k].output_buffer = NULL
    BY <1>3, <1>4, <2>1, <2>3 DEF BuffersFree
  <2>8. BuffersFree'
    BY <2>3, <2>6, <2>7 DEF BuffersFree, Slot
  <2> QED
    BY <2>2, <2>5, <2>8
<1>10. ASSUME NEW hid \in HandleId("eci"), StepRegistered(hid)
       PROVE  HeapExact' /\ BufferOnce' /\ EngineWrites' /\ BuffersFree'
  <2>1. \A k \in Slot :
          /\ cb_states'[k].output_buffer = cb_states[k].output_buffer
          /\ cb_states'[k].eci_handle_id = cb_states[k].eci_handle_id
    BY <1>10 DEF StepRegistered
  <2>2. UNCHANGED <<open, entries, live, heap, engBuf, refused>>
    BY <1>10 DEF StepRegistered
  <2> QED
    BY <1>1, <2>1, <2>2 DEF HeapExact, BufferOnce, EngineWrites, BuffersFree, Slot
<1>11. ASSUME Disconnect
       PROVE  HeapExact' /\ BufferOnce' /\ EngineWrites' /\ BuffersFree'
  <2>1. UNCHANGED <<cb_states, heap>> /\ open' = FALSE
    BY <1>11 DEF Disconnect
  <2> QED
    BY <1>1, <2>1 DEF HeapExact, BufferOnce, EngineWrites, BuffersFree, Slot
<1> QED
  BY <1>6, <1>7, <1>8, <1>9, <1>10, <1>11, StepKinds

(* Initially nothing is registered and nothing is allocated. *)
LEMMA InitBuffers == Init => MarksMatch /\ BuffersOwned /\ BuffersFree
<1> SUFFICES ASSUME Init PROVE MarksMatch /\ BuffersOwned /\ BuffersFree
  OBVIOUS
<1>1. "eci" \in Type
  BY DEF Type
<1>2. MarksMatch
  BY <1>1 DEF Init, MarksMatch, NoEntry
<1>3. BuffersOwned
  BY <1>1 DEF Init, BuffersOwned, NoEntry, NoCbState
<1>4. BuffersFree
  BY <1>1 DEF Init, BuffersFree, NoCbState
<1> QED
  BY <1>2, <1>3, <1>4

(* An engine event reaches the callback state of the instance it is about,  *)
(* and goes to the client exactly if the client registered for that handle, *)
(* whichever handles had the slot before (find_cb_state_by_eci_ptr).        *)
THEOREM EventsRouted == Spec => []EventRouting
<1>1. Init => MarksMatch
  BY InitBuffers
<1>2. TypeOK /\ HandlesConsistent /\ MarksMatch /\ [Next]_vars => MarksMatch'
  BY MarksStep
<1>3. Spec => []MarksMatch
  BY <1>1, <1>2, TypeCorrect, HandlesStayConsistent, PTL DEF Spec
<1>4. TypeOK /\ HandlesConsistent /\ MarksMatch => EventRouting
  BY MarksRoute
<1> QED
  BY <1>3, <1>4, TypeCorrect, HandlesStayConsistent, PTL

(* No output buffer is lost, shared by two instances, or freed while the *)
(* engine writes to it (FN_ECI_SET_OUTPUT_BUFFER, free_cb_state).        *)
THEOREM BuffersStayOwned == Spec => []BuffersOwned
<1>1. Init => BuffersOwned /\ BuffersFree
  BY InitBuffers
<1>2. TypeOK /\ HandlesConsistent /\ (BuffersOwned /\ BuffersFree) /\ [Next]_vars
        => (BuffersOwned /\ BuffersFree)'
  BY BuffersStep
<1>3. Spec => [](BuffersOwned /\ BuffersFree)
  BY <1>1, <1>2, TypeCorrect, HandlesStayConsistent, PTL DEF Spec
<1> QED
  BY <1>3, PTL
-----------------------------------------------------------------------------
(* The dictionaries and filters that are mapped exist, and each is mapped *)
(* once: otherwise the deletion through one handle would leave the other  *)
(* without its object.  Only the pointers eciDelete left dangling are in  *)
(* doubt, for as long as a slot holds them.                               *)
OwnedMapped ==
    open => \A t \in {"dict", "filter"} : \A i \in Slot :
      entries[t][i].in_use /\ entries[t][i].ptr \notin dangling =>
        /\ entries[t][i].ptr \in live[t]
        /\ \A k \in Slot : entries[t][k].in_use
              /\ entries[t][k].ptr = entries[t][i].ptr => k = i

(* An object that no slot holds goes into one; no object goes. *)
LEMMA AddKeepsOwned ==
    ASSUME TypeOK, OwnedMapped, NEW t \in {"dict", "filter"}, NEW d \in AnyPtr,
           d \in dangling \/ SlotsAt(t, d) = {}, d \in live'[t], dangling' = dangling,
           \A u \in {"dict", "filter"} : live[u] \subseteq live'[u],
           HmapFull(t) \/ \E k \in Slot : HmapAdd(t, d, k), UNCHANGED open
    PROVE  OwnedMapped'
<1>1. t \in Type /\ {"dict", "filter"} \subseteq Type
  BY DEF Type
<1>2. CASE HmapFull(t)
  BY <1>2 DEF HmapFull, OwnedMapped, Slot
<1>3. ASSUME NEW k \in Slot, HmapAdd(t, d, k) PROVE OwnedMapped'
  <2>1. \A u \in Type : \A m \in Slot :
          entries'[u][m] = IF u = t /\ m = k
                           THEN [ptr |-> d, id |-> next_id[t], in_use |-> TRUE]
                           ELSE entries[u][m]
    BY <1>1, <1>3, HmapAddEffect
  <2>2. d \in dangling \/ \A m \in Slot : entries[t][m].in_use => entries[t][m].ptr # d
    BY DEF SlotsAt
  <2>3. SUFFICES ASSUME open, NEW u \in {"dict", "filter"}, NEW i \in Slot,
                        entries'[u][i].in_use, entries'[u][i].ptr \notin dangling
                 PROVE  /\ entries'[u][i].ptr \in live'[u]
                        /\ \A m \in Slot : entries'[u][m].in_use
                             /\ entries'[u][m].ptr = entries'[u][i].ptr => m = i
    BY DEF OwnedMapped, Slot
  <2>4. CASE u = t /\ i = k
    BY <1>1, <2>1, <2>2, <2>3, <2>4
  <2>5. CASE ~(u = t /\ i = k)
    <3>1. entries'[u][i] = entries[u][i] /\ u \in Type
      BY <1>1, <2>1, <2>5
    <3>2. entries[u][i].ptr \in live[u]
      BY <2>3, <3>1 DEF OwnedMapped
    <3>3. ASSUME NEW m \in Slot, entries'[u][m].in_use,
                 entries'[u][m].ptr = entries'[u][i].ptr
          PROVE  m = i
      <4>1. CASE u = t /\ m = k
        BY <2>1, <2>2, <2>3, <3>1, <3>3, <4>1
      <4>2. CASE ~(u = t /\ m = k)
        BY <2>1, <2>3, <3>1, <3>3, <4>2 DEF OwnedMapped
      <4> QED
        BY <4>1, <4>2
    <3> QED
      BY <3>1, <3>2, <3>3
  <2> QED
    BY <2>4, <2>5
<1> QED
  BY <1>2, <1>3

LEMMA OwnedStep ==
    ASSUME TypeOK, OwnedMapped, [Next]_vars
    PROVE  OwnedMapped'
<1>1. {"dict", "filter"} \subseteq Type \ {"eci"} /\ "eci" \in Type
  BY DEF Type
<1>2. /\ live \in [Type -> SUBSET AnyPtr]
      /\ entries \in [Type -> [Slot -> Entry]]
  BY DEF TypeOK, AnyPtr, Entry
<1>3. ASSUME \A t \in {"dict", "filter"} :
               /\ \A k \in Slot : entries'[t][k] = entries[t][k]
               /\ live'[t] = live[t],
             UNCHANGED <<dangling, open>>
      PROVE  OwnedMapped'
  BY <1>3 DEF OwnedMapped, Slot
<1>4. ASSUME UNCHANGED <<entries, live, dangling, open>> PROVE OwnedMapped'
  BY <1>3, <1>4
<1>5. ASSUME Refuse, UNCHANGED open PROVE OwnedMapped'
  BY <1>4, <1>5 DEF Refuse, engine, history
<1>6. CASE UNCHANGED vars
  BY <1>4, <1>6 DEF vars, history
<1>7. CASE EciNew
  <2>1. ASSUME NEW p \in Eci \ live["eci"], NEW i \in Slot, HmapAdd("eci", p, i),
               live' = [live EXCEPT !["eci"] = @ \cup {p}], UNCHANGED <<dangling, open>>
        PROVE  OwnedMapped'
    <3>1. \A u \in Type : \A k \in Slot : u # "eci" => entries'[u][k] = entries[u][k]
      <4>1. p \in AnyPtr
        BY DEF AnyPtr
      <4>2. \A u \in Type : \A k \in Slot :
              entries'[u][k] = IF u = "eci" /\ k = i
                               THEN [ptr |-> p, id |-> next_id["eci"], in_use |-> TRUE]
                               ELSE entries[u][k]
        BY <1>1, <2>1, <4>1, HmapAddEffect
      <4> QED
        BY <4>2
    <3>2. \A u \in Type : u # "eci" => live'[u] = live[u]
      BY <1>2, <2>1
    <3> QED
      BY <1>1, <1>3, <2>1, <3>1, <3>2
  <2>2. CASE HmapFull("eci") /\ UNCHANGED <<engine, dangling, open>>
    BY <1>4, <2>2 DEF HmapFull, engine
  <2> QED
    BY <1>5, <1>7, <2>1, <2>2 DEF EciNew, history
<1>8. CASE Disconnect
  BY <1>8 DEF Disconnect, OwnedMapped
<1>9. ASSUME NEW hid \in HandleId("eci"), EciDelete(hid) PROVE OwnedMapped'
  <2>1. ASSUME NEW i \in Slot, NEW gone, EngineDelete({entries["eci"][i].ptr}, gone),
               HmapRemove("eci", i), UNCHANGED open
        PROVE  OwnedMapped'
    <3>1. \A u \in Type : \A k \in Slot : u # "eci" => entries'[u][k] = entries[u][k]
      BY <1>1, <2>1, HmapRemoveEffect
    <3>2. \A u \in {"dict", "filter"} : live'[u] = live[u] \ gone
      BY <1>1, <1>2, <2>1 DEF EngineDelete
    <3>3. /\ gone \subseteq Dict \cup Filter
          /\ dangling \subseteq dangling'
          /\ \A u \in {"dict", "filter"} : \A d \in gone :
               SlotsAt(u, d) # {} => d \in dangling'
      <4>1. ASSUME NEW u \in {"dict", "filter"}, NEW d, SlotsAt(u, d) # {}
            PROVE  OwnedSlots(d) # {}
        <5>1. PICK k \in Slot : k \in SlotsAt(u, d)
          BY <4>1 DEF SlotsAt
        <5>2. <<u, k>> \in OwnedSlots(d)
          BY <5>1 DEF OwnedSlots
        <5> QED
          BY <5>2
      <4> QED
        BY <2>1, <4>1 DEF EngineDelete
    <3>4. SUFFICES ASSUME open, NEW u \in {"dict", "filter"}, NEW k \in Slot,
                          entries'[u][k].in_use, entries'[u][k].ptr \notin dangling'
                   PROVE  /\ entries'[u][k].ptr \in live'[u]
                          /\ \A m \in Slot : entries'[u][m].in_use
                               /\ entries'[u][m].ptr = entries'[u][k].ptr => m = k
      BY <2>1 DEF OwnedMapped, Slot
    <3>5. u \in Type /\ u # "eci" /\ \A m \in Slot : entries'[u][m] = entries[u][m]
      BY <1>1, <3>1
    <3>6. /\ entries[u][k].ptr \in live[u]
          /\ \A m \in Slot : entries[u][m].in_use
               /\ entries[u][m].ptr = entries[u][k].ptr => m = k
      BY <3>3, <3>4, <3>5 DEF OwnedMapped
    <3>7. entries[u][k].ptr \notin gone
      BY <3>3, <3>4, <3>5 DEF SlotsAt
    <3> QED
      BY <3>2, <3>5, <3>6, <3>7
  <2> QED
    BY <1>5, <1>9, <2>1 DEF EciDelete
<1>10. ASSUME NEW hid \in HandleId("eci"), RegisterCallback(hid) PROVE OwnedMapped'
  BY <1>4, <1>10 DEF RegisterCallback, engine
<1>11. ASSUME NEW hid \in HandleId("eci"), NEW b \in Buf \cup {NULL}, SetOutputBuffer(hid, b)
       PROVE  OwnedMapped'
  BY <1>4, <1>5, <1>11 DEF SetOutputBuffer
<1>12. ASSUME open, NEW t \in {"dict", "filter"}, NEW d \in Obj(t),
              NEW h \in AnyPtr \cup {NULL}, EngineMake(t, d, h)
       PROVE  /\ d \in dangling \/ SlotsAt(t, d) = {}
              /\ d \in AnyPtr
              /\ d \in live'[t]
              /\ \A u \in {"dict", "filter"} : live[u] \subseteq live'[u]
  <2>1. d \notin live[t] /\ live' = [live EXCEPT ![t] = @ \cup {d}]
    BY <1>12 DEF EngineMake
  <2>2. d \in dangling \/ SlotsAt(t, d) = {}
    BY <1>12, <2>1 DEF SlotsAt, OwnedMapped
  <2>3. d \in AnyPtr
    BY DEF Obj, AnyPtr
  <2>4. d \in live'[t] /\ \A u \in {"dict", "filter"} : live[u] \subseteq live'[u]
    BY <1>1, <1>2, <2>1
  <2> QED
    BY <2>2, <2>3, <2>4
<1>13. \A k \in Slot : entries["eci"][k].ptr \in AnyPtr \cup {NULL}
  BY <1>1, <1>2 DEF Entry
<1>14. ASSUME NEW hid \in HandleId("eci"), NEW t \in {"dict", "filter"}, NewOwned(t, hid)
       PROVE  OwnedMapped'
  <2>1. ASSUME open, NEW i \in Slot, NEW d \in Obj(t), EngineMake(t, d, entries["eci"][i].ptr),
               HmapFull(t) \/ \E k \in Slot : HmapAdd(t, d, k), UNCHANGED <<dangling, open>>
        PROVE  OwnedMapped'
    <3>1. /\ d \in dangling \/ SlotsAt(t, d) = {}
          /\ d \in AnyPtr
          /\ d \in live'[t]
          /\ \A u \in {"dict", "filter"} : live[u] \subseteq live'[u]
      BY <1>12, <1>13, <2>1
    <3> QED
      BY <2>1, <3>1, AddKeepsOwned
  <2> QED
    BY <1>5, <1>14, <2>1 DEF NewOwned, history
<1>15. ASSUME NEW hid \in HandleId("eci"), GetDict(hid) PROVE OwnedMapped'
  <2>1. ASSUME open, NEW i \in Slot, NEW d \in Dict,
               \/ d \in live["dict"] /\ UNCHANGED engine
               \/ EngineMake("dict", d, entries["eci"][i].ptr),
               \/ \E k \in Slot : IsFirst(k, SlotsAt("dict", d)) /\ UNCHANGED entries
               \/ /\ SlotsAt("dict", d) = {}
                  /\ HmapFull("dict") \/ \E k \in Slot : HmapAdd("dict", d, k),
               UNCHANGED <<dangling, open>>
        PROVE  OwnedMapped'
    <3>1. d \in Obj("dict") /\ d \in AnyPtr /\ "dict" \in {"dict", "filter"}
      BY DEF Obj, AnyPtr
    <3>2. /\ d \in live'["dict"]
          /\ \A u \in {"dict", "filter"} : live[u] \subseteq live'[u]
      <4>1. CASE d \in live["dict"] /\ UNCHANGED engine
        BY <4>1 DEF engine
      <4>2. CASE EngineMake("dict", d, entries["eci"][i].ptr)
        BY <1>12, <1>13, <2>1, <3>1, <4>2
      <4> QED
        BY <2>1, <4>1, <4>2
    <3>3. CASE \E k \in Slot : IsFirst(k, SlotsAt("dict", d)) /\ UNCHANGED entries
      BY <2>1, <3>2, <3>3 DEF OwnedMapped, Slot
    <3>4. CASE /\ SlotsAt("dict", d) = {}
               /\ HmapFull("dict") \/ \E k \in Slot : HmapAdd("dict", d, k)
      BY <2>1, <3>1, <3>2, <3>4, AddKeepsOwned
    <3> QED
      BY <2>1, <3>3, <3>4
  <2> QED
    BY <1>5, <1>15, <2>1 DEF GetDict, history
<1>16. ASSUME NEW hid \in HandleId("eci"), NEW t \in {"dict", "filter"},
              NEW oid \in HandleId(t), DeleteOwned(t, hid, oid)
       PROVE  OwnedMapped'
  <2>1. ASSUME open, NEW k \in Slot, Resolves(t, oid, k),
               EngineUnmake(t, entries[t][k].ptr), HmapRemove(t, k), UNCHANGED open,
               dangling' = dangling \ {p \in {entries[t][k].ptr} : OwnedSlots(p) = {<<t, k>>}}
        PROVE  OwnedMapped'
    <3>1. /\ ~entries'[t][k].in_use
          /\ \A u \in Type : \A m \in Slot :
               u # t \/ m # k => entries'[u][m] = entries[u][m]
      BY <1>1, <2>1, HmapRemoveEffect
    <3>2. \A u \in Type : live'[u] = IF u = t THEN live[t] \ {entries[t][k].ptr} ELSE live[u]
      BY <1>1, <1>2, <2>1 DEF EngineUnmake
    <3>3. entries[t][k].in_use
      BY <2>1 DEF Resolves, IsFirst, SlotsOf
    <3>4. SUFFICES ASSUME NEW u \in {"dict", "filter"}, NEW i \in Slot,
                          entries'[u][i].in_use, entries'[u][i].ptr \notin dangling'
                   PROVE  /\ entries'[u][i].ptr \in live'[u]
                          /\ \A m \in Slot : entries'[u][m].in_use
                               /\ entries'[u][m].ptr = entries'[u][i].ptr => m = i
      BY DEF OwnedMapped, Slot
    <3>5. u \in Type /\ (u # t \/ i # k) /\ entries'[u][i] = entries[u][i]
      BY <1>1, <3>1, <3>4
    <3>5a. entries[u][i].ptr \notin dangling
      <4>1. ASSUME entries[u][i].ptr = entries[t][k].ptr
            PROVE  OwnedSlots(entries[t][k].ptr) # {<<t, k>>}
        <5>1. <<u, i>> \in OwnedSlots(entries[t][k].ptr)
          BY <3>4, <3>5, <4>1 DEF OwnedSlots, SlotsAt
        <5> QED
          BY <3>5, <5>1
      <4>2. CASE entries[u][i].ptr # entries[t][k].ptr
        BY <2>1, <3>4, <3>5, <4>2
      <4> QED
        BY <2>1, <3>4, <3>5, <4>1, <4>2
    <3>6. /\ entries[u][i].ptr \in live[u]
          /\ u = t => entries[u][i].ptr # entries[t][k].ptr
      BY <2>1, <3>3, <3>4, <3>5, <3>5a DEF OwnedMapped
    <3>7. \A m \in Slot : entries'[u][m].in_use => entries'[u][m] = entries[u][m]
      BY <3>1, <3>5
    <3> QED
      BY <2>1, <3>2, <3>4, <3>5, <3>5a, <3>6, <3>7 DEF OwnedMapped
  <2> QED
    BY <1>5, <1>16, <2>1 DEF DeleteOwned
<1> QED
  BY <1>6, <1>7, <1>8, <1>9, <1>10, <1>11, <1>14, <1>15, <1>16 DEF Next

(* No handle a client may use reaches an object that has been freed,        *)
(* whichever order it deletes them in and however often the engine's        *)
(* pointers come back (hmap_add, hmap_remove, hmap_find_by_ptr), but for    *)
(* the dictionaries and filters the engine freed along with their instance. *)
THEOREM ObjectsStayLive == Spec => []ObjectsLive
<1>1. Init => OwnedMapped
  BY DEF Init, OwnedMapped, NoEntry, Type
<1>2. TypeOK /\ OwnedMapped /\ [Next]_vars => OwnedMapped'
  BY OwnedStep
<1>3. Spec => []OwnedMapped
  BY <1>1, <1>2, TypeCorrect, PTL DEF Spec
<1>4. HandlesConsistent /\ OwnedMapped => ObjectsLive
  BY DEF HandlesConsistent, InstancesMapped, OwnedMapped, ObjectsLive, Type
<1> QED
  BY <1>3, <1>4, HandlesStayConsistent, PTL
=============================================================================
