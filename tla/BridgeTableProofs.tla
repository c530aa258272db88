------------------------- MODULE BridgeTableProofs -------------------------
(***************************************************************************)
(* The handle map of BridgeHandles implements HandleTable, for any number  *)
(* of slots, ids and engine objects: every request is one answer of the    *)
(* abstract table, and the end of the client is its Close.                 *)
(***************************************************************************)
EXTENDS BridgeHandlesProofs

(* The refinement mapping of BridgeHandles, named for the proofs: the ids in *)
(* use lead to the pointers of their slots, and the ids below next_id have   *)
(* been issued.                                                              *)
Ids(t) == {k \in 1..MaxId[t] : open /\ SlotsOf(t, k) # {}}
TableBar == [t \in Type |->
               [id \in Ids(t) |->
                  entries[t][CHOOSE i \in Slot : IsFirst(i, SlotsOf(t, id))].ptr]]
IssuedBar == [t \in Type |-> 1..(next_id[t] - 1)]
AllIds == UNION {1..MaxId[t] : t \in Type}

(* Each step of the abstract table, of these. *)
BarSame == TableBar' = TableBar /\ IssuedBar' = IssuedBar
BarAnswer == reply' = 0 /\ BarSame
BarRecall(t, id) == reply' = id /\ id \in DOMAIN TableBar[t] /\ BarSame
BarIssue(t, id) ==
    /\ reply' = id
    /\ id \notin IssuedBar[t]
    /\ IssuedBar' = [IssuedBar EXCEPT ![t] = @ \cup {id}]
    /\ \E p \in AnyPtr : TableBar' = [TableBar EXCEPT ![t] =
                            [i \in DOMAIN @ \cup {id} |-> IF i = id THEN p ELSE @[i]]]
BarRevoke(t, id) ==
    /\ reply' = 0
    /\ id \in DOMAIN TableBar[t]
    /\ TableBar' = [TableBar EXCEPT ![t] = [i \in DOMAIN @ \ {id} |-> @[i]]]
    /\ IssuedBar' = IssuedBar
BarClose == /\ IssuedBar' = IssuedBar
            /\ reply' = reply
            /\ TableBar' = [t \in Type |-> [i \in {} |-> 0]]
BarNext == \/ BarAnswer
           \/ BarClose
           \/ \E t \in Type, id \in AllIds :
                BarRecall(t, id) \/ BarIssue(t, id) \/ BarRevoke(t, id)

LEMMA BarIsTable ==
    /\ Table!Init <=> /\ TableBar = [t \in Type |-> [i \in {} |-> 0]]
                      /\ IssuedBar = [t \in Type |-> {}]
                      /\ reply = 0
    /\ BarNext => Table!Next
    /\ TableBar' = TableBar /\ IssuedBar' = IssuedBar /\ reply' = reply
         => UNCHANGED Table!vars
<1>1. Table!Init <=> /\ TableBar = [t \in Type |-> [i \in {} |-> 0]]
                     /\ IssuedBar = [t \in Type |-> {}]
                     /\ reply = 0
  BY DEF Table!Init, TableBar, IssuedBar, Ids
<1>2. BarAnswer => Table!Answer
  BY DEF Table!Answer, BarAnswer, BarSame, TableBar, IssuedBar, Ids
<1>3. BarClose => Table!Close
  BY DEF Table!Close, BarClose, TableBar, IssuedBar, Ids
<1>4. \A t \in Type, id \in AllIds : BarRecall(t, id) => Table!Recall(t, id)
  BY DEF Table!Recall, BarRecall, BarSame, TableBar, IssuedBar, Ids
<1>5. \A t \in Type, id \in AllIds : BarIssue(t, id) => Table!Issue(t, id)
  BY DEF Table!Issue, BarIssue, TableBar, IssuedBar, Ids, AnyPtr
<1>6. \A t \in Type, id \in AllIds : BarRevoke(t, id) => Table!Revoke(t, id)
  BY DEF Table!Revoke, BarRevoke, TableBar, IssuedBar, Ids
<1>7. BarNext => Table!Next
  BY <1>2, <1>3, <1>4, <1>5, <1>6 DEF Table!Next, BarNext, AllIds
<1>8. TableBar' = TableBar /\ IssuedBar' = IssuedBar /\ reply' = reply
         => UNCHANGED Table!vars
  BY DEF Table!vars, TableBar, IssuedBar, Ids
<1> QED
  BY <1>1, <1>7, <1>8

-----------------------------------------------------------------------------
(* The ids that exist stay within the bound, so the abstract table has them. *)
IdsBounded == \A t \in Type : next_id[t] =< MaxId[t] + 1

(* The only match of a scan is its first. *)
LEMMA OnlyIsFirst ==
    ASSUME NEW i \in Slot
    PROVE  (CHOOSE k \in Slot : IsFirst(k, {i})) = i
<1>1. Slot \subseteq Nat
  BY SizeAssumption DEF Slot
<1>2. IsFirst(i, {i})
  BY <1>1 DEF IsFirst
<1>3. \A k \in Slot : IsFirst(k, {i}) => k = i
  BY DEF IsFirst
<1> QED
  BY <1>2, <1>3

(* A valid id is held by one slot. *)
LEMMA IdsSlot ==
    ASSUME TypeOK, IdsDistinct, NEW t \in Type, NEW id, SlotsOf(t, id) # {}
    PROVE  \E i \in Slot : SlotsOf(t, id) = {i}
<1>1. PICK i \in Slot : entries[t][i].in_use /\ entries[t][i].id = id
  BY DEF SlotsOf
<1>2. \A k \in Slot : entries[t][k].in_use /\ entries[t][k].id = id => k = i
  BY <1>1 DEF IdsDistinct
<1> QED
  BY <1>1, <1>2 DEF SlotsOf

(* An id that a slot holds leads to that slot's pointer. *)
LEMMA SlotPtr ==
    ASSUME NEW t \in Type, NEW i \in Slot, NEW id \in 1..MaxId[t], open,
           SlotsOf(t, id) = {i}
    PROVE  id \in DOMAIN TableBar[t] /\ TableBar[t][id] = entries[t][i].ptr
<1>1. id \in Ids(t)
  BY DEF Ids
<1>2. (CHOOSE k \in Slot : IsFirst(k, SlotsOf(t, id))) = i
  BY OnlyIsFirst
<1> QED
  BY <1>1, <1>2 DEF TableBar

LEMMA SlotPtrNext ==
    ASSUME NEW t \in Type, NEW i \in Slot, NEW id \in 1..MaxId[t], open',
           SlotsOf(t, id)' = {i}
    PROVE  id \in DOMAIN (TableBar'[t]) /\ TableBar'[t][id] = entries'[t][i].ptr
<1>1. id \in Ids(t)'
  BY DEF Ids
<1>2. (CHOOSE k \in Slot : IsFirst(k, SlotsOf(t, id)')) = i
  BY OnlyIsFirst
<1>3. TableBar'[t] = [k \in Ids(t)' |->
          entries'[t][CHOOSE m \in Slot : IsFirst(m, SlotsOf(t, k)')].ptr]
  BY DEF TableBar, Slot
<1> QED
  BY <1>1, <1>2, <1>3

(* Two tables with the same ids and the same pointers are the same. *)
LEMMA TableForm ==
    /\ TableBar = [t \in Type |-> TableBar[t]]
    /\ TableBar' = [t \in Type |-> TableBar'[t]]
    /\ \A t \in Type : TableBar[t] = [id \in Ids(t) |-> TableBar[t][id]]
    /\ \A t \in Type : TableBar'[t] = [id \in Ids(t)' |-> TableBar'[t][id]]
<1>1. TableBar = [t \in Type |-> TableBar[t]]
  BY DEF TableBar
<1>2. TableBar' = [t \in Type |-> TableBar'[t]]
  BY DEF TableBar
<1>3. \A t \in Type : TableBar[t] = [id \in Ids(t) |-> TableBar[t][id]]
  BY DEF TableBar
<1>4. \A t \in Type : TableBar'[t] = [id \in Ids(t)' |-> TableBar'[t][id]]
  BY DEF TableBar
<1> QED
  BY <1>1, <1>2, <1>3, <1>4

(* Where the slots stay, the table stays. *)
LEMMA SlotsSame ==
    ASSUME TypeOK, IdsDistinct, NEW t \in Type, open' = open,
           \A k \in Slot : entries'[t][k] = entries[t][k]
    PROVE  TableBar'[t] = TableBar[t]
<1>1. \A id : SlotsOf(t, id)' = SlotsOf(t, id)
  BY DEF SlotsOf, Slot
<1>2. Ids(t)' = Ids(t)
  BY <1>1 DEF Ids
<1>3. ASSUME NEW id \in Ids(t) PROVE TableBar'[t][id] = TableBar[t][id]
  <2>1. id \in 1..MaxId[t] /\ open /\ SlotsOf(t, id) # {}
    BY DEF Ids
  <2>2. PICK i \in Slot : SlotsOf(t, id) = {i}
    BY <2>1, IdsSlot
  <2>3. SlotsOf(t, id)' = {i}
    BY <1>1, <2>2
  <2>4. TableBar[t][id] = entries[t][i].ptr
    BY <2>1, <2>2, SlotPtr
  <2>5. TableBar'[t][id] = entries'[t][i].ptr
    BY <2>1, <2>3, SlotPtrNext
  <2> QED
    BY <2>4, <2>5
<1> QED
  BY <1>2, <1>3, TableForm

LEMMA AllSame ==
    ASSUME TypeOK, IdsDistinct, UNCHANGED <<entries, next_id, open>>
    PROVE  BarSame
<1>1. \A t \in Type : TableBar'[t] = TableBar[t]
  BY SlotsSame
<1>2. TableBar' = TableBar
  BY <1>1, TableForm
<1>3. IssuedBar' = IssuedBar
  BY DEF IssuedBar
<1> QED
  BY <1>2, <1>3 DEF BarSame

(* hmap_add issues an id that was never issued before. *)
LEMMA AddIssues ==
    ASSUME TypeOK, IdsDistinct, open, UNCHANGED open,
           NEW t \in Type, NEW p \in AnyPtr, NEW i \in Slot, HmapAdd(t, p, i)
    PROVE  BarNext
<1>1. PICK n : n = next_id[t]
  OBVIOUS
<1>2. /\ n \in 1..MaxId[t]
      /\ n \in Nat
      /\ reply' = n
      /\ ~entries[t][i].in_use
      /\ \A u \in Type : next_id'[u] = IF u = t THEN next_id[u] + 1 ELSE next_id[u]
      /\ \A u \in Type : \A k \in Slot :
           entries'[u][k] = IF u = t /\ k = i
                            THEN [ptr |-> p, id |-> n, in_use |-> TRUE]
                            ELSE entries[u][k]
  <2>1. reply' = n
    BY <1>1 DEF HmapAdd
  <2>2. n \in Nat
    BY <1>1 DEF TypeOK
  <2> QED
    BY <1>1, <2>1, <2>2, HmapAddEffect
<1>3. \A u \in Type : u # t => TableBar'[u] = TableBar[u]
  <2>1. ASSUME NEW u \in Type, u # t PROVE \A k \in Slot : entries'[u][k] = entries[u][k]
    BY <1>2, <2>1
  <2> QED
    BY <2>1, SlotsSame
<1>4. \A k \in Slot : entries[t][k].in_use => entries[t][k].id # n
  <2>1. \A k \in Slot : entries[t][k].in_use => entries[t][k].id \in 1..(n - 1)
    BY <1>1 DEF IdsDistinct
  <2> QED
    BY <1>2, <2>1
<1>5. SlotsOf(t, n)' = {i} /\ \A id : id # n => SlotsOf(t, id)' = SlotsOf(t, id)
  <2>1. \A id : SlotsOf(t, id)' = {k \in Slot : entries'[t][k].in_use /\ entries'[t][k].id = id}
    BY DEF SlotsOf, Slot
  <2>2. \A k \in Slot : k # i => entries'[t][k] = entries[t][k]
    BY <1>2
  <2>3. entries'[t][i] = [ptr |-> p, id |-> n, in_use |-> TRUE]
    BY <1>2
  <2>4. SlotsOf(t, n)' = {i}
    BY <1>4, <2>1, <2>2, <2>3
  <2>5. ASSUME NEW id, id # n PROVE SlotsOf(t, id)' = SlotsOf(t, id)
    BY <1>2, <2>1, <2>2, <2>3, <2>5 DEF SlotsOf
  <2> QED
    BY <2>4, <2>5
<1>6. Ids(t)' = Ids(t) \cup {n}
  BY <1>2, <1>5 DEF Ids
<1>7. TableBar'[t][n] = p
  BY <1>2, <1>5, SlotPtrNext
<1>8. ASSUME NEW id \in Ids(t), id # n PROVE TableBar'[t][id] = TableBar[t][id]
  <2>1. id \in 1..MaxId[t] /\ SlotsOf(t, id) # {}
    BY DEF Ids
  <2>2. PICK k \in Slot : SlotsOf(t, id) = {k}
    BY <2>1, IdsSlot
  <2>3. k # i
    BY <1>2, <2>2 DEF SlotsOf
  <2>4. TableBar[t][id] = entries[t][k].ptr
    BY <2>1, <2>2, SlotPtr
  <2>5. TableBar'[t][id] = entries'[t][k].ptr
    BY <1>5, <1>8, <2>1, <2>2, SlotPtrNext
  <2> QED
    BY <1>2, <2>3, <2>4, <2>5
<1>9. DOMAIN TableBar[t] = Ids(t)
  BY TableForm
<1>10. TableBar'[t] = [id \in DOMAIN TableBar[t] \cup {n} |->
                         IF id = n THEN p ELSE TableBar[t][id]]
  BY <1>6, <1>7, <1>8, <1>9, TableForm
<1>11. TableBar' = [TableBar EXCEPT ![t] = [id \in DOMAIN @ \cup {n} |->
                                              IF id = n THEN p ELSE @[id]]]
  BY <1>3, <1>10, TableForm
<1>12. IssuedBar' = [IssuedBar EXCEPT ![t] = @ \cup {n}] /\ n \notin IssuedBar[t]
  <2>1. \A u \in Type : next_id[u] \in Nat \ {0}
    BY DEF TypeOK
  <2>2. 1..(next_id'[t] - 1) = (1..(next_id[t] - 1)) \cup {n}
    BY <1>1, <1>2, <2>1
  <2>3. \A u \in Type : u # t => 1..(next_id'[u] - 1) = 1..(next_id[u] - 1)
    BY <1>2
  <2>4. n \notin 1..(next_id[t] - 1)
    BY <1>1, <2>1
  <2> QED
    BY <2>2, <2>3, <2>4 DEF IssuedBar
<1>13. BarIssue(t, n)
  BY <1>2, <1>11, <1>12 DEF BarIssue
<1>14. n \in AllIds
  BY <1>2 DEF AllIds
<1> QED
  BY <1>13, <1>14 DEF BarNext

(* hmap_remove revokes the id of the slot, which alone held it. *)
LEMMA RemoveRevokes ==
    ASSUME TypeOK, IdsDistinct, open, UNCHANGED <<open, next_id>>,
           NEW t \in Type, NEW id \in HandleId(t), NEW i \in Slot,
           Resolves(t, id, i), HmapRemove(t, i), reply' = 0
    PROVE  BarNext
<1>1. /\ ~entries'[t][i].in_use
      /\ \A u \in Type : \A k \in Slot :
           u # t \/ k # i => entries'[u][k] = entries[u][k]
  BY HmapRemoveEffect
<1>2. id \in 1..MaxId[t] /\ SlotsOf(t, id) = {i}
  <2>1. MaxId[t] \in Nat /\ id # 0 /\ i \in SlotsOf(t, id)
    BY SizeAssumption DEF Type, Resolves, IsFirst
  <2>2. id \in 1..MaxId[t]
    BY <2>1 DEF HandleId
  <2>3. PICK k \in Slot : SlotsOf(t, id) = {k}
    BY <2>1, IdsSlot
  <2> QED
    BY <2>1, <2>2, <2>3
<1>3. \A u \in Type : u # t => TableBar'[u] = TableBar[u]
  <2>1. ASSUME NEW u \in Type, u # t PROVE \A k \in Slot : entries'[u][k] = entries[u][k]
    BY <1>1, <2>1
  <2> QED
    BY <2>1, SlotsSame
<1>4. SlotsOf(t, id)' = {} /\ \A n : n # id => SlotsOf(t, n)' = SlotsOf(t, n)
  <2>1. \A n : SlotsOf(t, n)' = {k \in Slot : entries'[t][k].in_use /\ entries'[t][k].id = n}
    BY DEF SlotsOf, Slot
  <2>2. \A k \in Slot : k # i => entries'[t][k] = entries[t][k]
    BY <1>1
  <2>3. SlotsOf(t, id)' = {}
    BY <1>1, <1>2, <2>1, <2>2 DEF SlotsOf
  <2>4. ASSUME NEW n, n # id PROVE SlotsOf(t, n)' = SlotsOf(t, n)
    <3>1. i \notin SlotsOf(t, n)
      BY <1>2, <2>4 DEF SlotsOf
    <3> QED
      BY <1>1, <2>1, <2>2, <3>1 DEF SlotsOf
  <2> QED
    BY <2>3, <2>4
<1>5. Ids(t)' = Ids(t) \ {id}
  BY <1>4 DEF Ids
<1>6. ASSUME NEW n \in Ids(t), n # id PROVE TableBar'[t][n] = TableBar[t][n]
  <2>1. n \in 1..MaxId[t] /\ SlotsOf(t, n) # {}
    BY DEF Ids
  <2>2. PICK k \in Slot : SlotsOf(t, n) = {k}
    BY <2>1, IdsSlot
  <2>3. k # i
    BY <1>2, <1>6, <2>2 DEF SlotsOf
  <2>4. TableBar[t][n] = entries[t][k].ptr
    BY <2>1, <2>2, SlotPtr
  <2>5. TableBar'[t][n] = entries'[t][k].ptr
    BY <1>4, <1>6, <2>1, <2>2, SlotPtrNext
  <2> QED
    BY <1>1, <2>3, <2>4, <2>5
<1>7. DOMAIN TableBar[t] = Ids(t)
  BY TableForm
<1>8. TableBar'[t] = [n \in DOMAIN TableBar[t] \ {id} |-> TableBar[t][n]]
  BY <1>5, <1>6, <1>7, TableForm
<1>9. TableBar' = [TableBar EXCEPT ![t] = [n \in DOMAIN @ \ {id} |-> @[n]]]
  BY <1>3, <1>8, TableForm
<1>10. id \in DOMAIN TableBar[t]
  BY <1>2, <1>7 DEF Ids
<1>11. IssuedBar' = IssuedBar
  BY DEF IssuedBar
<1>12. BarRevoke(t, id)
  BY <1>9, <1>10, <1>11 DEF BarRevoke
<1>13. id \in AllIds
  BY <1>2 DEF AllIds
<1> QED
  BY <1>12, <1>13 DEF BarNext

LEMMA AddBounded ==
    ASSUME TypeOK, IdsBounded, NEW t \in Type, NEW p \in AnyPtr, NEW i \in Slot,
           HmapAdd(t, p, i)
    PROVE  IdsBounded'
<1>1. /\ next_id[t] \in 1..MaxId[t]
      /\ \A u \in Type : next_id'[u] = IF u = t THEN next_id[u] + 1 ELSE next_id[u]
  BY HmapAddEffect
<1>2. \A u \in Type : next_id[u] \in Nat /\ MaxId[u] \in Nat
  BY SizeAssumption DEF TypeOK, Type
<1> QED
  BY <1>1, <1>2 DEF IdsBounded

(* Every request is an answer, an issue, a recall or a revocation. *)
LEMMA TableStep ==
    ASSUME TypeOK, HandlesConsistent, IdsBounded, [Next]_vars
    PROVE  /\ BarNext \/ (BarSame /\ reply' = reply)
           /\ IdsBounded'
<1> DEFINE Goal == (BarNext \/ (BarSame /\ reply' = reply)) /\ IdsBounded'
<1>1. IdsDistinct /\ "eci" \in Type /\ {"dict", "filter"} \subseteq Type
  BY DEF HandlesConsistent, Type
<1>2. ASSUME UNCHANGED next_id PROVE IdsBounded'
  BY <1>2 DEF IdsBounded
<1>3. ASSUME UNCHANGED <<entries, next_id, open>>, reply' = 0 PROVE Goal
  <2>1. BarSame
    BY <1>1, <1>3, AllSame
  <2> QED
    BY <1>2, <1>3, <2>1 DEF BarNext, BarAnswer
<1>4. ASSUME Refuse, UNCHANGED open PROVE Goal
  BY <1>3, <1>4 DEF Refuse
<1>5. ASSUME open, UNCHANGED open, NEW t \in Type, NEW d \in AnyPtr,
             HmapFull(t) \/ \E k \in Slot : HmapAdd(t, d, k)
      PROVE  Goal
  <2>1. CASE HmapFull(t)
    BY <1>3, <1>5, <2>1 DEF HmapFull
  <2>2. ASSUME NEW k \in Slot, HmapAdd(t, d, k) PROVE Goal
    <3>1. BarNext
      BY <1>1, <1>5, <2>2, AddIssues
    <3>2. IdsBounded'
      BY <2>2, AddBounded
    <3> QED
      BY <3>1, <3>2
  <2> QED
    BY <1>5, <2>1, <2>2
<1> HIDE DEF Goal
<1>6. CASE UNCHANGED vars
  <2>1. UNCHANGED <<entries, next_id, open, reply>>
    BY <1>6 DEF vars
  <2>2. BarSame
    BY <1>1, <2>1, AllSame
  <2> QED
    BY <1>2, <2>1, <2>2
<1>7. ASSUME EciNew PROVE Goal
  <2>1. ASSUME open, NEW p \in Eci, NEW i \in Slot, HmapAdd("eci", p, i), UNCHANGED open
        PROVE  Goal
    <3>1. p \in AnyPtr
      BY DEF AnyPtr
    <3> QED
      BY <1>1, <1>5, <2>1, <3>1
  <2>2. ASSUME HmapFull("eci"), UNCHANGED open PROVE Goal
    BY <1>3, <2>2 DEF HmapFull
  <2> QED
    BY <1>4, <1>7, <2>1, <2>2 DEF EciNew
<1>8. ASSUME Disconnect PROVE Goal
  <2>1. UNCHANGED <<next_id, reply>> /\ open' = FALSE
    BY <1>8 DEF Disconnect
  <2>2. \A t \in Type : Ids(t)' = {}
    BY <2>1 DEF Ids
  <2>3. TableBar' = [t \in Type |-> [i \in {} |-> 0]]
    BY <2>2, TableForm
  <2>4. IssuedBar' = IssuedBar
    BY <2>1 DEF IssuedBar
  <2> QED
    BY <1>2, <2>1, <2>3, <2>4 DEF Goal, BarNext, BarClose
<1>9. ASSUME NEW hid \in HandleId("eci"), EciDelete(hid) PROVE Goal
  <2>1. ASSUME open, NEW i \in Slot, Resolves("eci", hid, i), HmapRemove("eci", i),
               reply' = 0, UNCHANGED <<next_id, open>>
        PROVE  Goal
    <3>1. BarNext
      BY <1>1, <2>1, RemoveRevokes
    <3> QED
      BY <1>2, <2>1, <3>1 DEF Goal
  <2> QED
    BY <1>4, <1>9, <2>1 DEF EciDelete
<1>10. ASSUME NEW hid \in HandleId("eci"), RegisterCallback(hid) PROVE Goal
  BY <1>3, <1>10 DEF RegisterCallback
<1>11. ASSUME NEW hid \in HandleId("eci"), NEW b \in Buf \cup {NULL}, SetOutputBuffer(hid, b)
       PROVE  Goal
  BY <1>3, <1>4, <1>11 DEF SetOutputBuffer
<1>12. ASSUME NEW hid \in HandleId("eci"), NEW t \in {"dict", "filter"}, NewOwned(t, hid)
       PROVE  Goal
  <2>1. ASSUME open, NEW d \in Obj(t), HmapFull(t) \/ \E k \in Slot : HmapAdd(t, d, k),
               UNCHANGED open
        PROVE  Goal
    <3>1. d \in AnyPtr /\ t \in Type
      BY DEF Obj, AnyPtr, Type
    <3> QED
      BY <1>5, <2>1, <3>1
  <2> QED
    BY <1>4, <1>12, <2>1 DEF NewOwned
<1>13. ASSUME NEW hid \in HandleId("eci"), GetDict(hid) PROVE Goal
  <2>1. ASSUME open, NEW d \in Dict,
               HmapFull("dict") \/ \E k \in Slot : HmapAdd("dict", d, k), UNCHANGED open
        PROVE  Goal
    <3>1. d \in AnyPtr
      BY DEF AnyPtr
    <3> QED
      BY <1>1, <1>5, <2>1, <3>1
  <2>2. ASSUME open, NEW d \in Dict, NEW k \in Slot, IsFirst(k, SlotsAt("dict", d)),
               reply' = entries["dict"][k].id, UNCHANGED <<entries, next_id, open>>
        PROVE  Goal
    <3>1. PICK n : n = entries["dict"][k].id
      OBVIOUS
    <3>2. "dict" \in Type /\ k \in SlotsOf("dict", n)
      BY <2>2, <3>1 DEF Type, IsFirst, SlotsAt, SlotsOf
    <3>3. n \in 1..MaxId["dict"]
      <4>1. next_id["dict"] \in Nat /\ MaxId["dict"] \in Nat
        BY <3>2, SizeAssumption DEF TypeOK, Type
      <4>2. n \in 1..(next_id["dict"] - 1)
        BY <1>1, <3>1, <3>2 DEF SlotsOf, IdsDistinct
      <4> QED
        BY <3>2, <4>1, <4>2 DEF IdsBounded
    <3>4. n \in DOMAIN TableBar["dict"] /\ n \in AllIds
      BY <2>2, <3>2, <3>3 DEF TableBar, Ids, AllIds
    <3>5. BarSame
      BY <1>1, <2>2, AllSame
    <3>6. BarRecall("dict", n)
      BY <2>2, <3>1, <3>4, <3>5 DEF BarRecall
    <3> QED
      BY <1>2, <2>2, <3>2, <3>4, <3>6 DEF Goal, BarNext
  <2> QED
    BY <1>4, <1>13, <2>1, <2>2 DEF GetDict
<1>14. ASSUME NEW hid \in HandleId("eci"), NEW t \in {"dict", "filter"},
              NEW oid \in HandleId(t), DeleteOwned(t, hid, oid)
       PROVE  Goal
  <2>1. ASSUME open, NEW k \in Slot, Resolves(t, oid, k), HmapRemove(t, k),
               reply' = 0, UNCHANGED <<next_id, open>>
        PROVE  Goal
    <3>1. t \in Type
      BY DEF Type
    <3>2. BarNext
      BY <1>1, <2>1, <3>1, RemoveRevokes
    <3> QED
      BY <1>2, <2>1, <3>2 DEF Goal
  <2> QED
    BY <1>4, <1>14, <2>1 DEF DeleteOwned
<1>15. Next => Goal
  BY <1>7, <1>8, <1>9, <1>10, <1>11, <1>12, <1>13, <1>14 DEF Next
<1> QED
  BY <1>6, <1>15 DEF Goal

LEMMA TableInit == Init => Table!Init /\ IdsBounded
<1> SUFFICES ASSUME Init PROVE Table!Init /\ IdsBounded
  OBVIOUS
<1>1. \A t \in Type : MaxId[t] \in Nat /\ next_id[t] = 1
  BY SizeAssumption DEF Type, Init
<1>2. \A t \in Type : Ids(t) = {}
  BY DEF Init, Ids, SlotsOf, NoEntry
<1>3. TableBar = [t \in Type |-> [i \in {} |-> 0]]
  BY <1>2, TableForm
<1>4. IssuedBar = [t \in Type |-> {}]
  BY <1>1 DEF IssuedBar
<1> QED
  BY <1>1, <1>3, <1>4, BarIsTable DEF Init, IdsBounded

(* A client's handle map keeps the promise of HandleTable: an id denotes one *)
(* object from the reply that hands it out to the reply that revokes it, and *)
(* is never handed out again, although the slots are (hmap_add, hmap_get,    *)
(* hmap_remove, hmap_find_by_ptr).                                           *)
THEOREM HandleTableImplemented == Spec => ImplementsHandleTable
<1>1. TypeOK /\ HandlesConsistent /\ IdsBounded /\ [Next]_vars
        => IdsBounded' /\ [Table!Next]_(Table!vars)
  BY TableStep, BarIsTable DEF BarSame
<1>2. Init => Table!Init /\ IdsBounded
  BY TableInit
<1>3. Spec => Table!Spec
  BY <1>1, <1>2, TypeCorrect, HandlesStayConsistent, PTL DEF Spec, Table!Spec
<1> QED
  BY <1>3 DEF ImplementsHandleTable
=============================================================================
