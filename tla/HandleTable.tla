---------------------------- MODULE HandleTable ----------------------------
(***************************************************************************)
(* What the bridge promises a client about the 32-bit handle ids it hands  *)
(* out (src/arm/bridge_handle.h): each type has its own partial map    *)
(* from ids to engine objects, an id denotes the same object from the      *)
(* reply that hands it out to the reply that revokes it, and no id is ever *)
(* handed out twice.  How slots are chosen, reused and searched is left to *)
(* the implementation, BridgeHandles.                                      *)
(***************************************************************************)
EXTENDS Naturals

CONSTANTS Type,    \* the handle types
          Ptr,     \* engine objects
          Id       \* the ids a table can hand out; 0 is the null handle

VARIABLES table,   \* table[t]: function from the valid ids of type t to Ptr
          issued,  \* issued[t]: every id of type t ever handed out
          reply    \* the id carried by the last response, 0 for none

vars == <<table, issued, reply>>

Init == /\ table = [t \in Type |-> [i \in {} |-> 0]]
        /\ issued = [t \in Type |-> {}]
        /\ reply = 0

(* Most requests leave the ids alone and return none. *)
Answer == /\ reply' = 0
          /\ UNCHANGED <<table, issued>>

(* A fresh id is entered and returned. *)
Issue(t, id) ==
    /\ reply' = id
    /\ id \notin issued[t]
    /\ issued' = [issued EXCEPT ![t] = @ \cup {id}]
    /\ \E p \in Ptr : table' = [table EXCEPT ![t] =
                               [i \in DOMAIN @ \cup {id} |-> IF i = id THEN p ELSE @[i]]]

(* An id already valid is returned again. *)
Recall(t, id) == /\ reply' = id
                 /\ id \in DOMAIN table[t]
                 /\ UNCHANGED <<table, issued>>

(* An id becomes invalid, for good. *)
Revoke(t, id) ==
    /\ reply' = 0
    /\ id \in DOMAIN table[t]
    /\ table' = [table EXCEPT ![t] = [i \in DOMAIN @ \ {id} |-> @[i]]]
    /\ UNCHANGED issued

(* The client is gone and its ids with it. *)
Close == /\ UNCHANGED <<issued, reply>>
         /\ table' = [t \in Type |-> [i \in {} |-> 0]]

Next == \/ Answer
        \/ Close
        \/ \E t \in Type, id \in Id : Recall(t, id) \/ Issue(t, id) \/ Revoke(t, id)

Spec == Init /\ [][Next]_vars
=============================================================================
