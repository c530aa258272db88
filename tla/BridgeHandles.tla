--------------------------- MODULE BridgeHandles ---------------------------
(***************************************************************************)
(* One client's handle map and callback states in the bridge daemon        *)
(* (src/arm/bridge_handle.c, src/arm/bridge_dispatch.c), driven by that    *)
(* client's thread: every request that creates, deletes or binds an engine *)
(* object, and the clean-up when the client disconnects.  The requests are *)
(* handled one at a time by one thread, so each is one action.             *)
(*                                                                         *)
(* The ECI engine and the C heap are external: the engine hands out object *)
(* pointers that are not live at that moment (a freed pointer may come     *)
(* back), or none.                                                         *)
(***************************************************************************)
EXTENDS Integers

CONSTANTS
    Eci, Dict, Filter,  \* engine pointers of the three handle types
    Buf,                \* output buffers calloc can return
    NULL,
    MaxHandles,         \* slots per type (MAX_HANDLES_PER_TYPE, 64)
    MaxId,              \* bound: MaxId[t] ids of type t are handed out (below 2^32)
    MaxIds              \* bound: and this many of all the types

ASSUME SizeAssumption == /\ MaxHandles \in Nat
                         /\ MaxId \in [{"eci", "dict", "filter"} -> Nat]
                         /\ MaxIds \in Nat
ASSUME NullAssumption == NULL \notin Eci \cup Dict \cup Filter \cup Buf

VARIABLES
    open,       \* the client thread is serving requests
    entries,    \* entries[t][i]: slot i of the handle map of type t
    next_id,    \* next_id[t]
    cb_states,  \* cb_states[i]
    reply,      \* handle id in the last response, 0 when there is none
    live,       \* engine: live[t] is the set of objects of type t that exist
    owner,      \* engine: the instance a dictionary or filter was made on
    engBuf,     \* engine: the output buffer an instance writes to
    heap,       \* the output buffers allocated and not freed
    regd,       \* history: live ids a RegisterCallback request named
    refused,    \* history: ids whose last eciSetOutputBuffer was refused
    dangling    \* history: mapped pointers whose object eciDelete has freed
                \* together with the instance it was made on

engine == <<live, owner, engBuf>>
history == <<regd, refused, dangling>>
vars == <<open, entries, next_id, cb_states, reply, live, owner, engBuf, heap, history>>

Type == {"eci", "dict", "filter"}
Obj(t) == CASE t = "eci" -> Eci [] t = "dict" -> Dict [] t = "filter" -> Filter
Slot == 1..MaxHandles
HandleId(t) == 0..MaxId[t]   \* what a request may name: 0, or any id, issued or not

NoEntry == [ptr |-> NULL, id |-> 0, in_use |-> FALSE]
NoCbState == [eci_handle_id |-> 0, has_callback |-> FALSE, output_buffer |-> NULL]

(* The first match of a scan that runs from slot 0 up. *)
IsFirst(i, S) == i \in S /\ \A j \in S : i =< j

-----------------------------------------------------------------------------
(* The handle map. *)

FreeSlots(t) == {i \in Slot : ~entries[t][i].in_use}
SlotsOf(t, id) == {i \in Slot : entries[t][i].in_use /\ entries[t][i].id = id}
SlotsAt(t, p) == {i \in Slot : entries[t][i].in_use /\ entries[t][i].ptr = p}

(* The slots that hold a dictionary or filter at d. *)
OwnedSlots(d) == {s \in {"dict", "filter"} \X Slot : s[2] \in SlotsAt(s[1], d)}

(* hmap_get finds the id, in slot i; or returns NULL. *)
Resolves(t, id, i) == id # 0 /\ IsFirst(i, SlotsOf(t, id))
Unknown(t, id) == id = 0 \/ SlotsOf(t, id) = {}

(* Slips in the allocator and in the removal, for the mutants. *)
HmapAddKeepsNextId(t, p, i) ==
    /\ IsFirst(i, FreeSlots(t))
    /\ entries' = [entries EXCEPT ![t][i] =
                     [ptr |-> p, id |-> next_id[t], in_use |-> TRUE]]
    /\ reply' = next_id[t]
    /\ UNCHANGED next_id

(* hmap_add into the first free slot, i; the id goes out with the reply.  The *)
(* bounds on ids are the first conjunct.                                      *)
HmapAdd(t, p, i) ==
    /\ next_id[t] =< MaxId[t] /\ next_id["eci"] + next_id["dict"] + next_id["filter"] < MaxIds + 3
    /\ IsFirst(i, FreeSlots(t))
    /\ entries' = [entries EXCEPT ![t][i] =
                     [ptr |-> p, id |-> next_id[t], in_use |-> TRUE]]
    /\ next_id' = [next_id EXCEPT ![t] = @ + 1]
    /\ reply' = next_id[t]

HmapFullReturnsError(t) == FreeSlots(t) = {} /\ reply' = -1 /\ UNCHANGED <<entries, next_id>>
(* hmap_add returns 0: every slot is taken. *)
HmapFull(t) == FreeSlots(t) = {} /\ reply' = 0 /\ UNCHANGED <<entries, next_id>>

(* hmap_remove: the slot keeps its old id. *)
HmapRemove(t, i) ==
    entries' = [entries EXCEPT ![t][i] = [@ EXCEPT !.ptr = NULL, !.in_use = FALSE]]

-----------------------------------------------------------------------------
(* The callback states. *)

CbSlotsOf(hid) == {j \in Slot : cb_states[j].eci_handle_id = hid}

AllocCbStateNoMemset(hid) ==
    \E j \in Slot : /\ IsFirst(j, CbSlotsOf(0))
                    /\ cb_states' = [cb_states EXCEPT ![j].eci_handle_id = hid]
(* alloc_cb_state: memset, then the handle id; a full table is ignored. *)
AllocCbState(hid) ==
    \/ /\ CbSlotsOf(0) = {}
       /\ UNCHANGED cb_states
    \/ \E j \in Slot :
         /\ IsFirst(j, CbSlotsOf(0))
         /\ cb_states' = [cb_states EXCEPT ![j] =
                            [NoCbState EXCEPT !.eci_handle_id = hid]]

FreeCbStateNoMemset(hid) ==
    \E j \in Slot : /\ IsFirst(j, CbSlotsOf(hid))
                    /\ heap' = heap \ {cb_states[j].output_buffer}
                    /\ UNCHANGED cb_states
(* free_cb_state: free(NULL) is harmless. *)
FreeCbState(hid) ==
    \/ /\ CbSlotsOf(hid) = {}
       /\ UNCHANGED <<cb_states, heap>>
    \/ \E j \in Slot :
         /\ IsFirst(j, CbSlotsOf(hid))
         /\ heap' = heap \ {cb_states[j].output_buffer}
         /\ cb_states' = [cb_states EXCEPT ![j] = NoCbState]

(* find_cb_state_by_eci_ptr, over this client: the callback state in slot j *)
(* serves the events of engine instance p.                                  *)
FindCbState(p, j) ==
    \E i \in Slot :
      /\ IsFirst(i, {k \in SlotsAt("eci", p) : CbSlotsOf(entries["eci"][k].id) # {}})
      /\ IsFirst(j, CbSlotsOf(entries["eci"][i].id))

-----------------------------------------------------------------------------
(* The engine, external. *)

(* eciDelete of the instances S: they go, and of the dictionaries and  *)
(* filters made on them those the engine cares to free, gone.          *)
EngineDelete(S, gone) ==
    /\ gone \subseteq {d \in Dict \cup Filter : owner[d] \in S}
    /\ live' = [t \in Type |-> live[t] \ (IF t = "eci" THEN S ELSE gone)]
    /\ engBuf' = [p \in Eci |-> IF p \in S THEN NULL ELSE engBuf[p]]
    /\ owner' = [d \in Dict \cup Filter |-> IF owner[d] \in S THEN NULL ELSE owner[d]]
    /\ dangling' = dangling \cup
         {d \in gone : OwnedSlots(d) # {}}

(* eciNewDict(h), eciNewFilter(h): a new object d made on instance h. *)
EngineMake(t, d, h) ==
    /\ d \notin live[t]
    /\ live' = [live EXCEPT ![t] = @ \cup {d}]
    /\ owner' = [owner EXCEPT ![d] = h]
    /\ UNCHANGED engBuf

(* eciDeleteDict, eciDeleteFilter. *)
EngineUnmake(t, d) ==
    /\ live' = [live EXCEPT ![t] = @ \ {d}]
    /\ owner' = [owner EXCEPT ![d] = NULL]
    /\ UNCHANGED engBuf

-----------------------------------------------------------------------------
Init ==
    /\ open = TRUE
    /\ entries = [t \in Type |-> [i \in Slot |-> NoEntry]]
    /\ next_id = [t \in Type |-> 1]
    /\ cb_states = [i \in Slot |-> NoCbState]
    /\ reply = 0
    /\ live = [t \in Type |-> {}]
    /\ owner = [d \in Dict \cup Filter |-> NULL]
    /\ engBuf = [p \in Eci |-> NULL]
    /\ heap = {}
    /\ regd = {}
    /\ refused = {}
    /\ dangling = {}

(* A request whose handle does not resolve: an answer with no handle. *)
Refuse == reply' = 0 /\ UNCHANGED <<entries, next_id, cb_states, engine, heap, history>>

(* FN_ECI_NEW, FN_ECI_NEW_EX.  When the map is full the new instance is *)
(* deleted again; when the engine makes none there is nothing to map.   *)
EciNew ==
    /\ open
    /\ \/ Refuse   \* eciNew returned NULL
       \/ \E p \in Eci \ live["eci"], i \in Slot :
            /\ HmapAdd("eci", p, i)
            /\ AllocCbState(next_id["eci"])
            /\ live' = [live EXCEPT !["eci"] = @ \cup {p}]
            /\ UNCHANGED <<owner, engBuf, heap, history>>
       \/ /\ Eci \ live["eci"] # {}
          /\ HmapFull("eci")
          /\ UNCHANGED <<cb_states, engine, heap, history>>
    /\ UNCHANGED open

(* FN_ECI_DELETE: the instance, then its map entry, then its callback state. *)
EciDelete(hid) ==
    /\ open
    /\ \/ Unknown("eci", hid) /\ Refuse
       \/ \E i \in Slot :
            /\ Resolves("eci", hid, i)
            /\ \E gone \in SUBSET (Dict \cup Filter) :
                 EngineDelete({entries["eci"][i].ptr}, gone)
            /\ HmapRemove("eci", i)
            /\ FreeCbState(hid)
            /\ reply' = 0
            /\ regd' = regd \ {hid}
            /\ refused' = refused \ {hid}
            /\ UNCHANGED next_id
    /\ UNCHANGED open

SetOutputBufferEngineFirst(hid, b) ==
    /\ open
    /\ \E i, j \in Slot :
         /\ Resolves("eci", hid, i)
         /\ IsFirst(j, CbSlotsOf(hid))
         /\ b \notin heap
         /\ heap' = (heap \ {cb_states[j].output_buffer}) \cup ({b} \ {NULL})
         /\ cb_states' = [cb_states EXCEPT ![j].output_buffer = b]
         /\ engBuf' = [engBuf EXCEPT ![entries["eci"][i].ptr] =
                          cb_states[j].output_buffer]
    /\ reply' = 0
    /\ UNCHANGED <<open, entries, next_id, live, owner, history>>

(* eciSetOutputBuffer: the engine takes the block b, or refuses it, which is *)
(* also what an engine without that entry point comes to.                    *)
EngineSetBuffer(hid, p, b) ==
    \/ /\ engBuf' = [engBuf EXCEPT ![p] = b]
       /\ refused' = refused \ {hid}
    \/ /\ refused' = refused \cup {hid}
       /\ UNCHANGED engBuf

(* FN_ECI_SET_OUTPUT_BUFFER: the old buffer is freed, a new one allocated *)
(* (calloc may fail: b = NULL) and offered to the engine.  calloc may     *)
(* return the block just freed.                                           *)
SetOutputBuffer(hid, b) ==
    /\ open
    /\ \/ Unknown("eci", hid) /\ Refuse
       \/ \E i \in Slot :
            /\ Resolves("eci", hid, i)
            /\ \/ /\ CbSlotsOf(hid) = {}
                  /\ EngineSetBuffer(hid, entries["eci"][i].ptr, NULL)
                  /\ UNCHANGED <<cb_states, heap>>
               \/ \E j \in Slot :
                    /\ IsFirst(j, CbSlotsOf(hid))
                    /\ b \notin heap \ {cb_states[j].output_buffer}
                    /\ heap' = (heap \ {cb_states[j].output_buffer})
                                 \cup ({b} \ {NULL})
                    /\ cb_states' = [cb_states EXCEPT ![j].output_buffer = b]
                    /\ EngineSetBuffer(hid, entries["eci"][i].ptr, b)
            /\ reply' = 0
            /\ UNCHANGED <<entries, next_id, live, owner, regd, dangling>>
    /\ UNCHANGED open

(* FN_ECI_REGISTER_CALLBACK: the handle is not looked up in the map, so a *)
(* request naming handle 0 marks a free callback state.                   *)
RegisterCallback(hid) ==
    /\ open
    /\ \/ CbSlotsOf(hid) = {} /\ UNCHANGED cb_states
       \/ \E j \in Slot :
            /\ IsFirst(j, CbSlotsOf(hid))
            /\ cb_states' = [cb_states EXCEPT ![j].has_callback = TRUE]
    /\ regd' = IF Unknown("eci", hid) THEN regd ELSE regd \cup {hid}
    /\ reply' = 0
    /\ UNCHANGED <<open, entries, next_id, engine, heap, refused, dangling>>

(* FN_ECI_NEW_DICT, FN_ECI_NEW_FILTER: when the map is full the new object *)
(* stays in the engine and the client gets handle 0.                       *)
NewOwned(t, hid) ==
    /\ open
    /\ \/ Refuse   \* the handle is unknown or the engine made none
       \/ \E i \in Slot, d \in Obj(t) :
            /\ Resolves("eci", hid, i)
            /\ EngineMake(t, d, entries["eci"][i].ptr)
            /\ HmapFull(t) \/ \E k \in Slot : HmapAdd(t, d, k)
            /\ UNCHANGED <<cb_states, heap, history>>
    /\ UNCHANGED open

(* FN_ECI_GET_DICT: the engine names one of its dictionaries, one it has   *)
(* made itself, or none; the bridge finds its id or enters it in the map.  *)
GetDict(hid) ==
    /\ open
    /\ \/ Refuse   \* the handle is unknown or the engine named none
       \/ \E i \in Slot, d \in Dict :
            /\ Resolves("eci", hid, i)
            /\ \/ d \in live["dict"] /\ UNCHANGED engine
               \/ EngineMake("dict", d, entries["eci"][i].ptr)
            /\ \/ \E k \in Slot : /\ IsFirst(k, SlotsAt("dict", d))
                                  /\ reply' = entries["dict"][k].id
                                  /\ UNCHANGED <<entries, next_id>>
               \/ /\ SlotsAt("dict", d) = {}
                  /\ HmapFull("dict") \/ \E k \in Slot : HmapAdd("dict", d, k)
            /\ UNCHANGED <<cb_states, heap, history>>
    /\ UNCHANGED open

DeleteOwnedNoRemove(t, hid, oid) ==
    /\ open
    /\ \E i, k \in Slot : /\ Resolves("eci", hid, i)
                          /\ Resolves(t, oid, k)
                          /\ EngineUnmake(t, entries[t][k].ptr)
    /\ reply' = 0
    /\ UNCHANGED <<open, entries, next_id, cb_states, heap, history>>

(* FN_ECI_DELETE_DICT, FN_ECI_DELETE_FILTER: nothing unless both handles *)
(* resolve.                                                              *)
DeleteOwned(t, hid, oid) ==
    /\ open
    /\ \/ (Unknown("eci", hid) \/ Unknown(t, oid)) /\ Refuse
       \/ \E i, k \in Slot :
            /\ Resolves("eci", hid, i)
            /\ Resolves(t, oid, k)
            /\ EngineUnmake(t, entries[t][k].ptr)
            /\ HmapRemove(t, k)
            /\ reply' = 0
            /\ dangling' = dangling \ {p \in {entries[t][k].ptr} : OwnedSlots(p) = {<<t, k>>}}
            /\ UNCHANGED <<next_id, cb_states, heap, regd, refused>>
    /\ UNCHANGED open

(* The end of client_thread: every instance still mapped is deleted.  The *)
(* entries, and the buffers of the callback states, are left as they are; *)
(* the client they are in is freed.                                       *)
Disconnect ==
    /\ open
    /\ open' = FALSE
    /\ \E gone \in SUBSET (Dict \cup Filter) :
         EngineDelete({entries["eci"][i].ptr : i \in Slot \ FreeSlots("eci")}, gone)
    /\ UNCHANGED <<entries, next_id, cb_states, reply, heap, regd, refused>>

Next ==
    \/ EciNew
    \/ Disconnect
    \/ \E hid \in HandleId("eci") :
         \/ EciDelete(hid)
         \/ RegisterCallback(hid)
         \/ GetDict(hid)
         \/ \E b \in Buf \cup {NULL} : SetOutputBuffer(hid, b)
         \/ \E t \in {"dict", "filter"} :
              \/ NewOwned(t, hid)
              \/ \E oid \in HandleId(t) : DeleteOwned(t, hid, oid)

Spec == Init /\ [][Next]_vars

-----------------------------------------------------------------------------
(* The type invariant.  A mapped id is below next_id, a callback state names *)
(* an id the map has handed out.                                             *)
TypeOK ==
    /\ open \in BOOLEAN
    /\ entries \in [Type -> [Slot -> [ptr : Eci \cup Dict \cup Filter \cup {NULL},
                                      id : Nat, in_use : BOOLEAN]]]
    /\ next_id \in [Type -> Nat \ {0}]
    /\ cb_states \in [Slot -> [eci_handle_id : HandleId("eci"), has_callback : BOOLEAN,
                               output_buffer : Buf \cup {NULL}]]
    /\ reply \in Nat
    /\ live \in [Type -> SUBSET (Eci \cup Dict \cup Filter)]
    /\ owner \in [Dict \cup Filter -> Eci \cup Dict \cup Filter \cup {NULL}]
    /\ engBuf \in [Eci -> Buf \cup {NULL}]
    /\ heap \in SUBSET Buf
    /\ regd \in SUBSET HandleId("eci")
    /\ refused \in SUBSET HandleId("eci")
    /\ dangling \in SUBSET (Dict \cup Filter)

(* Ids: no two slots in use share one, none is 0 and all were handed out. *)
IdsDistinct ==
    \A t \in Type : \A i \in Slot :
        entries[t][i].in_use =>
            /\ entries[t][i].id \in 1..(next_id[t] - 1)
            /\ \A k \in Slot : entries[t][k].in_use /\ entries[t][k].id = entries[t][i].id
                                 => k = i

(* The callback states stay in step with the instance map although each is *)
(* searched for a free slot on its own: slot i of one serves slot i of the *)
(* other, so alloc_cb_state, whose NULL nobody looks at, always finds one. *)
CbStatesAligned ==
    \A i \in Slot : cb_states[i].eci_handle_id =
        IF entries["eci"][i].in_use THEN entries["eci"][i].id ELSE 0

(* While the client is served, the mapped pointers are the instances that *)
(* exist, each mapped once: none is leaked and none deleted twice.        *)
InstancesMapped ==
    open =>
      /\ \A i \in Slot : entries["eci"][i].in_use =>
           /\ entries["eci"][i].ptr \in live["eci"]
           /\ \A k \in Slot : entries["eci"][k].in_use
                 /\ entries["eci"][k].ptr = entries["eci"][i].ptr => k = i
      /\ \A p \in live["eci"] : \E i \in Slot :
           entries["eci"][i].in_use /\ entries["eci"][i].ptr = p

(* The strengthening that is inductive: the map, the callback states and *)
(* the engine agree (bridge_handle.c, alloc_cb_state, free_cb_state).    *)
HandlesConsistent == IdsDistinct /\ CbStatesAligned /\ InstancesMapped

(* An engine event of a live instance is looked up by pointer, across two   *)
(* tables, and finds the callback state of that instance; it is sent to the *)
(* client exactly if the client registered a callback for that handle,      *)
(* whatever handles lived in the slot before (find_cb_state_by_eci_ptr,     *)
(* bridge_internal_callback).                                               *)
EventRouting ==
    open => \A i \in Slot : entries["eci"][i].in_use =>
        \E j \in Slot : /\ FindCbState(entries["eci"][i].ptr, j)
                        /\ cb_states[j].eci_handle_id = entries["eci"][i].id
                        /\ cb_states[j].has_callback <=> entries["eci"][i].id \in regd

(* Output buffers: every allocated buffer belongs to one callback state in *)
(* use and none is lost.  The buffer the engine writes to is the one whose *)
(* samples bridge_internal_callback sends, so it is not freed under the    *)
(* engine, unless the engine refused the last one it was offered: by then  *)
(* the bridge has freed the one the engine keeps (bridge_dispatch.c:568).  *)
BuffersOwned ==
    /\ heap = {cb_states[j].output_buffer : j \in Slot} \ {NULL}
    /\ \A i, j \in Slot : cb_states[i].output_buffer = cb_states[j].output_buffer
                            => i = j \/ cb_states[i].output_buffer = NULL
    /\ open => \A i \in Slot :
         entries["eci"][i].in_use /\ entries["eci"][i].id \notin refused =>
           engBuf[entries["eci"][i].ptr] = cb_states[i].output_buffer

(* Every handle a client may use reaches an object that exists: "maps      *)
(* uint32_t IDs <-> real ARM pointers" (bridge_handle.h).  The one case it *)
(* does not: the engine freed a dictionary or filter in the eciDelete of   *)
(* its instance, after which FN_ECI_DELETE leaves the handle in the map    *)
(* (bridge_dispatch.c:271), and every handle of that pointer is in doubt.  *)
ObjectsLive ==
    open => \A t \in Type : \A i \in Slot : entries[t][i].in_use =>
        \/ entries[t][i].ptr \in live[t]
        \/ t # "eci" /\ entries[t][i].ptr \in dangling

(* The handle map implements HandleTable: ids are never reissued although *)
(* slots are, and each keeps its meaning until it is revoked.             *)
Table == INSTANCE HandleTable WITH
    Ptr <- Eci \cup Dict \cup Filter,
    Id <- UNION {1..MaxId[t] : t \in Type},
    table <- [t \in Type |->
                [id \in {k \in 1..MaxId[t] : open /\ SlotsOf(t, k) # {}} |->
                    entries[t][CHOOSE i \in Slot : IsFirst(i, SlotsOf(t, id))].ptr]],
    issued <- [t \in Type |-> 1..(next_id[t] - 1)],
    reply <- reply
ImplementsHandleTable == Table!Spec
=============================================================================
