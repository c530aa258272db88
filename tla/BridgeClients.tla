--------------------------- MODULE BridgeClients ---------------------------
(***************************************************************************)
(* The bridge daemon with several host processes: the accept loop of       *)
(* src/arm/bridge_main.c, the client list of src/arm/bridge_dispatch.c and *)
(* one detached thread per client, which ends when its host goes away.     *)
(*                                                                         *)
(* A host connects twice: an RPC channel, on which it is given a client    *)
(* id, and then a callback channel, on which it presents that id           *)
(* (shim_connect).  A host here connects once; a process that comes back   *)
(* is another host.  The tables of one client are the subject of           *)
(* BridgeHandles: here a client has one instance slot, and what matters is *)
(* what the threads of several clients read and write between each other's *)
(* steps.                                                                  *)
(***************************************************************************)
EXTENDS Naturals, Sequences, SequencesExt

CONSTANTS
    Host,       \* the processes that connect
    Ptr,        \* engine pointers, which the engine reuses after eciDelete
    NULL,
    MaxClient   \* bound: the clients the bridge accepts (g_next_client_id is 32 bits)

ASSUME MaxAssumption == MaxClient \in Nat
ASSUME NullAssumption == NULL \notin Host \cup Ptr

VARIABLES
    g_running,  \* FALSE after SIGINT or SIGTERM
    main,       \* the accept loop: what it does, for which host and client
    backlog,    \* connections not yet accepted, with their handshake
    g_next_client_id,
    g_clients,  \* the client list, head first
    client,     \* client_state_t, by client id
    thread,     \* client_thread, by client id
    live,       \* engine: the instances that exist
    host        \* the host processes

vars == <<g_running, main, backlog, g_next_client_id, g_clients, client,
          thread, live, host>>

Id == 1..MaxClient

(* One callback state serves the one instance slot. *)
NoCbState == [used |-> FALSE, has_callback |-> FALSE, cb_fd |-> NULL]
(* A channel is named by the host at its other end, NULL is descriptor -1. *)
NoClient == [mem |-> "none", rpc_fd |-> NULL, cb_fd |-> NULL, ptr |-> NULL, cbs |-> NoCbState]
(* fd: the descriptor a step has read and the next will store; found: what *)
(* find_cb_state_by_eci_ptr returned.                                      *)
NoThread == [pc |-> "none", fd |-> NULL, found |-> 0]
Waiting == [pc |-> "accept", host |-> NULL, id |-> 0, found |-> 0]

Exited == main.pc = "exit"
(* g_clients_lock is held between two steps in one place only, from one    *)
(* write of an association to the next; elsewhere a step takes and frees it.*)
ClientsLockFree == main.pc # "associate states"
Alive(h) == host[h].st \notin {"off", "gone"}

InitIdZero ==
    /\ g_running = TRUE
    /\ main = Waiting
    /\ backlog = <<>>
    /\ g_next_client_id = 0
    /\ g_clients = <<>>
    /\ client = [k \in Id |-> NoClient]
    /\ thread = [k \in Id |-> NoThread]
    /\ live = {}
    /\ host = [h \in Host |-> [st |-> "off", id |-> 0, refused |-> FALSE]]
Init ==
    /\ g_running = TRUE
    /\ main = Waiting
    /\ backlog = <<>>
    /\ g_next_client_id = 1
    /\ g_clients = <<>>
    /\ client = [k \in Id |-> NoClient]
    /\ thread = [k \in Id |-> NoThread]
    /\ live = {}
    /\ host = [h \in Host |-> [st |-> "off", id |-> 0, refused |-> FALSE]]

-----------------------------------------------------------------------------
(* The hosts. *)

(* shim_connect: an RPC channel with the handshake 0, then, with the id it *)
(* has been given, the callback channel.                                   *)
ConnectRpc(h) ==
    /\ host[h].st = "off" /\ ~Exited
    /\ backlog' = Append(backlog, [host |-> h, id |-> 0])
    /\ host' = [host EXCEPT ![h].st = "rpc"]
    /\ UNCHANGED <<g_running, main, g_next_client_id, g_clients, client, thread, live>>

ConnectCb(h) ==
    /\ host[h].st = "acked" /\ ~Exited
    /\ backlog' = Append(backlog, [host |-> h, id |-> host[h].id])
    /\ host' = [host EXCEPT ![h].st = "cb"]
    /\ UNCHANGED <<g_running, main, g_next_client_id, g_clients, client, thread, live>>

(* The process ends, or gives up: its descriptors close. *)
Leave(h) ==
    /\ Alive(h)
    /\ host' = [host EXCEPT ![h] = [st |-> "gone", id |-> 0, refused |-> FALSE]]
    /\ UNCHANGED <<g_running, main, backlog, g_next_client_id, g_clients, client, thread, live>>

-----------------------------------------------------------------------------
(* The accept loop. *)

(* accept, and the handshake: a connection closed by its host before the  *)
(* loop reads it still holds its handshake.                               *)
Accept ==
    /\ main.pc = "accept" /\ backlog # <<>>
    /\ backlog' = Tail(backlog)
    /\ main' = [pc |-> IF Head(backlog).id = 0 THEN "new" ELSE "ack cb",
                host |-> Head(backlog).host, id |-> Head(backlog).id, found |-> 0]
    /\ UNCHANGED <<g_running, g_next_client_id, g_clients, client, thread, live, host>>

(* The loop condition: a signal does not interrupt accept (signal() sets   *)
(* SA_RESTART), so g_running is looked at after a connection only.  At the *)
(* end main returns and the process is gone, with every client thread.     *)
LoopAgain == IF g_running THEN Waiting ELSE [Waiting EXCEPT !.pc = "exit"]

(* register_client, unregister_client *)
RegisterClient(k) == g_clients' = <<k>> \o g_clients
UnregisterClientHead(k) == g_clients' = IF g_clients = <<>> THEN <<>> ELSE Tail(g_clients)
UnregisterClient(k) ==
    \/ \E i \in DOMAIN g_clients : g_clients[i] = k /\ g_clients' = RemoveAt(g_clients, i)
    \/ k \notin ToSet(g_clients) /\ UNCHANGED g_clients

(* A new client: it is registered before its id is told. *)
NewClient ==
    LET k == g_next_client_id IN
    /\ main.pc = "new" /\ k =< MaxClient
    /\ g_next_client_id' = k + 1
    /\ client' = [client EXCEPT ![k] = [NoClient EXCEPT !.mem = "used", !.rpc_fd = main.host]]
    /\ RegisterClient(k)
    /\ main' = [main EXCEPT !.pc = "ack", !.id = k]
    /\ UNCHANGED <<g_running, backlog, thread, live, host>>

AckRpc ==
    /\ main.pc = "ack"
    /\ host' = [host EXCEPT ![main.host] =
                  IF @.st = "rpc" THEN [@ EXCEPT !.st = "acked", !.id = main.id] ELSE @]
    /\ main' = [main EXCEPT !.pc = "start"]
    /\ UNCHANGED <<g_running, backlog, g_next_client_id, g_clients, client, thread, live>>

(* The thread tests g_running before its first read. *)
StartThread ==
    /\ main.pc = "start"
    /\ thread' = [thread EXCEPT ![main.id].pc = IF g_running THEN "read" ELSE "end"]
    /\ main' = LoopAgain
    /\ UNCHANGED <<g_running, backlog, g_next_client_id, g_clients, client, live, host>>

(* Telling the id first and registering in the new thread. *)
ServeRpcChannelLate ==
    \/ /\ main.pc = "new"
       /\ main' = [main EXCEPT !.pc = "late", !.id = g_next_client_id]
       /\ host' = [host EXCEPT ![main.host] =
                     IF @.st = "rpc" THEN [@ EXCEPT !.st = "acked", !.id = g_next_client_id]
                                     ELSE @]
       /\ g_next_client_id' = g_next_client_id + 1
       /\ client' = [client EXCEPT ![g_next_client_id] =
                       [NoClient EXCEPT !.mem = "used", !.rpc_fd = main.host]]
       /\ UNCHANGED <<g_running, backlog, g_clients, thread, live>>
    \/ /\ main.pc = "late"
       /\ thread' = [thread EXCEPT ![main.id].pc = "register"]
       /\ main' = LoopAgain
       /\ UNCHANGED <<g_running, backlog, g_next_client_id, g_clients, client, live, host>>
    \/ \E k \in Id : /\ thread[k].pc = "register" /\ ~Exited
                     /\ RegisterClient(k)
                     /\ thread' = [thread EXCEPT ![k].pc = "read"]
                     /\ UNCHANGED <<g_running, main, backlog, g_next_client_id, client, live, host>>
ServeRpcChannel == NewClient \/ AckRpc \/ StartThread

(* A callback channel: the acknowledgement goes out before the client is *)
(* looked for, so from here on the host may call.                        *)
AckCb ==
    /\ main.pc = "ack cb"
    /\ host' = [host EXCEPT ![main.host].st = IF @ = "cb" THEN "ready" ELSE @]
    /\ main' = [main EXCEPT !.pc = "find"]
    /\ UNCHANGED <<g_running, backlog, g_next_client_id, g_clients, client, thread, live>>

FindClientByIdHead(id) ==
    IF g_clients = <<>> THEN 0 ELSE Head(g_clients)
(* find_client_by_id returns a pointer and releases the lock. *)
FindClientById(id) == IF id \in ToSet(g_clients) THEN id ELSE 0

FindClient ==
    /\ main.pc = "find"
    /\ LET k == FindClientById(main.id) IN
         IF k # 0
         THEN main' = [main EXCEPT !.pc = "associate", !.found = k] /\ UNCHANGED host
         ELSE main' = LoopAgain /\ host' = [host EXCEPT ![main.host].refused = Alive(main.host)]
    /\ UNCHANGED <<g_running, backlog, g_next_client_id, g_clients, client, thread, live>>

(* A write to a client that its own thread has freed since it was found is *)
(* undefined: here it changes nothing that is in use, or ends the bridge.  *)
Dangles(k) == client[k].mem = "freed"

AssociateNoClient ==
    /\ main.pc = "associate"
    /\ main' = [main EXCEPT !.pc = "associate states"]
    /\ UNCHANGED <<g_running, backlog, g_next_client_id, g_clients, client, thread, live, host>>
(* The callback channel becomes the client's ... *)
Associate ==
    /\ main.pc = "associate"
    /\ \/ /\ ~Dangles(main.found)
          /\ client' = [client EXCEPT ![main.found].cb_fd = main.host]
          /\ main' = [main EXCEPT !.pc = "associate states"]
       \/ /\ Dangles(main.found)
          /\ main' \in {LoopAgain, [Waiting EXCEPT !.pc = "exit"]}
          /\ UNCHANGED client
    /\ UNCHANGED <<g_running, backlog, g_next_client_id, g_clients, thread, live, host>>

(* ... and that of its callback states, under the lock, which the client's *)
(* thread does not take when it fills one.                                 *)
AssociateStates ==
    /\ main.pc = "associate states"
    /\ \/ /\ ~Dangles(main.found)
          /\ client' = IF client[main.found].cbs.used
                       THEN [client EXCEPT ![main.found].cbs.cb_fd = main.host] ELSE client
          /\ main' = LoopAgain
       \/ /\ Dangles(main.found)
          /\ main' \in {LoopAgain, [Waiting EXCEPT !.pc = "exit"]}
          /\ UNCHANGED client
    /\ UNCHANGED <<g_running, backlog, g_next_client_id, g_clients, thread, live, host>>

(* SIGINT or SIGTERM *)
Signal ==
    /\ g_running /\ ~Exited
    /\ g_running' = FALSE
    /\ UNCHANGED <<main, backlog, g_next_client_id, g_clients, client, thread, live, host>>

-----------------------------------------------------------------------------
(* The thread of client k.  A request and its first step are one step: the *)
(* host waits for the response, and a request it sent before it went away  *)
(* is served all the same.                                                 *)

Requested(k) ==
    /\ ~Exited
    /\ thread[k].pc = "read"
    /\ host[client[k].rpc_fd].st = "ready"

(* The response is sent, or fails; then g_running is tested. *)
Responded == IF g_running THEN "read" ELSE "end"

(* FN_ECI_NEW: eciNew, hmap_add, and alloc_cb_state up to its reading of  *)
(* the client's descriptor; the last assignment is the next step.         *)
EciNew(k) ==
    /\ Requested(k)
    /\ client[k].ptr = NULL
    /\ \E p \in Ptr \ live :
         /\ live' = live \cup {p}
         /\ client' = [client EXCEPT ![k].ptr = p, ![k].cbs = [NoCbState EXCEPT !.used = TRUE]]
    /\ thread' = [thread EXCEPT ![k] =
                    [NoThread EXCEPT !.pc = "alloc", !.fd = client[k].cb_fd]]
    /\ UNCHANGED <<g_running, main, backlog, g_next_client_id, g_clients, host>>

AllocCbState(k) ==
    /\ thread[k].pc = "alloc" /\ ~Exited
    /\ client' = [client EXCEPT ![k].cbs.cb_fd = thread[k].fd]
    /\ thread' = [thread EXCEPT ![k].pc = Responded, ![k].fd = NULL]
    /\ UNCHANGED <<g_running, main, backlog, g_next_client_id, g_clients, live, host>>

(* FN_ECI_REGISTER_CALLBACK *)
RegisterCallback(k) ==
    /\ Requested(k)
    /\ client[k].ptr # NULL
    /\ client' = [client EXCEPT ![k].cbs.has_callback = TRUE]
    /\ thread' = [thread EXCEPT ![k].pc = Responded]
    /\ UNCHANGED <<g_running, main, backlog, g_next_client_id, g_clients, live, host>>

(* FN_ECI_SYNCHRONIZE makes the engine call back: the callback state is    *)
(* looked for by the instance's pointer, among all clients from the newest *)
(* to the oldest.                                                          *)
FindCbStateByEciPtr(p, j) ==
    \/ j = 0 /\ \A i \in DOMAIN g_clients : client[g_clients[i]].ptr # p
    \/ \E i \in DOMAIN g_clients :
         /\ j = g_clients[i] /\ client[j].ptr = p
         /\ \A n \in 1..(i - 1) : client[g_clients[n]].ptr # p

EngineEvent(k) ==
    /\ Requested(k) /\ ClientsLockFree
    /\ client[k].ptr # NULL
    /\ \E j \in Id \cup {0} :
         /\ FindCbStateByEciPtr(client[k].ptr, j)
         /\ thread' = [thread EXCEPT ![k] = [NoThread EXCEPT !.pc = "event", !.found = j]]
    /\ UNCHANGED <<g_running, main, backlog, g_next_client_id, g_clients, client, live, host>>

(* bridge_internal_callback goes on without the lock: the state it has     *)
(* found decides where the event goes, NULL when it is dropped.            *)
Destination(k) ==
    LET j == thread[k].found IN
    IF j # 0 /\ client[j].cbs.has_callback THEN client[j].cbs.cb_fd ELSE NULL

(* The host at the other end of that channel answers, or its end of file   *)
(* ends the wait.  What was found may be gone.                             *)
SendEvent(k) ==
    /\ thread[k].pc = "event" /\ ~Exited
    /\ \/ /\ thread' = [thread EXCEPT ![k] = [NoThread EXCEPT !.pc = Responded]]
          /\ UNCHANGED main
       \/ /\ thread[k].found # 0 /\ Dangles(thread[k].found)
          /\ main' = [Waiting EXCEPT !.pc = "exit"]
          /\ UNCHANGED thread
    /\ UNCHANGED <<g_running, backlog, g_next_client_id, g_clients, client, live, host>>

(* FN_ECI_DELETE: the engine's instance goes first ... *)
EciDelete(k) ==
    /\ Requested(k)
    /\ client[k].ptr # NULL
    /\ live' = live \ {client[k].ptr}
    /\ thread' = [thread EXCEPT ![k] = [NoThread EXCEPT !.pc = "remove"]]
    /\ UNCHANGED <<g_running, main, backlog, g_next_client_id, g_clients, client, host>>

(* ... and then its entry (hmap_remove) and callback state (free_cb_state). *)
Forget(k) ==
    /\ thread[k].pc = "remove" /\ ~Exited
    /\ client' = [client EXCEPT ![k].ptr = NULL, ![k].cbs = NoCbState]
    /\ thread' = [thread EXCEPT ![k].pc = Responded]
    /\ UNCHANGED <<g_running, main, backlog, g_next_client_id, g_clients, live, host>>

SeesEndRetries(k) ==
    /\ thread[k].pc = "read" /\ ~Exited
    /\ host[client[k].rpc_fd].st = "gone"
    /\ thread' = [thread EXCEPT ![k].pc = IF g_running THEN "read" ELSE "end"]
    /\ UNCHANGED <<g_running, main, backlog, g_next_client_id, g_clients, client, live, host>>
(* rpc_read_msg fails: the host has gone. *)
SeesEnd(k) ==
    /\ thread[k].pc = "read" /\ ~Exited
    /\ host[client[k].rpc_fd].st = "gone"
    /\ thread' = [thread EXCEPT ![k] = [NoThread EXCEPT !.pc = "end"]]
    /\ UNCHANGED <<g_running, main, backlog, g_next_client_id, g_clients, client, live, host>>

DeleteNothing(k) ==
    /\ thread[k].pc = "end" /\ ~Exited
    /\ thread' = [thread EXCEPT ![k].pc = "unregister"]
    /\ UNCHANGED <<g_running, main, backlog, g_next_client_id, g_clients, client, live, host>>
(* The clean-up: the instances of the client, its place in the list, its *)
(* channels and its memory.  Its map is left as it is.                   *)
DeleteInstances(k) ==
    /\ thread[k].pc = "end" /\ ~Exited
    /\ live' = live \ {client[k].ptr}
    /\ thread' = [thread EXCEPT ![k].pc = "unregister"]
    /\ UNCHANGED <<g_running, main, backlog, g_next_client_id, g_clients, client, host>>

Unregister(k) ==
    /\ thread[k].pc = "unregister" /\ ClientsLockFree /\ ~Exited
    /\ UnregisterClient(k)
    /\ thread' = [thread EXCEPT ![k].pc = "free"]
    /\ UNCHANGED <<g_running, main, backlog, g_next_client_id, client, live, host>>

Free(k) ==
    /\ thread[k].pc = "free" /\ ~Exited
    /\ client' = [client EXCEPT ![k] =
                    [NoClient EXCEPT !.mem = "freed", !.rpc_fd = client[k].rpc_fd]]
    /\ thread' = [thread EXCEPT ![k].pc = "done"]
    /\ UNCHANGED <<g_running, main, backlog, g_next_client_id, g_clients, live, host>>

-----------------------------------------------------------------------------
MainStep == Accept \/ ServeRpcChannel \/ AckCb \/ FindClient \/ Associate \/ AssociateStates
Request(k) == EciNew(k) \/ RegisterCallback(k) \/ EngineEvent(k) \/ EciDelete(k)
ThreadStep(k) ==
    \/ AllocCbState(k) \/ SendEvent(k) \/ Forget(k)
    \/ SeesEnd(k) \/ DeleteInstances(k) \/ Unregister(k) \/ Free(k)
HostStep(h) == ConnectRpc(h) \/ ConnectCb(h) \/ Leave(h)

Next ==
    \/ MainStep
    \/ Signal
    \/ \E k \in Id : Request(k) \/ ThreadStep(k)
    \/ \E h \in Host : HostStep(h)

Spec == Init /\ [][Next]_vars

(* The accept loop and the client threads run; a host inside shim_connect  *)
(* goes on to its callback channel.  Nothing makes a host come, call or go.*)
FairSpec ==
    /\ Spec
    /\ WF_vars(MainStep)
    /\ \A k \in Id : WF_vars(ThreadStep(k))
    /\ \A h \in Host : WF_vars(ConnectCb(h))

-----------------------------------------------------------------------------
(* The type invariant of the bridge's and the hosts' state. *)
MainType ==
    [pc : {"accept", "new", "ack", "start", "ack cb", "find", "associate",
           "associate states", "exit"},
     host : Host \cup {NULL}, id : Id \cup {0}, found : Id \cup {0}]
Handshake == [host : Host, id : Id \cup {0}]
CbsType == [used : BOOLEAN, has_callback : BOOLEAN, cb_fd : Host \cup {NULL}]
ClientType ==
    [mem : {"none", "used", "freed"}, rpc_fd : Host \cup {NULL}, cb_fd : Host \cup {NULL},
     ptr : Ptr \cup {NULL}, cbs : CbsType]
ThreadType ==
    [pc : {"none", "read", "alloc", "event", "remove", "end", "unregister", "free", "done"},
     fd : Host \cup {NULL}, found : Id \cup {0}]
HostType ==
    [st : {"off", "rpc", "acked", "cb", "ready", "gone"}, id : Id \cup {0}, refused : BOOLEAN]
TypeOK ==
    /\ g_running \in BOOLEAN
    /\ main \in MainType
    /\ backlog \in Seq(Handshake)
    /\ g_next_client_id \in Nat \ {0}
    /\ g_clients \in Seq(Id)
    /\ client \in [Id -> ClientType]
    /\ thread \in [Id -> ThreadType]
    /\ live \in SUBSET Ptr
    /\ host \in [Host -> HostType]

(* The thread has begun its clean-up, or is through with it. *)
Ending(k) == thread[k].pc \in {"end", "unregister", "free", "done"}
Unlisted(k) == thread[k].pc \in {"free", "done"}

(* The client list holds every client from its registration until its     *)
(* thread has taken it out, each once, and no client that is freed: what  *)
(* find_client_by_id and find_cb_state_by_eci_ptr walk is memory in use.  *)
RegistryExact ==
    /\ IsInjective(g_clients)
    /\ ToSet(g_clients) = {k \in Id : client[k].mem = "used" /\ ~Unlisted(k)}

(* Both channels of a client lead to one host, and so does the descriptor  *)
(* a callback state, or the thread that fills it, holds: a host presents   *)
(* its own id, and ids are never handed out twice.                         *)
OwnChannel ==
    \A k \in Id :
        /\ client[k].cb_fd \in {NULL, client[k].rpc_fd}
        /\ client[k].cbs.cb_fd \in {NULL, client[k].rpc_fd}
        /\ thread[k].fd \in {NULL, client[k].rpc_fd}

(* "Register client before sending ACK so callback channel can find it"    *)
(* (bridge_main.c): the bridge refuses the callback channel of a client    *)
(* only when that client is already ending.                                *)
CbFound ==
    \A h \in Host : host[h].refused => Unlisted(host[h].id)

(* The engine's instances are those of the clients, none leaked when its  *)
(* host goes and none shared: two clients map one pointer only while one  *)
(* of them has deleted its instance and not yet forgotten it.             *)
Holds(k, p) ==
    /\ client[k].ptr = p
    /\ thread[k].pc \notin {"remove", "unregister", "free", "done"}
InstancesOwned ==
    /\ live = {p \in Ptr : \E k \in Id : Holds(k, p)}
    /\ \A j, k \in Id : \A p \in Ptr : Holds(j, p) /\ Holds(k, p) => j = k

(* Every event of an instance with a callback is sent to its own client's *)
(* host: "When libeci.so fires audio callbacks, the bridge sends them to  *)
(* the shim via the callback channel" (README.md).                        *)
EventsHome ==
    [][\A k \in Id : SendEvent(k) /\ client[k].cbs.has_callback
                        => Destination(k) = client[k].rpc_fd]_vars

(* A host that goes away is forgotten: its thread ends, deletes its        *)
(* instances and frees the client, unless the bridge exits (client_thread).*)
GoneFreed ==
    \A k \in Id : (client[k].mem = "used" /\ host[client[k].rpc_fd].st = "gone")
                    ~> (client[k].mem = "freed" \/ Exited)

(* A host that may call has its callback channel joined to its client in   *)
(* the end, unless it goes away or the bridge is told to stop.             *)
ChannelJoins ==
    \A h \in Host : host[h].st = "ready" ~>
        \/ host[h].st = "gone" \/ ~g_running \/ Exited
        \/ \E k \in Id : client[k].rpc_fd = h /\ client[k].cb_fd = h
=============================================================================
