----------------------------- MODULE EciSession -----------------------------
(***************************************************************************)
(* One host process that links the shim libeci.so, from its API calls to   *)
(* the client threads of the bridge daemon and back: the connection and    *)
(* the RPC lock (src/host/shim_connection.c), the API calls                *)
(* (src/host/shim_libeci.c), the callback table and the callback thread    *)
(* (src/host/shim_callback.c), the bridge's client thread                  *)
(* (src/arm/bridge_main.c, src/arm/bridge_dispatch.c) and the internal     *)
(* callback (src/arm/bridge_callback.c).                                   *)
(*                                                                         *)
(* A session is one successful shim_connect: two sockets and a client at   *)
(* the bridge.  Sessions are numbered in the order they are made and stand *)
(* for their file descriptors; 0 is -1.  The bridge may crash; the next    *)
(* connect then launches another.                                          *)
(*                                                                         *)
(* The engine, external, delivers waveform buffers inside eciSynchronize.  *)
(* The host ignores SIGPIPE, so a write to a dead socket fails.            *)
(***************************************************************************)
EXTENDS Integers, Sequences, FiniteSets

CONSTANTS
    Thread,       \* the host's threads
    Creator,      \* those of them that call eciNew and eciDelete
    Speaker,      \* those of them that call eciSynchronize
    NULL,
    MAX_CB_HANDLES,
    MaxSess,      \* bound: connections made
    MaxCrash,     \* bound: bridge crashes
    MaxCalls,     \* bound: API calls the host makes
    MaxBuf,       \* bound: buffers one eciSynchronize produces
    MaxReader     \* bound: callback threads started

ASSUME ThreadAssumption == NULL \notin Thread /\ Creator \cup Speaker \subseteq Thread
ASSUME BoundAssumption == {MAX_CB_HANDLES, MaxSess, MaxCrash, MaxCalls, MaxBuf, MaxReader}
                            \subseteq Nat

VARIABLES
    (* shim_connection.c *)
    conn,         \* g_conn: [connected, rpc_fd, cb_fd, next_seq]
    rpc_lock,     \* the thread holding g_conn.rpc_lock
    (* the calls in progress *)
    pc, call, seq, got, calls,
    hands,        \* the handles eciNew has returned to the host
    (* shim_callback.c *)
    g_callbacks,  \* handle ids with an active entry
    g_cb_lock,    \* the callback thread holding it
    g_cb_running, g_cb_fd,
    reader,       \* reader[k]: callback thread k, [pc, fd, hid, n, ret]
    (* sockets of each session *)
    up, req, resp, evts, rets,
    (* bridge: the client thread of each session *)
    srv,          \* [pc, from, seq, hid, made]
    handles,      \* ids of its instances
    has_callback, \* those with has_callback set
    joined,       \* the client's cb_fd is set
    linked,       \* instances whose callback state has a cb_fd
    next_id,
    crashes,
    heard,        \* history: the buffers the host's callback was given, this call
    aborted,      \* history: the buffer it answered with eciDataAbort, 0 for none
    skipped       \* history: the last buffer not sent for want of a cb_fd, 0 for none

shim == <<conn, rpc_lock, pc, call, seq, got, calls, hands>>
callback == <<g_callbacks, g_cb_lock, g_cb_running, g_cb_fd, reader>>
bridge == <<srv, handles, has_callback, joined, linked, next_id, crashes>>
history == <<heard, aborted, skipped>>
sockets == <<up, req, resp, evts, rets>>
vars == <<shim, callback, sockets, bridge, history>>

Sess == 1..MaxSess
Reader == 1..MaxReader
NoCall == [kind |-> "none", hid |-> 0, back |-> "ready", fd |-> 0]
NoResponse == [from |-> NULL, seq |-> 0, hid |-> 0]
NoServer == [pc |-> "none", from |-> NULL, seq |-> 0, hid |-> 0, made |-> 0]

Goto(t, l) == pc' = [pc EXCEPT ![t] = l]
Push(chan, s, m) == chan' = [chan EXCEPT ![s] = Append(@, m)]
Pop(chan, s) == chan' = [chan EXCEPT ![s] = Tail(@)]

(* The next session to be made. *)
IsNewSession(s) == srv[s].pc = "none" /\ \A r \in 1..(s - 1) : srv[r].pc # "none"

(* Both ends of session s work. *)
Alive(s) == s # 0 /\ up[s]

Init ==
    /\ conn = [connected |-> FALSE, rpc_fd |-> 0, cb_fd |-> 0, next_seq |-> 1]
    /\ rpc_lock = NULL
    /\ pc = [t \in Thread |-> "idle"]
    /\ call = [t \in Thread |-> NoCall]
    /\ seq = [t \in Thread |-> 0]
    /\ got = [t \in Thread |-> NoResponse]
    /\ calls = 0
    /\ hands = {}
    /\ g_callbacks = {}
    /\ g_cb_lock = 0
    /\ g_cb_running = FALSE
    /\ g_cb_fd = 0
    /\ reader = [k \in Reader |-> [pc |-> "none", fd |-> 0, hid |-> 0, n |-> 0,
                                ret |-> "processed"]]
    /\ up = [s \in Sess |-> FALSE]
    /\ req = [s \in Sess |-> <<>>]
    /\ resp = [s \in Sess |-> <<>>]
    /\ evts = [s \in Sess |-> <<>>]
    /\ rets = [s \in Sess |-> <<>>]
    /\ srv = [s \in Sess |-> NoServer]
    /\ handles = [s \in Sess |-> {}]
    /\ has_callback = [s \in Sess |-> {}]
    /\ joined = [s \in Sess |-> FALSE]
    /\ linked = [s \in Sess |-> {}]
    /\ next_id = [s \in Sess |-> 1]
    /\ crashes = 0
    /\ heard = [s \in Sess |-> <<>>]
    /\ aborted = [s \in Sess |-> 0]
    /\ skipped = [s \in Sess |-> 0]

-----------------------------------------------------------------------------
(* API calls of the host's threads. *)

(* A thread enters eciNew, eciRegisterCallback, eciSynchronize or eciDelete. *)
(* eciRegisterCallback first stores the callback locally.                    *)
Enter(t, kind, hid) ==
    /\ pc[t] = "idle"
    /\ calls < MaxCalls
    /\ IF kind = "new" THEN hid = 0 ELSE hid \in hands
    /\ kind \in {"new", "delete"} => t \in Creator
    /\ kind = "sync" => t \in Speaker
    /\ call' = [call EXCEPT ![t] = [NoCall EXCEPT !.kind = kind, !.hid = hid]]
    /\ calls' = calls + 1
    /\ Goto(t, IF kind = "register" THEN "store" ELSE "get_conn")
    /\ UNCHANGED <<conn, rpc_lock, seq, got, hands, callback, sockets, bridge, history>>

(* The call returns to the host. *)
Return(t) == /\ Goto(t, "idle")
             /\ call' = [call EXCEPT ![t] = NoCall]
             /\ seq' = [seq EXCEPT ![t] = 0]
             /\ got' = [got EXCEPT ![t] = NoResponse]

SetCallbackOffByOne(t) ==
    /\ pc[t] = "store"
    /\ g_cb_lock = 0
    /\ g_callbacks' = IF Cardinality(g_callbacks) < MAX_CB_HANDLES - 1
                      THEN g_callbacks \cup {call[t].hid} ELSE g_callbacks
    /\ Goto(t, "get_conn")
    /\ UNCHANGED <<conn, rpc_lock, call, seq, got, calls, hands, g_cb_lock, g_cb_running,
                   g_cb_fd, reader, sockets, bridge, history>>

(* shim_set_callback: the entry of this handle, else a free one, else the *)
(* callback is dropped.  The user's callback runs under the same lock.    *)
SetCallback(t) ==
    /\ pc[t] = "store"
    /\ g_cb_lock = 0
    /\ g_callbacks' = IF Cardinality(g_callbacks) < MAX_CB_HANDLES
                      THEN g_callbacks \cup {call[t].hid} ELSE g_callbacks
    /\ Goto(t, "get_conn")
    /\ UNCHANGED <<conn, rpc_lock, call, seq, got, calls, hands, g_cb_lock, g_cb_running,
                   g_cb_fd, reader, sockets, bridge, history>>

(* shim_get_conn, the check outside the lock. *)
GetConn(t) ==
    /\ pc[t] = "get_conn"
    /\ Goto(t, IF conn.connected THEN call[t].back ELSE "connect")
    /\ UNCHANGED <<conn, rpc_lock, call, seq, got, calls, hands,
                   callback, sockets, bridge, history>>

ConnectUnlocked(t) ==
    /\ pc[t] = "connect"
    /\ \/ conn.connected /\ UNCHANGED <<conn, up, srv>>
       \/ /\ ~conn.connected
          /\ \E s \in Sess :
               /\ IsNewSession(s)
               /\ up' = [up EXCEPT ![s] = TRUE]
               /\ srv' = [srv EXCEPT ![s].pc = "read"]
               /\ conn' = [connected |-> TRUE, rpc_fd |-> s, cb_fd |-> s, next_seq |-> 1]
    /\ Goto(t, call[t].back)
    /\ UNCHANGED <<rpc_lock, call, seq, got, calls, hands, callback, req, resp, evts, rets,
                   handles, has_callback, joined, linked, next_id, crashes, history>>

ConnectSeqZero(t) ==
    /\ pc[t] = "connect"
    /\ rpc_lock = NULL
    /\ \/ conn.connected /\ UNCHANGED <<conn, up, srv>>
       \/ /\ ~conn.connected
          /\ \E rpc \in {0, conn.rpc_fd}, cb \in {0, conn.cb_fd} :
               /\ rpc = conn.rpc_fd => cb = conn.cb_fd
               /\ conn' = [conn EXCEPT !.rpc_fd = rpc, !.cb_fd = cb]
          /\ UNCHANGED <<up, srv>>
       \/ /\ ~conn.connected
          /\ \E s \in Sess :
               /\ IsNewSession(s)
               /\ up' = [up EXCEPT ![s] = TRUE]
               /\ srv' = [srv EXCEPT ![s].pc = "read"]
               /\ conn' = [connected |-> TRUE, rpc_fd |-> s, cb_fd |-> s, next_seq |-> 0]
    /\ Goto(t, call[t].back)
    /\ UNCHANGED <<rpc_lock, call, seq, got, calls, hands, callback, req, resp, evts, rets,
                   handles, has_callback, joined, linked, next_id, crashes, history>>

(* shim_get_conn under the lock, with shim_connect: launch, two connects,  *)
(* two handshakes; a failure leaves what had been set before it.  The old  *)
(* session's descriptors are forgotten, not closed.  The bridge has        *)
(* acknowledged the callback channel, and joins it later (Associate).      *)
Connect(t) ==
    /\ pc[t] = "connect"
    /\ rpc_lock = NULL
    /\ \/ conn.connected /\ UNCHANGED <<conn, up, srv>>
       \/ /\ ~conn.connected
          /\ \E rpc \in {0, conn.rpc_fd}, cb \in {0, conn.cb_fd} :
               /\ rpc = conn.rpc_fd => cb = conn.cb_fd
               /\ conn' = [conn EXCEPT !.rpc_fd = rpc, !.cb_fd = cb]
          /\ UNCHANGED <<up, srv>>
       \/ /\ ~conn.connected
          /\ \E s \in Sess :
               /\ IsNewSession(s)
               /\ up' = [up EXCEPT ![s] = TRUE]
               /\ srv' = [srv EXCEPT ![s].pc = "read"]
               /\ conn' = [connected |-> TRUE, rpc_fd |-> s, cb_fd |-> s, next_seq |-> 1]
    /\ Goto(t, call[t].back)
    /\ UNCHANGED <<rpc_lock, call, seq, got, calls, hands, callback, req, resp, evts, rets,
                   handles, has_callback, joined, linked, next_id, crashes, history>>

(* do_rpc and shim_rpc check the flag, outside the lock. *)
Ready(t) ==
    /\ pc[t] = "ready"
    /\ IF conn.connected
       THEN Goto(t, "lock") /\ UNCHANGED <<call, seq, got>>
       ELSE Return(t)
    /\ UNCHANGED <<conn, rpc_lock, calls, hands, callback, sockets, bridge, history>>

SendUnlocked(t) ==
    /\ pc[t] = "lock"
    /\ conn' = [conn EXCEPT !.next_seq = @ + 1]
    /\ seq' = [seq EXCEPT ![t] = conn.next_seq]
    /\ IF Alive(conn.rpc_fd)
       THEN /\ Push(req, conn.rpc_fd, [from |-> t, seq |-> conn.next_seq,
                                       kind |-> call[t].kind, hid |-> call[t].hid])
            /\ rpc_lock' = t
            /\ Goto(t, "recv")
       ELSE Goto(t, "drop") /\ UNCHANGED <<req, rpc_lock>>
    /\ UNCHANGED <<call, got, calls, hands, callback, up, resp, evts, rets, bridge, history>>

(* shim_rpc takes the lock and writes the request; when that fails it      *)
(* unlocks, and clears the flag in a step of its own.                      *)
Send(t) ==
    /\ pc[t] = "lock"
    /\ rpc_lock = NULL
    /\ conn' = [conn EXCEPT !.next_seq = @ + 1]
    /\ seq' = [seq EXCEPT ![t] = conn.next_seq]
    /\ IF Alive(conn.rpc_fd)
       THEN /\ Push(req, conn.rpc_fd, [from |-> t, seq |-> conn.next_seq,
                                       kind |-> call[t].kind, hid |-> call[t].hid])
            /\ rpc_lock' = t
            /\ Goto(t, "recv")
       ELSE Goto(t, "drop") /\ UNCHANGED <<req, rpc_lock>>
    /\ UNCHANGED <<call, got, calls, hands, callback, up, resp, evts, rets, bridge, history>>

RecvKeepsLock(t) ==
    /\ pc[t] = "recv"
    /\ resp[conn.rpc_fd] # <<>>
    /\ got' = [got EXCEPT ![t] = Head(resp[conn.rpc_fd])]
    /\ Pop(resp, conn.rpc_fd)
    /\ UNCHANGED rpc_lock
    /\ Goto(t, "done")
    /\ UNCHANGED <<conn, call, seq, calls, hands, callback, up, req, evts, rets, bridge, history>>

(* The response is read under the lock; its sequence number is not compared. *)
Recv(t) ==
    /\ pc[t] = "recv"
    /\ resp[conn.rpc_fd] # <<>>
    /\ got' = [got EXCEPT ![t] = Head(resp[conn.rpc_fd])]
    /\ Pop(resp, conn.rpc_fd)
    /\ rpc_lock' = NULL
    /\ Goto(t, "done")
    /\ UNCHANGED <<conn, call, seq, calls, hands, callback, up, req, evts, rets, bridge, history>>

(* End of file instead: unlock. *)
RecvFails(t) ==
    /\ pc[t] = "recv"
    /\ resp[conn.rpc_fd] = <<>>
    /\ ~Alive(conn.rpc_fd)
    /\ rpc_lock' = NULL
    /\ Goto(t, "drop")
    /\ UNCHANGED <<conn, call, seq, got, calls, hands, callback, sockets, bridge, history>>

(* ... and, the lock released, connected = 0; the call fails. *)
Drop(t) ==
    /\ pc[t] = "drop"
    /\ conn' = [conn EXCEPT !.connected = FALSE]
    /\ Return(t)
    /\ UNCHANGED <<rpc_lock, calls, hands, callback, sockets, bridge, history>>

(* The call is over; eciNew, with a handle, goes on to shim_get_conn once *)
(* more and to the callback thread.                                       *)
Done(t) ==
    /\ pc[t] = "done"
    /\ IF call[t].kind = "new" /\ got[t].hid # 0
       THEN /\ Goto(t, "get_conn")
            /\ call' = [call EXCEPT ![t].back = "check"]
            /\ UNCHANGED <<seq, got>>
       ELSE Return(t)
    /\ UNCHANGED <<conn, rpc_lock, calls, hands, callback, sockets, bridge, history>>

(* shim_callback_start(conn->cb_fd): nothing if a thread is running ... *)
CheckReader(t) ==
    /\ pc[t] = "check"
    /\ IF conn.cb_fd = 0 \/ g_cb_running
       THEN Return(t) /\ hands' = hands \cup {got[t].hid}
       ELSE /\ Goto(t, "start")
            /\ call' = [call EXCEPT ![t].fd = conn.cb_fd]
            /\ UNCHANGED <<seq, got, hands>>
    /\ UNCHANGED <<conn, rpc_lock, calls, callback, sockets, bridge, history>>

(* ... else it is set running and created, with no lock held in between. *)
StartReader(t) ==
    /\ pc[t] = "start"
    /\ \E k \in Reader :
         /\ reader[k].pc = "none"
         /\ \A j \in 1..(k - 1) : reader[j].pc # "none"
         /\ reader' = [reader EXCEPT ![k].pc = "loop"]
    /\ g_cb_fd' = call[t].fd
    /\ g_cb_running' = TRUE
    /\ Return(t)
    /\ hands' = hands \cup {got[t].hid}
    /\ UNCHANGED <<conn, rpc_lock, calls, g_callbacks, g_cb_lock, sockets, bridge, history>>

-----------------------------------------------------------------------------
(* The shim's callback thread. *)

(* It reads from what g_cb_fd is at that moment; g_cb_running is never cleared. *)
BeginRead(k) ==
    /\ reader[k].pc = "loop"
    /\ reader' = [reader EXCEPT ![k] = [@ EXCEPT !.pc = "read", !.fd = g_cb_fd]]
    /\ UNCHANGED <<shim, g_callbacks, g_cb_lock, g_cb_running, g_cb_fd, sockets, bridge, history>>

ReadEvent(k) ==
    /\ reader[k].pc = "read"
    /\ evts[reader[k].fd] # <<>>
    /\ LET e == Head(evts[reader[k].fd]) IN
         reader' = [reader EXCEPT ![k] = [@ EXCEPT !.pc = "event", !.hid = e.hid, !.n = e.n]]
    /\ Pop(evts, reader[k].fd)
    /\ UNCHANGED <<shim, g_callbacks, g_cb_lock, g_cb_running, g_cb_fd,
                   up, req, resp, rets, bridge, history>>

(* The entry is looked up, and the user's callback entered, under g_cb_lock; *)
(* with no entry the answer is eciDataProcessed.                             *)
Deliver(k) ==
    /\ reader[k].pc = "event"
    /\ g_cb_lock = 0
    /\ IF reader[k].hid \in g_callbacks
       THEN /\ g_cb_lock' = k
            /\ reader' = [reader EXCEPT ![k].pc = "user"]
            /\ heard' = [heard EXCEPT ![reader[k].fd] = Append(@, reader[k].n)]
       ELSE /\ reader' = [reader EXCEPT ![k] = [@ EXCEPT !.pc = "reply", !.ret = "processed"]]
            /\ UNCHANGED <<g_cb_lock, heard>>
    /\ UNCHANGED <<shim, g_callbacks, g_cb_running, g_cb_fd, sockets, bridge, aborted, skipped>>

(* The user's callback returns. *)
UserReturns(k, ret) ==
    /\ reader[k].pc = "user"
    /\ g_cb_lock' = 0
    /\ reader' = [reader EXCEPT ![k] = [@ EXCEPT !.pc = "reply", !.ret = ret]]
    /\ aborted' = IF ret = "abort" THEN [aborted EXCEPT ![reader[k].fd] = reader[k].n]
                  ELSE aborted
    /\ UNCHANGED <<shim, g_callbacks, g_cb_running, g_cb_fd, sockets, bridge, heard, skipped>>

(* The answer goes to the bridge; a failed write is not noticed. *)
SendReturn(k) ==
    /\ reader[k].pc = "reply"
    /\ IF up[g_cb_fd] THEN Push(rets, g_cb_fd, reader[k].ret) ELSE UNCHANGED rets
    /\ reader' = [reader EXCEPT ![k].pc = "loop"]
    /\ UNCHANGED <<shim, g_callbacks, g_cb_lock, g_cb_running, g_cb_fd,
                   up, req, resp, evts, bridge, history>>

(* End of file: the thread ends, and leaves g_cb_running set. *)
ReaderEnds(k) ==
    /\ reader[k].pc = "read"
    /\ evts[reader[k].fd] = <<>>
    /\ ~Alive(reader[k].fd)
    /\ reader' = [reader EXCEPT ![k].pc = "ended"]
    /\ UNCHANGED <<shim, g_callbacks, g_cb_lock, g_cb_running, g_cb_fd, sockets, bridge, history>>

-----------------------------------------------------------------------------
(* The bridge: the client thread of session s. *)

Respond(s, r, hid) == Push(resp, s, [from |-> r.from, seq |-> r.seq, hid |-> hid])

(* The main thread, after it has acknowledged the callback channel: the     *)
(* client gets its cb_fd, and so do the callback states in use.             *)
Associate(s) ==
    /\ up[s]
    /\ ~joined[s]
    /\ joined' = [joined EXCEPT ![s] = TRUE]
    /\ linked' = [linked EXCEPT ![s] = @ \cup handles[s]]
    /\ UNCHANGED <<shim, callback, sockets, srv, handles, has_callback, next_id, crashes, history>>

(* FN_ECI_NEW: no instance, for want of one or of a handle; or a new handle,  *)
(* with a callback state that copies the client's cb_fd.  A copy taken before *)
(* the association is stored in a step of its own (StoreNoFd).                *)
ServeNew(s, r) ==
    /\ r.kind = "new"
    /\ \/ /\ Respond(s, r, 0)
          /\ UNCHANGED <<srv, handles, linked, next_id>>
       \/ /\ handles' = [handles EXCEPT ![s] = @ \cup {next_id[s]}]
          /\ next_id' = [next_id EXCEPT ![s] = @ + 1]
          /\ IF joined[s]
             THEN /\ linked' = [linked EXCEPT ![s] = @ \cup {next_id[s]}]
                  /\ Respond(s, r, next_id[s])
                  /\ UNCHANGED srv
             ELSE /\ srv' = [srv EXCEPT ![s] = [pc |-> "alloc", from |-> r.from, seq |-> r.seq,
                                                hid |-> next_id[s], made |-> 0]]
                  /\ UNCHANGED <<resp, linked>>
    /\ UNCHANGED <<has_callback, history>>

(* FN_ECI_REGISTER_CALLBACK. *)
ServeRegister(s, r) ==
    /\ r.kind = "register"
    /\ has_callback' = [has_callback EXCEPT ![s] = @ \cup ({r.hid} \cap handles[s])]
    /\ Respond(s, r, 0)
    /\ UNCHANGED <<srv, handles, linked, next_id, history>>

(* FN_ECI_DELETE. *)
ServeDelete(s, r) ==
    /\ r.kind = "delete"
    /\ handles' = [handles EXCEPT ![s] = @ \ {r.hid}]
    /\ has_callback' = [has_callback EXCEPT ![s] = @ \ {r.hid}]
    /\ linked' = [linked EXCEPT ![s] = @ \ {r.hid}]
    /\ Respond(s, r, 0)
    /\ UNCHANGED <<srv, next_id, history>>

(* FN_ECI_SYNCHRONIZE: an unknown handle is answered at once; else the thread *)
(* stays in the engine.                                                       *)
ServeSync(s, r) ==
    /\ r.kind = "sync"
    /\ IF r.hid \in handles[s]
       THEN /\ srv' = [srv EXCEPT ![s] = [pc |-> "engine", from |-> r.from, seq |-> r.seq,
                                          hid |-> r.hid, made |-> 0]]
            /\ heard' = [heard EXCEPT ![s] = <<>>]
            /\ aborted' = [aborted EXCEPT ![s] = 0]
            /\ skipped' = [skipped EXCEPT ![s] = 0]
            /\ UNCHANGED resp
       ELSE /\ Respond(s, r, 0)
            /\ UNCHANGED <<srv, history>>
    /\ UNCHANGED <<handles, has_callback, linked, next_id>>

(* One request is read and dispatched. *)
Dispatch(s) ==
    /\ up[s]
    /\ srv[s].pc = "read"
    /\ req[s] # <<>>
    /\ Pop(req, s)
    /\ LET r == Head(req[s])
       IN  ServeNew(s, r) \/ ServeRegister(s, r) \/ ServeDelete(s, r) \/ ServeSync(s, r)
    /\ UNCHANGED <<shim, callback, up, evts, rets, joined, crashes>>

(* The -1 that eciNew had read as the client's cb_fd goes into the callback *)
(* state, over what the association may have put there since.               *)
StoreNoFd(s) ==
    /\ up[s]
    /\ srv[s].pc = "alloc"
    /\ linked' = [linked EXCEPT ![s] = @ \ {srv[s].hid}]
    /\ Respond(s, srv[s], srv[s].hid)
    /\ srv' = [srv EXCEPT ![s].pc = "read"]
    /\ UNCHANGED <<shim, callback, up, req, evts, rets, handles, has_callback, joined, next_id,
                   crashes, history>>

(* The engine fills a buffer and bridge_internal_callback sends the event if  *)
(* the client registered a callback and its callback state has a cb_fd.       *)
Produce(s) ==
    /\ up[s]
    /\ srv[s].pc = "engine"
    /\ srv[s].made < MaxBuf
    /\ IF srv[s].hid \in has_callback[s] \cap linked[s]
       THEN /\ Push(evts, s, [hid |-> srv[s].hid, n |-> srv[s].made + 1])
            /\ srv' = [srv EXCEPT ![s].pc = "wait", ![s].made = @ + 1]
            /\ UNCHANGED skipped
       ELSE /\ srv' = [srv EXCEPT ![s].made = @ + 1]
            /\ skipped' = IF srv[s].hid \in linked[s] THEN skipped
                          ELSE [skipped EXCEPT ![s] = srv[s].made + 1]
            /\ UNCHANGED evts
    /\ UNCHANGED <<shim, callback, up, req, resp, rets, handles, has_callback, joined, linked,
                   next_id, crashes, heard, aborted>>

(* bridge_internal_callback reads the answer; the engine stops on an abort. *)
TakeReturn(s) ==
    /\ up[s]
    /\ srv[s].pc = "wait"
    /\ rets[s] # <<>>
    /\ Pop(rets, s)
    /\ srv' = [srv EXCEPT ![s].pc = IF Head(rets[s]) = "abort" THEN "finish" ELSE "engine"]
    /\ UNCHANGED <<shim, callback, up, req, resp, evts, handles, has_callback, joined, linked,
                   next_id, crashes, history>>

(* eciSynchronize returns and its response is sent. *)
Finish(s) ==
    /\ up[s]
    /\ srv[s].pc \in {"engine", "finish"}
    /\ Respond(s, srv[s], 0)
    /\ srv' = [srv EXCEPT ![s].pc = "read"]
    /\ UNCHANGED <<shim, callback, up, req, evts, rets, handles, has_callback, joined, linked,
                   next_id, crashes, history>>

(* The bridge dies: every session's peer is gone.  What it has written can *)
(* still be read.                                                          *)
Crash ==
    /\ crashes < MaxCrash
    /\ \E s \in Sess : up[s]
    /\ crashes' = crashes + 1
    /\ up' = [s \in Sess |-> FALSE]
    /\ req' = [s \in Sess |-> <<>>]
    /\ rets' = [s \in Sess |-> <<>>]
    /\ srv' = [s \in Sess |-> IF up[s] THEN [srv[s] EXCEPT !.pc = "down"] ELSE srv[s]]
    /\ UNCHANGED <<shim, callback, resp, evts, handles, has_callback, joined, linked, next_id,
                   history>>

-----------------------------------------------------------------------------
CallStep(t) == \/ SetCallback(t) \/ GetConn(t) \/ Connect(t) \/ Ready(t) \/ Send(t)
               \/ Recv(t) \/ RecvFails(t) \/ Drop(t) \/ Done(t)
               \/ CheckReader(t) \/ StartReader(t)
ReaderStep(k) == \/ BeginRead(k) \/ ReadEvent(k) \/ Deliver(k) \/ SendReturn(k) \/ ReaderEnds(k)
                 \/ \E ret \in {"processed", "abort"} : UserReturns(k, ret)
ServerStep(s) == Dispatch(s) \/ StoreNoFd(s) \/ Produce(s) \/ TakeReturn(s) \/ Finish(s)
EnterStep(t) == \E kind \in {"new", "register", "sync", "delete"}, hid \in hands \cup {0} :
                  Enter(t, kind, hid)

Next == \/ \E t \in Thread : EnterStep(t) \/ CallStep(t)
        \/ \E k \in Reader : ReaderStep(k)
        \/ \E s \in Sess : ServerStep(s) \/ Associate(s)
        \/ Crash

Spec == Init /\ [][Next]_vars

(* A thread inside a call, the callback thread and the client threads are *)
(* scheduled; the host need not call again, and nothing has to crash or   *)
(* (though the main thread runs) to be associated.                        *)
Fairness == /\ \A t \in Thread : WF_vars(CallStep(t))
            /\ \A k \in Reader : WF_vars(ReaderStep(k))
            /\ \A s \in Sess : WF_vars(ServerStep(s))
FairSpec == Spec /\ Fairness

-----------------------------------------------------------------------------
(* The type invariant, by the groups of variables. *)
Kind == {"none", "new", "register", "sync", "delete"}
Request == [from : Thread, seq : Nat, kind : Kind, hid : Nat]
Response == [from : Thread, seq : Nat, hid : Nat]
ShimTypes ==
    /\ conn \in [connected : BOOLEAN, rpc_fd : Sess \cup {0}, cb_fd : Sess \cup {0},
                 next_seq : Nat \ {0}]
    /\ rpc_lock \in Thread \cup {NULL}
    /\ pc \in [Thread -> {"idle", "store", "get_conn", "connect", "ready", "lock", "recv",
                          "drop", "done", "check", "start"}]
    /\ call \in [Thread -> [kind : Kind, hid : Nat,
                            back : {"ready", "check"}, fd : Sess \cup {0}]]
    /\ seq \in [Thread -> Nat]
    /\ got \in [Thread -> Response \cup {NoResponse}]
    /\ calls \in Nat
    /\ hands \in SUBSET Nat
CallbackTypes ==
    /\ g_callbacks \in SUBSET Nat
    /\ g_cb_lock \in Reader \cup {0}
    /\ g_cb_running \in BOOLEAN
    /\ g_cb_fd \in Sess \cup {0}
    /\ reader \in [Reader -> [pc : {"none", "loop", "read", "event", "user", "reply", "ended"},
                              fd : Sess \cup {0}, hid : Nat, n : Nat,
                              ret : {"processed", "abort"}]]
SocketTypes ==
    /\ up \in [Sess -> BOOLEAN]
    /\ req \in [Sess -> Seq(Request)]
    /\ resp \in [Sess -> Seq(Response)]
    /\ evts \in [Sess -> Seq([hid : Nat, n : Nat])]
    /\ rets \in [Sess -> Seq({"processed", "abort"})]
BridgeTypes ==
    /\ srv \in [Sess -> [pc : {"none", "read", "alloc", "engine", "wait", "finish", "down"},
                         from : Thread \cup {NULL}, seq : Nat, hid : Nat, made : Nat]]
    /\ handles \in [Sess -> SUBSET Nat]
    /\ has_callback \in [Sess -> SUBSET Nat]
    /\ joined \in [Sess -> BOOLEAN]
    /\ linked \in [Sess -> SUBSET Nat]
    /\ next_id \in [Sess -> Nat \ {0}]
    /\ crashes \in Nat
    /\ heard \in [Sess -> Seq(Nat)]
    /\ aborted \in [Sess -> Nat]
    /\ skipped \in [Sess -> Nat]
TypeOK == ShimTypes /\ CallbackTypes /\ SocketTypes /\ BridgeTypes

(* ChannelDiscipline strengthens ResponseMatches to an inductive invariant of *)
(* the RPC channel (shim_rpc, client_thread).  The lock is held exactly while *)
(* its holder waits for a response; the session it waits on has exactly one   *)
(* message of that call under way, or is down with nothing left to read;      *)
(* every other session, lost ones too, is quiet.                              *)
Busy(s) == srv[s].pc \in {"alloc", "engine", "wait", "finish"}
Quiet(s) == req[s] = <<>> /\ resp[s] = <<>> /\ ~Busy(s)
IsOf(m, t) == m.from = t /\ m.seq = seq[t]
Asked(s, t) ==
    /\ up[s]
    /\ Len(req[s]) = 1
    /\ IsOf(Head(req[s]), t)
    /\ resp[s] = <<>>
    /\ ~Busy(s)
Served(s, t) ==
    /\ up[s]
    /\ Busy(s)
    /\ IsOf(srv[s], t)
    /\ req[s] = <<>>
    /\ resp[s] = <<>>
Answered(s, t) ==
    /\ Len(resp[s]) = 1
    /\ IsOf(Head(resp[s]), t)
    /\ req[s] = <<>>
    /\ ~Busy(s)
LockHeld == \A t \in Thread : (rpc_lock = t) <=> (pc[t] = "recv")
Exchange ==
    \A s \in Sess : IF rpc_lock # NULL /\ conn.rpc_fd = s
                    THEN \/ Asked(s, rpc_lock)
                         \/ Served(s, rpc_lock)
                         \/ Answered(s, rpc_lock)
                         \/ ~up[s] /\ Quiet(s)
                    ELSE Quiet(s)
(* A response stays with its call: it is there only once the call is past *)
(* the RPC, when nothing renews its sequence number.                      *)
Holding(t) == \/ pc[t] \in {"done", "check", "start"}
              \/ /\ pc[t] \in {"get_conn", "connect"}
                 /\ call[t].back = "check"
(* A callback thread has a descriptor to read. *)
CallbackFds ==
    /\ \A k \in Reader : /\ reader[k].pc # "none" => g_cb_fd # 0
                         /\ reader[k].pc \notin {"none", "loop"} => reader[k].fd # 0
    /\ \A t \in Thread : pc[t] = "start" => call[t].fd # 0
ChannelDiscipline ==
    /\ LockHeld
    /\ rpc_lock # NULL => conn.rpc_fd # 0
    /\ Exchange
    /\ \A t \in Thread : got[t] # NoResponse => Holding(t)
    /\ CallbackFds

(* The response a call takes from the RPC channel is the one to its own     *)
(* request, although shim_rpc never compares the sequence number, threads   *)
(* interleave, and a connection may be lost and replaced between two calls. *)
ResponseMatches ==
    \A t \in Thread : got[t] # NoResponse => got[t].from = t /\ got[t].seq = seq[t]

(* Whenever the engine runs, inside eciSynchronize of a handle with a         *)
(* registered callback, the host's callback has been given every buffer the   *)
(* engine has made in this call, once each and in order, from the first that  *)
(* found the callback channel in the instance's callback state; and when it   *)
(* has answered eciDataAbort the engine makes no other (callback_thread,      *)
(* bridge_internal_callback).  A host's callback is passed over only when it  *)
(* was registered with the callback table full, and then it hears nothing.    *)
InStep(s) ==
    /\ heard[s] = IF srv[s].hid \in g_callbacks
                  THEN [n \in 1..(srv[s].made - skipped[s]) |-> skipped[s] + n]
                  ELSE <<>>
    /\ srv[s].hid \in g_callbacks \/ Cardinality(g_callbacks) >= MAX_CB_HANDLES
    /\ aborted[s] # 0 => srv[s].pc = "finish" /\ aborted[s] = srv[s].made
EngineInStep ==
    \A s \in Sess : srv[s].pc \in {"engine", "finish"} /\ srv[s].hid \in has_callback[s] =>
        InStep(s)

(* Every API call returns: "this two-channel design prevents deadlock"      *)
(* (README).  eciSynchronize holds the RPC lock while the engine waits for  *)
(* the callback thread, which waits for nobody that needs the lock.         *)
CallsReturn == \A t \in Thread : (pc[t] # "idle") ~> (pc[t] = "idle")

(* "Each client opens two connections to the bridge" (README): the process *)
(* is at most one client of a running bridge.                              *)
OneSession == \A r, s \in Sess : up[r] /\ up[s] => r = s
=============================================================================
