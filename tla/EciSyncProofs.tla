---------------------------- MODULE EciSyncProofs ----------------------------
(***************************************************************************)
(* The engine and the host's callback stay in step (EngineInStep of        *)
(* EciSession), for any threads, sessions, callback threads and buffers,   *)
(* any size of the callback table and any moment of the callback channel's *)
(* association, as long as the bridge has not crashed.  After a crash they *)
(* do not: see README.md.                                                  *)
(***************************************************************************)
EXTENDS EciSessionProofs, FiniteSetTheorems

(* The bridge has not crashed. *)
Sound == crashes = 0

(* One session, that stays: no call finds the connection lost. *)
Link ==
    /\ \A t \in Thread :
         /\ pc[t] # "drop"
         /\ pc[t] \in {"lock", "recv", "done", "check", "start"} \/ call[t].back = "check"
              => conn.connected
    /\ conn.connected => /\ conn.rpc_fd # 0
                         /\ conn.cb_fd = conn.rpc_fd
                         /\ up[conn.rpc_fd]
    /\ ~conn.connected => conn.rpc_fd = 0 /\ conn.cb_fd = 0
    /\ \A s \in Sess : srv[s].pc # "none" => s = conn.rpc_fd

(* Callback threads read, and answer on, the channel of that session. *)
ReadersLinked ==
    /\ g_cb_running => conn.connected /\ g_cb_fd = conn.rpc_fd
    /\ \A k \in Reader : /\ reader[k].pc # "none" => g_cb_running
                         /\ reader[k].pc \notin {"none", "loop"} => reader[k].fd = g_cb_fd
    /\ \A t \in Thread : pc[t] = "start" => call[t].fd = conn.rpc_fd

(* What the bridge takes for registered has an entry in the shim's table, or *)
(* the table is full, and stays as it is.                                    *)
Known(h, table) == h \in table \/ Cardinality(table) >= MAX_CB_HANDLES
Registered ==
    /\ IsFiniteSet(g_callbacks)
    /\ \A t \in Thread :
         /\ pc[t] = "store" => call[t].kind = "register"
         /\ call[t].kind = "register" /\ pc[t] # "store" => Known(call[t].hid, g_callbacks)
    /\ \A s \in Sess :
         /\ \A i \in DOMAIN req[s] :
              req[s][i].kind = "register" => Known(req[s][i].hid, g_callbacks)
         /\ \A h \in has_callback[s] : Known(h, g_callbacks)

(* The buffer on its way is in one place: the bridge has sent it, a callback *)
(* thread has it, or the answer is on the channel.                           *)
Run(k, n) == [i \in 1..(n - k) |-> k + i]    \* the buffers after k, up to n
Heard(s, n) ==
    heard[s] = IF srv[s].hid \in g_callbacks THEN Run(skipped[s], n) ELSE <<>>
Aborted(s, ret) == aborted[s] = IF ret = "abort" THEN srv[s].made ELSE 0
Active(k) == reader[k].pc \in {"event", "user", "reply"}
NoneActive(s) == \A k \in Reader : Active(k) => reader[k].fd # s
Waits(s) ==
    /\ srv[s].pc = "wait"
    /\ srv[s].hid \in has_callback[s] \cap linked[s]
    /\ srv[s].made \in Nat \ {0}
    /\ skipped[s] < srv[s].made
Still(s) ==
    /\ srv[s].pc # "wait"
    /\ evts[s] = <<>> /\ rets[s] = <<>>
    /\ NoneActive(s)
    /\ srv[s].pc \in {"engine", "finish"} /\ srv[s].hid \in has_callback[s] =>
         /\ Heard(s, srv[s].made)
         /\ skipped[s] <= srv[s].made
         /\ srv[s].hid \in linked[s] \/ skipped[s] = srv[s].made
         /\ aborted[s] = IF srv[s].pc = "finish" THEN srv[s].made ELSE 0
Sent(s) ==
    /\ Waits(s)
    /\ evts[s] = <<[hid |-> srv[s].hid, n |-> srv[s].made]>> /\ rets[s] = <<>>
    /\ NoneActive(s)
    /\ Heard(s, srv[s].made - 1)
    /\ aborted[s] = 0
Held(s, k) ==
    /\ Waits(s)
    /\ evts[s] = <<>> /\ rets[s] = <<>>
    /\ Active(k) /\ reader[k].fd = s
    /\ reader[k].hid = srv[s].hid /\ reader[k].n = srv[s].made
    /\ \A j \in Reader : Active(j) /\ j # k => reader[j].fd # s
    /\ Heard(s, IF reader[k].pc = "event" THEN srv[s].made - 1 ELSE srv[s].made)
    /\ Aborted(s, IF reader[k].pc = "reply" THEN reader[k].ret ELSE "processed")
Replied(s) ==
    /\ Waits(s)
    /\ evts[s] = <<>>
    /\ NoneActive(s)
    /\ \E ret \in {"processed", "abort"} : rets[s] = <<ret>> /\ Aborted(s, ret)
    /\ Heard(s, srv[s].made)
InPlace(s) == Still(s) \/ Sent(s) \/ (\E k \in Reader : Held(s, k)) \/ Replied(s)

StepInv == Sound => /\ Link
                    /\ ReadersLinked
                    /\ Registered
                    /\ \A s \in Sess : InPlace(s)

-----------------------------------------------------------------------------
(* The types the proofs below look at. *)
Labels == {"idle", "store", "get_conn", "connect", "ready", "lock", "recv", "drop", "done",
           "check", "start"}
Calls == [kind : Kind, hid : Nat, back : {"ready", "check"}, fd : Sess \cup {0}]
Readers == [pc : {"none", "loop", "read", "event", "user", "reply", "ended"},
            fd : Sess \cup {0}, hid : Nat, n : Nat, ret : {"processed", "abort"}]
Servers == [pc : {"none", "read", "alloc", "engine", "wait", "finish", "down"},
            from : Thread \cup {NULL}, seq : Nat, hid : Nat, made : Nat]
Types ==
    /\ pc \in [Thread -> Labels]
    /\ call \in [Thread -> Calls]
    /\ conn \in [connected : BOOLEAN, rpc_fd : Sess \cup {0}, cb_fd : Sess \cup {0},
                 next_seq : Nat \ {0}]
    /\ reader \in [Reader -> Readers]
    /\ up \in [Sess -> BOOLEAN]
    /\ srv \in [Sess -> Servers]
    /\ req \in [Sess -> Seq(Request)]
    /\ evts \in [Sess -> Seq([hid : Nat, n : Nat])]
    /\ rets \in [Sess -> Seq({"processed", "abort"})]
    /\ handles \in [Sess -> SUBSET Nat]
    /\ has_callback \in [Sess -> SUBSET Nat]
    /\ linked \in [Sess -> SUBSET Nat]
    /\ heard \in [Sess -> Seq(Nat)]
    /\ aborted \in [Sess -> Nat]
    /\ skipped \in [Sess -> Nat]
    /\ g_cb_fd \in Sess \cup {0}
    /\ Sess \subseteq Nat \ {0}

LEMMA InvTypes == Inv => Types
<1> SUFFICES ASSUME Inv PROVE Types
  OBVIOUS
<1>1. pc \in [Thread -> Labels] /\ call \in [Thread -> Calls]
  BY DEF Inv, TypeOK, ShimTypes, Labels, Calls
<1>2. conn \in [connected : BOOLEAN, rpc_fd : Sess \cup {0}, cb_fd : Sess \cup {0},
                next_seq : Nat \ {0}]
  BY DEF Inv, TypeOK, ShimTypes
<1>3. reader \in [Reader -> Readers] /\ g_cb_fd \in Sess \cup {0}
  BY DEF Inv, TypeOK, CallbackTypes, Readers
<1>4. srv \in [Sess -> Servers]
  BY DEF Inv, TypeOK, BridgeTypes, Servers
<1>5. Sess \subseteq Nat \ {0}
  BY DEF Sess
<1> QED
  BY <1>1, <1>2, <1>3, <1>4, <1>5 DEF Inv, TypeOK, SocketTypes, BridgeTypes, Types

-----------------------------------------------------------------------------
(* The link. *)

(* A step of call t that leaves the connection as it is. *)
LEMMA LinkFrame ==
    ASSUME Types, Link, NEW t \in Thread,
           conn'.connected = conn.connected, conn'.rpc_fd = conn.rpc_fd,
           conn'.cb_fd = conn.cb_fd,
           UNCHANGED <<up, srv>>,
           \A u \in Thread \ {t} : pc'[u] = pc[u] /\ call'[u] = call[u],
           pc'[t] # "drop",
           pc'[t] \in {"lock", "recv", "done", "check", "start"} \/ call'[t].back = "check"
             => conn.connected
    PROVE  Link'
  BY DEF Link

LEMMA CallLink ==
    ASSUME Types, Link, NEW t \in Thread, CallStep(t) \/ EnterStep(t)
    PROVE  Link'
<1> USE DEF Types, Labels, Calls
<1>1. /\ pc[t] # "drop"
      /\ pc[t] \in {"lock", "recv", "done", "check", "start"} \/ call[t].back = "check"
           => conn.connected
      /\ conn.connected => Alive(conn.rpc_fd)
  BY DEF Link, Alive
<1>2. CASE EnterStep(t)
  <2>1. PICK kind \in {"new", "register", "sync", "delete"}, hid \in hands \cup {0} :
          Enter(t, kind, hid)
    BY <1>2 DEF EnterStep
  <2>2. pc'[t] \in {"store", "get_conn"} /\ call'[t].back = "ready"
    BY <2>1 DEF Enter, Goto, NoCall
  <2> QED
    BY <2>1, <2>2, LinkFrame DEF Enter, Goto, sockets, bridge
<1>3. CASE SetCallback(t)
  BY <1>1, <1>3, LinkFrame DEF SetCallback, Goto, sockets, bridge
<1>4. CASE GetConn(t)
  BY <1>1, <1>4, LinkFrame DEF GetConn, Goto, sockets, bridge
<1>5. CASE Ready(t)
  <2>1. conn' = conn /\ UNCHANGED <<up, srv>>
    BY <1>5 DEF Ready, sockets, bridge
  <2>2. CASE conn.connected
    BY <1>1, <1>5, <2>1, <2>2, LinkFrame DEF Ready, Goto
  <2>3. CASE ~conn.connected
    <3>1. pc' = [pc EXCEPT ![t] = "idle"] /\ call' = [call EXCEPT ![t] = NoCall]
      BY <1>5, <2>3 DEF Ready, Return, Goto
    <3>2. pc'[t] = "idle" /\ call'[t].back = "ready"
      BY <3>1 DEF NoCall
    <3> QED
      BY <2>1, <3>1, <3>2, LinkFrame
  <2> QED
    BY <2>2, <2>3
<1>6. CASE Send(t)
  BY <1>1, <1>6, LinkFrame DEF Send, Goto, bridge
<1>7. CASE Recv(t)
  BY <1>1, <1>7, LinkFrame DEF Recv, Goto, bridge
<1>8. CASE RecvFails(t) \/ Drop(t)
  BY <1>1, <1>8 DEF RecvFails, Drop
<1>9. CASE Done(t)
  BY <1>1, <1>9, LinkFrame DEF Done, Return, NoCall, Goto, sockets, bridge
<1>10. CASE CheckReader(t)
  BY <1>1, <1>10, LinkFrame DEF CheckReader, Return, NoCall, Goto, sockets, bridge
<1>11. CASE StartReader(t)
  BY <1>1, <1>11, LinkFrame DEF StartReader, Return, NoCall, Goto, sockets, bridge
<1>12. CASE Connect(t)
  <2>1. pc[t] = "connect" /\ pc' = [pc EXCEPT ![t] = call[t].back] /\ call' = call
    BY <1>12 DEF Connect, Goto
  <2>2. pc'[t] \in {"ready", "check"} /\ (pc'[t] = "check" => call[t].back = "check")
    BY <2>1
  <2>3. CASE conn.connected /\ UNCHANGED <<conn, up, srv>>
    BY <1>1, <2>1, <2>2, <2>3, LinkFrame
  <2>4. CASE ~conn.connected /\ UNCHANGED <<up, srv>> /\
             \E rpc \in {0, conn.rpc_fd}, cb \in {0, conn.cb_fd} :
               conn' = [conn EXCEPT !.rpc_fd = rpc, !.cb_fd = cb]
    <3>1. conn.rpc_fd = 0 /\ conn.cb_fd = 0
      BY <2>4 DEF Link
    <3>2. conn'.connected = conn.connected /\ conn'.rpc_fd = 0 /\ conn'.cb_fd = 0
      BY <2>4, <3>1
    <3> QED
      BY <1>1, <2>1, <2>2, <2>4, <3>1, <3>2, LinkFrame
  <2>5. ASSUME NEW s \in Sess, ~conn.connected,
               up' = [up EXCEPT ![s] = TRUE],
               srv' = [srv EXCEPT ![s].pc = "read"],
               conn' = [connected |-> TRUE, rpc_fd |-> s, cb_fd |-> s, next_seq |-> 1]
        PROVE  Link'
    <3>1. \A r \in Sess : srv[r].pc = "none"
      BY <2>5 DEF Link
    <3>2. \A r \in Sess : r # s => srv'[r].pc = "none"
      BY <2>5, <3>1
    <3>3. conn'.connected /\ conn'.rpc_fd = s /\ conn'.cb_fd = s /\ s # 0 /\ up'[s]
      BY <2>5
    <3>4. \A u \in Thread : pc'[u] # "drop"
      BY <2>1, <2>2 DEF Link
    <3> QED
      BY <3>2, <3>3, <3>4 DEF Link
  <2> QED
    BY <1>12, <2>3, <2>4, <2>5 DEF Connect
<1> QED
  BY <1>2, <1>3, <1>4, <1>5, <1>6, <1>7, <1>8, <1>9, <1>10, <1>11, <1>12 DEF CallStep

(* Callback threads and client threads leave the link alone. *)
LEMMA ReaderFrame ==
    ASSUME NEW k \in Reader, ReaderStep(k)
    PROVE  UNCHANGED <<shim, g_callbacks, g_cb_running, g_cb_fd, up, req, bridge, skipped>>
  BY DEF ReaderStep, BeginRead, ReadEvent, Deliver, UserReturns, SendReturn, ReaderEnds, sockets,
         history

LEMMA ReaderLink ==
    ASSUME Link, NEW k \in Reader, ReaderStep(k)
    PROVE  Link'
  BY ReaderFrame DEF Link, shim, bridge

LEMMA ServerFrame ==
    ASSUME NEW s \in Sess, ServerStep(s)
    PROVE  UNCHANGED <<shim, callback, up, crashes>>
  BY DEF ServerStep, Dispatch, StoreNoFd, Produce, TakeReturn, Finish

LEMMA ServerLink ==
    ASSUME Types, Link, NEW s \in Sess, ServerStep(s)
    PROVE  Link'
<1>1. UNCHANGED <<shim, up>>
  BY ServerFrame
<1>2. \A r \in Sess : srv'[r].pc # "none" => srv[r].pc # "none"
  <2>1. srv[s].pc # "none"
    BY DEF ServerStep, Dispatch, StoreNoFd, Produce, TakeReturn, Finish
  <2>2. \A r \in Sess : r # s => srv'[r] = srv[r]
    BY DEF Types, ServerStep, Dispatch, ServeNew, ServeRegister, ServeDelete, ServeSync,
           StoreNoFd, Produce, TakeReturn, Finish
  <2> QED
    BY <2>1, <2>2
<1> QED
  BY <1>1, <1>2 DEF Link, shim

-----------------------------------------------------------------------------
(* The callback threads' channel. *)
LEMMA CallReadersLinked ==
    ASSUME Types, Link, ReadersLinked, NEW t \in Thread, CallStep(t) \/ EnterStep(t)
    PROVE  ReadersLinked'
<1> USE DEF Types, Labels, Calls
<1>1. conn.connected =>
        conn'.connected /\ conn'.rpc_fd = conn.rpc_fd /\ conn'.cb_fd = conn.cb_fd
  BY DEF Link, CallStep, EnterStep, Enter, SetCallback, GetConn, Connect, Ready, Send, Recv,
         RecvFails, Drop, Done, CheckReader, StartReader
<1>2. \A u \in Thread \ {t} : pc'[u] = pc[u] /\ call'[u] = call[u]
  BY DEF CallStep, EnterStep, Enter, SetCallback, GetConn, Connect, Ready, Send, Recv,
         RecvFails, Drop, Done, CheckReader, StartReader, Return, Goto
<1>3. ASSUME NEW u \in Thread, pc'[u] = "start"
      PROVE  call'[u].fd = conn'.rpc_fd
  <2>1. CASE u # t
    <3>1. pc[u] = "start" /\ call'[u] = call[u]
      BY <1>2, <1>3, <2>1
    <3> QED
      BY <1>1, <3>1 DEF Link, ReadersLinked
  <2>2. CASE u = t /\ CheckReader(t)
    <3>1. pc[t] = "check" /\ conn' = conn
      BY <2>2 DEF CheckReader
    <3>2. call' = [call EXCEPT ![t].fd = conn.cb_fd]
      BY <1>3, <2>2 DEF CheckReader, Return, Goto
    <3> QED
      BY <2>2, <3>1, <3>2 DEF Link
  <2>3. CASE u = t /\ ~CheckReader(t)
    <3>1. \A back \in {"ready", "check"} : back # "start"
      OBVIOUS
    <3>2. call[t].back # "start"
      BY <3>1
    <3> QED
      BY <1>3, <2>3, <3>2 DEF CallStep, EnterStep, Enter, SetCallback, GetConn, Connect, Ready,
         Send, Recv, RecvFails, Drop, Done, StartReader, Return, Goto
  <2> QED
    BY <2>1, <2>2, <2>3
<1>4. CASE StartReader(t)
  <2>1. PICK k \in Reader : reader[k].pc = "none" /\ reader' = [reader EXCEPT ![k].pc = "loop"]
    BY <1>4 DEF StartReader
  <2>2. \A j \in Reader : j # k => reader'[j] = reader[j]
    BY <2>1
  <2>3. reader'[k].pc = "loop"
    BY <2>1
  <2>4. pc[t] = "start" /\ g_cb_running' /\ g_cb_fd' = call[t].fd /\ conn' = conn
    BY <1>4 DEF StartReader
  <2>5. conn.connected /\ g_cb_fd' = conn.rpc_fd
    BY <2>4 DEF Link, ReadersLinked
  <2>6. \A j \in Reader : reader'[j].pc \notin {"none", "loop"} => reader'[j].fd = g_cb_fd'
    <3>1. \A j \in Reader : reader[j].pc \notin {"none", "loop"} => reader[j].fd = conn.rpc_fd
      BY DEF ReadersLinked
    <3> QED
      BY <2>2, <2>3, <2>5, <3>1
  <2> QED
    BY <1>3, <2>4, <2>5, <2>6 DEF ReadersLinked
<1>5. CASE ~StartReader(t)
  <2>1. UNCHANGED <<g_cb_running, g_cb_fd, reader>>
    BY <1>5 DEF CallStep, EnterStep, Enter, SetCallback, GetConn, Connect, Ready, Send, Recv,
         RecvFails, Drop, Done, CheckReader, callback
  <2> QED
    BY <1>1, <1>3, <2>1 DEF ReadersLinked
<1> QED
  BY <1>4, <1>5

LEMMA ReaderReadersLinked ==
    ASSUME Types, ReadersLinked, NEW k \in Reader, ReaderStep(k)
    PROVE  ReadersLinked'
<1>1. UNCHANGED <<shim, g_cb_running, g_cb_fd>>
  BY ReaderFrame
<1>2. reader[k].pc # "none"
  BY DEF ReaderStep, BeginRead, ReadEvent, Deliver, UserReturns, SendReturn, ReaderEnds
<1>3. \A j \in Reader : j # k => reader'[j] = reader[j]
  BY DEF Types, ReaderStep, BeginRead, ReadEvent, Deliver, UserReturns, SendReturn, ReaderEnds
<1>4. reader'[k].pc \notin {"none", "loop"} => reader'[k].fd = g_cb_fd
  <2>1. CASE BeginRead(k)
    BY <2>1 DEF Types, Readers, BeginRead
  <2>2. CASE ~BeginRead(k) /\ ~SendReturn(k)
    <3>1. reader[k].pc \notin {"none", "loop"}
      BY <2>2 DEF ReaderStep, ReadEvent, Deliver, UserReturns, ReaderEnds
    <3>2. reader \in [Reader -> Readers]
      BY DEF Types
    <3>3. CASE ReadEvent(k) \/ ReaderEnds(k)
      BY <3>1, <3>2, <3>3 DEF Readers, ReadersLinked, ReadEvent, ReaderEnds
    <3>4. CASE Deliver(k)
      <4>1. \/ reader' = [reader EXCEPT ![k].pc = "user"]
            \/ reader' = [reader EXCEPT ![k] = [@ EXCEPT !.pc = "reply", !.ret = "processed"]]
        BY <3>4 DEF Deliver
      <4>2. reader'[k].fd = reader[k].fd
        BY <3>2, <4>1 DEF Readers
      <4> QED
        BY <3>1, <4>2 DEF ReadersLinked
    <3>5. CASE \E ret \in {"processed", "abort"} : UserReturns(k, ret)
      BY <3>1, <3>2, <3>5 DEF Readers, ReadersLinked, UserReturns
    <3> QED
      BY <2>2, <3>3, <3>4, <3>5 DEF ReaderStep
  <2>3. CASE SendReturn(k)
    BY <2>3 DEF Types, Readers, SendReturn
  <2> QED
    BY <2>1, <2>2, <2>3
<1> QED
  BY <1>1, <1>2, <1>3, <1>4 DEF ReadersLinked, shim

LEMMA ServerReadersLinked ==
    ASSUME ReadersLinked, NEW s \in Sess, ServerStep(s)
    PROVE  ReadersLinked'
  BY ServerFrame DEF ReadersLinked, shim, callback

-----------------------------------------------------------------------------
(* The callback table. *)

LEMMA CallCrashes ==
    ASSUME NEW t \in Thread, CallStep(t) \/ EnterStep(t)
    PROVE  crashes' = crashes
BY DEF CallStep, EnterStep, Enter, SetCallback, GetConn, Connect, Ready, Send, Recv,
       RecvFails, Drop, Done, CheckReader, StartReader, bridge

(* The table never loses an entry, and once full it stays as it is. *)
LEMMA CallTable ==
    ASSUME IsFiniteSet(g_callbacks), NEW t \in Thread, CallStep(t) \/ EnterStep(t)
    PROVE  /\ IsFiniteSet(g_callbacks')
           /\ \A h : Known(h, g_callbacks) =>
                    /\ Known(h, g_callbacks')
                    /\ h \in g_callbacks' <=> h \in g_callbacks
<1>1. CASE g_callbacks' = g_callbacks
  BY <1>1
<1>2. CASE g_callbacks' # g_callbacks
  <2>1. SetCallback(t)
    BY <1>2 DEF CallStep, EnterStep, Enter, GetConn, Connect, Ready, Send, Recv, RecvFails,
         Drop, Done, CheckReader, StartReader, callback
  <2>2. /\ Cardinality(g_callbacks) < MAX_CB_HANDLES
        /\ g_callbacks' = g_callbacks \cup {call[t].hid}
    BY <1>2, <2>1 DEF SetCallback
  <2>3. IsFiniteSet(g_callbacks')
    BY <2>2, FS_AddElement
  <2>4. Cardinality(g_callbacks) \in Nat /\ MAX_CB_HANDLES \in Nat
    BY FS_CardinalityType, BoundAssumption
  <2>5. \A h : Known(h, g_callbacks) => h \in g_callbacks
    BY <2>2, <2>4 DEF Known
  <2> QED
    BY <2>2, <2>3, <2>5 DEF Known
<1> QED
  BY <1>1, <1>2

(* shim_set_callback stores, or the table is full. *)
LEMMA Stored ==
    ASSUME IsFiniteSet(g_callbacks), NEW t \in Thread, SetCallback(t)
    PROVE  Known(call[t].hid, g_callbacks')
<1>1. Cardinality(g_callbacks) \in Nat /\ MAX_CB_HANDLES \in Nat
  BY FS_CardinalityType, BoundAssumption
<1>2. CASE Cardinality(g_callbacks) < MAX_CB_HANDLES
  BY <1>2 DEF SetCallback, Known
<1>3. CASE ~(Cardinality(g_callbacks) < MAX_CB_HANDLES)
  <2>1. g_callbacks' = g_callbacks /\ Cardinality(g_callbacks) >= MAX_CB_HANDLES
    BY <1>1, <1>3 DEF SetCallback
  <2> QED
    BY <2>1 DEF Known
<1> QED
  BY <1>2, <1>3

(* What is on a channel after a message was written: that, or what was. *)
LEMMA AppendItems ==
    ASSUME NEW M, NEW q \in Seq(M), NEW m \in M
    PROVE  \A i \in DOMAIN Append(q, m) :
             Append(q, m)[i] = m \/ (i \in DOMAIN q /\ Append(q, m)[i] = q[i])
<1>1. /\ Len(q) \in Nat /\ DOMAIN q = 1..Len(q)
      /\ DOMAIN Append(q, m) = 1..Len(Append(q, m))
  BY AppendProperties, LenProperties
<1>2. /\ Len(Append(q, m)) = Len(q) + 1
      /\ \A i \in 1..Len(q) : Append(q, m)[i] = q[i]
      /\ Append(q, m)[Len(q) + 1] = m
  BY AppendProperties
<1>3. \A i \in 1..(Len(q) + 1) : i \in 1..Len(q) \/ i = Len(q) + 1
  BY <1>1
<1> QED
  BY <1>1, <1>2, <1>3

LEMMA CallRegistered ==
    ASSUME Types, Registered, NEW t \in Thread, CallStep(t) \/ EnterStep(t)
    PROVE  Registered'
<1> USE DEF Types, Labels, Calls
<1>1. /\ IsFiniteSet(g_callbacks')
      /\ \A h : Known(h, g_callbacks) => Known(h, g_callbacks')
  BY CallTable DEF Registered
<1>2. \A u \in Thread \ {t} : pc'[u] = pc[u] /\ call'[u] = call[u]
  BY DEF CallStep, EnterStep, Enter, SetCallback, GetConn, Connect, Ready, Send, Recv,
         RecvFails, Drop, Done, CheckReader, StartReader, Return, Goto
<1>3. /\ pc'[t] = "store" => call'[t].kind = "register"
      /\ call'[t].kind = "register" /\ pc'[t] # "store" => Known(call'[t].hid, g_callbacks')
  <2>1. CASE EnterStep(t)
    <3>1. PICK kind \in {"new", "register", "sync", "delete"}, hid \in hands \cup {0} :
            Enter(t, kind, hid)
      BY <2>1 DEF EnterStep
    <3>2. pc'[t] = (IF kind = "register" THEN "store" ELSE "get_conn")
      BY <3>1 DEF Enter, Goto
    <3>3. call'[t].kind = kind
      BY <3>1 DEF Enter, NoCall
    <3> QED
      BY <3>2, <3>3
  <2>2. CASE SetCallback(t)
    <3>1. pc'[t] = "get_conn" /\ call' = call
      BY <2>2 DEF SetCallback, Goto
    <3>2. Known(call[t].hid, g_callbacks')
      BY <2>2, Stored DEF Registered
    <3>3. pc[t] = "store" /\ call[t].kind = "register"
      BY <2>2 DEF SetCallback, Registered
    <3> QED
      BY <3>1, <3>2, <3>3
  <2>3. CASE CallStep(t) /\ ~SetCallback(t)
    <3>1. pc[t] # "store"
      BY <2>3 DEF CallStep, GetConn, Connect, Ready, Send, Recv, RecvFails, Drop, Done,
           CheckReader, StartReader
    <3>2. pc'[t] # "store"
      <4>1. \A back \in {"ready", "check"} : back # "store"
        OBVIOUS
      <4>2. call[t].back # "store"
        BY <4>1
      <4> QED
        BY <2>3, <4>2 DEF CallStep, GetConn, Connect, Ready, Send, Recv, RecvFails, Drop, Done,
           CheckReader, StartReader, Return, Goto
    <3>3. \/ call'[t].kind = call[t].kind /\ call'[t].hid = call[t].hid
          \/ call'[t].kind = "none"
      <4>1. \/ call' = call
            \/ call' = [call EXCEPT ![t] = NoCall]
            \/ call' = [call EXCEPT ![t].back = "check"]
            \/ call' = [call EXCEPT ![t].fd = conn.cb_fd]
        BY <2>3 DEF CallStep, GetConn, Connect, Ready, Send, Recv, RecvFails, Drop, Done,
             CheckReader, StartReader, Return
      <4>2. call' = [call EXCEPT ![t] = NoCall] => call'[t].kind = "none"
        BY DEF NoCall
      <4>3. call' = [call EXCEPT ![t].back = "check"] =>
              call'[t].kind = call[t].kind /\ call'[t].hid = call[t].hid
        OBVIOUS
      <4>4. call' = [call EXCEPT ![t].fd = conn.cb_fd] =>
              call'[t].kind = call[t].kind /\ call'[t].hid = call[t].hid
        OBVIOUS
      <4> QED
        BY <4>1, <4>2, <4>3, <4>4
    <3> QED
      BY <1>1, <3>1, <3>2, <3>3 DEF Registered
  <2> QED
    BY <2>1, <2>2, <2>3
<1>4. ASSUME NEW s \in Sess
      PROVE  /\ \A i \in DOMAIN req'[s] :
                  req'[s][i].kind = "register" => Known(req'[s][i].hid, g_callbacks')
             /\ \A h \in has_callback'[s] : Known(h, g_callbacks')
  <2>1. has_callback' = has_callback
    BY DEF CallStep, EnterStep, Enter, SetCallback, GetConn, Connect, Ready, Send, Recv,
         RecvFails, Drop, Done, CheckReader, StartReader, bridge
  <2>2. CASE req' = req
    BY <1>1, <2>1, <2>2 DEF Registered
  <2>3. CASE req' # req
    <3>1. Send(t)
      BY <2>3 DEF CallStep, EnterStep, Enter, SetCallback, GetConn, Connect, Ready, Recv,
         RecvFails, Drop, Done, CheckReader, StartReader, sockets
    <3> DEFINE m == [from |-> t, seq |-> conn.next_seq, kind |-> call[t].kind,
                     hid |-> call[t].hid]
    <3>2. req' = [req EXCEPT ![conn.rpc_fd] = Append(@, m)]
      BY <2>3, <3>1 DEF Send, Push
    <3>3. m.kind = "register" => Known(m.hid, g_callbacks')
      BY <1>1, <3>1 DEF Send, Registered
    <3>4. m \in Request
      BY DEF Request
    <3> HIDE DEF m
    <3>5. req'[s] = req[s] \/ req'[s] = Append(req[s], m)
      BY <3>2
    <3>6. req[s] \in Seq(Request)
      OBVIOUS
    <3>7. \A i \in DOMAIN Append(req[s], m) :
            Append(req[s], m)[i] = m \/ (i \in DOMAIN req[s] /\ Append(req[s], m)[i] = req[s][i])
      BY ONLY <3>4, <3>6, AppendItems
    <3>8. \A i \in DOMAIN req[s] :
            req[s][i].kind = "register" => Known(req[s][i].hid, g_callbacks')
      BY <1>1 DEF Registered
    <3>9. \A i \in DOMAIN req'[s] : req'[s][i] = m \/ (i \in DOMAIN req[s] /\ req'[s][i] = req[s][i])
      BY <3>5, <3>7
    <3>10. \A h \in has_callback'[s] : Known(h, g_callbacks')
      BY <1>1, <2>1 DEF Registered
    <3>11. \A i \in DOMAIN req'[s] :
             req'[s][i].kind = "register" => Known(req'[s][i].hid, g_callbacks')
      BY ONLY <3>3, <3>8, <3>9
    <3> QED
      BY ONLY <3>10, <3>11
  <2> QED
    BY <2>2, <2>3
<1> QED
  BY <1>1, <1>2, <1>3, <1>4 DEF Registered

LEMMA ServerRegistered ==
    ASSUME Types, Registered, NEW s \in Sess, ServerStep(s)
    PROVE  Registered'
<1> USE DEF Types
<1>1. UNCHANGED <<pc, call, g_callbacks>>
  BY ServerFrame DEF shim, callback
<1>2. CASE Dispatch(s)
  <2>1. req[s] # <<>> /\ req' = [req EXCEPT ![s] = Tail(@)]
    BY <1>2 DEF Dispatch, Pop
  <2>2. req[s] \in Seq(Request)
    OBVIOUS
  <2>3. ASSUME NEW i \in DOMAIN req'[s], req'[s][i].kind = "register"
        PROVE  Known(req'[s][i].hid, g_callbacks)
    <3>1. req'[s] = Tail(req[s])
      BY <2>1
    <3>2. i + 1 \in DOMAIN req[s] /\ Tail(req[s])[i] = req[s][i + 1]
      BY <2>1, <2>2, <2>3, <3>1, HeadTailProperties
    <3> QED
      BY <2>3, <3>1, <3>2 DEF Registered
  <2>4. Head(req[s]).kind = "register" => Known(Head(req[s]).hid, g_callbacks)
    <3>1. 1 \in DOMAIN req[s] /\ Head(req[s]) = req[s][1]
      BY <2>1, <2>2
    <3> QED
      BY <3>1 DEF Registered
  <2>5. \A r \in Sess : \A h \in has_callback'[r] : Known(h, g_callbacks)
    <3>1. \A r \in Sess : \A h \in has_callback[r] : Known(h, g_callbacks)
      BY DEF Registered
    <3>2. CASE ServeRegister(s, Head(req[s]))
      BY <2>4, <3>1, <3>2 DEF ServeRegister
    <3>3. CASE ServeDelete(s, Head(req[s]))
      BY <3>1, <3>3 DEF ServeDelete
    <3>4. CASE ServeNew(s, Head(req[s])) \/ ServeSync(s, Head(req[s]))
      BY <3>1, <3>4 DEF ServeNew, ServeSync
    <3> QED
      BY <1>2, <3>2, <3>3, <3>4 DEF Dispatch
  <2>6. \A r \in Sess : r # s => req'[r] = req[r]
    BY <2>1
  <2> QED
    BY <1>1, <2>3, <2>5, <2>6 DEF Registered
<1>3. CASE ~Dispatch(s)
  <2>1. UNCHANGED <<req, has_callback>>
    BY <1>3 DEF ServerStep, StoreNoFd, Produce, TakeReturn, Finish
  <2> QED
    BY <1>1, <2>1 DEF Registered
<1> QED
  BY <1>2, <1>3

LEMMA ReaderRegistered ==
    ASSUME Registered, NEW k \in Reader, ReaderStep(k)
    PROVE  Registered'
  BY ReaderFrame DEF Registered, shim, bridge

-----------------------------------------------------------------------------
(* The buffer on its way. *)

(* A step that leaves session s, and what callback threads have of it, alone. *)
LEMMA PlaceFrame ==
    ASSUME NEW s \in Sess, InPlace(s),
           srv'[s] = srv[s], evts'[s] = evts[s], rets'[s] = rets[s],
           heard'[s] = heard[s], aborted'[s] = aborted[s], skipped'[s] = skipped[s],
           has_callback'[s] = has_callback[s], linked[s] \subseteq linked'[s],
           srv[s].hid \in has_callback[s] =>
             (srv[s].hid \in g_callbacks' <=> srv[s].hid \in g_callbacks),
           \A k \in Reader : \/ reader'[k] = reader[k]
                             \/ /\ ~(Active(k) /\ reader[k].fd = s)
                                /\ ~(Active(k) /\ reader[k].fd = s)'
    PROVE  InPlace(s)'
<1>1. NoneActive(s) => NoneActive(s)'
  BY DEF NoneActive, Active
<1>2. CASE Still(s)
  BY <1>1, <1>2 DEF InPlace, Still, Heard
<1>3. CASE Sent(s)
  BY <1>1, <1>3 DEF InPlace, Sent, Waits, Heard
<1>4. CASE Replied(s)
  BY <1>1, <1>4 DEF InPlace, Replied, Waits, Heard, Aborted
<1>5. ASSUME NEW k \in Reader, Held(s, k)
      PROVE  Held(s, k)'
  <2>1. reader'[k] = reader[k]
    BY <1>5 DEF Held
  <2>2. \A j \in Reader : (Active(j) /\ j # k => reader[j].fd # s)'
    BY <1>5 DEF Held, Active
  <2> QED
    BY <1>5, <2>1, <2>2 DEF Held, Waits, Heard, Aborted, Active
<1> QED
  BY <1>2, <1>3, <1>4, <1>5 DEF InPlace

(* Whoever has a buffer of session s is the one that holds it. *)
LEMMA Holder ==
    ASSUME NEW s \in Sess, InPlace(s), NEW k \in Reader, Active(k), reader[k].fd = s
    PROVE  Held(s, k)
  BY DEF InPlace, Still, Sent, Replied, NoneActive, Held

(* The buffers from the one after k to n, one more at a time. *)
LEMMA CountNone ==
    ASSUME NEW k \in Nat
    PROVE  <<>> = Run(k, k)
  BY DEF Run

LEMMA CountUp ==
    ASSUME NEW n \in Nat, NEW k \in 0..(n - 1)
    PROVE  Append(Run(k, n - 1), n) = Run(k, n)
<1> DEFINE c == [i \in 1..(n - 1 - k) |-> k + i]
           d == [i \in 1..(n - k) |-> k + i]
<1>0. k \in Nat /\ n - k \in Nat \ {0} /\ n - 1 - k \in Nat /\ (n - 1 - k) + 1 = n - k
      /\ k + (n - k) = n
  OBVIOUS
<1>1. c \in Seq(Nat) /\ Len(c) = n - 1 - k /\ d \in Seq(Nat) /\ Len(d) = n - k
  BY <1>0
<1>2. \A i \in 1..(n - 1 - k) : c[i] = k + i
  OBVIOUS
<1>3. \A i \in 1..(n - k) : d[i] = k + i
  OBVIOUS
<1> HIDE DEF c, d
<1>4. /\ Append(c, n) \in Seq(Nat) /\ Len(Append(c, n)) = n - k
      /\ \A i \in 1..(n - 1 - k) : Append(c, n)[i] = c[i]
      /\ Append(c, n)[n - k] = n
  BY <1>0, <1>1, AppendProperties
<1>5. \A i \in 1..(n - k) : Append(c, n)[i] = d[i]
  <2> TAKE i \in 1..(n - k)
  <2>1. CASE i = n - k
    BY <1>0, <1>3, <1>4, <2>1
  <2>2. CASE i # n - k
    <3>1. i \in 1..(n - 1 - k)
      BY <1>0, <2>2
    <3> QED
      BY <1>2, <1>3, <1>4, <3>1
  <2> QED
    BY <2>1, <2>2
<1>6. Append(c, n) = d
  BY <1>1, <1>4, <1>5, SeqEqual
<1> QED
  BY <1>6 DEF c, d, Run

(* One message, written and read. *)
LEMMA Single ==
    ASSUME NEW m
    PROVE  /\ Append(<<>>, m) = <<m>> /\ <<m>> # <<>>
           /\ Head(<<m>>) = m /\ Tail(<<m>>) = <<>>
  OBVIOUS

(* A call makes sessions and callback threads, and leaves the rest alone. *)
LEMMA CallPlace ==
    ASSUME Types, Registered, NEW t \in Thread, CallStep(t) \/ EnterStep(t),
           NEW s \in Sess, InPlace(s)
    PROVE  InPlace(s)'
<1>0. UNCHANGED <<evts, rets, heard, aborted, skipped, has_callback, linked>>
  BY DEF CallStep, EnterStep, Enter, SetCallback, GetConn, Connect, Ready, Send, Recv,
         RecvFails, Drop, Done, CheckReader, StartReader, sockets, bridge, history
<1>4. srv[s].hid \in has_callback[s] =>
        (srv[s].hid \in g_callbacks' <=> srv[s].hid \in g_callbacks)
  BY CallTable DEF Registered
<1>1. /\ UNCHANGED <<evts, rets, heard, aborted, skipped, has_callback, linked>>
      /\ srv[s].hid \in has_callback[s] =>
           (srv[s].hid \in g_callbacks' <=> srv[s].hid \in g_callbacks)
  BY <1>0, <1>4
<1>2. CASE StartReader(t)
  <2>1. PICK k \in Reader : reader[k].pc = "none" /\ reader' = [reader EXCEPT ![k].pc = "loop"]
    BY <1>2 DEF StartReader
  <2>2. \A j \in Reader : j # k => reader'[j] = reader[j]
    BY <2>1 DEF Types
  <2>3. reader'[k].pc = "loop"
    BY <2>1 DEF Types
  <2>4. srv' = srv
    BY <1>2 DEF StartReader, bridge
  <2> QED
    BY <1>1, <2>1, <2>2, <2>3, <2>4, PlaceFrame DEF Active
<1>3. CASE ~StartReader(t)
  <2>1. reader' = reader
    BY <1>3 DEF CallStep, EnterStep, Enter, SetCallback, GetConn, Connect, Ready, Send, Recv,
         RecvFails, Drop, Done, CheckReader, callback
  <2>2. CASE srv' = srv
    BY <1>1, <2>1, <2>2, PlaceFrame
  <2>3. CASE srv' # srv
    <3>1. Connect(t)
      BY <1>3, <2>3 DEF CallStep, EnterStep, Enter, SetCallback, GetConn, Ready, Send, Recv,
           RecvFails, Drop, Done, CheckReader, bridge
    <3>2. PICK r \in Sess : srv[r].pc = "none" /\ srv' = [srv EXCEPT ![r].pc = "read"]
      BY <2>3, <3>1 DEF Connect, IsNewSession
    <3>3. CASE s # r
      <4>1. srv'[s] = srv[s]
        BY <3>2, <3>3 DEF Types
      <4> QED
        BY <1>1, <2>1, <4>1, PlaceFrame
    <3>4. CASE s = r
      <4>1. Still(s)
        BY <3>2, <3>4 DEF InPlace, Sent, Held, Replied, Waits
      <4>2. srv'[s].pc = "read"
        BY <3>2, <3>4 DEF Types
      <4>3. NoneActive(s)'
        BY <2>1, <4>1 DEF Still, NoneActive, Active
      <4> QED
        BY <1>1, <4>1, <4>2, <4>3 DEF InPlace, Still
    <3> QED
      BY <3>3, <3>4
  <2> QED
    BY <2>2, <2>3
<1> QED
  BY <1>2, <1>3

(* A callback thread passes one buffer of its session on: read, given to the *)
(* host's callback, answered.                                                *)
LEMMA ReaderPlace ==
    ASSUME Inv, Types, Link, ReadersLinked, Registered, NEW k \in Reader, ReaderStep(k),
           \A s \in Sess : InPlace(s),
           NEW s \in Sess
    PROVE  InPlace(s)'
<1> DEFINE f == reader[k].fd
<1>1. UNCHANGED <<srv, has_callback, linked, g_callbacks, skipped>>
  BY ReaderFrame DEF bridge
<1>2. reader \in [Reader -> Readers] /\ reader[k] \in Readers
  BY DEF Types
<1>3. \A j \in Reader : j # k => reader'[j] = reader[j]
  BY <1>2 DEF ReaderStep, BeginRead, ReadEvent, Deliver, UserReturns, SendReturn, ReaderEnds
<1>4. CASE BeginRead(k)
  <2>1. ~Active(k) /\ ~Active(k)'
    BY <1>2, <1>4 DEF BeginRead, Active
  <2>2. UNCHANGED <<evts, rets, heard, aborted>>
    BY <1>4 DEF BeginRead, sockets, history
  <2> QED
    BY <1>1, <1>3, <2>1, <2>2, PlaceFrame
<1>5. CASE ReaderEnds(k)
  <2>1. ~Active(k) /\ ~Active(k)'
    BY <1>2, <1>5 DEF ReaderEnds, Active
  <2>2. UNCHANGED <<evts, rets, heard, aborted>>
    BY <1>5 DEF ReaderEnds, sockets, history
  <2> QED
    BY <1>1, <1>3, <2>1, <2>2, PlaceFrame
<1>6. CASE ~BeginRead(k) /\ ~ReaderEnds(k)
  <2>1. reader[k].pc \notin {"none", "loop"}
    BY <1>6 DEF ReaderStep, ReadEvent, Deliver, UserReturns, SendReturn
  <2>2. f \in Sess /\ f = g_cb_fd
    BY <1>2, <2>1 DEF Inv, ChannelDiscipline, CallbackFds, ReadersLinked, Readers
  <2>3. reader'[k].fd = f
    <3>1. CASE ReadEvent(k)
      BY <1>2, <3>1 DEF ReadEvent, Readers
    <3>2. CASE Deliver(k)
      <4>1. \/ reader' = [reader EXCEPT ![k].pc = "user"]
            \/ reader' = [reader EXCEPT ![k] = [@ EXCEPT !.pc = "reply", !.ret = "processed"]]
        BY <3>2 DEF Deliver
      <4> QED
        BY <1>2, <4>1 DEF Readers
    <3>3. ASSUME NEW ret \in {"processed", "abort"}, UserReturns(k, ret)
          PROVE  reader'[k].fd = f
      BY <1>2, <3>3 DEF UserReturns, Readers
    <3>4. CASE SendReturn(k)
      BY <1>2, <3>4 DEF SendReturn, Readers
    <3> QED
      BY <1>6, <3>1, <3>2, <3>3, <3>4 DEF ReaderStep
  <2>4. CASE s # f
    <3>1. evts'[s] = evts[s] /\ rets'[s] = rets[s]
      BY <1>6, <2>2, <2>4 DEF ReaderStep, ReadEvent, Deliver, UserReturns, SendReturn, Push, Pop,
                              sockets, Types
    <3>2. heard'[s] = heard[s] /\ aborted'[s] = aborted[s]
      BY <1>6, <2>2, <2>4 DEF ReaderStep, ReadEvent, Deliver, UserReturns, SendReturn, history,
                              Types
    <3> QED
      BY <1>1, <1>3, <2>3, <2>4, <3>1, <3>2, PlaceFrame
  <2>5. CASE s = f
    <3>1. CASE ReadEvent(k)
      <4>1. ~Active(k) /\ evts[s] # <<>>
        BY <2>5, <3>1 DEF ReadEvent, Active
      <4>2. Sent(s)
        BY <4>1 DEF InPlace, Still, Held, Replied
      <4> DEFINE e == [hid |-> srv[s].hid, n |-> srv[s].made]
      <4>3. evts[s] = <<e>>
        BY <4>2 DEF Sent
      <4>4. Head(evts[s]) = e /\ Tail(evts[s]) = <<>>
        BY <4>3
      <4>5. /\ reader' = [reader EXCEPT ![k] =
                            [@ EXCEPT !.pc = "event", !.hid = e.hid, !.n = e.n]]
            /\ evts' = [evts EXCEPT ![s] = <<>>]
        BY <2>5, <3>1, <4>4 DEF ReadEvent, Pop
      <4>6. reader'[k].pc = "event" /\ reader'[k].hid = srv[s].hid /\ reader'[k].n = srv[s].made
        BY <1>2, <4>5 DEF Readers
      <4>7. evts'[s] = <<>>
        BY <4>5 DEF Types
      <4>8. UNCHANGED <<rets, heard, aborted>>
        BY <3>1 DEF ReadEvent, history
      <4>9. \A j \in Reader : (Active(j) /\ j # k => reader[j].fd # s)'
        BY <1>3, <4>2 DEF Sent, NoneActive, Active
      <4>10. Held(s, k)'
        BY <1>1, <2>3, <2>5, <4>2, <4>6, <4>7, <4>8, <4>9
           DEF Sent, Held, Waits, Heard, Aborted, Active
      <4> QED
        BY <4>10 DEF InPlace
    <3>2. CASE ~ReadEvent(k)
      <4>1. Active(k)
        BY <1>6, <3>2 DEF ReaderStep, Deliver, UserReturns, SendReturn, Active
      <4>2. Held(s, k)
        BY <2>5, <4>1, Holder
      <4>3. \A j \in Reader : (Active(j) /\ j # k => reader[j].fd # s)'
        BY <1>3, <4>2 DEF Held, Active
      <4>4. evts' = evts
        BY <1>6, <3>2 DEF ReaderStep, Deliver, UserReturns, SendReturn, sockets
      <4>5. CASE Deliver(k)
        <5>1. reader[k].pc = "event" /\ UNCHANGED <<rets, aborted>>
          BY <4>5 DEF Deliver, sockets
        <5>2. /\ reader[k].n = srv[s].made /\ reader[k].hid = srv[s].hid
              /\ Heard(s, srv[s].made - 1) /\ aborted[s] = 0
          BY <4>2, <5>1 DEF Held, Aborted
        <5>3. srv[s].made \in Nat /\ skipped[s] \in 0..(srv[s].made - 1)
          <6>1. srv[s].made \in Nat \ {0} /\ skipped[s] \in Nat /\ skipped[s] < srv[s].made
            BY <4>2 DEF Held, Waits, Types
          <6> QED
            BY <6>1
        <5>4. CASE reader[k].hid \in g_callbacks
          <6>1. /\ reader' = [reader EXCEPT ![k].pc = "user"]
                /\ heard' = [heard EXCEPT ![s] = Append(@, reader[k].n)]
            BY <2>5, <4>5, <5>4 DEF Deliver
          <6>2. reader'[k] = [reader[k] EXCEPT !.pc = "user"]
            BY <1>2, <6>1
          <6>3. /\ reader'[k].pc = "user" /\ reader'[k].hid = reader[k].hid
                /\ reader'[k].n = reader[k].n
            BY <1>2, <6>2 DEF Readers
          <6>4. heard[s] = Run(skipped[s], srv[s].made - 1)
            BY <5>2, <5>4 DEF Heard
          <6>5. heard'[s] = Run(skipped[s], srv[s].made)
            <7>1. heard'[s] = Append(heard[s], srv[s].made)
              BY <5>2, <6>1 DEF Types
            <7>2. Append(Run(skipped[s], srv[s].made - 1), srv[s].made) = Run(skipped[s], srv[s].made)
              BY <5>3, CountUp
            <7> QED
              BY <6>4, <7>1, <7>2
          <6>6. Heard(s, srv[s].made)'
            BY <1>1, <5>2, <5>4, <6>5 DEF Heard
          <6>7. Held(s, k)'
            BY <1>1, <2>3, <2>5, <4>2, <4>3, <4>4, <5>1, <6>3, <6>6
               DEF Held, Waits, Aborted, Active
          <6> QED
            BY <6>7 DEF InPlace
        <5>5. CASE reader[k].hid \notin g_callbacks
          <6>1. /\ reader' = [reader EXCEPT ![k] = [@ EXCEPT !.pc = "reply", !.ret = "processed"]]
                /\ heard' = heard
            BY <4>5, <5>5 DEF Deliver
          <6>2. reader'[k] = [reader[k] EXCEPT !.pc = "reply", !.ret = "processed"]
            BY <1>2, <6>1
          <6>3. /\ reader'[k].pc = "reply" /\ reader'[k].ret = "processed"
                /\ reader'[k].hid = reader[k].hid /\ reader'[k].n = reader[k].n
            BY <1>2, <6>2 DEF Readers
          <6>4. heard'[s] = <<>>
            BY <5>2, <5>5, <6>1 DEF Heard
          <6>5. Heard(s, srv[s].made)'
            BY <1>1, <5>2, <5>5, <6>4 DEF Heard
          <6>6. Held(s, k)'
            BY <1>1, <2>3, <2>5, <4>2, <4>3, <4>4, <5>1, <5>2, <6>3, <6>5
               DEF Held, Waits, Aborted, Active
          <6> QED
            BY <6>6 DEF InPlace
        <5> QED
          BY <5>4, <5>5
      <4>6. ASSUME NEW ret \in {"processed", "abort"}, UserReturns(k, ret)
            PROVE  InPlace(s)'
        <5>1. reader[k].pc = "user" /\ UNCHANGED <<rets, heard>>
          BY <4>6 DEF UserReturns, sockets
        <5>2. reader' = [reader EXCEPT ![k] = [@ EXCEPT !.pc = "reply", !.ret = ret]]
          BY <4>6 DEF UserReturns
        <5>3. /\ reader'[k].pc = "reply" /\ reader'[k].ret = ret
              /\ reader'[k].hid = reader[k].hid /\ reader'[k].n = reader[k].n
          BY <1>2, <5>2 DEF Readers
        <5>4. aborted'[s] = IF ret = "abort" THEN srv[s].made ELSE 0
          BY <2>5, <4>2, <4>6, <5>1 DEF UserReturns, Held, Aborted, Types
        <5>5. Heard(s, srv[s].made)
          BY <4>2, <5>1 DEF Held
        <5>6. Held(s, k)'
          BY <1>1, <2>3, <2>5, <4>2, <4>3, <4>4, <5>1, <5>3, <5>4, <5>5
             DEF Held, Waits, Heard, Aborted, Active
        <5> QED
          BY <5>6 DEF InPlace
      <4>7. CASE SendReturn(k)
        <5>1. reader[k].pc = "reply" /\ UNCHANGED <<heard, aborted>>
          BY <4>7 DEF SendReturn, history
        <5>2. up[g_cb_fd]
          BY <2>1, <2>2 DEF ReadersLinked, Link
        <5>3. rets' = [rets EXCEPT ![s] = Append(@, reader[k].ret)]
          BY <2>2, <2>5, <4>7, <5>2 DEF SendReturn, Push
        <5>4. rets[s] = <<>>
          BY <4>2 DEF Held
        <5>5. rets'[s] = <<reader[k].ret>>
          BY <5>3, <5>4, Single DEF Types
        <5>6. reader'[k].pc = "loop"
          BY <1>2, <4>7 DEF SendReturn
        <5>7. NoneActive(s)'
          BY <4>3, <5>6 DEF NoneActive, Active
        <5>8. reader[k].ret \in {"processed", "abort"}
          BY <1>2 DEF Readers
        <5>9. Heard(s, srv[s].made) /\ Aborted(s, reader[k].ret)
          BY <4>2, <5>1 DEF Held
        <5>10. Replied(s)'
          BY <1>1, <4>2, <4>4, <5>1, <5>5, <5>7, <5>8, <5>9
             DEF Held, Replied, Waits, Heard, Aborted
        <5> QED
          BY <5>10 DEF InPlace
      <4> QED
        BY <1>6, <3>2, <4>5, <4>6, <4>7 DEF ReaderStep
    <3> QED
      BY <3>1, <3>2
  <2> QED
    BY <2>4, <2>5
<1> QED
  BY <1>4, <1>5, <1>6

(* The client thread makes a buffer and sends it, or takes the answer. *)
LEMMA ServerPlace ==
    ASSUME Types, NEW r \in Sess, ServerStep(r), NEW s \in Sess, InPlace(s)
    PROVE  InPlace(s)'
<1>1. reader' = reader /\ g_callbacks' = g_callbacks
  BY ServerFrame DEF callback
<1>2. CASE s # r
  <2> USE DEF ServerStep, Dispatch, ServeNew, ServeRegister, ServeDelete, ServeSync, StoreNoFd,
              Produce, TakeReturn, Finish
  <2>1. evts'[s] = evts[s] /\ rets'[s] = rets[s]
    BY <1>2 DEF Push, Pop, Types
  <2>2. srv'[s] = srv[s]
    BY <1>2 DEF Types
  <2>3. heard'[s] = heard[s] /\ aborted'[s] = aborted[s] /\ skipped'[s] = skipped[s]
    BY <1>2 DEF Types, history
  <2>4. has_callback'[s] = has_callback[s] /\ linked'[s] = linked[s]
    BY <1>2 DEF Types
  <2> QED
    BY <1>1, <2>1, <2>2, <2>3, <2>4, PlaceFrame
<1>3. CASE s = r
  <2>1. NoneActive(s) => NoneActive(s)'
    BY <1>1 DEF NoneActive, Active
  <2>2. srv \in [Sess -> Servers] /\ srv[s] \in Servers
    BY DEF Types
  <2>3. CASE Dispatch(s)
    <3>1. Still(s)
      BY <2>3 DEF Dispatch, InPlace, Sent, Held, Replied, Waits
    <3>2. UNCHANGED <<evts, rets>>
      BY <2>3 DEF Dispatch
    <3> DEFINE q == Head(req[s])
    <3>3. \/ srv'[s].pc \in {"read", "alloc"}
          \/ /\ srv'[s].pc = "engine" /\ srv'[s].made = 0
             /\ heard'[s] = <<>> /\ aborted'[s] = 0 /\ skipped'[s] = 0
      <4>1. CASE srv' = srv
        BY <2>3, <4>1 DEF Dispatch
      <4>2. CASE srv' # srv /\ ServeNew(s, q)
        <5>1. srv' = [srv EXCEPT ![s] = [pc |-> "alloc", from |-> q.from, seq |-> q.seq,
                                         hid |-> next_id[s], made |-> 0]]
          BY <4>2 DEF ServeNew
        <5> QED
          BY <2>2, <5>1
      <4>3. CASE srv' # srv /\ ~ServeNew(s, q)
        <5>1. /\ srv' = [srv EXCEPT ![s] = [pc |-> "engine", from |-> q.from, seq |-> q.seq,
                                            hid |-> q.hid, made |-> 0]]
              /\ heard' = [heard EXCEPT ![s] = <<>>]
              /\ aborted' = [aborted EXCEPT ![s] = 0]
              /\ skipped' = [skipped EXCEPT ![s] = 0]
          BY <2>3, <4>3 DEF Dispatch, ServeRegister, ServeDelete, ServeSync
        <5> QED
          BY <2>2, <5>1 DEF Types
      <4> QED
        BY <4>1, <4>2, <4>3
    <3>4. CASE srv'[s].pc \in {"read", "alloc"}
      <4>1. Still(s)'
        BY <2>1, <3>1, <3>2, <3>4 DEF Still
      <4> QED
        BY <4>1 DEF InPlace
    <3>5. CASE srv'[s].pc = "engine" /\ srv'[s].made = 0 /\ heard'[s] = <<>> /\ aborted'[s] = 0
               /\ skipped'[s] = 0
      <4>1. <<>> = Run(0, 0)
        BY CountNone
      <4>2. Heard(s, 0)'
        BY <3>5, <4>1 DEF Heard
      <4>3. Still(s)'
        BY <2>1, <3>1, <3>2, <3>5, <4>2 DEF Still, Heard
      <4> QED
        BY <4>3 DEF InPlace
    <3> QED
      BY <3>3, <3>4, <3>5
  <2>4. CASE Produce(s)
    <3>1. Still(s) /\ srv[s].pc = "engine" /\ srv[s].made \in Nat
      BY <2>2, <2>4 DEF Produce, InPlace, Sent, Held, Replied, Waits, Servers
    <3>2. UNCHANGED <<rets, has_callback, linked, heard, aborted>>
      BY <2>4 DEF Produce
    <3>3. CASE srv[s].hid \in has_callback[s] \cap linked[s]
      <4>1. srv' = [srv EXCEPT ![s].pc = "wait", ![s].made = @ + 1] /\ skipped' = skipped
        BY <2>4, <3>3 DEF Produce
      <4>2. srv'[s].pc = "wait" /\ srv'[s].made = srv[s].made + 1 /\ srv'[s].hid = srv[s].hid
        BY <2>2, <4>1 DEF Servers
      <4>3. evts' = [evts EXCEPT ![s] =
                       Append(@, [hid |-> srv[s].hid, n |-> srv[s].made + 1])]
        BY <2>4, <3>3 DEF Produce, Push
      <4>4. evts[s] = <<>>
        BY <3>1 DEF Still
      <4>5. evts'[s] = <<[hid |-> srv[s].hid, n |-> srv[s].made + 1]>>
        BY <4>3, <4>4, Single DEF Types
      <4>6. srv'[s].made \in Nat \ {0} /\ srv'[s].made - 1 = srv[s].made
        BY <3>1, <4>2
      <4>7. Heard(s, srv[s].made) /\ aborted[s] = 0 /\ skipped[s] <= srv[s].made
        BY <3>1, <3>3 DEF Still
      <4>8. heard'[s] = IF srv[s].hid \in g_callbacks THEN Run(skipped[s], srv[s].made) ELSE <<>>
        BY <3>2, <4>7 DEF Heard
      <4>9. Heard(s, srv[s].made - 1)'
        BY <1>1, <4>1, <4>2, <4>6, <4>8 DEF Heard
      <4>10. skipped'[s] < srv'[s].made
        BY <3>1, <4>1, <4>2, <4>7 DEF Types
      <4>11. Waits(s)'
        BY <3>2, <3>3, <4>2, <4>6, <4>10 DEF Waits
      <4>12. Sent(s)'
        BY <2>1, <3>1, <3>2, <4>2, <4>5, <4>7, <4>9, <4>11 DEF Sent, Still
      <4> QED
        BY <4>12 DEF InPlace
    <3>4. CASE srv[s].hid \notin has_callback[s] \cap linked[s]
      <4>1. srv' = [srv EXCEPT ![s].made = @ + 1] /\ evts' = evts
        BY <2>4, <3>4 DEF Produce
      <4>2. /\ srv'[s].pc = "engine" /\ srv'[s].hid = srv[s].hid
            /\ srv'[s].made = srv[s].made + 1
        BY <2>2, <3>1, <4>1 DEF Servers
      <4>3. CASE srv[s].hid \notin has_callback[s]
        <5>1. Still(s)'
          BY <2>1, <3>1, <3>2, <4>1, <4>2, <4>3 DEF Still
        <5> QED
          BY <5>1 DEF InPlace
      <4>4. CASE srv[s].hid \in has_callback[s] /\ srv[s].hid \notin linked[s]
        <5>1. skipped' = [skipped EXCEPT ![s] = srv[s].made + 1]
          BY <2>4, <4>4 DEF Produce
        <5>2. skipped'[s] = srv'[s].made /\ srv'[s].made \in Nat
          BY <3>1, <4>2, <5>1 DEF Types
        <5>3. skipped[s] = srv[s].made /\ Heard(s, srv[s].made) /\ aborted[s] = 0
          BY <3>1, <4>4 DEF Still
        <5>4. <<>> = Run(srv[s].made, srv[s].made)
          BY <3>1, CountNone
        <5>5. heard'[s] = <<>>
          BY <3>2, <5>3, <5>4 DEF Heard
        <5>6. <<>> = Run(srv'[s].made, srv'[s].made)
          BY <5>2, CountNone
        <5>7. Heard(s, srv[s].made)'
          BY <5>2, <5>5, <5>6 DEF Heard
        <5>8. Still(s)'
          BY <2>1, <3>1, <3>2, <4>1, <4>2, <5>2, <5>3, <5>7 DEF Still
        <5> QED
          BY <5>8 DEF InPlace
      <4> QED
        BY <3>4, <4>3, <4>4
    <3> QED
      BY <3>3, <3>4
  <2>5. CASE TakeReturn(s)
    <3>1. Replied(s)
      BY <2>5 DEF TakeReturn, InPlace, Still, Sent, Held
    <3>2. UNCHANGED <<evts, has_callback, linked, heard, aborted, skipped>>
      BY <2>5 DEF TakeReturn, history
    <3>3. PICK ret \in {"processed", "abort"} : rets[s] = <<ret>> /\ Aborted(s, ret)
      BY <3>1 DEF Replied
    <3>4. Head(rets[s]) = ret /\ Tail(rets[s]) = <<>>
      BY <3>3, Single
    <3>5. rets'[s] = <<>>
      BY <2>5, <3>4 DEF TakeReturn, Pop, Types
    <3>6. srv' = [srv EXCEPT ![s].pc = IF ret = "abort" THEN "finish" ELSE "engine"]
      BY <2>5, <3>4 DEF TakeReturn
    <3>7. /\ srv'[s].pc = IF ret = "abort" THEN "finish" ELSE "engine"
          /\ srv'[s].made = srv[s].made /\ srv'[s].hid = srv[s].hid
      BY <2>2, <3>6 DEF Servers
    <3>8. Heard(s, srv[s].made)'
      BY <1>1, <3>1, <3>2, <3>7 DEF Replied, Heard
    <3>9. aborted'[s] = IF srv'[s].pc = "finish" THEN srv'[s].made ELSE 0
      BY <3>2, <3>3, <3>7 DEF Aborted
    <3>10. skipped[s] <= srv[s].made /\ srv[s].hid \in linked[s]
      BY <2>2, <3>1 DEF Replied, Waits, Types
    <3>11. NoneActive(s)'
      BY <2>1, <3>1 DEF Replied
    <3>12. srv'[s].pc # "wait" /\ evts'[s] = <<>>
      BY <3>1, <3>2, <3>7 DEF Replied
    <3>13. Still(s)'
      BY <3>2, <3>5, <3>7, <3>8, <3>9, <3>10, <3>11, <3>12 DEF Still
    <3> QED
      BY <3>13 DEF InPlace
  <2>6. CASE Finish(s) \/ StoreNoFd(s)
    <3>1. Still(s)
      BY <2>6 DEF Finish, StoreNoFd, InPlace, Sent, Held, Replied, Waits
    <3>2. srv'[s].pc = "read" /\ UNCHANGED <<evts, rets>>
      <4>1. srv' = [srv EXCEPT ![s].pc = "read"] /\ UNCHANGED <<evts, rets>>
        BY <2>6 DEF Finish, StoreNoFd
      <4> QED
        BY <2>2, <4>1 DEF Servers
    <3>3. Still(s)'
      BY <2>1, <3>1, <3>2 DEF Still
    <3> QED
      BY <3>3 DEF InPlace
  <2> QED
    BY <1>3, <2>3, <2>4, <2>5, <2>6 DEF ServerStep
<1> QED
  BY <1>2, <1>3

(* The association gives a cb_fd to callback states that had none. *)
LEMMA AssociatePlace ==
    ASSUME Types, NEW r \in Sess, Associate(r), NEW s \in Sess, InPlace(s)
    PROVE  InPlace(s)'
<1>1. UNCHANGED <<srv, has_callback, callback, sockets, history>>
  BY DEF Associate
<1>2. linked[s] \subseteq linked'[s]
  BY DEF Associate, Types
<1> QED
  BY <1>1, <1>2, PlaceFrame DEF callback, sockets, history

-----------------------------------------------------------------------------
(* The invariant. *)
LEMMA InitInStep == Init => StepInv
<1> SUFFICES ASSUME Init PROVE StepInv
  OBVIOUS
<1>1. IsFiniteSet(g_callbacks)
  BY FS_EmptySet DEF Init
<1>2. Link
  BY DEF Init, Link, NoCall, NoServer
<1>3. ReadersLinked
  BY DEF Init, ReadersLinked
<1>4. Registered
  BY <1>1 DEF Init, Registered, NoCall
<1>5. \A s \in Sess : InPlace(s)
  BY DEF Init, InPlace, Still, NoneActive, Active, NoServer
<1> QED
  BY <1>2, <1>3, <1>4, <1>5 DEF StepInv

LEMMA StepInStep == Inv /\ StepInv /\ [Next]_vars => StepInv'
<1> SUFFICES ASSUME Inv, StepInv, [Next]_vars PROVE StepInv'
  OBVIOUS
<1>1. Types
  BY InvTypes
<1>2. CASE crashes' # 0
  BY <1>2 DEF StepInv, Sound
<1>3. CASE crashes' = 0
  <2>1. crashes = 0
    <3>1. crashes' = crashes \/ (crashes' = crashes + 1 /\ crashes \in Nat)
      <4>1. crashes \in Nat
        BY DEF Inv, TypeOK, BridgeTypes
      <4>2. CASE Crash
        BY <4>1, <4>2 DEF Crash
      <4>3. ASSUME NEW s \in Sess, Associate(s) PROVE crashes' = crashes
        BY <4>3 DEF Associate
      <4>4. CASE UNCHANGED vars
        BY <4>4 DEF vars, bridge
      <4> QED
        BY <4>2, <4>3, <4>4, CallCrashes, ReaderFrame, ServerFrame DEF Next, bridge
    <3> QED
      BY <1>3, <3>1
  <2>2. Link /\ ReadersLinked /\ Registered /\ \A s \in Sess : InPlace(s)
    BY <2>1 DEF StepInv, Sound
  <2> DEFINE Kept == Link' /\ ReadersLinked' /\ Registered' /\ \A s \in Sess : InPlace(s)'
  <2>3. ASSUME NEW t \in Thread, CallStep(t) \/ EnterStep(t) PROVE Kept
    BY <1>1, <2>2, <2>3, CallLink, CallReadersLinked, CallRegistered, CallPlace
  <2>4. ASSUME NEW k \in Reader, ReaderStep(k) PROVE Kept
    BY <1>1, <2>2, <2>4, ReaderLink, ReaderReadersLinked, ReaderRegistered, ReaderPlace
  <2>5. ASSUME NEW r \in Sess, ServerStep(r) PROVE Kept
    BY <1>1, <2>2, <2>5, ServerLink, ServerReadersLinked, ServerRegistered, ServerPlace
  <2>6. ASSUME NEW r \in Sess, Associate(r) PROVE Kept
    <3>1. UNCHANGED <<shim, callback, sockets, srv, has_callback>>
      BY <2>6 DEF Associate
    <3>2. Link'
      BY <2>2, <3>1 DEF Link, shim, sockets
    <3>3. ReadersLinked'
      BY <2>2, <3>1 DEF ReadersLinked, shim, callback
    <3>4. Registered'
      BY <2>2, <3>1 DEF Registered, shim, callback, sockets
    <3>5. ASSUME NEW s \in Sess PROVE InPlace(s)'
      BY <1>1, <2>2, <2>6, AssociatePlace
    <3> QED
      BY <3>2, <3>3, <3>4, <3>5
  <2>7. ASSUME Crash PROVE Kept
    BY <1>3, <2>1, <2>7 DEF Crash
  <2>8. ASSUME UNCHANGED vars PROVE Kept
    <3>1. UNCHANGED <<shim, callback, sockets, bridge, history>>
      BY <2>8 DEF vars
    <3>2. Link'
      BY <2>2, <3>1 DEF Link, shim, sockets, bridge
    <3>3. ReadersLinked'
      BY <2>2, <3>1 DEF ReadersLinked, shim, callback
    <3>4. Registered'
      BY <2>2, <3>1 DEF Registered, shim, callback, sockets, bridge
    <3>5. UNCHANGED <<srv, evts, rets, heard, aborted, skipped, has_callback, linked, reader,
                      g_callbacks>>
      BY <3>1 DEF callback, sockets, bridge, history
    <3>6. ASSUME NEW s \in Sess PROVE InPlace(s)'
      BY <2>2, <3>5, PlaceFrame
    <3> QED
      BY <3>2, <3>3, <3>4, <3>6
  <2> HIDE DEF Kept
  <2>9. ASSUME Next PROVE Kept
    BY <2>3, <2>4, <2>5, <2>6, <2>7, <2>9 DEF Next
  <2>10. Kept
    BY <2>8, <2>9
  <2> QED
    BY <2>10 DEF StepInv, Kept
<1> QED
  BY <1>2, <1>3

(* Until the bridge crashes, whenever the engine runs for a registered handle, *)
(* the host's callback has been given every buffer the engine made in this    *)
(* call since the callback state found the callback channel, once each and in *)
(* order, or nothing if the callback table was full when it was registered;   *)
(* and after an eciDataAbort the engine makes no other.                       *)
THEOREM CallbackInStep == Spec => [](Sound => EngineInStep)
<1>1. Init => Inv /\ StepInv
  BY InitHolds, InitInStep
<1>2. Inv /\ StepInv /\ [Next]_vars => (Inv /\ StepInv)'
  BY StepKeeps, StepInStep
<1>3. Inv /\ StepInv => (Sound => EngineInStep)
  <2> SUFFICES ASSUME Inv, StepInv, Sound, NEW s \in Sess,
                      srv[s].pc \in {"engine", "finish"}, srv[s].hid \in has_callback[s]
               PROVE  InStep(s)
    BY DEF EngineInStep
  <2>1. InPlace(s) /\ Registered
    BY DEF StepInv
  <2>2. Still(s)
    BY <2>1 DEF InPlace, Sent, Held, Replied, Waits
  <2>3. heard[s] = IF srv[s].hid \in g_callbacks
                   THEN [n \in 1..(srv[s].made - skipped[s]) |-> skipped[s] + n]
                   ELSE <<>>
    BY <2>2 DEF Still, Heard, Run
  <2>4. srv[s].hid \in g_callbacks \/ Cardinality(g_callbacks) >= MAX_CB_HANDLES
    BY <2>1 DEF Registered, Known
  <2>5. aborted[s] # 0 => srv[s].pc = "finish" /\ aborted[s] = srv[s].made
    BY <2>2 DEF Still
  <2> QED
    BY <2>3, <2>4, <2>5 DEF InStep
<1> QED
  BY <1>1, <1>2, <1>3, PTL DEF Spec

=============================================================================
