--------------------------- MODULE EciSessionProofs ---------------------------
(***************************************************************************)
(* Proofs about EciSession, for any threads, bounds and number of crashes: *)
(* the type invariant, and that every call takes the response to its own   *)
(* request (ResponseMatches), by way of ChannelDiscipline.  The three are  *)
(* inductive together, as Inv.                                             *)
(***************************************************************************)
EXTENDS EciSession, SequenceTheorems, TLAPS

Inv == TypeOK /\ ChannelDiscipline /\ ResponseMatches

-----------------------------------------------------------------------------
(* Sequences. *)

(* What rpc_write_msg leaves on a channel. *)
LEMMA PushType ==
    ASSUME NEW M, NEW c \in [Sess -> Seq(M)], NEW s \in Sess, NEW m \in M
    PROVE  [c EXCEPT ![s] = Append(@, m)] \in [Sess -> Seq(M)]
<1>1. Append(c[s], m) \in Seq(M)
  BY AppendProperties
<1> QED
  BY <1>1

(* What rpc_read_msg takes from a channel and leaves on it. *)
LEMMA PopType ==
    ASSUME NEW M, NEW c \in [Sess -> Seq(M)], NEW s \in Sess, c[s] # <<>>
    PROVE  /\ [c EXCEPT ![s] = Tail(@)] \in [Sess -> Seq(M)]
           /\ Head(c[s]) \in M
<1>1. Tail(c[s]) \in Seq(M) /\ Head(c[s]) \in M
  BY HeadTailProperties
<1> QED
  BY <1>1

(* A channel that holds one message holds none once it is read. *)
LEMMA OneMessage ==
    ASSUME NEW M, NEW q \in Seq(M), Len(q) = 1
    PROVE  q # <<>> /\ Tail(q) = <<>>
<1>1. q # <<>>
  BY EmptySeq
<1>2. Tail(q) \in Seq(M) /\ Len(Tail(q)) = 0
  BY <1>1, HeadTailProperties
<1> QED
  BY <1>1, <1>2, EmptySeq

(* A message written to an empty channel is the one it holds. *)
LEMMA FirstMessage ==
    ASSUME NEW M, NEW m \in M
    PROVE  Len(Append(<<>>, m)) = 1 /\ Head(Append(<<>>, m)) = m
<1>1. <<>> \in Seq(M) /\ Len(<<>>) = 0
  BY EmptySeq
<1> QED
  BY <1>1, AppendProperties, HeadTailAppend

-----------------------------------------------------------------------------
(* Types. *)

(* A step of a call: what the shim keeps has its type. *)
LEMMA ReturnTypes ==
    ASSUME ShimTypes, NEW t \in Thread, Return(t)
    PROVE  /\ pc' \in [Thread -> {"idle", "store", "get_conn", "connect", "ready", "lock",
                                  "recv", "drop", "done", "check", "start"}]
           /\ call' \in [Thread -> [kind : Kind, hid : Nat,
                                    back : {"ready", "check"}, fd : Sess \cup {0}]]
           /\ seq' \in [Thread -> Nat]
           /\ got' \in [Thread -> Response \cup {NoResponse}]
<1>1. NoCall \in [kind : Kind, hid : Nat,
                  back : {"ready", "check"}, fd : Sess \cup {0}]
  BY DEF NoCall, Kind
<1> QED
  BY <1>1 DEF ShimTypes, Return, Goto

(* The steps of a call that stay inside the host. *)
LEMMA LocalCallTypes ==
    ASSUME TypeOK, NEW t \in Thread,
           \/ SetCallback(t) \/ GetConn(t) \/ Ready(t) \/ Drop(t) \/ Done(t)
           \/ CheckReader(t) \/ RecvFails(t)
           \/ \E kind \in Kind, hid \in hands \cup {0} : Enter(t, kind, hid)
    PROVE  TypeOK'
<1>1. CASE SetCallback(t)
  <2>1. call[t].hid \in Nat
    BY DEF TypeOK, ShimTypes
  <2> QED
    BY <1>1, <2>1 DEF SetCallback, TypeOK, ShimTypes, CallbackTypes, SocketTypes, BridgeTypes,
                      sockets, bridge, history, Goto
<1>2. CASE GetConn(t)
  <2>1. call[t].back \in {"ready", "check"}
    BY DEF TypeOK, ShimTypes
  <2> QED
    BY <1>2, <2>1 DEF GetConn, TypeOK, ShimTypes, CallbackTypes, SocketTypes, BridgeTypes,
                      sockets, bridge, history, callback, Goto
<1>3. CASE Ready(t)
  <2>1. CASE conn.connected
    BY <1>3, <2>1 DEF Ready, TypeOK, ShimTypes, CallbackTypes, SocketTypes, BridgeTypes,
                      sockets, bridge, history, callback, Goto
  <2>2. CASE ~conn.connected
    BY <1>3, <2>2, ReturnTypes DEF Ready, TypeOK, ShimTypes, CallbackTypes, SocketTypes,
                      BridgeTypes, sockets, bridge, history, callback
  <2> QED
    BY <2>1, <2>2
<1>4. CASE Drop(t)
  BY <1>4, ReturnTypes DEF Drop, TypeOK, ShimTypes, CallbackTypes, SocketTypes,
                      BridgeTypes, sockets, bridge, history, callback
<1>5. CASE Done(t)
  <2>1. CASE Return(t)
    BY <1>5, <2>1, ReturnTypes DEF Done, TypeOK, ShimTypes, CallbackTypes, SocketTypes,
                      BridgeTypes, sockets, bridge, history, callback
  <2>2. CASE ~Return(t)
    <3>1. [call[t] EXCEPT !.back = "check"]
            \in [kind : Kind, hid : Nat,
                 back : {"ready", "check"}, fd : Sess \cup {0}]
      BY DEF TypeOK, ShimTypes
    <3>2. call' = [call EXCEPT ![t] = [call[t] EXCEPT !.back = "check"]]
      BY <1>5, <2>2 DEF Done, TypeOK, ShimTypes
    <3> QED
      BY <1>5, <2>2, <3>1, <3>2 DEF Done, TypeOK, ShimTypes, CallbackTypes, SocketTypes,
                      BridgeTypes, sockets, bridge, history, callback, Goto
  <2> QED
    BY <2>1, <2>2
<1>6. CASE CheckReader(t)
  <2>1. got[t].hid \in Nat /\ conn.cb_fd \in Sess \cup {0}
    BY DEF TypeOK, ShimTypes, Response, NoResponse
  <2>2. CASE Return(t) /\ hands' = hands \cup {got[t].hid}
    BY <1>6, <2>1, <2>2, ReturnTypes DEF CheckReader, TypeOK, ShimTypes, CallbackTypes,
                      SocketTypes, BridgeTypes, sockets, bridge, history, callback
  <2>3. CASE ~(Return(t) /\ hands' = hands \cup {got[t].hid})
    <3>1. [call[t] EXCEPT !.fd = conn.cb_fd]
            \in [kind : Kind, hid : Nat,
                 back : {"ready", "check"}, fd : Sess \cup {0}]
      BY <2>1 DEF TypeOK, ShimTypes
    <3>2. call' = [call EXCEPT ![t] = [call[t] EXCEPT !.fd = conn.cb_fd]]
      BY <1>6, <2>3 DEF CheckReader, TypeOK, ShimTypes
    <3> QED
      BY <1>6, <2>3, <3>1, <3>2 DEF CheckReader, TypeOK, ShimTypes, CallbackTypes,
                      SocketTypes, BridgeTypes, sockets, bridge, history, callback, Goto
  <2> QED
    BY <2>2, <2>3
<1>7. CASE RecvFails(t)
  BY <1>7 DEF RecvFails, TypeOK, ShimTypes, CallbackTypes, SocketTypes,
                      BridgeTypes, sockets, bridge, history, callback, Goto
<1>8. ASSUME NEW kind \in Kind, NEW hid \in hands \cup {0}, Enter(t, kind, hid)
      PROVE  TypeOK'
  <2>0. hid \in Nat /\ 0 \in Sess \cup {0}
    BY DEF TypeOK, ShimTypes
  <2>1. [NoCall EXCEPT !.kind = kind, !.hid = hid]
          \in [kind : Kind, hid : Nat,
               back : {"ready", "check"}, fd : Sess \cup {0}]
    BY <2>0 DEF NoCall
  <2>2. calls + 1 \in Nat
    BY DEF TypeOK, ShimTypes
  <2> QED
    BY <1>8, <2>1, <2>2 DEF Enter, TypeOK, ShimTypes, CallbackTypes, SocketTypes,
                      BridgeTypes, sockets, bridge, history, callback, Goto
<1> QED
  BY <1>1, <1>2, <1>3, <1>4, <1>5, <1>6, <1>7, <1>8

(* The steps of a call that touch the channels or start the callback thread. *)
LEMMA ChannelCallTypes ==
    ASSUME Inv, NEW t \in Thread, Connect(t) \/ Send(t) \/ Recv(t) \/ StartReader(t)
    PROVE  TypeOK'
<1> USE DEF Inv
<1>1. CASE Connect(t)
  <2> DEFINE ConnectTypes ==
          /\ conn' \in [connected : BOOLEAN, rpc_fd : Sess \cup {0}, cb_fd : Sess \cup {0},
                       next_seq : Nat \ {0}]
          /\ up' \in [Sess -> BOOLEAN]
          /\ srv' \in [Sess -> [pc : {"none", "read", "alloc", "engine", "wait", "finish", "down"},
                                from : Thread \cup {NULL}, seq : Nat, hid : Nat, made : Nat]]
  <2>1. call[t].back \in {"ready", "check"}
    BY DEF TypeOK, ShimTypes
  <2>2. ConnectTypes
    <3>1. CASE UNCHANGED <<conn, up, srv>>
      BY <3>1 DEF TypeOK, ShimTypes, SocketTypes, BridgeTypes
    <3>2. ASSUME NEW rpc \in {0, conn.rpc_fd}, NEW cb \in {0, conn.cb_fd},
                 conn' = [conn EXCEPT !.rpc_fd = rpc, !.cb_fd = cb], UNCHANGED <<up, srv>>
          PROVE  ConnectTypes
      BY <3>2 DEF TypeOK, ShimTypes, SocketTypes, BridgeTypes
    <3>3. ASSUME NEW s \in Sess, up' = [up EXCEPT ![s] = TRUE],
                 srv' = [srv EXCEPT ![s].pc = "read"],
                 conn' = [connected |-> TRUE, rpc_fd |-> s, cb_fd |-> s, next_seq |-> 1]
          PROVE  ConnectTypes
      <4>1. conn' \in [connected : BOOLEAN, rpc_fd : Sess \cup {0}, cb_fd : Sess \cup {0},
                      next_seq : Nat \ {0}]
        BY <3>3
      <4>2. up' \in [Sess -> BOOLEAN]
        BY <3>3 DEF TypeOK, SocketTypes
      <4>3. srv' \in [Sess -> [pc : {"none", "read", "alloc", "engine", "wait", "finish", "down"},
                              from : Thread \cup {NULL}, seq : Nat, hid : Nat, made : Nat]]
        <5>1. [srv[s] EXCEPT !.pc = "read"]
                \in [pc : {"none", "read", "alloc", "engine", "wait", "finish", "down"},
                     from : Thread \cup {NULL}, seq : Nat, hid : Nat, made : Nat]
          BY DEF TypeOK, BridgeTypes
        <5>2. srv' = [srv EXCEPT ![s] = [srv[s] EXCEPT !.pc = "read"]]
          BY <3>3 DEF TypeOK, BridgeTypes
        <5> QED
          BY <5>1, <5>2 DEF TypeOK, BridgeTypes
      <4> QED
        BY <4>1, <4>2, <4>3
    <3> QED
      BY <1>1, <3>1, <3>2, <3>3 DEF Connect
  <2> QED
    BY <1>1, <2>1, <2>2 DEF Connect, TypeOK, ShimTypes, CallbackTypes, SocketTypes,
                      BridgeTypes, history, callback, Goto
<1>2. CASE Send(t)
  <2>1. conn' \in [connected : BOOLEAN, rpc_fd : Sess \cup {0}, cb_fd : Sess \cup {0},
                  next_seq : Nat \ {0}]
    BY <1>2 DEF Send, TypeOK, ShimTypes
  <2>2. seq' \in [Thread -> Nat]
    BY <1>2 DEF Send, TypeOK, ShimTypes
  <2>3. CASE Alive(conn.rpc_fd)
    <3>1. conn.rpc_fd \in Sess
      BY <2>3 DEF Alive, TypeOK, ShimTypes
    <3>2. call[t].kind \in Kind
      BY DEF TypeOK, ShimTypes
    <3>3. [from |-> t, seq |-> conn.next_seq, kind |-> call[t].kind,
           hid |-> call[t].hid] \in Request
      BY <3>2 DEF Request, TypeOK, ShimTypes
    <3>4. req' \in [Sess -> Seq(Request)]
      <4>1. req' = [req EXCEPT ![conn.rpc_fd] = Append(@,
                      [from |-> t, seq |-> conn.next_seq, kind |-> call[t].kind,
                       hid |-> call[t].hid])]
        BY <1>2, <2>3 DEF Send, Push
      <4>2. req \in [Sess -> Seq(Request)]
        BY DEF TypeOK, SocketTypes
      <4> QED
        BY <3>1, <3>3, <4>1, <4>2, PushType
    <3> QED
      BY <1>2, <2>1, <2>2, <2>3, <3>4 DEF Send, TypeOK, ShimTypes, CallbackTypes,
                      SocketTypes, BridgeTypes, bridge, history, callback, Goto
  <2>4. CASE ~Alive(conn.rpc_fd)
    BY <1>2, <2>1, <2>2, <2>4 DEF Send, TypeOK, ShimTypes, CallbackTypes, SocketTypes,
                      BridgeTypes, bridge, history, callback, Goto
  <2> QED
    BY <2>3, <2>4
<1>3. CASE Recv(t)
  <2>1. conn.rpc_fd \in Sess
    BY <1>3, ThreadAssumption DEF Recv, ChannelDiscipline, LockHeld, TypeOK, ShimTypes
  <2>2. resp' \in [Sess -> Seq(Response)] /\ Head(resp[conn.rpc_fd]) \in Response
    BY <1>3, <2>1, PopType DEF Recv, Pop, TypeOK, SocketTypes
  <2> QED
    BY <1>3, <2>2 DEF Recv, TypeOK, ShimTypes, CallbackTypes, SocketTypes, BridgeTypes,
                      bridge, history, callback, Goto
<1>4. CASE StartReader(t)
  <2>1. got[t].hid \in Nat /\ call[t].fd \in Sess \cup {0}
    BY DEF TypeOK, ShimTypes, Response, NoResponse
  <2>2. CallbackTypes'
    BY <1>4, <2>1 DEF StartReader, TypeOK, CallbackTypes
  <2>3. ShimTypes'
    BY <1>4, <2>1, ReturnTypes DEF StartReader, TypeOK, ShimTypes
  <2> QED
    BY <1>4, <2>2, <2>3 DEF StartReader, TypeOK, SocketTypes, BridgeTypes, sockets,
                      bridge, history
<1> QED
  BY <1>1, <1>2, <1>3, <1>4

(* The callback thread. *)
LEMMA ReaderTypes ==
    ASSUME Inv, NEW k \in Reader, ReaderStep(k)
    PROVE  TypeOK'
<1> USE DEF Inv
<1>1. /\ reader[k].pc # "none" => g_cb_fd \in Sess
      /\ reader[k].pc \notin {"none", "loop"} => reader[k].fd \in Sess
  BY DEF ChannelDiscipline, CallbackFds, TypeOK, CallbackTypes
<1>2. k \in Reader \cup {0}
  OBVIOUS
<1>3. CASE ReadEvent(k)
  <2>1. evts' \in [Sess -> Seq([hid : Nat, n : Nat])]
        /\ Head(evts[reader[k].fd]) \in [hid : Nat, n : Nat]
    BY <1>1, <1>3, PopType DEF ReadEvent, Pop, TypeOK, SocketTypes
  <2>2. CallbackTypes'
    BY <1>3, <2>1 DEF ReadEvent, TypeOK, CallbackTypes
  <2> QED
    BY <1>3, <2>1, <2>2 DEF ReadEvent, TypeOK, ShimTypes, SocketTypes, BridgeTypes,
                      shim, bridge, history
<1>4. CASE Deliver(k)
  <2>1. reader[k].n \in Nat
    BY DEF TypeOK, CallbackTypes
  <2>2. heard' \in [Sess -> Seq(Nat)]
    <3>1. CASE reader[k].hid \in g_callbacks
      <4>1. heard' = [heard EXCEPT ![reader[k].fd] = Append(@, reader[k].n)]
        BY <1>4, <3>1 DEF Deliver
      <4>2. reader[k].fd \in Sess /\ heard \in [Sess -> Seq(Nat)]
        BY <1>1, <1>4 DEF Deliver, TypeOK, BridgeTypes
      <4> QED
        BY <2>1, <4>1, <4>2, PushType
    <3>2. CASE reader[k].hid \notin g_callbacks
      BY <1>4, <3>2 DEF Deliver, TypeOK, BridgeTypes
    <3> QED
      BY <3>1, <3>2
  <2>3. CallbackTypes'
    <3>1. CASE reader[k].hid \in g_callbacks
      <4>1. reader' = [reader EXCEPT ![k].pc = "user"] /\ g_cb_lock' = k
        BY <1>4, <3>1 DEF Deliver
      <4>2. UNCHANGED <<g_callbacks, g_cb_running, g_cb_fd>>
        BY <1>4, <3>1 DEF Deliver
      <4> QED
        BY <1>2, <4>1, <4>2 DEF TypeOK, CallbackTypes
    <3>2. CASE reader[k].hid \notin g_callbacks
      <4>1. reader' = [reader EXCEPT ![k] = [@ EXCEPT !.pc = "reply", !.ret = "processed"]]
        BY <1>4, <3>2 DEF Deliver
      <4>2. UNCHANGED <<g_callbacks, g_cb_lock, g_cb_running, g_cb_fd>>
        BY <1>4, <3>2 DEF Deliver
      <4> QED
        BY <4>1, <4>2 DEF TypeOK, CallbackTypes
    <3> QED
      BY <3>1, <3>2
  <2> QED
    BY <1>4, <2>2, <2>3 DEF Deliver, TypeOK, ShimTypes, SocketTypes, BridgeTypes,
                      shim, sockets, bridge
<1>5. ASSUME NEW ret \in {"processed", "abort"}, UserReturns(k, ret)
      PROVE  TypeOK'
  <2>1. reader[k].n \in Nat
    BY DEF TypeOK, CallbackTypes
  <2>2. aborted' \in [Sess -> Nat]
    BY <1>5, <2>1 DEF UserReturns, TypeOK, BridgeTypes
  <2>3. CallbackTypes'
    BY <1>5 DEF UserReturns, TypeOK, CallbackTypes
  <2> QED
    BY <1>5, <2>2, <2>3 DEF UserReturns, TypeOK, ShimTypes, SocketTypes, BridgeTypes,
                      shim, sockets, bridge
<1>6. CASE SendReturn(k)
  <2>1. reader[k].ret \in {"processed", "abort"}
    BY DEF TypeOK, CallbackTypes
  <2>2. rets' \in [Sess -> Seq({"processed", "abort"})]
    <3>1. CASE up[g_cb_fd]
      <4>1. rets' = [rets EXCEPT ![g_cb_fd] = Append(@, reader[k].ret)]
        BY <1>6, <3>1 DEF SendReturn, Push
      <4> QED
        BY <1>1, <1>6, <2>1, <4>1, PushType DEF SendReturn, TypeOK, SocketTypes
    <3>2. CASE ~up[g_cb_fd]
      BY <1>6, <3>2 DEF SendReturn, TypeOK, SocketTypes
    <3> QED
      BY <3>1, <3>2
  <2>3. CallbackTypes'
    BY <1>6 DEF SendReturn, TypeOK, CallbackTypes
  <2> QED
    BY <1>6, <2>2, <2>3 DEF SendReturn, TypeOK, ShimTypes, SocketTypes, BridgeTypes,
                      shim, bridge, history
<1>7. CASE ReaderEnds(k)
  <2>1. CallbackTypes'
    BY <1>7 DEF ReaderEnds, TypeOK, CallbackTypes
  <2> QED
    BY <1>7, <2>1 DEF ReaderEnds, TypeOK, ShimTypes, SocketTypes, BridgeTypes,
                      shim, sockets, bridge, history
<1>8. CASE BeginRead(k)
  <2>1. CallbackTypes'
    BY <1>8 DEF BeginRead, TypeOK, CallbackTypes
  <2> QED
    BY <1>8, <2>1 DEF BeginRead, TypeOK, ShimTypes, SocketTypes, BridgeTypes,
                      shim, sockets, bridge, history
<1> QED
  BY <1>3, <1>4, <1>5, <1>6, <1>7, <1>8 DEF ReaderStep

(* The bridge. *)
LEMMA ServerTypes ==
    ASSUME Inv, NEW s \in Sess, ServerStep(s)
    PROVE  TypeOK'
<1> USE DEF Inv
<1> DEFINE Srv == [pc : {"none", "read", "alloc", "engine", "wait", "finish", "down"},
                   from : Thread \cup {NULL}, seq : Nat, hid : Nat, made : Nat]
<1>1. srv \in [Sess -> Srv] /\ resp \in [Sess -> Seq(Response)]
      /\ req \in [Sess -> Seq(Request)]
  BY DEF TypeOK, BridgeTypes, SocketTypes
<1>2. ASSUME NEW f \in Thread, NEW q \in Nat, NEW hid \in Nat,
             resp' = [resp EXCEPT ![s] = Append(@, [from |-> f, seq |-> q, hid |-> hid])]
      PROVE  resp' \in [Sess -> Seq(Response)]
  <2>1. [from |-> f, seq |-> q, hid |-> hid] \in Response
    BY DEF Response
  <2> QED
    BY <1>1, <1>2, <2>1, PushType
<1>3. CASE Dispatch(s)
  <2> DEFINE r == Head(req[s])
  <2>1. req' \in [Sess -> Seq(Request)] /\ r \in Request
    BY <1>1, <1>3, PopType DEF Dispatch, Pop
  <2>2. r.from \in Thread /\ r.seq \in Nat /\ r.hid \in Nat
    BY <2>1 DEF Request
  <2>3. /\ handles \in [Sess -> SUBSET Nat] /\ has_callback \in [Sess -> SUBSET Nat]
        /\ linked \in [Sess -> SUBSET Nat]
        /\ next_id \in [Sess -> Nat \ {0}]
        /\ heard \in [Sess -> Seq(Nat)] /\ aborted \in [Sess -> Nat]
        /\ skipped \in [Sess -> Nat]
    BY DEF TypeOK, BridgeTypes
  <2> DEFINE Typed ==
          /\ resp' \in [Sess -> Seq(Response)]
          /\ srv' \in [Sess -> Srv]
          /\ handles' \in [Sess -> SUBSET Nat] /\ has_callback' \in [Sess -> SUBSET Nat]
          /\ linked' \in [Sess -> SUBSET Nat]
          /\ next_id' \in [Sess -> Nat \ {0}]
          /\ heard' \in [Sess -> Seq(Nat)] /\ aborted' \in [Sess -> Nat]
          /\ skipped' \in [Sess -> Nat]
  <2>4. ServeNew(s, r) \/ ServeRegister(s, r) \/ ServeDelete(s, r) \/ ServeSync(s, r)
    BY <1>3 DEF Dispatch
  <2> HIDE DEF r
  <2>5. ASSUME ServeNew(s, r) PROVE Typed
    <3>0. UNCHANGED <<has_callback, heard, aborted, skipped>>
      BY <2>5 DEF ServeNew, history
    <3>1. CASE Respond(s, r, 0) /\ UNCHANGED <<srv, handles, linked, next_id>>
      <4>1. resp' \in [Sess -> Seq(Response)]
        BY <1>2, <2>2, <3>1 DEF Respond, Push
      <4> QED
        BY <1>1, <2>3, <3>0, <3>1, <4>1
    <3> DEFINE Made == /\ handles' = [handles EXCEPT ![s] = @ \cup {next_id[s]}]
                       /\ next_id' = [next_id EXCEPT ![s] = @ + 1]
               job == [pc |-> "alloc", from |-> r.from, seq |-> r.seq,
                       hid |-> next_id[s], made |-> 0]
    <3>2. next_id[s] \in Nat /\ next_id[s] + 1 \in Nat \ {0}
      BY <2>3
    <3>3. ASSUME Made
          PROVE  handles' \in [Sess -> SUBSET Nat] /\ next_id' \in [Sess -> Nat \ {0}]
      BY <2>3, <3>2, <3>3
    <3>4. job \in Srv
      BY <2>2, <3>2
    <3> HIDE DEF job
    <3>5. ASSUME Made, linked' = [linked EXCEPT ![s] = @ \cup {next_id[s]}],
                 Respond(s, r, next_id[s]), UNCHANGED srv
          PROVE  Typed
      <4>1. resp' \in [Sess -> Seq(Response)]
        BY <1>2, <2>2, <3>2, <3>5 DEF Respond, Push
      <4>2. linked' \in [Sess -> SUBSET Nat]
        BY <2>3, <3>2, <3>5
      <4> QED
        BY <1>1, <2>3, <3>0, <3>3, <3>5, <4>1, <4>2
    <3>6. ASSUME Made, srv' = [srv EXCEPT ![s] = job], UNCHANGED <<resp, linked>>
          PROVE  Typed
      <4>1. srv' \in [Sess -> Srv]
        BY <1>1, <3>4, <3>6
      <4> QED
        BY <1>1, <2>3, <3>0, <3>3, <3>6, <4>1
    <3> QED
      BY <2>5, <3>1, <3>5, <3>6 DEF ServeNew, job
  <2>6. ASSUME ServeRegister(s, r) PROVE Typed
    <3>1. resp' \in [Sess -> Seq(Response)]
      BY <1>2, <2>2, <2>6 DEF ServeRegister, Respond, Push
    <3> QED
      BY <1>1, <2>2, <2>3, <2>6, <3>1 DEF ServeRegister, history
  <2>7. ASSUME ServeDelete(s, r) PROVE Typed
    <3>1. resp' \in [Sess -> Seq(Response)]
      BY <1>2, <2>2, <2>7 DEF ServeDelete, Respond, Push
    <3> QED
      BY <1>1, <2>2, <2>3, <2>7, <3>1 DEF ServeDelete, history
  <2>8. ASSUME ServeSync(s, r) PROVE Typed
    <3>1. CASE r.hid \in handles[s]
      <4>1. <<>> \in Seq(Nat)
        BY EmptySeq
      <4>2. [pc |-> "engine", from |-> r.from, seq |-> r.seq, hid |-> r.hid, made |-> 0] \in Srv
        BY <2>2
      <4>3. srv' \in [Sess -> Srv]
        <5>1. srv' = [srv EXCEPT ![s] = [pc |-> "engine", from |-> r.from, seq |-> r.seq,
                                         hid |-> r.hid, made |-> 0]]
          BY <2>8, <3>1 DEF ServeSync
        <5> QED
          BY <1>1, <4>2, <5>1
      <4>4. /\ heard' \in [Sess -> Seq(Nat)] /\ aborted' \in [Sess -> Nat]
            /\ skipped' \in [Sess -> Nat]
        <5>1. /\ heard' = [heard EXCEPT ![s] = <<>>] /\ aborted' = [aborted EXCEPT ![s] = 0]
              /\ skipped' = [skipped EXCEPT ![s] = 0]
          BY <2>8, <3>1 DEF ServeSync
        <5> QED
          BY <2>3, <4>1, <5>1
      <4>5. UNCHANGED <<resp, handles, has_callback, linked, next_id>>
        BY <2>8, <3>1 DEF ServeSync
      <4> QED
        BY <1>1, <2>3, <4>3, <4>4, <4>5
    <3>2. CASE r.hid \notin handles[s]
      <4>1. resp' \in [Sess -> Seq(Response)]
        BY <1>2, <2>2, <2>8, <3>2 DEF ServeSync, Respond, Push
      <4> QED
        BY <1>1, <2>3, <2>8, <3>2, <4>1 DEF ServeSync, history
    <3> QED
      BY <3>1, <3>2
  <2>9. UNCHANGED <<shim, callback, up, evts, rets, joined, crashes>>
    BY <1>3 DEF Dispatch
  <2>10. Typed
    BY <2>4, <2>5, <2>6, <2>7, <2>8
  <2> QED
    BY <2>1, <2>9, <2>10 DEF TypeOK, ShimTypes, CallbackTypes,
       SocketTypes, BridgeTypes, shim, callback
<1>4. CASE Produce(s)
  <2>0. srv[s] \in Srv
    BY <1>1
  <2>1. evts' \in [Sess -> Seq([hid : Nat, n : Nat])]
    <3>1. [hid |-> srv[s].hid, n |-> srv[s].made + 1] \in [hid : Nat, n : Nat]
      BY <2>0
    <3>2. \/ UNCHANGED evts
          \/ evts' = [evts EXCEPT ![s] = Append(@, [hid |-> srv[s].hid,
                                                    n |-> srv[s].made + 1])]
      BY <1>4 DEF Produce, Push
    <3>3. evts \in [Sess -> Seq([hid : Nat, n : Nat])]
      BY DEF TypeOK, SocketTypes
    <3>4. CASE UNCHANGED evts
      BY <3>3, <3>4
    <3>5. CASE evts' = [evts EXCEPT ![s] = Append(@, [hid |-> srv[s].hid,
                                                     n |-> srv[s].made + 1])]
      BY <3>1, <3>3, <3>5, PushType
    <3> QED
      BY <3>2, <3>4, <3>5
  <2>2. srv' \in [Sess -> Srv]
    <3>1. CASE srv[s].hid \in has_callback[s] \cap linked[s]
      <4> DEFINE waiting == [srv EXCEPT ![s].pc = "wait"]
      <4>1. waiting \in [Sess -> Srv] /\ waiting[s].made = srv[s].made
        BY <1>1
      <4>2. srv' = [waiting EXCEPT ![s].made = srv[s].made + 1]
        BY <1>1, <1>4, <3>1 DEF Produce
      <4> QED
        BY <2>0, <4>1, <4>2
    <3>2. CASE srv[s].hid \notin has_callback[s] \cap linked[s]
      <4>1. srv' = [srv EXCEPT ![s] = [srv[s] EXCEPT !.made = srv[s].made + 1]]
        BY <1>1, <1>4, <3>2 DEF Produce
      <4>2. [srv[s] EXCEPT !.made = srv[s].made + 1] \in Srv
        BY <2>0
      <4> QED
        BY <1>1, <4>1, <4>2
    <3> QED
      BY <3>1, <3>2
  <2>3. skipped' \in [Sess -> Nat]
    <3>1. skipped \in [Sess -> Nat] /\ srv[s].made + 1 \in Nat
      BY <2>0 DEF TypeOK, BridgeTypes
    <3>2. UNCHANGED skipped \/ skipped' = [skipped EXCEPT ![s] = srv[s].made + 1]
      BY <1>4 DEF Produce
    <3> QED
      BY <3>1, <3>2
  <2> QED
    BY <1>4, <2>1, <2>2, <2>3 DEF Produce, TypeOK, ShimTypes, CallbackTypes,
       SocketTypes, BridgeTypes, shim, callback
<1>5. CASE TakeReturn(s)
  <2>1. rets' \in [Sess -> Seq({"processed", "abort"})]
    <3>1. rets \in [Sess -> Seq({"processed", "abort"})]
      BY DEF TypeOK, SocketTypes
    <3> QED
      BY <1>5, <3>1, PopType DEF TakeReturn, Pop
  <2>2. srv' \in [Sess -> Srv]
    <3>1. PICK l \in {"finish", "engine"} : srv' = [srv EXCEPT ![s].pc = l]
      BY <1>5 DEF TakeReturn
    <3>2. [srv[s] EXCEPT !.pc = l] \in Srv
      BY <1>1
    <3>3. srv' = [srv EXCEPT ![s] = [srv[s] EXCEPT !.pc = l]]
      BY <1>1, <3>1
    <3> QED
      BY <1>1, <3>2, <3>3
  <2> QED
    BY <1>5, <2>1, <2>2 DEF TakeReturn, TypeOK, ShimTypes, CallbackTypes,
       SocketTypes, BridgeTypes, shim, callback, history
<1>6. CASE Finish(s)
  <2>1. Busy(s)
    BY <1>6 DEF Finish, Busy
  <2>2. Served(s, rpc_lock) /\ rpc_lock # NULL
    BY <2>1 DEF ChannelDiscipline, Exchange, Quiet, Asked, Answered
  <2>3. srv[s].from \in Thread /\ srv[s].seq \in Nat
    BY <1>1, <2>2 DEF Served, IsOf, TypeOK, ShimTypes
  <2>4. resp' \in [Sess -> Seq(Response)]
    BY <1>2, <1>6, <2>3 DEF Finish, Respond, Push
  <2>5. srv' \in [Sess -> Srv]
    BY <1>1, <1>6 DEF Finish
  <2> QED
    BY <1>6, <2>4, <2>5 DEF Finish, TypeOK, ShimTypes, CallbackTypes,
       SocketTypes, BridgeTypes, shim, callback, history
<1>7. CASE StoreNoFd(s)
  <2>1. Busy(s)
    BY <1>7 DEF StoreNoFd, Busy
  <2>2. Served(s, rpc_lock) /\ rpc_lock # NULL
    BY <2>1 DEF ChannelDiscipline, Exchange, Quiet, Asked, Answered
  <2>3. srv[s].from \in Thread /\ srv[s].seq \in Nat /\ srv[s].hid \in Nat
    BY <1>1, <2>2 DEF Served, IsOf, TypeOK, ShimTypes
  <2>4. resp' \in [Sess -> Seq(Response)]
    BY <1>2, <1>7, <2>3 DEF StoreNoFd, Respond, Push
  <2>5. srv' \in [Sess -> Srv]
    BY <1>1, <1>7 DEF StoreNoFd
  <2>6. linked' \in [Sess -> SUBSET Nat]
    BY <1>7 DEF StoreNoFd, TypeOK, BridgeTypes
  <2> QED
    BY <1>7, <2>4, <2>5, <2>6 DEF StoreNoFd, TypeOK, ShimTypes, CallbackTypes,
       SocketTypes, BridgeTypes, shim, callback, history
<1> QED
  BY <1>3, <1>4, <1>5, <1>6, <1>7 DEF ServerStep

LEMMA AssociateTypes ==
    ASSUME TypeOK, NEW s \in Sess, Associate(s)
    PROVE  TypeOK'
<1>1. joined' \in [Sess -> BOOLEAN] /\ linked' \in [Sess -> SUBSET Nat]
  BY DEF Associate, TypeOK, BridgeTypes
<1> QED
  BY <1>1 DEF Associate, TypeOK, ShimTypes, CallbackTypes, SocketTypes, BridgeTypes,
              shim, callback, sockets, history

LEMMA CrashTypes ==
    ASSUME TypeOK, Crash
    PROVE  TypeOK'
<1>1. <<>> \in Seq(Request) /\ <<>> \in Seq({"processed", "abort"})
  BY EmptySeq
<1> DEFINE Srv == [pc : {"none", "read", "alloc", "engine", "wait", "finish", "down"},
                   from : Thread \cup {NULL}, seq : Nat, hid : Nat, made : Nat]
<1>2. srv' \in [Sess -> Srv]
  <2>1. srv \in [Sess -> Srv]
    BY DEF TypeOK, BridgeTypes
  <2>2. ASSUME NEW s \in Sess
        PROVE  [srv[s] EXCEPT !.pc = "down"] \in Srv
    BY <2>1
  <2> HIDE DEF Srv
  <2> QED
    BY <2>1, <2>2 DEF Crash
<1>3. crashes' \in Nat
  BY DEF Crash, TypeOK, BridgeTypes
<1> QED
  BY <1>1, <1>2, <1>3 DEF Crash, TypeOK, ShimTypes, CallbackTypes, SocketTypes, BridgeTypes,
     shim, callback, history

-----------------------------------------------------------------------------
(* The channel discipline. *)

(* A step of one call that is not in shim_rpc leaves the channel alone; the *)
(* response it holds, if it keeps one, is the one it held.                  *)
LEMMA CallFrame ==
    ASSUME Inv, NEW t \in Thread,
           pc[t] # "recv", pc'[t] # "recv",
           UNCHANGED <<rpc_lock, up, req, resp, srv>>,
           conn'.rpc_fd = conn.rpc_fd,
           \A u \in Thread \ {t} : /\ pc'[u] = pc[u] /\ call'[u] = call[u]
                                   /\ seq'[u] = seq[u] /\ got'[u] = got[u],
           \/ got'[t] = NoResponse
           \/ got'[t] = got[t] /\ seq'[t] = seq[t] /\ Holding(t)',
           CallbackFds'
    PROVE  ChannelDiscipline' /\ ResponseMatches'
<1>1. LockHeld' /\ (rpc_lock' # NULL => conn'.rpc_fd # 0)
  BY DEF Inv, ChannelDiscipline, LockHeld
<1>2. Exchange'
  <2>1. rpc_lock # NULL => rpc_lock \in Thread \ {t}
    BY DEF Inv, ChannelDiscipline, LockHeld, TypeOK, ShimTypes
  <2> QED
    BY <2>1 DEF Inv, ChannelDiscipline, Exchange, Asked, Served, Answered, Quiet, IsOf, Busy
<1>3. ASSUME NEW u \in Thread, got'[u] # NoResponse
      PROVE  Holding(u)' /\ got'[u].from = u /\ got'[u].seq = seq'[u]
  BY <1>3 DEF Inv, ChannelDiscipline, ResponseMatches, Holding
<1> QED
  BY <1>1, <1>2, <1>3 DEF ChannelDiscipline, ResponseMatches

LEMMA LocalCallStep ==
    ASSUME Inv, NEW t \in Thread,
           \/ SetCallback(t) \/ GetConn(t) \/ Ready(t) \/ Drop(t) \/ Done(t)
           \/ CheckReader(t) \/ StartReader(t)
           \/ \E kind \in Kind, hid \in hands \cup {0} : Enter(t, kind, hid)
    PROVE  ChannelDiscipline' /\ ResponseMatches'
<1>1. /\ got[t] # NoResponse => Holding(t)
      /\ CallbackFds
      /\ pc \in [Thread -> {"idle", "store", "get_conn", "connect", "ready", "lock", "recv",
                            "drop", "done", "check", "start"}]
      /\ call \in [Thread -> [kind : Kind, hid : Nat,
                              back : {"ready", "check"}, fd : Sess \cup {0}]]
      /\ got \in [Thread -> Response \cup {NoResponse}] /\ seq \in [Thread -> Nat]
      /\ conn \in [connected : BOOLEAN, rpc_fd : Sess \cup {0}, cb_fd : Sess \cup {0},
                   next_seq : Nat \ {0}]
  BY DEF Inv, ChannelDiscipline, TypeOK, ShimTypes
<1>2. CASE SetCallback(t)
  BY <1>1, <1>2, CallFrame DEF SetCallback, Goto, Holding, CallbackFds, sockets, bridge
<1>3. CASE GetConn(t)
  BY <1>1, <1>3, CallFrame DEF GetConn, Goto, Holding, CallbackFds, sockets, bridge, callback
<1>4. CASE Ready(t)
  BY <1>1, <1>4, CallFrame DEF Ready, Return, Goto, Holding, CallbackFds, sockets, bridge,
                               callback
<1>5. CASE Drop(t)
  BY <1>1, <1>5, CallFrame DEF Drop, Return, Goto, CallbackFds, sockets, bridge, callback
<1>6. CASE Done(t)
  <2>1. CASE call[t].kind = "new" /\ got[t].hid # 0
    <3>1. pc' = [pc EXCEPT ![t] = "get_conn"] /\ call' = [call EXCEPT ![t].back = "check"]
      BY <1>6, <2>1 DEF Done, Goto
    <3>2. UNCHANGED <<seq, got, conn, rpc_lock, callback, sockets, srv>>
      BY <1>6, <2>1 DEF Done, bridge
    <3> QED
      BY <1>1, <1>6, <3>1, <3>2, CallFrame DEF Done, Holding, CallbackFds, sockets, callback
  <2>2. CASE ~(call[t].kind = "new" /\ got[t].hid # 0)
    BY <1>1, <1>6, <2>2, CallFrame DEF Done, Return, Goto, CallbackFds, sockets, bridge,
                                       callback
  <2> QED
    BY <2>1, <2>2
<1>7. CASE CheckReader(t)
  <2>1. CASE conn.cb_fd = 0 \/ g_cb_running
    BY <1>1, <1>7, <2>1, CallFrame DEF CheckReader, Return, Goto, CallbackFds, sockets,
                                       bridge, callback
  <2>2. CASE ~(conn.cb_fd = 0 \/ g_cb_running)
    <3>1. pc' = [pc EXCEPT ![t] = "start"] /\ call' = [call EXCEPT ![t].fd = conn.cb_fd]
      BY <1>7, <2>2 DEF CheckReader, Goto
    <3>2. UNCHANGED <<seq, got, conn, rpc_lock, callback, sockets, srv>> /\ pc[t] = "check"
      BY <1>7, <2>2 DEF CheckReader, bridge
    <3> QED
      BY <1>1, <2>2, <3>1, <3>2, CallFrame DEF Holding, CallbackFds, sockets, callback
  <2> QED
    BY <2>1, <2>2
<1>8. CASE StartReader(t)
  BY <1>1, <1>8, CallFrame DEF StartReader, Return, Goto, Holding, CallbackFds, sockets, bridge
<1>9. ASSUME NEW kind \in Kind, NEW hid \in hands \cup {0}, Enter(t, kind, hid)
      PROVE  ChannelDiscipline' /\ ResponseMatches'
  BY <1>1, <1>9, CallFrame DEF Enter, Goto, Holding, CallbackFds, sockets, bridge, callback
<1> QED
  BY <1>2, <1>3, <1>4, <1>5, <1>6, <1>7, <1>8, <1>9

(* The steps that connect, and those of shim_rpc itself. *)
LEMMA ConnectStep ==
    ASSUME Inv, NEW t \in Thread, Connect(t)
    PROVE  ChannelDiscipline' /\ ResponseMatches'
<1>1. /\ rpc_lock = NULL /\ UNCHANGED rpc_lock
      /\ pc[t] = "connect" /\ pc' = [pc EXCEPT ![t] = call[t].back]
      /\ UNCHANGED <<call, seq, got, callback, req, resp>>
  BY DEF Connect, Goto
<1>2. /\ pc \in [Thread -> {"idle", "store", "get_conn", "connect", "ready", "lock", "recv",
                            "drop", "done", "check", "start"}]
      /\ call[t].back \in {"ready", "check"}
      /\ NULL \notin Thread
  BY ThreadAssumption DEF Inv, TypeOK, ShimTypes
<1>3. LockHeld' /\ (rpc_lock' # NULL => conn'.rpc_fd # 0)
  BY <1>1, <1>2 DEF Inv, ChannelDiscipline, LockHeld
<1>4. ASSUME NEW s \in Sess PROVE Quiet(s)'
  <2>1. Quiet(s)
    BY <1>1 DEF Inv, ChannelDiscipline, Exchange
  <2>2. srv'[s] = srv[s] \/ srv'[s].pc = "read"
    BY DEF Connect, Inv, TypeOK, BridgeTypes
  <2> QED
    BY <1>1, <2>1, <2>2 DEF Quiet, Busy
<1>5. \A u \in Thread : got'[u] # NoResponse => Holding(u)'
  BY <1>1, <1>2 DEF Inv, ChannelDiscipline, Holding
<1>6. CallbackFds'
  BY <1>1, <1>2 DEF Inv, ChannelDiscipline, CallbackFds, callback
<1>7. ResponseMatches'
  BY <1>1 DEF Inv, ResponseMatches
<1> QED
  BY <1>1, <1>3, <1>4, <1>5, <1>6, <1>7 DEF ChannelDiscipline, Exchange

LEMMA SendStep ==
    ASSUME Inv, NEW t \in Thread, Send(t)
    PROVE  ChannelDiscipline' /\ ResponseMatches'
<1>1. /\ rpc_lock = NULL /\ pc[t] = "lock"
      /\ conn'.rpc_fd = conn.rpc_fd /\ conn.rpc_fd \in Sess \cup {0}
      /\ seq' = [seq EXCEPT ![t] = conn.next_seq]
      /\ UNCHANGED <<call, got, callback, up, resp, srv>>
      /\ \/ rpc_lock' = t /\ pc' = [pc EXCEPT ![t] = "recv"] /\ Alive(conn.rpc_fd)
         \/ UNCHANGED <<rpc_lock, req>> /\ pc' = [pc EXCEPT ![t] = "drop"]
  BY DEF Send, Goto, bridge, Inv, TypeOK, ShimTypes
<1>2. /\ pc \in [Thread -> {"idle", "store", "get_conn", "connect", "ready", "lock", "recv",
                            "drop", "done", "check", "start"}]
      /\ seq \in [Thread -> Nat]
      /\ NULL \notin Thread
      /\ \A s \in Sess : Quiet(s)
      /\ got[t] = NoResponse
  BY <1>1, ThreadAssumption DEF Inv, TypeOK, ShimTypes, ChannelDiscipline, Exchange, Holding
<1>3. LockHeld' /\ (rpc_lock' # NULL => conn'.rpc_fd # 0)
  BY <1>1, <1>2 DEF Inv, ChannelDiscipline, LockHeld, Alive
<1>4. Exchange'
  <2>1. CASE UNCHANGED <<rpc_lock, req>>
    BY <1>1, <1>2, <2>1 DEF Exchange, Quiet, Busy
  <2>2. CASE rpc_lock' = t /\ pc' = [pc EXCEPT ![t] = "recv"] /\ Alive(conn.rpc_fd)
    <3> DEFINE s == conn.rpc_fd
               m == [from |-> t, seq |-> conn.next_seq, kind |-> call[t].kind,
                     hid |-> call[t].hid]
    <3>1. s \in Sess /\ up[s]
      BY <1>1, <2>2 DEF Alive
    <3>2. req' = [req EXCEPT ![s] = Append(@, m)]
      BY <2>2 DEF Send, Push
    <3>3. req \in [Sess -> Seq(Request)] /\ req[s] = <<>>
      BY <1>2, <3>1 DEF Inv, TypeOK, SocketTypes, Quiet
    <3>4. req'[s] = Append(<<>>, m)
      BY <3>1, <3>2, <3>3
    <3>5. Len(req'[s]) = 1 /\ Head(req'[s]) = m
      BY <3>4, FirstMessage
    <3>6. m.from = t /\ m.seq = seq'[t]
      BY <1>1, <1>2
    <3>7. Asked(s, t)'
      BY <1>1, <1>2, <3>1, <3>5, <3>6 DEF Asked, IsOf, Quiet, Busy
    <3>8. \A r \in Sess \ {s} : Quiet(r)'
      BY <1>1, <1>2, <3>2, <3>3 DEF Quiet, Busy
    <3> QED
      BY <1>1, <1>2, <2>2, <3>7, <3>8 DEF Exchange
  <2> QED
    BY <1>1, <2>1, <2>2
<1>5. \A u \in Thread : got'[u] # NoResponse => Holding(u)'
  BY <1>1, <1>2 DEF Inv, ChannelDiscipline, Holding
<1>6. CallbackFds'
  BY <1>1, <1>2 DEF Inv, ChannelDiscipline, CallbackFds, callback
<1>7. ResponseMatches'
  BY <1>1, <1>2 DEF Inv, ResponseMatches
<1> QED
  BY <1>3, <1>4, <1>5, <1>6, <1>7 DEF ChannelDiscipline

LEMMA RecvStep ==
    ASSUME Inv, NEW t \in Thread, Recv(t) \/ RecvFails(t)
    PROVE  ChannelDiscipline' /\ ResponseMatches'
<1> DEFINE s == conn.rpc_fd
<1>1. /\ pc[t] = "recv" /\ rpc_lock' = NULL
      /\ pc' = [pc EXCEPT ![t] = "done"] \/ pc' = [pc EXCEPT ![t] = "drop"]
      /\ UNCHANGED <<conn, call, seq, callback, up, req, srv>>
  BY DEF Recv, RecvFails, Goto, bridge, sockets
<1>2. /\ pc \in [Thread -> {"idle", "store", "get_conn", "connect", "ready", "lock", "recv",
                            "drop", "done", "check", "start"}]
      /\ NULL \notin Thread
      /\ rpc_lock = t
      /\ s \in Sess
      /\ got \in [Thread -> Response \cup {NoResponse}]
      /\ resp \in [Sess -> Seq(Response)]
  BY <1>1, ThreadAssumption DEF Inv, TypeOK, ShimTypes, SocketTypes, ChannelDiscipline, LockHeld
<1>3. \A r \in Sess \ {s} : Quiet(r)
  BY <1>2 DEF Inv, ChannelDiscipline, Exchange
<1>4. got[t] = NoResponse
  BY <1>1 DEF Inv, ChannelDiscipline, Holding
<1>5. LockHeld'
  BY <1>1, <1>2 DEF Inv, ChannelDiscipline, LockHeld
<1>6. CallbackFds'
  BY <1>1, <1>2 DEF Inv, ChannelDiscipline, CallbackFds, callback
<1>7. CASE Recv(t)
  <2>1. Answered(s, t)
    BY <1>2, <1>7 DEF Recv, Inv, ChannelDiscipline, Exchange, Asked, Served, Quiet
  <2>2. Tail(resp[s]) = <<>>
    BY <1>2, <2>1, OneMessage DEF Answered
  <2>3. resp' = [resp EXCEPT ![s] = Tail(@)] /\ got' = [got EXCEPT ![t] = Head(resp[s])]
        /\ pc' = [pc EXCEPT ![t] = "done"]
    BY <1>7 DEF Recv, Pop, Goto
  <2>4. \A r \in Sess : Quiet(r)'
    BY <1>1, <1>2, <1>3, <2>1, <2>2, <2>3 DEF Quiet, Answered, Busy
  <2>5. \A u \in Thread : got'[u] # NoResponse => Holding(u)'
    BY <1>1, <1>2, <2>3 DEF Inv, ChannelDiscipline, Holding
  <2>6. ResponseMatches'
    BY <1>1, <1>2, <2>1, <2>3 DEF Inv, ResponseMatches, Answered, IsOf
  <2> QED
    BY <1>1, <1>5, <1>6, <2>4, <2>5, <2>6 DEF ChannelDiscipline, Exchange
<1>8. CASE RecvFails(t)
  <2>1. Quiet(s)
    BY <1>2, <1>8 DEF RecvFails, Inv, ChannelDiscipline, Exchange, Asked, Served, Answered,
                      Alive, Quiet
  <2>2. UNCHANGED <<got, resp>> /\ pc' = [pc EXCEPT ![t] = "drop"]
    BY <1>8 DEF RecvFails, sockets, Goto
  <2>3. \A r \in Sess : Quiet(r)'
    BY <1>1, <1>3, <2>1, <2>2 DEF Quiet, Busy
  <2>4. \A u \in Thread : got'[u] # NoResponse => Holding(u)'
    BY <1>1, <1>2, <1>4, <2>2 DEF Inv, ChannelDiscipline, Holding
  <2>5. ResponseMatches'
    BY <1>1, <2>2 DEF Inv, ResponseMatches
  <2> QED
    BY <1>1, <1>5, <1>6, <2>3, <2>4, <2>5 DEF ChannelDiscipline, Exchange
<1> QED
  BY <1>7, <1>8

(* The callback thread has no part in the RPC channel. *)
LEMMA ReaderStepKeeps ==
    ASSUME Inv, NEW k \in Reader, ReaderStep(k)
    PROVE  ChannelDiscipline' /\ ResponseMatches'
<1>1. UNCHANGED <<shim, up, req, resp, srv, g_cb_fd>>
  BY DEF ReaderStep, BeginRead, ReadEvent, Deliver, UserReturns, SendReturn, ReaderEnds,
         sockets, bridge
<1>2. reader \in [Reader -> [pc : {"none", "loop", "read", "event", "user", "reply", "ended"},
                            fd : Sess \cup {0}, hid : Nat, n : Nat,
                            ret : {"processed", "abort"}]]
  BY DEF Inv, TypeOK, CallbackTypes
<1>3. reader[k].pc # "none" /\ \A j \in Reader \ {k} : reader'[j] = reader[j]
  BY <1>2 DEF ReaderStep, BeginRead, ReadEvent, Deliver, UserReturns, SendReturn, ReaderEnds
<1>4. CallbackFds'
  <2>1. reader'[k].pc \notin {"none", "loop"} => reader'[k].fd # 0
    <3>1. CASE BeginRead(k)
      BY <1>2, <1>3, <3>1 DEF BeginRead, Inv, ChannelDiscipline, CallbackFds
    <3>2. CASE reader[k].pc # "loop" /\ reader'[k].fd = reader[k].fd
      BY <1>3, <3>2 DEF Inv, ChannelDiscipline, CallbackFds
    <3>3. CASE ReadEvent(k)
      BY <1>2, <3>2, <3>3 DEF ReadEvent
    <3>4. CASE Deliver(k)
      BY <1>2, <3>2, <3>4 DEF Deliver
    <3>5. ASSUME NEW ret \in {"processed", "abort"}, UserReturns(k, ret)
          PROVE  reader[k].pc # "loop" /\ reader'[k].fd = reader[k].fd
      BY <1>2, <3>5 DEF UserReturns
    <3>6. CASE SendReturn(k)
      BY <1>2, <3>2, <3>6 DEF SendReturn
    <3>7. CASE ReaderEnds(k)
      BY <1>2, <3>2, <3>7 DEF ReaderEnds
    <3> QED
      BY <3>1, <3>2, <3>3, <3>4, <3>5, <3>6, <3>7 DEF ReaderStep
  <2> QED
    BY <1>1, <1>3, <2>1 DEF Inv, ChannelDiscipline, CallbackFds, shim
<1>5. LockHeld' /\ Exchange' /\ (rpc_lock' # NULL => conn'.rpc_fd # 0)
  BY <1>1 DEF Inv, ChannelDiscipline, LockHeld, Exchange, Asked, Served, Answered, Quiet, IsOf,
              Busy, shim
<1>6. ASSUME NEW u \in Thread, got'[u] # NoResponse
      PROVE  Holding(u)' /\ got'[u].from = u /\ got'[u].seq = seq'[u]
  BY <1>1, <1>6 DEF Inv, ChannelDiscipline, ResponseMatches, Holding, shim
<1> QED
  BY <1>4, <1>5, <1>6 DEF ChannelDiscipline, ResponseMatches

(* A step of the bridge is on the session the lock holder waits on: the *)
(* message under way moves from request to service to response.         *)
LEMMA ExchangeFrame ==
    ASSUME Inv, UNCHANGED <<shim, callback>>, Exchange'
    PROVE  ChannelDiscipline' /\ ResponseMatches'
<1>1. LockHeld' /\ (rpc_lock' # NULL => conn'.rpc_fd # 0) /\ CallbackFds'
  BY DEF Inv, ChannelDiscipline, LockHeld, CallbackFds, shim, callback
<1>2. ASSUME NEW u \in Thread, got'[u] # NoResponse
      PROVE  Holding(u)' /\ got'[u].from = u /\ got'[u].seq = seq'[u]
  BY <1>2 DEF Inv, ChannelDiscipline, ResponseMatches, Holding, shim
<1> QED
  BY <1>1, <1>2 DEF ChannelDiscipline, ResponseMatches

LEMMA ServerStepKeeps ==
    ASSUME Inv, NEW s \in Sess, ServerStep(s)
    PROVE  ChannelDiscipline' /\ ResponseMatches'
<1>1. UNCHANGED <<shim, callback, up>> /\ up[s]
  BY DEF ServerStep, Dispatch, StoreNoFd, Produce, TakeReturn, Finish
<1>2. /\ req \in [Sess -> Seq(Request)]
      /\ resp \in [Sess -> Seq(Response)]
      /\ srv \in [Sess -> [pc : {"none", "read", "alloc", "engine", "wait", "finish", "down"},
                           from : Thread \cup {NULL}, seq : Nat, hid : Nat, made : Nat]]
      /\ rpc_lock \in Thread \cup {NULL}
  BY DEF Inv, TypeOK, SocketTypes, BridgeTypes, ShimTypes
<1>3. ASSUME ~Quiet(s) PROVE rpc_lock # NULL /\ conn.rpc_fd = s
  BY <1>3 DEF Inv, ChannelDiscipline, Exchange
<1>4. SUFFICES ASSUME ~Quiet(s),
                      \A r \in Sess \ {s} : /\ req'[r] = req[r] /\ resp'[r] = resp[r]
                                            /\ srv'[r] = srv[r],
                      Asked(s, rpc_lock)' \/ Served(s, rpc_lock)' \/ Answered(s, rpc_lock)'
               PROVE  ChannelDiscipline' /\ ResponseMatches'
  <2>1. CASE Dispatch(s)
    <3> DEFINE r == Head(req[s])
    <3>1. ~Quiet(s) /\ Asked(s, rpc_lock)
      BY <1>3, <2>1 DEF Dispatch, Inv, ChannelDiscipline, Exchange, Quiet, Served, Answered
    <3>2. r \in Request /\ Tail(req[s]) = <<>> /\ IsOf(r, rpc_lock) /\ resp[s] = <<>>
      BY <1>2, <3>1, OneMessage, HeadTailProperties DEF Asked
    <3>3. req' = [req EXCEPT ![s] = Tail(@)]
      BY <2>1 DEF Dispatch, Pop
    <3>4. req'[s] = <<>> /\ \A q \in Sess \ {s} : req'[q] = req[q]
      BY <1>2, <3>2, <3>3
    <3>5. ServeNew(s, r) \/ ServeRegister(s, r) \/ ServeDelete(s, r) \/ ServeSync(s, r)
      BY <2>1 DEF Dispatch
    <3> HIDE DEF r
    <3>6. ASSUME NEW hid, resp' = [resp EXCEPT ![s] = Append(@, [from |-> r.from,
                                      seq |-> r.seq, hid |-> hid])],
                 hid \in Nat, UNCHANGED srv
          PROVE  ChannelDiscipline' /\ ResponseMatches'
      <4> DEFINE m == [from |-> r.from, seq |-> r.seq, hid |-> hid]
      <4>1. resp'[s] = Append(<<>>, m) /\ \A q \in Sess \ {s} : resp'[q] = resp[q]
        BY <1>2, <3>2, <3>6
      <4>2. Len(resp'[s]) = 1 /\ Head(resp'[s]) = m
        BY <4>1, FirstMessage
      <4>3. m.from = r.from /\ m.seq = r.seq
        OBVIOUS
      <4> HIDE DEF m
      <4>4. Answered(s, rpc_lock)'
        BY <1>1, <3>1, <3>2, <3>4, <3>6, <4>2, <4>3 DEF Answered, Asked, IsOf, Busy, shim
      <4> QED
        BY <1>4, <3>1, <3>4, <3>6, <4>1, <4>4
    <3>7. next_id[s] \in Nat /\ 0 \in Nat
      BY DEF Inv, TypeOK, BridgeTypes
    <3>13. ASSUME NEW l \in {"alloc", "engine"}, NEW hid, UNCHANGED resp,
                  srv' = [srv EXCEPT ![s] = [pc |-> l, from |-> r.from, seq |-> r.seq,
                                             hid |-> hid, made |-> 0]]
           PROVE  ChannelDiscipline' /\ ResponseMatches'
      <4>2. srv'[s].pc = l /\ srv'[s].from = r.from /\ srv'[s].seq = r.seq
            /\ \A q \in Sess \ {s} : srv'[q] = srv[q]
        BY <1>2, <3>13
      <4>3. Served(s, rpc_lock)'
        BY <1>1, <3>2, <3>4, <3>13, <4>2 DEF Served, IsOf, Busy, shim
      <4> QED
        BY <1>4, <3>1, <3>4, <3>13, <4>2, <4>3
    <3>8. CASE ServeNew(s, r)
      <4>1. \/ Respond(s, r, 0) /\ UNCHANGED srv
            \/ Respond(s, r, next_id[s]) /\ UNCHANGED srv
            \/ /\ srv' = [srv EXCEPT ![s] = [pc |-> "alloc", from |-> r.from, seq |-> r.seq,
                                             hid |-> next_id[s], made |-> 0]]
               /\ UNCHANGED resp
        BY <3>8 DEF ServeNew
      <4> QED
        BY <3>6, <3>7, <3>13, <4>1 DEF Respond, Push
    <3>9. CASE ServeRegister(s, r)
      BY <3>6, <3>7, <3>9 DEF ServeRegister, Respond, Push
    <3>10. CASE ServeDelete(s, r)
      BY <3>6, <3>7, <3>10 DEF ServeDelete, Respond, Push
    <3>11. CASE ServeSync(s, r) /\ r.hid \notin handles[s]
      BY <3>6, <3>7, <3>11 DEF ServeSync, Respond, Push
    <3>12. CASE ServeSync(s, r) /\ r.hid \in handles[s]
      <4>1. srv' = [srv EXCEPT ![s] = [pc |-> "engine", from |-> r.from, seq |-> r.seq,
                                       hid |-> r.hid, made |-> 0]] /\ UNCHANGED resp
        BY <3>12 DEF ServeSync
      <4> QED
        BY <3>13, <4>1
    <3> QED
      BY <3>5, <3>8, <3>9, <3>10, <3>11, <3>12
  <2>2. CASE Produce(s) \/ TakeReturn(s)
    <3>1. Busy(s) /\ UNCHANGED <<req, resp>>
      BY <2>2 DEF Produce, TakeReturn, Busy
    <3>2. ~Quiet(s) /\ Served(s, rpc_lock)
      BY <1>3, <3>1 DEF Inv, ChannelDiscipline, Exchange, Quiet, Asked, Answered
    <3>3. /\ srv'[s].pc \in {"engine", "wait", "finish"}
          /\ srv'[s].from = srv[s].from /\ srv'[s].seq = srv[s].seq
          /\ \A q \in Sess \ {s} : srv'[q] = srv[q]
      BY <1>2, <2>2 DEF Produce, TakeReturn
    <3>4. Served(s, rpc_lock)'
      BY <1>1, <3>1, <3>2, <3>3 DEF Served, IsOf, Busy, shim
    <3> QED
      BY <1>4, <3>1, <3>2, <3>3, <3>4
  <2>3. CASE Finish(s) \/ StoreNoFd(s)
    <3>1. Busy(s)
      BY <2>3 DEF Finish, StoreNoFd, Busy
    <3>2. ~Quiet(s) /\ Served(s, rpc_lock)
      BY <1>3, <3>1 DEF Inv, ChannelDiscipline, Exchange, Quiet, Asked, Answered
    <3>3. PICK hid : resp' = [resp EXCEPT ![s] =
                                Append(@, [from |-> srv[s].from, seq |-> srv[s].seq, hid |-> hid])]
      BY <2>3 DEF Finish, StoreNoFd, Respond, Push
    <3> DEFINE m == [from |-> srv[s].from, seq |-> srv[s].seq, hid |-> hid]
    <3>4. resp'[s] = Append(<<>>, m) /\ \A q \in Sess \ {s} : resp'[q] = resp[q]
      BY <1>2, <3>2, <3>3 DEF Served
    <3>5. Len(resp'[s]) = 1 /\ Head(resp'[s]) = m
      BY <3>4, FirstMessage
    <3>6. srv'[s].pc = "read" /\ \A q \in Sess \ {s} : srv'[q] = srv[q]
      BY <1>2, <2>3 DEF Finish, StoreNoFd
    <3>8. UNCHANGED req
      BY <2>3 DEF Finish, StoreNoFd
    <3>7. Answered(s, rpc_lock)'
      BY <1>1, <3>2, <3>5, <3>6, <3>8 DEF Answered, Served, IsOf, Busy, shim
    <3> QED
      BY <1>4, <3>2, <3>4, <3>6, <3>7, <3>8
  <2> QED
    BY <2>1, <2>2, <2>3 DEF ServerStep
<1>5. rpc_lock # NULL /\ conn.rpc_fd = s
  BY <1>3, <1>4
<1>6. \A r \in Sess \ {s} : Quiet(r)'
  BY <1>4, <1>5 DEF Inv, ChannelDiscipline, Exchange, Quiet, Busy
<1>7. Exchange'
  BY <1>1, <1>4, <1>5, <1>6 DEF Exchange, shim
<1> QED
  BY <1>1, <1>7, ExchangeFrame

LEMMA CrashStep ==
    ASSUME Inv, Crash
    PROVE  ChannelDiscipline' /\ ResponseMatches'
<1>1. \A s \in Sess : ~up'[s] /\ req'[s] = <<>> /\ resp'[s] = resp[s]
  BY DEF Crash
<1>2. \A s \in Sess : IF up[s] THEN srv'[s].pc = "down" ELSE srv'[s] = srv[s]
  BY DEF Crash, Inv, TypeOK, BridgeTypes
<1>3. UNCHANGED <<shim, callback>>
  BY DEF Crash
<1>4. ASSUME NEW s \in Sess, Quiet(s) PROVE Quiet(s)'
  BY <1>1, <1>2, <1>4 DEF Quiet, Busy
<1>5. ASSUME NEW s \in Sess, Asked(s, rpc_lock) \/ Served(s, rpc_lock)
      PROVE  ~up'[s] /\ Quiet(s)'
  BY <1>1, <1>2, <1>5 DEF Asked, Served, Quiet, Busy
<1>6. ASSUME NEW s \in Sess, Answered(s, rpc_lock) PROVE Answered(s, rpc_lock)'
  BY <1>1, <1>2, <1>3, <1>6 DEF Answered, IsOf, Busy, shim
<1>7. Exchange'
  BY <1>1, <1>3, <1>4, <1>5, <1>6 DEF Inv, ChannelDiscipline, Exchange, shim
<1> QED
  BY <1>3, <1>7, ExchangeFrame

-----------------------------------------------------------------------------
LEMMA InitHolds == Init => Inv
<1> SUFFICES ASSUME Init PROVE Inv
  OBVIOUS
<1> USE DEF Init, NoCall, NoResponse, NoServer
<1>1. <<>> \in Seq(Request) /\ <<>> \in Seq(Response) /\ <<>> \in Seq([hid : Nat, n : Nat])
      /\ <<>> \in Seq({"processed", "abort"}) /\ <<>> \in Seq(Nat)
  BY EmptySeq
<1>2. ShimTypes
  <2>1. conn \in [connected : BOOLEAN, rpc_fd : Sess \cup {0}, cb_fd : Sess \cup {0},
                  next_seq : Nat \ {0}]
    OBVIOUS
  <2>2. NoCall \in [kind : Kind, hid : Nat, back : {"ready", "check"}, fd : Sess \cup {0}]
    BY DEF Kind
  <2>3. /\ pc \in [Thread -> {"idle", "store", "get_conn", "connect", "ready", "lock", "recv",
                               "drop", "done", "check", "start"}]
        /\ seq \in [Thread -> Nat]
        /\ got \in [Thread -> Response \cup {NoResponse}]
    OBVIOUS
  <2>4. call \in [Thread -> [kind : Kind, hid : Nat, back : {"ready", "check"},
                             fd : Sess \cup {0}]]
    BY <2>2
  <2> QED
    BY <2>1, <2>3, <2>4 DEF ShimTypes
<1>6. CallbackTypes
  BY DEF CallbackTypes
<1>3. SocketTypes /\ BridgeTypes
  BY <1>1 DEF SocketTypes, BridgeTypes
<1>4. LockHeld /\ Exchange /\ CallbackFds
  BY ThreadAssumption DEF LockHeld, Exchange, Quiet, Busy, CallbackFds
<1>5. \A t \in Thread : got[t] = NoResponse
  OBVIOUS
<1> QED
  BY <1>2, <1>3, <1>4, <1>5, <1>6 DEF Inv, TypeOK, ChannelDiscipline, ResponseMatches

LEMMA StepKeeps == Inv /\ [Next]_vars => Inv'
<1> SUFFICES ASSUME Inv, [Next]_vars PROVE Inv'
  OBVIOUS
<1>1. ASSUME NEW t \in Thread, EnterStep(t) PROVE Inv'
  <2>1. \E kind \in Kind, hid \in hands \cup {0} : Enter(t, kind, hid)
    BY <1>1 DEF EnterStep, Kind
  <2> QED
    BY <2>1, LocalCallTypes, LocalCallStep DEF Inv
<1>2. ASSUME NEW t \in Thread, CallStep(t) PROVE Inv'
  BY <1>2, LocalCallTypes, ChannelCallTypes, LocalCallStep, ConnectStep, SendStep, RecvStep
     DEF CallStep, Inv
<1>3. ASSUME NEW k \in Reader, ReaderStep(k) PROVE Inv'
  BY <1>3, ReaderTypes, ReaderStepKeeps DEF Inv
<1>4. ASSUME NEW s \in Sess, ServerStep(s) PROVE Inv'
  BY <1>4, ServerTypes, ServerStepKeeps DEF Inv
<1>5. CASE Crash
  BY <1>5, CrashTypes, CrashStep DEF Inv
<1>7. ASSUME NEW s \in Sess, Associate(s) PROVE Inv'
  <2>1. UNCHANGED <<shim, callback>> /\ Exchange'
    BY <1>7 DEF Associate, Inv, ChannelDiscipline, Exchange, Asked, Served, Answered, Quiet, Busy,
                IsOf, shim, sockets
  <2> QED
    BY <1>7, <2>1, AssociateTypes, ExchangeFrame DEF Inv
<1>6. CASE UNCHANGED vars
  <2>1. TypeOK'
    BY <1>6 DEF Inv, TypeOK, ShimTypes, CallbackTypes, SocketTypes, BridgeTypes, vars, shim,
                callback, sockets, bridge, history
  <2>2. UNCHANGED <<shim, callback>> /\ Exchange'
    BY <1>6 DEF Inv, ChannelDiscipline, Exchange, Asked, Served, Answered, Quiet, Busy, IsOf,
                vars, shim, sockets, bridge
  <2> QED
    BY <2>1, <2>2, ExchangeFrame DEF Inv
<1> QED
  BY <1>1, <1>2, <1>3, <1>4, <1>5, <1>6, <1>7 DEF Next

(* Every reachable state of EciSession has its type, for any threads, any *)
(* number of sessions, callback threads and crashes.                      *)
THEOREM SessionTypeCorrect == Spec => []TypeOK
<1>1. Inv => TypeOK
  BY DEF Inv
<1> QED
  BY <1>1, InitHolds, StepKeeps, PTL DEF Spec

(* The RPC channel keeps its discipline: one message of the lock holder's *)
(* call under way, nothing anywhere else (shim_rpc, client_thread).       *)
THEOREM ChannelDisciplined == Spec => []ChannelDiscipline
<1>1. Inv => ChannelDiscipline
  BY DEF Inv
<1> QED
  BY <1>1, InitHolds, StepKeeps, PTL DEF Spec

(* Every call takes the response to its own request, across any number of *)
(* crashes and reconnections, with no look at the sequence number         *)
(* (shim_rpc).                                                            *)
THEOREM ResponsesMatch == Spec => []ResponseMatches
<1>1. Inv => ResponseMatches
  BY DEF Inv
<1> QED
  BY <1>1, InitHolds, StepKeeps, PTL DEF Spec
=============================================================================
