------------------------ MODULE BridgeClientsProofs ------------------------
(***************************************************************************)
(* Proofs about BridgeClients, for any hosts, engine pointers and number   *)
(* of clients.                                                             *)
(***************************************************************************)
EXTENDS BridgeClients, SequenceTheorems, TLAPS

USE MaxAssumption

LEMMA Constants ==
    /\ Waiting \in MainType
    /\ NoClient \in ClientType
    /\ NoCbState \in CbsType
    /\ NoThread \in ThreadType
    /\ LoopAgain \in MainType
    /\ LoopAgain.pc \in {"accept", "exit"}
    /\ [Waiting EXCEPT !.pc = "exit"] \in MainType
BY DEF Waiting, NoClient, NoCbState, NoThread, LoopAgain, MainType, ClientType, CbsType, ThreadType

(* unregister_client takes one place out of the list and keeps the others. *)
LEMMA Removed ==
    ASSUME NEW S, NEW s \in Seq(S), NEW i \in DOMAIN s
    PROVE  /\ RemoveAt(s, i) \in Seq(S)
           /\ Len(RemoveAt(s, i)) = Len(s) - 1
           /\ \A n \in 1..(Len(s) - 1) : RemoveAt(s, i)[n] = IF n < i THEN s[n] ELSE s[n + 1]
<1>1. i \in 1..Len(s) /\ Len(s) \in Nat /\ \A n \in 1..Len(s) : s[n] \in S
  BY LenProperties, ElementOfSeq
<1>2. /\ SubSeq(s, 1, i - 1) \in Seq(S) /\ Len(SubSeq(s, 1, i - 1)) = i - 1
      /\ \A n \in 1..(i - 1) : SubSeq(s, 1, i - 1)[n] = s[n]
  BY <1>1, SubSeqProperties
<1>3. /\ SubSeq(s, i + 1, Len(s)) \in Seq(S) /\ Len(SubSeq(s, i + 1, Len(s))) = Len(s) - i
      /\ \A n \in 1..(Len(s) - i) : SubSeq(s, i + 1, Len(s))[n] = s[n + i]
  BY <1>1, SubSeqProperties
<1> DEFINE a == SubSeq(s, 1, i - 1)
           b == SubSeq(s, i + 1, Len(s))
<1>4. /\ a \o b \in Seq(S) /\ Len(a \o b) = Len(a) + Len(b)
      /\ \A n \in 1..(Len(a) + Len(b)) : (a \o b)[n] = IF n <= Len(a) THEN a[n] ELSE b[n - Len(a)]
  BY <1>2, <1>3, ConcatProperties
<1>5. Len(a) = i - 1 /\ Len(b) = Len(s) - i
  BY <1>2, <1>3
<1>7. RemoveAt(s, i) = a \o b
  BY DEF RemoveAt
<1> HIDE DEF a, b
<1>6. ASSUME NEW n \in 1..(Len(s) - 1)
      PROVE  (a \o b)[n] = IF n < i THEN s[n] ELSE s[n + 1]
  <2>1. CASE n < i
    <3>1. n \in 1..(i - 1) /\ n \in 1..(Len(a) + Len(b)) /\ n <= Len(a)
      BY <1>1, <1>5, <2>1
    <3>2. (a \o b)[n] = a[n]
      BY <3>1, <1>4
    <3> QED
      BY <3>1, <3>2, <2>1, <1>2 DEF a
  <2>2. CASE ~(n < i)
    <3>1. /\ n - (i - 1) \in 1..(Len(s) - i) /\ n \in 1..(Len(a) + Len(b))
          /\ ~(n <= Len(a)) /\ n - Len(a) = n - (i - 1) /\ (n - (i - 1)) + i = n + 1
      BY <1>1, <1>5, <2>2
    <3>2. (a \o b)[n] = b[n - (i - 1)]
      BY <3>1, <1>4
    <3> QED
      BY <3>1, <3>2, <2>2, <1>3 DEF b
  <2> QED
    BY <2>1, <2>2
<1>8. Len(a) + Len(b) = Len(s) - 1
  BY <1>1, <1>5
<1> QED
  BY <1>4, <1>6, <1>7, <1>8

LEMMA TypeInit == Init => TypeOK
<1> SUFFICES ASSUME Init PROVE TypeOK
  OBVIOUS
<1>1. \A h \in Host : [st |-> "off", id |-> 0, refused |-> FALSE] \in HostType
  BY DEF HostType
<1>2. /\ host \in [Host -> HostType] /\ client \in [Id -> ClientType]
      /\ thread \in [Id -> ThreadType] /\ main \in MainType
  BY <1>1, Constants DEF Init
<1>3. backlog \in Seq(Handshake) /\ g_clients \in Seq(Id)
  BY EmptySeq DEF Init
<1> QED
  BY <1>2, <1>3 DEF Init, TypeOK

(* The hosts. *)
LEMMA HostTypes ==
    ASSUME TypeOK, NEW h \in Host, HostStep(h)
    PROVE  TypeOK'
<1> USE DEF TypeOK
<1>1. CASE ConnectRpc(h)
  <2>1. [host |-> h, id |-> 0] \in Handshake
    BY DEF Handshake
  <2>2. backlog' \in Seq(Handshake)
    BY <1>1, <2>1, AppendProperties DEF ConnectRpc
  <2>3. [host[h] EXCEPT !.st = "rpc"] \in HostType
    BY DEF HostType
  <2>4. host' \in [Host -> HostType]
    BY <1>1, <2>3 DEF ConnectRpc
  <2> QED
    BY <1>1, <2>2, <2>4 DEF ConnectRpc
<1>2. CASE ConnectCb(h)
  <2>1. [host |-> h, id |-> host[h].id] \in Handshake
    BY DEF Handshake, HostType
  <2>2. backlog' \in Seq(Handshake)
    BY <1>2, <2>1, AppendProperties DEF ConnectCb
  <2>3. [host[h] EXCEPT !.st = "cb"] \in HostType
    BY DEF HostType
  <2>4. host' \in [Host -> HostType]
    BY <1>2, <2>3 DEF ConnectCb
  <2> QED
    BY <1>2, <2>2, <2>4 DEF ConnectCb
<1>3. CASE Leave(h)
  <2>1. [st |-> "gone", id |-> 0, refused |-> FALSE] \in HostType
    BY DEF HostType
  <2>2. host' \in [Host -> HostType]
    BY <1>3, <2>1 DEF Leave
  <2> QED
    BY <1>3, <2>2 DEF Leave
<1> QED
  BY <1>1, <1>2, <1>3 DEF HostStep

(* The accept loop. *)
LEMMA MainTypes ==
    ASSUME TypeOK, MainStep
    PROVE  TypeOK'
<1> USE DEF TypeOK
<1>1. CASE Accept
  <2>1. Head(backlog) \in Handshake /\ backlog' \in Seq(Handshake)
    BY <1>1, HeadTailProperties DEF Accept
  <2>2. main' \in MainType
    BY <1>1, <2>1 DEF Accept, MainType, Handshake
  <2> QED
    BY <1>1, <2>1, <2>2 DEF Accept
<1>2. CASE NewClient
  <2> DEFINE k == g_next_client_id
  <2>1. k \in Id /\ k + 1 \in Nat \ {0}
    BY <1>2 DEF NewClient, Id
  <2>2. g_clients' \in Seq(Id)
    <3>1. <<k>> \in Seq(Id)
      BY <2>1
    <3> QED
      BY <1>2, <3>1, ConcatProperties DEF NewClient, RegisterClient
  <2>3. [NoClient EXCEPT !.mem = "used", !.rpc_fd = main.host] \in ClientType
    BY Constants DEF NoClient, ClientType, MainType
  <2>4. client' \in [Id -> ClientType]
    BY <1>2, <2>1, <2>3 DEF NewClient
  <2>5. main' \in MainType
    BY <1>2, <2>1 DEF NewClient, MainType
  <2> QED
    BY <1>2, <2>1, <2>2, <2>4, <2>5 DEF NewClient
<1>3. CASE AckRpc
  <2>1. \A r \in HostType : [r EXCEPT !.st = "acked", !.id = main.id] \in HostType
    BY DEF HostType, MainType
  <2>2. host' \in [Host -> HostType]
    BY <1>3, <2>1 DEF AckRpc
  <2>3. main' \in MainType
    BY <1>3 DEF AckRpc, MainType
  <2> QED
    BY <1>3, <2>2, <2>3 DEF AckRpc
<1>4. CASE StartThread
  <2>1. \A r \in ThreadType : [r EXCEPT !.pc = IF g_running THEN "read" ELSE "end"] \in ThreadType
    BY DEF ThreadType
  <2>2. thread' \in [Id -> ThreadType]
    BY <1>4, <2>1 DEF StartThread
  <2> QED
    BY <1>4, <2>2, Constants DEF StartThread
<1>5. CASE AckCb
  <2>1. \A r \in HostType : [r EXCEPT !.st = IF @ = "cb" THEN "ready" ELSE @] \in HostType
    BY DEF HostType
  <2>2. host' \in [Host -> HostType]
    BY <1>5, <2>1 DEF AckCb
  <2>3. main' \in MainType
    BY <1>5 DEF AckCb, MainType
  <2> QED
    BY <1>5, <2>2, <2>3 DEF AckCb
<1>6. CASE FindClient
  <2>1. \A r \in HostType : [r EXCEPT !.refused = Alive(main.host)] \in HostType
    BY DEF HostType, Alive
  <2>2. host' \in [Host -> HostType]
    BY <1>6, <2>1 DEF FindClient
  <2>3. FindClientById(main.id) \in Id \cup {0}
    BY DEF FindClientById, MainType
  <2>4. main' \in MainType
    BY <1>6, <2>3, Constants DEF FindClient, MainType
  <2> QED
    BY <1>6, <2>2, <2>4 DEF FindClient
<1>7. CASE Associate
  <2>1. \A r \in ClientType : [r EXCEPT !.cb_fd = main.host] \in ClientType
    BY DEF ClientType, MainType
  <2>2. client' \in [Id -> ClientType]
    <3>1. \/ client' = client
          \/ client' = [client EXCEPT ![main.found] = [@ EXCEPT !.cb_fd = main.host]]
      BY <1>7 DEF Associate
    <3> QED
      BY <2>1, <3>1
  <2>3. main' \in MainType
    BY <1>7, Constants DEF Associate, MainType
  <2> QED
    BY <1>7, <2>2, <2>3 DEF Associate
<1>8. CASE AssociateStates
  <2>1. \A r \in ClientType, x \in Host \cup {NULL} : [r EXCEPT !.cbs.cb_fd = x] \in ClientType
    BY DEF ClientType, CbsType
  <2>2. main.host \in Host \cup {NULL}
    BY DEF MainType
  <2>3. \A r \in ClientType : [r EXCEPT !.cbs.cb_fd = main.host] \in ClientType
    BY <2>1, <2>2
  <2>4. client' \in [Id -> ClientType]
    <3>1. \/ client' = client
          \/ client' = [client EXCEPT ![main.found] = [@ EXCEPT !.cbs.cb_fd = main.host]]
      BY <1>8 DEF AssociateStates
    <3> QED
      BY <2>3, <3>1
  <2>5. main' \in MainType
    BY <1>8, Constants DEF AssociateStates
  <2> QED
    BY <1>8, <2>4, <2>5 DEF AssociateStates
<1> QED
  BY <1>1, <1>2, <1>3, <1>4, <1>5, <1>6, <1>7, <1>8 DEF MainStep, ServeRpcChannel

(* A client's thread: what a step leaves of the program counter and of the *)
(* callback state is of its type.                                          *)
LEMMA ThreadTypes ==
    ASSUME TypeOK, NEW k \in Id, Request(k) \/ ThreadStep(k)
    PROVE  TypeOK'
<1> USE DEF TypeOK
<1> DEFINE pcs == {"none", "read", "alloc", "event", "remove", "end", "unregister", "free", "done"}
<1>a. \A r \in ThreadType, p \in pcs : [r EXCEPT !.pc = p] \in ThreadType
  BY DEF ThreadType
<1>b. \A p \in pcs, x \in Host \cup {NULL}, j \in Id \cup {0} :
        [pc |-> p, fd |-> x, found |-> j] \in ThreadType
  BY DEF ThreadType
<1>c. client[k].cb_fd \in Host \cup {NULL} /\ client[k].rpc_fd \in Host \cup {NULL}
  BY DEF ClientType
<1>d. Responded \in {"read", "end"}
  BY DEF Responded
<1>1. CASE EciNew(k)
  <2>1. PICK p \in Ptr \ live :
          /\ live' = live \cup {p}
          /\ client' = [client EXCEPT ![k].ptr = p, ![k].cbs = [NoCbState EXCEPT !.used = TRUE]]
    BY <1>1 DEF EciNew
  <2>2. [NoCbState EXCEPT !.used = TRUE] \in CbsType
    BY DEF NoCbState, CbsType
  <2>3. \A r \in ClientType :
          [r EXCEPT !.ptr = p, !.cbs = [NoCbState EXCEPT !.used = TRUE]] \in ClientType
    BY <2>2 DEF ClientType
  <2>4. client' = [client EXCEPT ![k] =
                     [@ EXCEPT !.ptr = p, !.cbs = [NoCbState EXCEPT !.used = TRUE]]]
    BY <2>1
  <2>5. client' \in [Id -> ClientType]
    BY <2>3, <2>4
  <2>6. [NoThread EXCEPT !.pc = "alloc", !.fd = client[k].cb_fd] \in ThreadType
    BY <1>c, Constants DEF ThreadType
  <2>7. thread' \in [Id -> ThreadType]
    BY <1>1, <2>6 DEF EciNew
  <2> QED
    BY <1>1, <2>1, <2>5, <2>7 DEF EciNew
<1>2. CASE AllocCbState(k)
  <2>1. \A r \in ClientType, x \in Host \cup {NULL} : [r EXCEPT !.cbs.cb_fd = x] \in ClientType
    BY DEF ClientType, CbsType
  <2>2. thread[k].fd \in Host \cup {NULL}
    BY DEF ThreadType
  <2>3. client' \in [Id -> ClientType]
    BY <1>2, <2>1, <2>2 DEF AllocCbState
  <2>4. thread' = [thread EXCEPT ![k] = [@ EXCEPT !.pc = Responded, !.fd = NULL]]
    BY <1>2 DEF AllocCbState
  <2>5. \A r \in ThreadType : [r EXCEPT !.pc = Responded, !.fd = NULL] \in ThreadType
    BY <1>d DEF ThreadType
  <2>6. thread' \in [Id -> ThreadType]
    BY <2>4, <2>5
  <2> QED
    BY <1>2, <2>3, <2>6 DEF AllocCbState
<1>3. CASE RegisterCallback(k)
  <2>1. \A r \in ClientType : [r EXCEPT !.cbs.has_callback = TRUE] \in ClientType
    BY DEF ClientType, CbsType
  <2>2. client' \in [Id -> ClientType]
    BY <1>3, <2>1 DEF RegisterCallback
  <2>3. thread' \in [Id -> ThreadType]
    BY <1>3, <1>a, <1>d DEF RegisterCallback
  <2> QED
    BY <1>3, <2>2, <2>3 DEF RegisterCallback
<1>4. CASE EngineEvent(k)
  <2>1. PICK j \in Id \cup {0} :
          thread' = [thread EXCEPT ![k] = [pc |-> "event", fd |-> NULL, found |-> j]]
    BY <1>4 DEF EngineEvent, NoThread
  <2>2. thread' \in [Id -> ThreadType]
    BY <1>b, <2>1
  <2> QED
    BY <1>4, <2>2 DEF EngineEvent
<1>5. CASE EciDelete(k)
  <2>1. thread' = [thread EXCEPT ![k] = [pc |-> "remove", fd |-> NULL, found |-> 0]]
    <3>1. [NoThread EXCEPT !.pc = "remove"] = [pc |-> "remove", fd |-> NULL, found |-> 0]
      BY DEF NoThread
    <3> QED
      BY <1>5, <3>1 DEF EciDelete
  <2>2. thread' \in [Id -> ThreadType]
    BY <1>b, <2>1
  <2> QED
    BY <1>5, <2>2 DEF EciDelete
<1>6. CASE SendEvent(k)
  <2>1. [NoThread EXCEPT !.pc = Responded] \in ThreadType
    BY <1>a, <1>d, Constants
  <2>2. thread' \in [Id -> ThreadType]
    BY <1>6, <2>1 DEF SendEvent
  <2>3. main' \in MainType
    BY <1>6, Constants DEF SendEvent
  <2> QED
    BY <1>6, <2>2, <2>3 DEF SendEvent
<1>7. CASE Forget(k)
  <2>1. \A r \in ClientType : [r EXCEPT !.ptr = NULL, !.cbs = NoCbState] \in ClientType
    BY Constants DEF ClientType
  <2>2. client' = [client EXCEPT ![k] = [@ EXCEPT !.ptr = NULL, !.cbs = NoCbState]]
    BY <1>7 DEF Forget
  <2>3. client' \in [Id -> ClientType]
    BY <2>1, <2>2
  <2>4. thread' \in [Id -> ThreadType]
    BY <1>7, <1>a, <1>d DEF Forget
  <2> QED
    BY <1>7, <2>3, <2>4 DEF Forget
<1>8. CASE SeesEnd(k)
  <2>1. [NoThread EXCEPT !.pc = "end"] \in ThreadType
    BY <1>a, Constants
  <2>2. thread' \in [Id -> ThreadType]
    BY <1>8, <2>1 DEF SeesEnd
  <2> QED
    BY <1>8, <2>2 DEF SeesEnd
<1>9. CASE DeleteInstances(k)
  <2>1. thread' \in [Id -> ThreadType]
    BY <1>9, <1>a DEF DeleteInstances
  <2> QED
    BY <1>9, <2>1 DEF DeleteInstances
<1>10. CASE Unregister(k)
  <2>1. g_clients' \in Seq(Id)
    BY <1>10, Removed DEF Unregister, UnregisterClient
  <2>2. thread' \in [Id -> ThreadType]
    BY <1>10, <1>a DEF Unregister
  <2> QED
    BY <1>10, <2>1, <2>2 DEF Unregister
<1>11. CASE Free(k)
  <2>1. [NoClient EXCEPT !.mem = "freed", !.rpc_fd = client[k].rpc_fd] \in ClientType
    BY <1>c, Constants DEF ClientType, NoClient
  <2>2. client' \in [Id -> ClientType]
    BY <1>11, <2>1 DEF Free
  <2>3. thread' \in [Id -> ThreadType]
    BY <1>11, <1>a DEF Free
  <2> QED
    BY <1>11, <2>2, <2>3 DEF Free
<1> QED
  BY <1>1, <1>2, <1>3, <1>4, <1>5, <1>6, <1>7, <1>8, <1>9, <1>10, <1>11 DEF Request, ThreadStep

LEMMA TypeStep == TypeOK /\ [Next]_vars => TypeOK'
<1> SUFFICES ASSUME TypeOK, [Next]_vars PROVE TypeOK'
  OBVIOUS
<1>1. CASE Signal
  BY <1>1 DEF Signal, TypeOK
<1>2. CASE UNCHANGED vars
  BY <1>2 DEF vars, TypeOK
<1> QED
  BY <1>1, <1>2, HostTypes, MainTypes, ThreadTypes DEF Next

(* Every reachable state of BridgeClients has its type. *)
THEOREM ClientsTypeCorrect == Spec => []TypeOK
<1>1. Init => TypeOK
  BY TypeInit
<1>2. TypeOK /\ [Next]_vars => TypeOK'
  BY TypeStep
<1> QED
  BY <1>1, <1>2, PTL DEF Spec

(* What a step of client j's thread does to the life of j, and leaves alone. *)
LEMMA ThreadMoves ==
    ASSUME TypeOK, NEW j \in Id, Request(j) \/ ThreadStep(j)
    PROVE  /\ host' = host /\ backlog' = backlog /\ g_next_client_id' = g_next_client_id
           /\ main' = main \/ main' = [Waiting EXCEPT !.pc = "exit"]
           /\ \A k \in Id \ {j} : client'[k] = client[k] /\ thread'[k] = thread[k]
           /\ thread[j].pc \notin {"none", "done"}
           /\ \/ /\ thread[j].pc = "free" /\ thread'[j].pc = "done"
                 /\ g_clients' = g_clients /\ client'[j].mem = "freed"
              \/ /\ thread[j].pc = "unregister" /\ thread'[j].pc = "free"
                 /\ UnregisterClient(j) /\ client'[j].mem = client[j].mem
              \/ /\ thread[j].pc # "free" /\ thread'[j].pc \notin {"none", "free", "done"}
                 /\ g_clients' = g_clients /\ client'[j].mem = client[j].mem
<1>1. client \in [Id -> ClientType] /\ thread \in [Id -> ThreadType]
  BY DEF TypeOK
<1>2. client[j] \in ClientType /\ thread[j] \in ThreadType
  BY <1>1
<1>3. /\ host' = host /\ backlog' = backlog /\ g_next_client_id' = g_next_client_id
      /\ main' = main \/ main' = [Waiting EXCEPT !.pc = "exit"]
      /\ thread[j].pc \notin {"none", "done"}
  BY DEF Request, EciNew, RegisterCallback, EngineEvent, EciDelete, Requested, ThreadStep,
         AllocCbState, SendEvent, Forget, SeesEnd, DeleteInstances, Unregister, Free
<1>4. \A k \in Id \ {j} : client'[k] = client[k]
  <2>1. \/ client' = client \/ EciNew(j) \/ AllocCbState(j) \/ RegisterCallback(j)
        \/ Forget(j) \/ Free(j)
    BY DEF Request, EngineEvent, EciDelete, ThreadStep, SendEvent, SeesEnd,
           DeleteInstances, Unregister
  <2> QED
    BY <1>1, <2>1 DEF EciNew, AllocCbState, RegisterCallback, Forget, Free
<1>5. \A k \in Id \ {j} : thread'[k] = thread[k]
  BY <1>1 DEF Request, EciNew, RegisterCallback, EngineEvent, EciDelete, ThreadStep,
         AllocCbState, SendEvent, Forget, SeesEnd, DeleteInstances, Unregister, Free
<1> DEFINE Goes == /\ thread[j].pc # "free" /\ thread'[j].pc \notin {"none", "free", "done"}
                   /\ g_clients' = g_clients /\ client'[j].mem = client[j].mem
<1>6. ASSUME Free(j) PROVE /\ thread[j].pc = "free" /\ thread'[j].pc = "done"
                           /\ g_clients' = g_clients /\ client'[j].mem = "freed"
  BY <1>1, <1>2, <1>6 DEF Free, ThreadType, NoClient
<1>7. ASSUME Unregister(j) PROVE /\ thread[j].pc = "unregister" /\ thread'[j].pc = "free"
                                 /\ UnregisterClient(j) /\ client'[j].mem = client[j].mem
  BY <1>1, <1>2, <1>7 DEF Unregister, ThreadType
<1>8. ASSUME EciNew(j) PROVE Goes
  <2>1. PICK p \in Ptr : client' = [client EXCEPT ![j].ptr = p,
                                                 ![j].cbs = [NoCbState EXCEPT !.used = TRUE]]
    BY <1>8 DEF EciNew
  <2>2. client'[j].mem = client[j].mem
    BY <1>1, <1>2, <2>1 DEF ClientType
  <2>3. thread[j].pc = "read" /\ g_clients' = g_clients
        /\ thread' = [thread EXCEPT ![j] = [NoThread EXCEPT !.pc = "alloc", !.fd = client[j].cb_fd]]
    BY <1>8 DEF EciNew, Requested
  <2>4. thread'[j].pc = "alloc"
    BY <1>1, <2>3 DEF NoThread
  <2> QED
    BY <2>2, <2>3, <2>4
<1>9. ASSUME AllocCbState(j) \/ RegisterCallback(j) \/ Forget(j) PROVE Goes
  <2>1. client'[j].mem = client[j].mem
    BY <1>1, <1>2, <1>9 DEF AllocCbState, RegisterCallback, Forget, ClientType
  <2>2. thread[j].pc # "free" /\ thread'[j].pc \notin {"none", "free", "done"} /\ g_clients' = g_clients
    BY <1>1, <1>2, <1>9 DEF AllocCbState, RegisterCallback, Forget, Requested, Responded, ThreadType
  <2> QED
    BY <2>1, <2>2
<1>10. ASSUME EngineEvent(j) \/ EciDelete(j) \/ SendEvent(j) \/ SeesEnd(j) \/ DeleteInstances(j)
       PROVE  Goes
  <2>1. client' = client /\ g_clients' = g_clients /\ thread[j].pc # "free"
    BY <1>10 DEF EngineEvent, EciDelete, SendEvent, SeesEnd, DeleteInstances, Requested
  <2>2. CASE EngineEvent(j)
    <3>1. PICK i \in Id \cup {0} :
            thread' = [thread EXCEPT ![j] = [NoThread EXCEPT !.pc = "event", !.found = i]]
      BY <2>2 DEF EngineEvent
    <3>2. thread'[j].pc = "event"
      BY <1>1, <3>1 DEF NoThread
    <3> QED
      BY <2>1, <3>2
  <2>3. CASE EciDelete(j) \/ SendEvent(j) \/ SeesEnd(j)
    <3>1. thread'[j].pc \notin {"none", "free", "done"}
      BY <1>1, <2>3 DEF EciDelete, SendEvent, SeesEnd, Responded, NoThread
    <3> QED
      BY <2>1, <3>1
  <2>4. CASE DeleteInstances(j)
    <3>1. thread'[j].pc \notin {"none", "free", "done"}
      BY <1>1, <1>2, <2>4 DEF DeleteInstances, ThreadType
    <3> QED
      BY <2>1, <3>1
  <2> QED
    BY <1>10, <2>2, <2>3, <2>4
<1> QED
  BY <1>3, <1>4, <1>5, <1>6, <1>7, <1>8, <1>9, <1>10 DEF Request, ThreadStep

-----------------------------------------------------------------------------
(* Whose an id is.  An id that has been issued belongs for ever to the host *)
(* at the end of its RPC channel, and every copy of an id, in a handshake,  *)
(* in the accept loop or in a host, is with its owner.                      *)

BelongsTo(k, h) == k \in Id /\ k < g_next_client_id /\ client[k].rpc_fd = h

Unissued ==
    \A k \in Id : ~(k < g_next_client_id) => client[k] = NoClient /\ thread[k] = NoThread
MainOwns ==
    /\ main.pc \in {"ack", "start", "ack cb", "find"} => BelongsTo(main.id, main.host)
    /\ main.pc \in {"associate", "associate states"} => BelongsTo(main.found, main.host)
HostOwns == \A h \in Host : host[h].id # 0 => BelongsTo(host[h].id, h)
BacklogOwns ==
    \A i \in DOMAIN backlog : backlog[i].id # 0 => BelongsTo(backlog[i].id, backlog[i].host)
IdsOwned == Unissued /\ MainOwns /\ HostOwns /\ BacklogOwns

(* client_thread and main write to the other fields of a client they have *)
(* registered; its RPC channel stays, and ids only grow.                  *)
LEMMA BelongsForEver ==
    ASSUME TypeOK, Next
    PROVE  /\ \A k \in Id : k < g_next_client_id => client'[k].rpc_fd = client[k].rpc_fd
           /\ g_next_client_id =< g_next_client_id'
           /\ \A k, h : BelongsTo(k, h) => BelongsTo(k, h)'
<1>0. g_next_client_id \in Nat /\ client \in [Id -> ClientType]
  BY DEF TypeOK
<1> DEFINE Keeps == /\ \A k \in Id : k < g_next_client_id => client'[k].rpc_fd = client[k].rpc_fd
                    /\ g_next_client_id =< g_next_client_id' /\ g_next_client_id' \in Nat
<1>a. ASSUME client' = client, g_next_client_id' = g_next_client_id
      PROVE  Keeps
  BY <1>0, <1>a
<1>b. ASSUME NEW j, g_next_client_id' = g_next_client_id,
             NEW c, client' = [client EXCEPT ![j] = c], j \in Id => c.rpc_fd = client[j].rpc_fd
      PROVE  Keeps
  BY <1>0, <1>b
<1>1. ASSUME Signal PROVE Keeps
  <2>1. client' = client /\ g_next_client_id' = g_next_client_id
    BY <1>1 DEF Signal
  <2> QED
    BY <1>a, <2>1
<1>2. ASSUME NEW h \in Host, HostStep(h) PROVE Keeps
  <2>1. client' = client /\ g_next_client_id' = g_next_client_id
    BY <1>2 DEF HostStep, ConnectRpc, ConnectCb, Leave
  <2> QED
    BY <1>a, <2>1
<1>3. ASSUME Accept \/ AckRpc \/ StartThread \/ AckCb \/ FindClient PROVE Keeps
  <2>1. client' = client /\ g_next_client_id' = g_next_client_id
    BY <1>3 DEF Accept, AckRpc, StartThread, AckCb, FindClient
  <2> QED
    BY <1>a, <2>1
<1>4. ASSUME NewClient PROVE Keeps
  BY <1>0, <1>4 DEF NewClient
<1>5. ASSUME Associate PROVE Keeps
  <2> DEFINE c == [client[main.found] EXCEPT !.cb_fd = main.host]
  <2>1. /\ g_next_client_id' = g_next_client_id
        /\ client' = client \/ client' = [client EXCEPT ![main.found] = c]
    BY <1>5 DEF Associate
  <2>2. main.found \in Id => c.rpc_fd = client[main.found].rpc_fd
    BY <1>0 DEF ClientType
  <2> HIDE DEF c
  <2> QED
    BY <1>a, <1>b, <2>1, <2>2
<1>6. ASSUME AssociateStates PROVE Keeps
  <2> DEFINE c == [client[main.found] EXCEPT !.cbs.cb_fd = main.host]
  <2>1. /\ g_next_client_id' = g_next_client_id
        /\ client' = client \/ client' = [client EXCEPT ![main.found] = c]
    BY <1>6 DEF AssociateStates
  <2>2. main.found \in Id => c.rpc_fd = client[main.found].rpc_fd
    BY <1>0 DEF ClientType
  <2> HIDE DEF c
  <2> QED
    BY <1>a, <1>b, <2>1, <2>2
<1>7. ASSUME NEW j \in Id, Request(j) \/ ThreadStep(j) PROVE Keeps
  <2>0. client[j] \in ClientType
    BY <1>0
  <2>1. g_next_client_id' = g_next_client_id
    BY <1>7 DEF Request, EciNew, RegisterCallback, EngineEvent, EciDelete, ThreadStep,
                AllocCbState, SendEvent, Forget, SeesEnd, DeleteInstances, Unregister, Free
  <2>2. \/ client' = client
        \/ \E c : client' = [client EXCEPT ![j] = c] /\ c.rpc_fd = client[j].rpc_fd
    <3>1. CASE EciNew(j)
      <4>0. PICK p \in Ptr : client' = [client EXCEPT ![j].ptr = p, ![j].cbs = [NoCbState EXCEPT !.used = TRUE]]
        BY <3>1 DEF EciNew
      <4> DEFINE c == [client[j] EXCEPT !.ptr = p, !.cbs = [NoCbState EXCEPT !.used = TRUE]]
      <4>1. client' = [client EXCEPT ![j] = c]
        BY <4>0
      <4>2. c.rpc_fd = client[j].rpc_fd
        BY <2>0 DEF ClientType
      <4> HIDE DEF c
      <4> QED
        BY <4>1, <4>2
    <3>2. CASE AllocCbState(j)
      <4> DEFINE c == [client[j] EXCEPT !.cbs.cb_fd = thread[j].fd]
      <4>1. client' = [client EXCEPT ![j] = c]
        BY <3>2 DEF AllocCbState
      <4>2. c.rpc_fd = client[j].rpc_fd
        BY <2>0 DEF ClientType
      <4> HIDE DEF c
      <4> QED
        BY <4>1, <4>2
    <3>3. CASE RegisterCallback(j)
      <4> DEFINE c == [client[j] EXCEPT !.cbs.has_callback = TRUE]
      <4>1. client' = [client EXCEPT ![j] = c]
        BY <3>3 DEF RegisterCallback
      <4>2. c.rpc_fd = client[j].rpc_fd
        BY <2>0 DEF ClientType
      <4> HIDE DEF c
      <4> QED
        BY <4>1, <4>2
    <3>4. CASE Forget(j)
      <4> DEFINE c == [client[j] EXCEPT !.ptr = NULL, !.cbs = NoCbState]
      <4>1. client' = [client EXCEPT ![j] = c]
        BY <3>4 DEF Forget
      <4>2. c.rpc_fd = client[j].rpc_fd
        BY <2>0 DEF ClientType
      <4> HIDE DEF c
      <4> QED
        BY <4>1, <4>2
    <3>5. CASE Free(j)
      <4> DEFINE c == [NoClient EXCEPT !.mem = "freed", !.rpc_fd = client[j].rpc_fd]
      <4>1. client' = [client EXCEPT ![j] = c]
        BY <3>5 DEF Free
      <4>2. c.rpc_fd = client[j].rpc_fd
        BY DEF NoClient
      <4> HIDE DEF c
      <4> QED
        BY <4>1, <4>2
    <3> QED
      BY <1>7, <3>1, <3>2, <3>3, <3>4, <3>5
         DEF Request, ThreadStep, EngineEvent, EciDelete, SendEvent, SeesEnd, DeleteInstances, Unregister
  <2> QED
    BY <1>a, <1>b, <2>1, <2>2
<1>8. Keeps
  BY <1>1, <1>2, <1>3, <1>4, <1>5, <1>6, <1>7 DEF Next, MainStep, ServeRpcChannel
<1>9. ASSUME NEW k, NEW h, BelongsTo(k, h) PROVE BelongsTo(k, h)'
  <2>1. k \in Nat
    BY <1>9 DEF BelongsTo, Id
  <2> QED
    BY <1>0, <1>8, <1>9, <2>1 DEF BelongsTo
<1> QED
  BY <1>8, <1>9

(* The host's side: it presents the id it has been given, and AckRpc gives *)
(* it the id of the client whose RPC channel it holds.                     *)
LEMMA HostOwnsKept ==
    ASSUME TypeOK, IdsOwned, Next
    PROVE  HostOwns'
<1>1. \A k, h : BelongsTo(k, h) => BelongsTo(k, h)'
  BY BelongsForEver
<1>2. host \in [Host -> HostType]
  BY DEF TypeOK
<1> SUFFICES ASSUME NEW h \in Host, host'[h].id # 0
             PROVE  BelongsTo(host[h].id, h)'
  BY DEF HostOwns
<1>3. CASE host'[h].id = host[h].id
  BY <1>1, <1>3 DEF IdsOwned, HostOwns, BelongsTo
<1>4. ASSUME NEW g \in Host, HostStep(g), host'[h].id # host[h].id PROVE FALSE
  BY <1>2, <1>4 DEF HostStep, ConnectRpc, ConnectCb, Leave, HostType
<1>5. ASSUME AckRpc, host'[h].id # host[h].id PROVE BelongsTo(host[h].id, h)'
  <2>1. h = main.host /\ host'[h].id = main.id
    BY <1>2, <1>5 DEF AckRpc, HostType
  <2>2. BelongsTo(main.id, main.host)
    BY <1>5 DEF IdsOwned, MainOwns, AckRpc
  <2> QED
    BY <1>1, <2>1, <2>2 DEF BelongsTo
<1>6. ASSUME AckCb \/ FindClient PROVE host'[h].id = host[h].id
  <2>1. CASE AckCb
    BY <1>2, <2>1 DEF AckCb, HostType
  <2>2. CASE FindClient
    <3>1. host' = host \/ host' = [host EXCEPT ![main.host].refused = Alive(main.host)]
      BY <2>2 DEF FindClient
    <3> QED
      BY <1>2, <3>1 DEF HostType
  <2> QED
    BY <1>6, <2>1, <2>2
<1>7. ASSUME Accept \/ NewClient \/ StartThread \/ Associate \/ AssociateStates \/ Signal
      PROVE  host' = host
  BY <1>7 DEF Accept, NewClient, StartThread, Associate, AssociateStates, Signal
<1>8. ASSUME NEW k \in Id, Request(k) \/ ThreadStep(k) PROVE host' = host
  BY <1>8, ThreadMoves
<1> QED
  BY <1>3, <1>4, <1>5, <1>6, <1>7, <1>8 DEF Next, MainStep, ServeRpcChannel

(* A handshake in the backlog carries the id of the host that sent it. *)
LEMMA BacklogOwnsKept ==
    ASSUME TypeOK, IdsOwned, Next
    PROVE  BacklogOwns'
<1>1. \A k, h : BelongsTo(k, h) => BelongsTo(k, h)'
  BY BelongsForEver
<1>2. backlog \in Seq(Handshake)
  BY DEF TypeOK
<1>3. ASSUME backlog' = backlog PROVE BacklogOwns'
  BY <1>1, <1>3 DEF IdsOwned, BacklogOwns, BelongsTo
<1>4. ASSUME NEW r \in Handshake, backlog' = Append(backlog, r),
             r.id # 0 => BelongsTo(r.id, r.host)
      PROVE  BacklogOwns'
  <2> SUFFICES ASSUME NEW i \in DOMAIN backlog', backlog'[i].id # 0
               PROVE  BelongsTo(backlog[i].id, backlog[i].host)'
    BY DEF BacklogOwns
  <2>1. \/ i \in DOMAIN backlog /\ backlog'[i] = backlog[i]
        \/ backlog'[i] = r
    BY <1>2, <1>4
  <2> QED
    BY <1>1, <1>4, <2>1 DEF IdsOwned, BacklogOwns, BelongsTo
<1>5. ASSUME Accept PROVE BacklogOwns'
  <2>1. backlog # <<>> /\ backlog' = Tail(backlog)
    BY <1>5 DEF Accept
  <2> SUFFICES ASSUME NEW i \in DOMAIN backlog', backlog'[i].id # 0
               PROVE  BelongsTo(backlog[i].id, backlog[i].host)'
    BY DEF BacklogOwns
  <2>2. i + 1 \in DOMAIN backlog /\ backlog'[i] = backlog[i + 1]
    BY <1>2, <2>1
  <2> QED
    BY <1>1, <2>2 DEF IdsOwned, BacklogOwns, BelongsTo
<1>6. ASSUME NEW h \in Host, HostStep(h) PROVE BacklogOwns'
  <2>1. CASE ConnectRpc(h)
    <3> DEFINE r == [host |-> h, id |-> 0]
    <3>1. backlog' = Append(backlog, r)
      BY <2>1 DEF ConnectRpc
    <3>2. r \in Handshake /\ r.id = 0
      BY DEF Handshake
    <3> HIDE DEF r
    <3> QED
      BY <1>4, <3>1, <3>2
  <2>2. CASE ConnectCb(h)
    <3> DEFINE r == [host |-> h, id |-> host[h].id]
    <3>1. backlog' = Append(backlog, r)
      BY <2>2 DEF ConnectCb
    <3>2. r \in Handshake /\ r.id = host[h].id /\ r.host = h
      BY DEF Handshake, TypeOK, HostType
    <3>3. r.id # 0 => BelongsTo(r.id, r.host)
      BY <3>2 DEF IdsOwned, HostOwns
    <3> HIDE DEF r
    <3> QED
      BY <1>4, <3>1, <3>2, <3>3
  <2>3. CASE Leave(h)
    BY <1>3, <2>3 DEF Leave
  <2> QED
    BY <1>6, <2>1, <2>2, <2>3 DEF HostStep
<1>7. ASSUME \/ NewClient \/ AckRpc \/ StartThread \/ AckCb \/ FindClient
             \/ Associate \/ AssociateStates \/ Signal
      PROVE  backlog' = backlog
  BY <1>7 DEF NewClient, AckRpc, StartThread, AckCb, FindClient, Associate, AssociateStates, Signal
<1>8. ASSUME NEW k \in Id, Request(k) \/ ThreadStep(k) PROVE backlog' = backlog
  BY <1>8, ThreadMoves
<1> QED
  BY <1>3, <1>5, <1>6, <1>7, <1>8 DEF Next, MainStep, ServeRpcChannel

(* The accept loop looks for a client by the id of the handshake, and joins *)
(* the connection to the client it has found.                               *)
LEMMA MainOwnsKept ==
    ASSUME TypeOK, IdsOwned, Next
    PROVE  MainOwns'
<1>1. \A k, h : BelongsTo(k, h) => BelongsTo(k, h)'
  BY BelongsForEver
<1>2. main \in MainType /\ g_next_client_id \in Nat \ {0} /\ client \in [Id -> ClientType]
  BY DEF TypeOK
<1>3. ASSUME main'.pc \in {"accept", "new", "exit"} PROVE MainOwns'
  BY <1>3 DEF MainOwns
<1>4. ASSUME main' = main PROVE MainOwns'
  BY <1>1, <1>4 DEF IdsOwned, MainOwns, BelongsTo
<1>5. LoopAgain.pc \in {"accept", "exit"} /\ [Waiting EXCEPT !.pc = "exit"].pc = "exit"
  BY DEF LoopAgain, Waiting
<1>6. CASE Accept
  <2> DEFINE head == Head(backlog)
  <2>1. /\ backlog # <<>>
        /\ main' = [pc |-> IF head.id = 0 THEN "new" ELSE "ack cb",
                    host |-> head.host, id |-> head.id, found |-> 0]
    BY <1>6 DEF Accept
  <2>2. head.id # 0 => BelongsTo(head.id, head.host)
    <3>1. backlog \in Seq(Handshake) /\ backlog # <<>>
      BY <2>1 DEF TypeOK
    <3>2. Head(backlog) = backlog[1] /\ 1 \in DOMAIN backlog
      BY <3>1
    <3> HIDE DEF head
    <3>3. head = backlog[1]
      BY <3>2 DEF head
    <3> QED
      BY <3>2, <3>3 DEF IdsOwned, BacklogOwns
  <2> HIDE DEF head
  <2>3. CASE head.id = 0
    BY <1>3, <2>1, <2>3
  <2>4. CASE head.id # 0
    <3>1. main'.pc = "ack cb" /\ main'.id = head.id /\ main'.host = head.host
      BY <2>1, <2>4
    <3>2. \A k, h : k = head.id /\ h = head.host => BelongsTo(k, h)'
      BY <1>1, <2>2, <2>4
    <3> QED
      BY <3>1, <3>2 DEF MainOwns, BelongsTo
  <2> QED
    BY <2>3, <2>4
<1>7. CASE NewClient
  <2> DEFINE k == g_next_client_id
             c == [NoClient EXCEPT !.mem = "used", !.rpc_fd = main.host]
  <2>1. /\ k \in Id /\ client' = [client EXCEPT ![k] = c] /\ g_next_client_id' = k + 1
        /\ main' = [main EXCEPT !.pc = "ack", !.id = k]
    BY <1>2, <1>7, MaxAssumption DEF NewClient, Id
  <2>2. c.rpc_fd = main.host /\ k \in Nat
    BY <1>2 DEF NoClient
  <2>3. main'.pc = "ack" /\ main'.id = k /\ main'.host = main.host
    BY <1>2, <2>1 DEF MainType
  <2> HIDE DEF c
  <2>4. client'[k].rpc_fd = main.host /\ k < k + 1
    BY <1>2, <2>1, <2>2
  <2> QED
    BY <2>1, <2>3, <2>4 DEF MainOwns, BelongsTo
<1>8. CASE AckRpc
  <2>1. BelongsTo(main.id, main.host)
    BY <1>8 DEF AckRpc, IdsOwned, MainOwns
  <2>2. main'.pc = "start" /\ main'.id = main.id /\ main'.host = main.host
    BY <1>2, <1>8 DEF AckRpc, MainType
  <2> QED
    BY <1>1, <2>1, <2>2 DEF MainOwns, BelongsTo
<1>9. CASE AckCb
  <2>1. BelongsTo(main.id, main.host)
    BY <1>9 DEF AckCb, IdsOwned, MainOwns
  <2>2. main'.pc = "find" /\ main'.id = main.id /\ main'.host = main.host
    BY <1>2, <1>9 DEF AckCb, MainType
  <2> QED
    BY <1>1, <2>1, <2>2 DEF MainOwns, BelongsTo
<1>10. CASE FindClient
  <2>1. BelongsTo(main.id, main.host)
    BY <1>10 DEF FindClient, IdsOwned, MainOwns
  <2> DEFINE k == FindClientById(main.id)
  <2>2. k # 0 => k = main.id
    BY DEF FindClientById
  <2>3. \/ k # 0 /\ main' = [main EXCEPT !.pc = "associate", !.found = k]
        \/ main' = LoopAgain
    BY <1>10 DEF FindClient
  <2> HIDE DEF k
  <2>4. CASE k # 0 /\ main' = [main EXCEPT !.pc = "associate", !.found = k]
    <3>1. main'.pc = "associate" /\ main'.found = main.id /\ main'.host = main.host
      BY <1>2, <2>2, <2>4 DEF MainType
    <3> QED
      BY <1>1, <2>1, <3>1 DEF MainOwns, BelongsTo
  <2> QED
    BY <1>3, <1>5, <2>3, <2>4
<1>11. CASE Associate
  <2>1. \/ main' = [main EXCEPT !.pc = "associate states"]
        \/ main' \in {LoopAgain, [Waiting EXCEPT !.pc = "exit"]}
    BY <1>11 DEF Associate
  <2>2. CASE main' = [main EXCEPT !.pc = "associate states"]
    <3>1. main'.pc = "associate states" /\ main'.found = main.found /\ main'.host = main.host
      BY <1>2, <2>2 DEF MainType
    <3>2. BelongsTo(main.found, main.host)
      BY <1>11 DEF Associate, IdsOwned, MainOwns
    <3> QED
      BY <1>1, <3>1, <3>2 DEF MainOwns, BelongsTo
  <2> QED
    BY <1>3, <1>5, <2>1, <2>2
<1>12. CASE StartThread \/ AssociateStates
  <2>1. main' \in {LoopAgain, [Waiting EXCEPT !.pc = "exit"]}
    BY <1>12 DEF StartThread, AssociateStates
  <2> QED
    BY <1>3, <1>5, <2>1
<1>13. CASE Signal
  BY <1>4, <1>13 DEF Signal
<1>14. ASSUME NEW h \in Host, HostStep(h) PROVE MainOwns'
  BY <1>4, <1>14 DEF HostStep, ConnectRpc, ConnectCb, Leave
<1>15. ASSUME NEW k \in Id, Request(k) \/ ThreadStep(k) PROVE MainOwns'
  <2>1. main' = main \/ main' = [Waiting EXCEPT !.pc = "exit"]
    BY <1>15, ThreadMoves
  <2> QED
    BY <1>3, <1>4, <1>5, <2>1
<1> QED
  BY <1>6, <1>7, <1>8, <1>9, <1>10, <1>11, <1>12, <1>13, <1>14, <1>15
     DEF Next, MainStep, ServeRpcChannel

(* A client that has no id yet has no state and no thread: every step on a *)
(* client is a step on one that has been registered.                       *)
LEMMA UnissuedKept ==
    ASSUME TypeOK, IdsOwned, Next
    PROVE  Unissued'
<1>1. /\ g_next_client_id \in Nat \ {0} /\ client \in [Id -> ClientType]
      /\ thread \in [Id -> ThreadType]
  BY DEF TypeOK
<1>2. g_next_client_id =< g_next_client_id' /\ g_next_client_id' \in Nat
  <2>1. TypeOK'
    BY TypeStep
  <2> QED
    BY <2>1, BelongsForEver DEF TypeOK
<1>3. ASSUME NEW j \in Id, j < g_next_client_id,
             \A k \in Id \ {j} : client'[k] = client[k] /\ thread'[k] = thread[k]
      PROVE  Unissued'
  <2> SUFFICES ASSUME NEW k \in Id, ~(k < g_next_client_id')
               PROVE  client'[k] = NoClient /\ thread'[k] = NoThread
    BY DEF Unissued
  <2>1. k \in Nat /\ j \in Nat /\ ~(k < g_next_client_id) /\ k # j
    BY <1>1, <1>2, <1>3 DEF Id
  <2> QED
    BY <1>3, <2>1 DEF IdsOwned, Unissued
<1>4. ASSUME client' = client, thread' = thread PROVE Unissued'
  <2> SUFFICES ASSUME NEW k \in Id, ~(k < g_next_client_id')
               PROVE  client'[k] = NoClient /\ thread'[k] = NoThread
    BY DEF Unissued
  <2>1. k \in Nat /\ ~(k < g_next_client_id)
    BY <1>1, <1>2 DEF Id
  <2> QED
    BY <1>4, <2>1 DEF IdsOwned, Unissued
<1>5. CASE NewClient
  <2> SUFFICES ASSUME NEW k \in Id, ~(k < g_next_client_id')
               PROVE  client'[k] = NoClient /\ thread'[k] = NoThread
    BY DEF Unissued
  <2>1. k \in Nat /\ ~(k < g_next_client_id) /\ k # g_next_client_id
    BY <1>1, <1>5 DEF Id, NewClient
  <2>2. client'[k] = client[k] /\ thread' = thread
    BY <1>1, <1>5, <2>1 DEF NewClient
  <2> QED
    BY <2>1, <2>2 DEF IdsOwned, Unissued
<1>6. CASE StartThread
  <2>1. main.id \in Id /\ main.id < g_next_client_id
    BY <1>6 DEF StartThread, IdsOwned, MainOwns, BelongsTo
  <2>2. client' = client /\ \A k \in Id \ {main.id} : thread'[k] = thread[k]
    BY <1>1, <1>6 DEF StartThread
  <2> QED
    BY <1>3, <2>1, <2>2
<1>7. CASE Associate \/ AssociateStates
  <2>1. main.found \in Id /\ main.found < g_next_client_id
    BY <1>7 DEF Associate, AssociateStates, IdsOwned, MainOwns, BelongsTo
  <2>2. thread' = thread
    BY <1>7 DEF Associate, AssociateStates
  <2>3. \A k \in Id \ {main.found} : client'[k] = client[k]
    <3>1. CASE Associate
      BY <1>1, <3>1 DEF Associate
    <3>2. CASE AssociateStates
      BY <1>1, <3>2 DEF AssociateStates
    <3> QED
      BY <1>7, <3>1, <3>2
  <2> QED
    BY <1>3, <2>1, <2>2, <2>3
<1>8. CASE Accept \/ AckRpc \/ AckCb \/ FindClient \/ Signal
  BY <1>4, <1>8 DEF Accept, AckRpc, AckCb, FindClient, Signal
<1>9. ASSUME NEW h \in Host, HostStep(h) PROVE Unissued'
  BY <1>4, <1>9 DEF HostStep, ConnectRpc, ConnectCb, Leave
<1>10. ASSUME NEW j \in Id, Request(j) \/ ThreadStep(j) PROVE Unissued'
  <2>1. /\ thread[j].pc # "none"
        /\ \A k \in Id \ {j} : client'[k] = client[k] /\ thread'[k] = thread[k]
    BY <1>10, ThreadMoves
  <2>2. j < g_next_client_id
    BY <2>1 DEF IdsOwned, Unissued, NoThread
  <2> QED
    BY <1>3, <2>1, <2>2
<1> QED
  BY <1>5, <1>6, <1>7, <1>8, <1>9, <1>10 DEF Next, MainStep, ServeRpcChannel

LEMMA IdsInit == Init => IdsOwned /\ OwnChannel
<1> SUFFICES ASSUME Init PROVE IdsOwned /\ OwnChannel
  OBVIOUS
<1>1. Unissued /\ HostOwns /\ BacklogOwns
  BY DEF Init, Unissued, HostOwns, BacklogOwns
<1>2. MainOwns
  BY DEF Init, MainOwns, Waiting
<1>3. OwnChannel
  BY DEF Init, OwnChannel, NoClient, NoCbState, NoThread
<1> QED
  BY <1>1, <1>2, <1>3 DEF IdsOwned

(* The descriptors of client k, and of its thread, are its host's. *)
Own(k) ==
    /\ client[k].cb_fd \in {NULL, client[k].rpc_fd}
    /\ client[k].cbs.cb_fd \in {NULL, client[k].rpc_fd}
    /\ thread[k].fd \in {NULL, client[k].rpc_fd}

(* Associate writes the descriptor of the host the client belongs to, and *)
(* alloc_cb_state copies the client's own.                                *)
LEMMA OwnChannelKept ==
    ASSUME TypeOK, IdsOwned, OwnChannel, Next
    PROVE  OwnChannel'
<1>1. client \in [Id -> ClientType] /\ thread \in [Id -> ThreadType]
  BY DEF TypeOK
<1>2. \A k \in Id : Own(k)
  BY DEF OwnChannel, Own
<1> SUFFICES ASSUME NEW k \in Id PROVE Own(k)'
  BY DEF OwnChannel, Own
<1>3. client[k] \in ClientType /\ client[k].cbs \in CbsType /\ thread[k] \in ThreadType
  BY <1>1 DEF ClientType
<1>4. ASSUME client'[k] = client[k], thread'[k].fd \in {thread[k].fd, NULL} PROVE Own(k)'
  BY <1>2, <1>4 DEF Own
<1>5. ASSUME Accept \/ AckRpc \/ AckCb \/ FindClient \/ Signal PROVE Own(k)'
  <2>1. client' = client /\ thread' = thread
    BY <1>5 DEF Accept, AckRpc, AckCb, FindClient, Signal
  <2> QED
    BY <1>4, <2>1
<1>6. ASSUME NEW h \in Host, HostStep(h) PROVE Own(k)'
  <2>1. client' = client /\ thread' = thread
    BY <1>6 DEF HostStep, ConnectRpc, ConnectCb, Leave
  <2> QED
    BY <1>4, <2>1
<1>7. CASE NewClient
  <2>1. client' = [client EXCEPT ![g_next_client_id] =
                     [NoClient EXCEPT !.mem = "used", !.rpc_fd = main.host]]
        /\ thread' = thread
    BY <1>7 DEF NewClient
  <2>2. CASE k = g_next_client_id
    <3>1. thread[k] = NoThread
      BY <1>1, <2>2 DEF IdsOwned, Unissued, TypeOK
    <3>2. client'[k].cb_fd = NULL /\ client'[k].cbs.cb_fd = NULL
      BY <1>1, <2>1, <2>2 DEF NoClient, NoCbState
    <3> QED
      BY <2>1, <3>1, <3>2 DEF Own, NoThread
  <2>3. CASE k # g_next_client_id
    BY <1>1, <1>4, <2>1, <2>3
  <2> QED
    BY <2>2, <2>3
<1>8. CASE StartThread
  <2>1. client' = client /\ thread'[k].fd = thread[k].fd
    BY <1>1, <1>3, <1>8 DEF StartThread, ThreadType
  <2> QED
    BY <1>4, <2>1
<1>9. CASE Associate
  <2>1. thread' = thread
    BY <1>9 DEF Associate
  <2>2. \/ client' = client
        \/ client' = [client EXCEPT ![main.found].cb_fd = main.host]
    BY <1>9 DEF Associate
  <2>3. client[main.found].rpc_fd = main.host
    BY <1>9 DEF Associate, IdsOwned, MainOwns, BelongsTo
  <2>4. CASE client'[k] # client[k]
    <3>1. /\ client'[k].rpc_fd = client[k].rpc_fd /\ client'[k].cbs = client[k].cbs
          /\ client'[k].cb_fd = client[k].rpc_fd
      BY <1>1, <1>3, <2>2, <2>3, <2>4 DEF ClientType
    <3> QED
      BY <1>2, <2>1, <3>1 DEF Own
  <2> QED
    BY <1>4, <2>1, <2>4
<1>10. CASE AssociateStates
  <2>1. thread' = thread
    BY <1>10 DEF AssociateStates
  <2>2. \/ client' = client
        \/ client' = [client EXCEPT ![main.found].cbs.cb_fd = main.host]
    BY <1>10 DEF AssociateStates
  <2>3. client[main.found].rpc_fd = main.host
    BY <1>10 DEF AssociateStates, IdsOwned, MainOwns, BelongsTo
  <2>4. CASE client'[k] # client[k]
    <3>1. /\ client'[k].rpc_fd = client[k].rpc_fd /\ client'[k].cb_fd = client[k].cb_fd
          /\ client'[k].cbs.cb_fd = client[k].rpc_fd
      BY <1>1, <1>3, <2>2, <2>3, <2>4 DEF ClientType, CbsType
    <3> QED
      BY <1>2, <2>1, <3>1 DEF Own
  <2> QED
    BY <1>4, <2>1, <2>4
<1>11. ASSUME NEW j \in Id, Request(j) \/ ThreadStep(j) PROVE Own(k)'
  <2>1. CASE EciNew(j)
    <3>1. /\ thread' = [thread EXCEPT ![j] = [NoThread EXCEPT !.pc = "alloc", !.fd = client[j].cb_fd]]
          /\ \E p \in Ptr : client' = [client EXCEPT ![j].ptr = p,
                                                     ![j].cbs = [NoCbState EXCEPT !.used = TRUE]]
      BY <2>1 DEF EciNew
    <3>2. CASE k = j
      <4>1. /\ client'[k].rpc_fd = client[k].rpc_fd /\ client'[k].cb_fd = client[k].cb_fd
            /\ client'[k].cbs.cb_fd = NULL
        BY <1>1, <1>3, <3>1, <3>2 DEF ClientType, NoCbState
      <4>2. thread'[k].fd = client[k].cb_fd
        BY <1>1, <3>1, <3>2 DEF NoThread
      <4> QED
        BY <1>2, <4>1, <4>2 DEF Own
    <3>3. CASE k # j
      BY <1>1, <1>4, <3>1, <3>3
    <3> QED
      BY <3>2, <3>3
  <2>2. CASE AllocCbState(j)
    <3>1. /\ client' = [client EXCEPT ![j].cbs.cb_fd = thread[j].fd]
          /\ thread' = [thread EXCEPT ![j].pc = Responded, ![j].fd = NULL]
      BY <2>2 DEF AllocCbState
    <3>2. CASE k = j
      <4>1. /\ client'[k].rpc_fd = client[k].rpc_fd /\ client'[k].cb_fd = client[k].cb_fd
            /\ client'[k].cbs.cb_fd = thread[k].fd
        BY <1>1, <1>3, <3>1, <3>2 DEF ClientType, CbsType
      <4>2. thread'[k].fd = NULL
        BY <1>1, <1>3, <3>1, <3>2 DEF ThreadType
      <4> QED
        BY <1>2, <4>1, <4>2 DEF Own
    <3>3. CASE k # j
      BY <1>1, <1>4, <3>1, <3>3
    <3> QED
      BY <3>2, <3>3
  <2>3. CASE RegisterCallback(j)
    <3>1. /\ client' = [client EXCEPT ![j].cbs.has_callback = TRUE]
          /\ thread' = [thread EXCEPT ![j].pc = Responded]
      BY <2>3 DEF RegisterCallback
    <3>2. /\ client'[k].rpc_fd = client[k].rpc_fd /\ client'[k].cb_fd = client[k].cb_fd
          /\ client'[k].cbs.cb_fd = client[k].cbs.cb_fd
      BY <1>1, <1>3, <3>1 DEF ClientType, CbsType
    <3>3. thread'[k].fd = thread[k].fd
      BY <1>1, <1>3, <3>1 DEF ThreadType
    <3> QED
      BY <1>2, <3>2, <3>3 DEF Own
  <2>4. CASE Forget(j)
    <3>1. /\ client' = [client EXCEPT ![j].ptr = NULL, ![j].cbs = NoCbState]
          /\ thread' = [thread EXCEPT ![j].pc = Responded]
      BY <2>4 DEF Forget
    <3>2. /\ client'[k].rpc_fd = client[k].rpc_fd /\ client'[k].cb_fd = client[k].cb_fd
          /\ client'[k].cbs.cb_fd \in {client[k].cbs.cb_fd, NULL}
      BY <1>1, <1>3, <3>1 DEF ClientType, NoCbState
    <3>3. thread'[k].fd = thread[k].fd
      BY <1>1, <1>3, <3>1 DEF ThreadType
    <3> QED
      BY <1>2, <3>2, <3>3 DEF Own
  <2>5. CASE Free(j)
    <3>1. /\ client' = [client EXCEPT ![j] = [NoClient EXCEPT !.mem = "freed", !.rpc_fd = client[j].rpc_fd]]
          /\ thread' = [thread EXCEPT ![j].pc = "done"]
      BY <2>5 DEF Free
    <3>2. /\ client'[k].rpc_fd = client[k].rpc_fd /\ client'[k].cb_fd \in {client[k].cb_fd, NULL}
          /\ client'[k].cbs.cb_fd \in {client[k].cbs.cb_fd, NULL}
      BY <1>1, <1>3, <3>1 DEF NoClient, NoCbState
    <3>3. thread'[k].fd = thread[k].fd
      BY <1>1, <1>3, <3>1 DEF ThreadType
    <3> QED
      BY <1>2, <3>2, <3>3 DEF Own
  <2>6. CASE EngineEvent(j)
    <3>1. client' = client /\ \E i : thread' = [thread EXCEPT ![j] = [NoThread EXCEPT !.pc = "event", !.found = i]]
      BY <2>6 DEF EngineEvent
    <3>2. thread'[k].fd \in {thread[k].fd, NULL}
      BY <1>1, <3>1 DEF NoThread
    <3> QED
      BY <1>4, <3>1, <3>2
  <2>7. CASE EciDelete(j) \/ SendEvent(j) \/ SeesEnd(j)
    <3>1. client' = client /\ (thread' = thread \/ \E q : thread' = [thread EXCEPT ![j] = [NoThread EXCEPT !.pc = q]])
      BY <2>7 DEF EciDelete, SendEvent, SeesEnd
    <3>2. thread'[k].fd \in {thread[k].fd, NULL}
      BY <1>1, <3>1 DEF NoThread
    <3> QED
      BY <1>4, <3>1, <3>2
  <2>8. CASE DeleteInstances(j) \/ Unregister(j)
    <3>1. client' = client /\ \E q : thread' = [thread EXCEPT ![j].pc = q]
      BY <2>8 DEF DeleteInstances, Unregister
    <3>2. thread'[k].fd = thread[k].fd
      BY <1>1, <1>3, <3>1 DEF ThreadType
    <3> QED
      BY <1>4, <3>1, <3>2
  <2> QED
    BY <1>11, <2>1, <2>2, <2>3, <2>4, <2>5, <2>6, <2>7, <2>8 DEF Request, ThreadStep
<1> QED
  BY <1>5, <1>6, <1>7, <1>8, <1>9, <1>10, <1>11 DEF Next, MainStep, ServeRpcChannel

LEMMA IdsStep == TypeOK /\ IdsOwned /\ OwnChannel /\ [Next]_vars => IdsOwned' /\ OwnChannel'
<1> SUFFICES ASSUME TypeOK, IdsOwned, OwnChannel, [Next]_vars
             PROVE  IdsOwned' /\ OwnChannel'
  OBVIOUS
<1>1. CASE Next
  BY <1>1, UnissuedKept, MainOwnsKept, HostOwnsKept, BacklogOwnsKept, OwnChannelKept DEF IdsOwned
<1>2. CASE UNCHANGED vars
  BY <1>2 DEF vars, IdsOwned, Unissued, MainOwns, HostOwns, BacklogOwns, BelongsTo, OwnChannel
<1> QED
  BY <1>1, <1>2

(* Both channels of a client, and every descriptor that an event of its     *)
(* instance can be sent to, lead to the host that holds its RPC channel:    *)
(* main, alloc_cb_state and client_thread never mix two hosts up, whatever  *)
(* the number of hosts and clients and the order they come in.              *)
THEOREM ClientsOwnChannel == Spec => []OwnChannel
<1>1. Init => TypeOK /\ IdsOwned /\ OwnChannel
  BY TypeInit, IdsInit
<1>2. TypeOK /\ IdsOwned /\ OwnChannel /\ [Next]_vars => (TypeOK /\ IdsOwned /\ OwnChannel)'
  BY TypeStep, IdsStep
<1> QED
  BY <1>1, <1>2, PTL DEF Spec

-----------------------------------------------------------------------------
(* The life of a client.  It is in the list from its registration until its *)
(* thread takes it out, and in memory until its thread frees it; a thread   *)
(* whose client has not been told its id has not started.                   *)

Lifecycle ==
    /\ \A k \in Id : client[k].mem = "freed" <=> thread[k].pc = "done"
    /\ \A k \in Id : k < g_next_client_id => client[k].mem # "none"
    /\ main.pc \in {"ack", "start"} => thread[main.id].pc = "none"

LEMMA Prepended ==
    ASSUME NEW S, NEW s \in Seq(S), NEW k \in S, IsInjective(s), k \notin ToSet(s)
    PROVE  IsInjective(<<k>> \o s) /\ ToSet(<<k>> \o s) = ToSet(s) \cup {k}
<1> DEFINE t == <<k>> \o s
<1>1. /\ t \in Seq(S) /\ Len(t) = Len(s) + 1 /\ Len(s) \in Nat
      /\ t[1] = k /\ \A n \in 1..Len(s) : t[n + 1] = s[n]
  OBVIOUS
<1>2. DOMAIN t = 1..(Len(s) + 1) /\ DOMAIN s = 1..Len(s)
  BY <1>1
<1> HIDE DEF t
<1>3. \A n \in DOMAIN t : n = 1 \/ (n - 1 \in DOMAIN s /\ t[n] = s[n - 1])
  BY <1>1, <1>2
<1>4. \A n \in DOMAIN s : n + 1 \in DOMAIN t /\ t[n + 1] = s[n]
  BY <1>1, <1>2
<1>5. ToSet(t) = ToSet(s) \cup {k}
  <2>1. 1 \in DOMAIN t /\ t[1] = k
    BY <1>1, <1>2
  <2>2. ASSUME NEW n \in DOMAIN t PROVE t[n] \in ToSet(s) \cup {k}
    BY <1>3, <2>1 DEF ToSet
  <2>3. ASSUME NEW n \in DOMAIN s PROVE s[n] \in ToSet(t)
    <3>1. n + 1 \in DOMAIN t /\ t[n + 1] = s[n]
      BY <1>4
    <3> QED
      BY <3>1 DEF ToSet
  <2>4. k \in ToSet(t)
    BY <2>1 DEF ToSet
  <2>5. ToSet(t) \subseteq ToSet(s) \cup {k}
    BY <2>2 DEF ToSet
  <2>6. ToSet(s) \subseteq ToSet(t)
    BY <2>3 DEF ToSet
  <2> QED
    BY <2>4, <2>5, <2>6
<1>6. IsInjective(t)
  <2> SUFFICES ASSUME NEW a \in DOMAIN t, NEW b \in DOMAIN t, t[a] = t[b] PROVE a = b
    BY DEF IsInjective
  <2>1. \A n \in DOMAIN s : s[n] # k
    BY DEF ToSet
  <2>2. CASE a = 1 \/ b = 1
    BY <1>1, <1>3, <2>1, <2>2
  <2>3. CASE a # 1 /\ b # 1
    <3>1. a - 1 = b - 1
      BY <1>3, <2>3 DEF IsInjective
    <3> QED
      BY <1>2, <3>1
  <2> QED
    BY <2>2, <2>3
<1> QED
  BY <1>5, <1>6 DEF t

LEMMA RemovedOnce ==
    ASSUME NEW S, NEW s \in Seq(S), IsInjective(s), NEW i \in DOMAIN s
    PROVE  IsInjective(RemoveAt(s, i)) /\ ToSet(RemoveAt(s, i)) = ToSet(s) \ {s[i]}
<1> DEFINE t == RemoveAt(s, i)
<1>1. /\ t \in Seq(S) /\ Len(t) = Len(s) - 1
      /\ \A n \in 1..(Len(s) - 1) : t[n] = IF n < i THEN s[n] ELSE s[n + 1]
  BY Removed
<1> HIDE DEF t
<1>2. DOMAIN t = 1..(Len(s) - 1) /\ DOMAIN s = 1..Len(s) /\ Len(s) \in Nat /\ i \in 1..Len(s)
  BY <1>1
<1> DEFINE from(n) == IF n < i THEN n ELSE n + 1
<1>3. \A n \in DOMAIN t : from(n) \in DOMAIN s \ {i} /\ t[n] = s[from(n)]
  BY <1>1, <1>2
<1>4. \A m \in DOMAIN s \ {i} : \E n \in DOMAIN t : from(n) = m
  <2> TAKE m \in DOMAIN s \ {i}
  <2> DEFINE n == IF m < i THEN m ELSE m - 1
  <2>1. n \in DOMAIN t /\ from(n) = m
    BY <1>2
  <2> QED
    BY <2>1
<1>5. \A a, b \in DOMAIN t : from(a) = from(b) => a = b
  BY <1>2
<1> HIDE DEF from
<1>6. IsInjective(t)
  <2> SUFFICES ASSUME NEW a \in DOMAIN t, NEW b \in DOMAIN t, t[a] = t[b] PROVE a = b
    BY DEF IsInjective
  <2>1. from(a) = from(b)
    BY <1>3 DEF IsInjective
  <2> QED
    BY <1>5, <2>1
<1>7. ToSet(t) = {s[m] : m \in DOMAIN s \ {i}}
  BY <1>3, <1>4 DEF ToSet
<1>8. {s[m] : m \in DOMAIN s \ {i}} = ToSet(s) \ {s[i]}
  BY DEF ToSet, IsInjective
<1> QED
  BY <1>6, <1>7, <1>8 DEF t

LEMMA LifecycleKept ==
    ASSUME TypeOK, IdsOwned, Lifecycle, Next
    PROVE  Lifecycle'
<1>1. /\ g_next_client_id \in Nat \ {0} /\ client \in [Id -> ClientType]
      /\ thread \in [Id -> ThreadType] /\ main \in MainType
  BY DEF TypeOK
<1>2. \A k \in Id : k \in Nat
  BY DEF Id
<1>3. ASSUME NEW j \in Id, Request(j) \/ ThreadStep(j) PROVE Lifecycle'
  <2>1. /\ g_next_client_id' = g_next_client_id
        /\ main' = main \/ main' = [Waiting EXCEPT !.pc = "exit"]
        /\ \A k \in Id \ {j} : client'[k] = client[k] /\ thread'[k] = thread[k]
        /\ thread[j].pc \notin {"none", "done"}
        /\ \/ thread'[j].pc = "done" /\ client'[j].mem = "freed"
           \/ thread'[j].pc \notin {"none", "done"} /\ client'[j].mem = client[j].mem
    BY <1>3, ThreadMoves
  <2>2. client[j].mem # "freed"
    BY <2>1 DEF Lifecycle
  <2>3. \A k \in Id : client'[k].mem = "freed" <=> thread'[k].pc = "done"
    BY <2>1, <2>2 DEF Lifecycle
  <2>4. \A k \in Id : k < g_next_client_id' => client'[k].mem # "none"
    BY <2>1 DEF Lifecycle
  <2>5. main'.pc \in {"ack", "start"} => thread'[main'.id].pc = "none"
    <3>1. CASE main' = [Waiting EXCEPT !.pc = "exit"]
      BY <3>1 DEF Waiting
    <3>2. ASSUME main' = main, main.pc \in {"ack", "start"} PROVE thread'[main'.id].pc = "none"
      <4>1. main.id \in Id /\ thread[main.id].pc = "none"
        BY <3>2 DEF Lifecycle, IdsOwned, MainOwns, BelongsTo
      <4> QED
        BY <2>1, <3>2, <4>1
    <3> QED
      BY <2>1, <3>1, <3>2
  <2> QED
    BY <2>3, <2>4, <2>5 DEF Lifecycle
<1>4. ASSUME \A k \in Id : client'[k].mem = client[k].mem, thread' = thread,
             g_next_client_id' = g_next_client_id, main'.pc \notin {"ack", "start"}
      PROVE  Lifecycle'
  BY <1>4 DEF Lifecycle
<1>5. CASE Accept \/ AckCb \/ FindClient
  <2>1. client' = client /\ thread' = thread /\ g_next_client_id' = g_next_client_id
    BY <1>5 DEF Accept, AckCb, FindClient
  <2>2. CASE Accept
    BY <1>4, <2>1, <2>2 DEF Accept
  <2>3. CASE AckCb
    BY <1>1, <1>4, <2>1, <2>3 DEF AckCb, MainType
  <2>4. CASE FindClient
    <3>1. main'.pc \in {"associate", "accept", "exit"}
      BY <1>1, <2>4, Constants DEF FindClient, MainType
    <3> QED
      BY <1>4, <2>1, <3>1
  <2> QED
    BY <1>5, <2>2, <2>3, <2>4
<1>6. CASE Associate \/ AssociateStates
  <2>1. thread' = thread /\ g_next_client_id' = g_next_client_id
    BY <1>6 DEF Associate, AssociateStates
  <2>2. main'.pc \notin {"ack", "start"}
    BY <1>1, <1>6, Constants DEF Associate, AssociateStates, MainType, Waiting
  <2>3. \A k \in Id : client'[k].mem = client[k].mem
    <3>1. \/ client' = client \/ client' = [client EXCEPT ![main.found].cb_fd = main.host]
          \/ client' = [client EXCEPT ![main.found].cbs.cb_fd = main.host]
      BY <1>6 DEF Associate, AssociateStates
    <3> QED
      BY <1>1, <3>1 DEF ClientType
  <2> QED
    BY <1>4, <2>1, <2>2, <2>3
<1>7. CASE NewClient
  <2> DEFINE n == g_next_client_id
             c == [NoClient EXCEPT !.mem = "used", !.rpc_fd = main.host]
  <2>1. /\ n \in Id /\ client' = [client EXCEPT ![n] = c] /\ g_next_client_id' = n + 1
        /\ thread' = thread /\ main' = [main EXCEPT !.pc = "ack", !.id = n]
    BY <1>1, <1>7, MaxAssumption DEF NewClient, Id
  <2>2. c.mem = "used"
    BY DEF NoClient
  <2> HIDE DEF c
  <2>3. main'.id = n /\ client'[n].mem = "used" /\ \A k \in Id \ {n} : client'[k] = client[k]
    BY <1>1, <2>1, <2>2 DEF MainType
  <2>4. thread[n].pc = "none"
    BY <1>1, <2>1 DEF IdsOwned, Unissued, NoThread
  <2>5. \A k \in Id : k < n + 1 => k < n \/ k = n
    BY <1>1, <1>2
  <2> QED
    BY <2>1, <2>3, <2>4, <2>5 DEF Lifecycle
<1>8. CASE AckRpc
  <2>1. /\ client' = client /\ thread' = thread /\ g_next_client_id' = g_next_client_id
        /\ main.pc = "ack" /\ main' = [main EXCEPT !.pc = "start"]
    BY <1>8 DEF AckRpc
  <2>2. main'.id = main.id
    BY <1>1, <2>1 DEF MainType
  <2> QED
    BY <2>1, <2>2 DEF Lifecycle
<1>9. CASE StartThread
  <2>1. /\ client' = client /\ g_next_client_id' = g_next_client_id
        /\ thread' = [thread EXCEPT ![main.id].pc = IF g_running THEN "read" ELSE "end"]
        /\ main.pc = "start" /\ main' = LoopAgain
    BY <1>9 DEF StartThread
  <2>2. main.id \in Id /\ thread[main.id].pc = "none"
    BY <2>1 DEF Lifecycle, IdsOwned, MainOwns, BelongsTo
  <2>3. /\ thread'[main.id].pc \in {"read", "end"}
        /\ \A k \in Id \ {main.id} : thread'[k] = thread[k]
    BY <1>1, <2>1, <2>2 DEF ThreadType
  <2>4. main'.pc \notin {"ack", "start"}
    BY <2>1, Constants
  <2> QED
    BY <2>1, <2>2, <2>3, <2>4 DEF Lifecycle
<1>10. ASSUME Signal \/ (\E h \in Host : HostStep(h)) PROVE Lifecycle'
  <2>1. client' = client /\ thread' = thread /\ main' = main /\ g_next_client_id' = g_next_client_id
    BY <1>10 DEF Signal, HostStep, ConnectRpc, ConnectCb, Leave
  <2> QED
    BY <2>1 DEF Lifecycle
<1> QED
  BY <1>3, <1>5, <1>6, <1>7, <1>8, <1>9, <1>10 DEF Next, MainStep, ServeRpcChannel

(* The clients that the list has to hold. *)
Registered == {k \in Id : client[k].mem = "used" /\ ~Unlisted(k)}

LEMMA RegistryKept ==
    ASSUME TypeOK, IdsOwned, Lifecycle, RegistryExact, Next
    PROVE  RegistryExact'
<1>1. /\ g_next_client_id \in Nat \ {0} /\ client \in [Id -> ClientType]
      /\ thread \in [Id -> ThreadType] /\ g_clients \in Seq(Id)
  BY DEF TypeOK
<1>2. IsInjective(g_clients) /\ ToSet(g_clients) = Registered
  BY DEF RegistryExact, Registered
<1> SUFFICES IsInjective(g_clients') /\ ToSet(g_clients') = Registered'
  BY DEF RegistryExact, Registered
<1>3. ASSUME g_clients' = g_clients,
             \A k \in Id : (k \in Registered)' <=> k \in Registered
      PROVE  IsInjective(g_clients') /\ ToSet(g_clients') = Registered'
  BY <1>2, <1>3 DEF Registered
<1>4. ASSUME g_clients' = g_clients, thread' = thread, \A k \in Id : client'[k].mem = client[k].mem
      PROVE  \A k \in Id : (k \in Registered)' <=> k \in Registered
  BY <1>4 DEF Registered, Unlisted
<1>5. CASE NewClient
  <2> DEFINE n == g_next_client_id
             c == [NoClient EXCEPT !.mem = "used", !.rpc_fd = main.host]
  <2>1. /\ n \in Id /\ client' = [client EXCEPT ![n] = c] /\ thread' = thread
        /\ g_clients' = <<n>> \o g_clients
    BY <1>1, <1>5, MaxAssumption DEF NewClient, RegisterClient, Id
  <2>2. c.mem = "used"
    BY DEF NoClient
  <2> HIDE DEF c
  <2>3. client[n].mem = "none" /\ thread[n].pc = "none"
    BY <1>1, <2>1 DEF IdsOwned, Unissued, NoThread, NoClient
  <2>4. n \notin ToSet(g_clients)
    BY <1>2, <2>3 DEF Registered
  <2>5. IsInjective(g_clients') /\ ToSet(g_clients') = ToSet(g_clients) \cup {n}
    BY <1>1, <1>2, <2>1, <2>4, Prepended
  <2>6. client'[n].mem = "used" /\ \A k \in Id \ {n} : client'[k] = client[k]
    BY <1>1, <2>1, <2>2
  <2>7. Registered' = Registered \cup {n}
    BY <2>1, <2>3, <2>6 DEF Registered, Unlisted
  <2> QED
    BY <1>2, <2>5, <2>7
<1>6. ASSUME NEW j \in Id, Request(j) \/ ThreadStep(j)
      PROVE  IsInjective(g_clients') /\ ToSet(g_clients') = Registered'
  <2>1. /\ \A k \in Id \ {j} : client'[k] = client[k] /\ thread'[k] = thread[k]
        /\ thread[j].pc \notin {"none", "done"}
        /\ \/ /\ thread[j].pc = "free" /\ thread'[j].pc = "done"
              /\ g_clients' = g_clients /\ client'[j].mem = "freed"
           \/ /\ thread[j].pc = "unregister" /\ thread'[j].pc = "free"
              /\ UnregisterClient(j) /\ client'[j].mem = client[j].mem
           \/ /\ thread[j].pc # "free" /\ thread'[j].pc \notin {"none", "free", "done"}
              /\ g_clients' = g_clients /\ client'[j].mem = client[j].mem
    BY <1>6, ThreadMoves
  <2>2. CASE thread[j].pc = "unregister" /\ thread'[j].pc = "free"
    <3>1. UnregisterClient(j) /\ client'[j].mem = client[j].mem
      BY <2>1, <2>2
    <3>2. client[j].mem = "used"
      <4>1. j < g_next_client_id
        BY <2>1 DEF IdsOwned, Unissued, NoThread
      <4>2. client[j].mem # "none" /\ client[j].mem # "freed"
        BY <2>1, <4>1 DEF Lifecycle
      <4> QED
        BY <1>1, <4>2 DEF ClientType
    <3>3. j \in ToSet(g_clients)
      BY <1>2, <2>2, <3>2 DEF Registered, Unlisted
    <3>4. PICK i \in DOMAIN g_clients : g_clients[i] = j /\ g_clients' = RemoveAt(g_clients, i)
      BY <3>1, <3>3 DEF UnregisterClient
    <3>5. IsInjective(g_clients') /\ ToSet(g_clients') = ToSet(g_clients) \ {j}
      BY <1>1, <1>2, <3>4, RemovedOnce
    <3>6. Registered' = Registered \ {j}
      BY <2>1, <2>2, <3>1, <3>2 DEF Registered, Unlisted
    <3> QED
      BY <1>2, <3>5, <3>6
  <2>3. CASE ~(thread[j].pc = "unregister" /\ thread'[j].pc = "free")
    <3>1. g_clients' = g_clients
      BY <2>1, <2>3
    <3>2. \A k \in Id : (k \in Registered)' <=> k \in Registered
      BY <2>1, <2>3 DEF Registered, Unlisted
    <3> QED
      BY <1>3, <3>1, <3>2
  <2> QED
    BY <2>2, <2>3
<1>7. CASE StartThread
  <2>1. /\ client' = client /\ g_clients' = g_clients
        /\ thread' = [thread EXCEPT ![main.id].pc = IF g_running THEN "read" ELSE "end"]
        /\ main.pc = "start"
    BY <1>7 DEF StartThread
  <2>2. main.id \in Id /\ thread[main.id].pc = "none"
    BY <2>1 DEF Lifecycle, IdsOwned, MainOwns, BelongsTo
  <2>3. /\ thread'[main.id].pc \in {"read", "end"}
        /\ \A k \in Id \ {main.id} : thread'[k] = thread[k]
    BY <1>1, <2>1, <2>2 DEF ThreadType
  <2>4. \A k \in Id : (k \in Registered)' <=> k \in Registered
    BY <2>1, <2>2, <2>3 DEF Registered, Unlisted
  <2> QED
    BY <1>3, <2>1, <2>4
<1>8. CASE Associate \/ AssociateStates
  <2>1. thread' = thread /\ g_clients' = g_clients
    BY <1>8 DEF Associate, AssociateStates
  <2>2. \/ client' = client \/ client' = [client EXCEPT ![main.found].cb_fd = main.host]
        \/ client' = [client EXCEPT ![main.found].cbs.cb_fd = main.host]
    BY <1>8 DEF Associate, AssociateStates
  <2>3. ASSUME NEW k \in Id PROVE client'[k].mem = client[k].mem
    <3>1. client[k] \in ClientType
      BY <1>1
    <3>2. CASE client' = [client EXCEPT ![main.found].cb_fd = main.host]
      BY <1>1, <3>1, <3>2 DEF ClientType
    <3>3. CASE client' = [client EXCEPT ![main.found].cbs.cb_fd = main.host]
      BY <1>1, <3>1, <3>3 DEF ClientType
    <3> QED
      BY <2>2, <3>2, <3>3
  <2> QED
    BY <1>3, <1>4, <2>1, <2>3
<1>9. ASSUME Accept \/ AckRpc \/ AckCb \/ FindClient \/ Signal \/ (\E h \in Host : HostStep(h))
      PROVE  IsInjective(g_clients') /\ ToSet(g_clients') = Registered'
  <2>1. client' = client /\ thread' = thread /\ g_clients' = g_clients
    BY <1>9 DEF Accept, AckRpc, AckCb, FindClient, Signal, HostStep, ConnectRpc, ConnectCb, Leave
  <2> QED
    BY <1>3, <1>4, <2>1
<1> QED
  BY <1>5, <1>6, <1>7, <1>8, <1>9 DEF Next, MainStep, ServeRpcChannel

LEMMA RegistryInit == Init => Lifecycle /\ RegistryExact
<1> SUFFICES ASSUME Init PROVE Lifecycle /\ RegistryExact
  OBVIOUS
<1>1. g_clients = <<>> /\ \A k \in Id : client[k].mem = "none" /\ thread[k].pc = "none"
  BY DEF Init, NoClient, NoThread
<1>2. main.pc = "accept" /\ g_next_client_id = 1
  BY DEF Init, Waiting
<1>3. \A k \in Id : ~(k < 1)
  BY DEF Id
<1>4. Lifecycle
  BY <1>1, <1>2, <1>3 DEF Lifecycle
<1>5. RegistryExact
  BY <1>1 DEF RegistryExact, IsInjective, ToSet
<1> QED
  BY <1>4, <1>5

LEMMA RegistryStep ==
    TypeOK /\ IdsOwned /\ Lifecycle /\ RegistryExact /\ [Next]_vars => Lifecycle' /\ RegistryExact'
<1> SUFFICES ASSUME TypeOK, IdsOwned, Lifecycle, RegistryExact, [Next]_vars
             PROVE  Lifecycle' /\ RegistryExact'
  OBVIOUS
<1>1. CASE Next
  BY <1>1, LifecycleKept, RegistryKept
<1>2. CASE UNCHANGED vars
  BY <1>2 DEF vars, Lifecycle, RegistryExact, Unlisted
<1> QED
  BY <1>1, <1>2

(* The client list is exact: every client from its registration until its  *)
(* thread takes it out, each once, and nothing that is freed, so that what *)
(* find_client_by_id and find_cb_state_by_eci_ptr walk is memory in use.   *)
THEOREM ClientsRegistryExact == Spec => []RegistryExact
<1> DEFINE IInv == TypeOK /\ IdsOwned /\ OwnChannel /\ Lifecycle /\ RegistryExact
<1>1. Init => IInv
  BY TypeInit, IdsInit, RegistryInit
<1>2. IInv /\ [Next]_vars => IInv'
  BY TypeStep, IdsStep, RegistryStep
<1>3. IInv => RegistryExact
  OBVIOUS
<1> QED
  BY <1>1, <1>2, <1>3, PTL DEF Spec

-----------------------------------------------------------------------------
(* The engine's instances. *)

(* A client may hold an instance in these states of its thread. *)
Holding(k) == thread[k].pc \notin {"remove", "unregister", "free", "done"}

LEMMA InstancesKept ==
    ASSUME TypeOK, IdsOwned, Lifecycle, InstancesOwned, Next
    PROVE  InstancesOwned'
<1>1. /\ g_next_client_id \in Nat \ {0} /\ client \in [Id -> ClientType]
      /\ thread \in [Id -> ThreadType] /\ live \in SUBSET Ptr /\ NULL \notin Ptr
  BY NullAssumption DEF TypeOK
<1>2. /\ live = {p \in Ptr : \E k \in Id : Holds(k, p)}
      /\ \A j, k \in Id : \A p \in Ptr : Holds(j, p) /\ Holds(k, p) => j = k
  BY DEF InstancesOwned
<1>3. \A k \in Id : client[k] \in ClientType /\ thread[k] \in ThreadType
  BY <1>1
<1> DEFINE Same(k) == \A p \in Ptr : Holds(k, p)' <=> Holds(k, p)
<1>4. ASSUME live' = live, \A k \in Id : Same(k) PROVE InstancesOwned'
  BY <1>2, <1>4 DEF InstancesOwned
<1>5. ASSUME NEW k \in Id, client'[k].ptr = client[k].ptr, Holding(k)' <=> Holding(k) PROVE Same(k)
  BY <1>5 DEF Holds, Holding
<1>6. ASSUME NEW k \in Id, client'[k] = client[k], thread'[k] = thread[k] PROVE Same(k)
  BY <1>6 DEF Holds
<1>7. ASSUME NEW j \in Id, EciNew(j) PROVE InstancesOwned'
  <2>1. PICK p \in Ptr \ live :
          /\ live' = live \cup {p}
          /\ client' = [client EXCEPT ![j].ptr = p, ![j].cbs = [NoCbState EXCEPT !.used = TRUE]]
    BY <1>7 DEF EciNew
  <2>2. /\ client[j].ptr = NULL
        /\ thread' = [thread EXCEPT ![j] = [NoThread EXCEPT !.pc = "alloc", !.fd = client[j].cb_fd]]
    BY <1>7 DEF EciNew
  <2>3. client'[j].ptr = p /\ thread'[j].pc = "alloc"
    BY <1>1, <1>3, <2>1, <2>2 DEF ClientType, NoThread
  <2>4. \A k \in Id \ {j} : Same(k)
    BY <1>1, <1>6, <2>1, <2>2
  <2>5. \A q \in Ptr : ~Holds(j, q) /\ (Holds(j, q)' <=> q = p)
    BY <1>1, <2>2, <2>3 DEF Holds
  <2>6. \A k \in Id : ~Holds(k, p)
    BY <1>2, <2>1
  <2>7. live' = {q \in Ptr : \E k \in Id : Holds(k, q)'}
    BY <1>2, <2>1, <2>4, <2>5
  <2>8. ASSUME NEW i \in Id, NEW k \in Id, NEW q \in Ptr, Holds(i, q)', Holds(k, q)' PROVE i = k
    BY <1>2, <2>4, <2>5, <2>6, <2>8
  <2> QED
    BY <2>7, <2>8 DEF InstancesOwned
<1>8. ASSUME NEW j \in Id, EciDelete(j) \/ DeleteInstances(j) PROVE InstancesOwned'
  <2>1. client' = client /\ live' = live \ {client[j].ptr} /\ Holding(j)
    BY <1>8 DEF EciDelete, DeleteInstances, Requested, Holding
  <2>2. thread'[j].pc \in {"remove", "unregister"} /\ \A k \in Id \ {j} : thread'[k] = thread[k]
    BY <1>1, <1>3, <1>8 DEF EciDelete, DeleteInstances, ThreadType, NoThread
  <2>3. \A k \in Id \ {j} : Same(k)
    BY <1>6, <2>1, <2>2
  <2>4. \A q \in Ptr : ~Holds(j, q)' /\ (Holds(j, q) <=> q = client[j].ptr)
    BY <2>1, <2>2 DEF Holds, Holding
  <2>5. live' = {q \in Ptr : \E k \in Id : Holds(k, q)'}
    BY <1>2, <2>1, <2>3, <2>4
  <2>6. ASSUME NEW i \in Id, NEW k \in Id, NEW q \in Ptr, Holds(i, q)', Holds(k, q)' PROVE i = k
    BY <1>2, <2>3, <2>4, <2>6
  <2> QED
    BY <2>5, <2>6 DEF InstancesOwned
<1>9. ASSUME NEW j \in Id, AllocCbState(j) \/ RegisterCallback(j) PROVE InstancesOwned'
  <2>1. live' = live /\ \A k \in Id \ {j} : client'[k] = client[k] /\ thread'[k] = thread[k]
    BY <1>1, <1>9 DEF AllocCbState, RegisterCallback
  <2>2. client'[j].ptr = client[j].ptr
    BY <1>1, <1>3, <1>9 DEF AllocCbState, RegisterCallback, ClientType
  <2>3. Holding(j) /\ Holding(j)'
    BY <1>1, <1>3, <1>9 DEF AllocCbState, RegisterCallback, Requested, Responded, Holding, ThreadType
  <2> QED
    BY <1>4, <1>5, <1>6, <2>1, <2>2, <2>3
<1>10. ASSUME NEW j \in Id, EngineEvent(j) \/ SendEvent(j) \/ SeesEnd(j) \/ Unregister(j)
       PROVE  InstancesOwned'
  <2>1. live' = live /\ client' = client
    BY <1>10 DEF EngineEvent, SendEvent, SeesEnd, Unregister
  <2>2. \A k \in Id \ {j} : thread'[k] = thread[k]
    BY <1>1, <1>10 DEF EngineEvent, SendEvent, SeesEnd, Unregister
  <2>3. Holding(j)' <=> Holding(j)
    <3>1. CASE EngineEvent(j)
      <4>1. PICK i \in Id \cup {0} :
              thread' = [thread EXCEPT ![j] = [NoThread EXCEPT !.pc = "event", !.found = i]]
        BY <3>1 DEF EngineEvent
      <4> QED
        BY <1>1, <3>1, <4>1 DEF EngineEvent, Requested, Holding, NoThread
    <3>2. CASE SendEvent(j) \/ SeesEnd(j)
      BY <1>1, <3>2 DEF SendEvent, SeesEnd, Responded, Holding, NoThread
    <3>3. CASE Unregister(j)
      BY <1>1, <1>3, <3>3 DEF Unregister, Holding, ThreadType
    <3> QED
      BY <1>10, <3>1, <3>2, <3>3
  <2> QED
    BY <1>4, <1>5, <1>6, <2>1, <2>2, <2>3
<1>11. ASSUME NEW j \in Id, Forget(j) PROVE InstancesOwned'
  <2>1. /\ live' = live /\ thread[j].pc = "remove"
        /\ \A k \in Id \ {j} : client'[k] = client[k] /\ thread'[k] = thread[k]
    BY <1>1, <1>11 DEF Forget
  <2>2. client'[j].ptr = NULL
    BY <1>1, <1>3, <1>11 DEF Forget, ClientType
  <2>3. Same(j)
    BY <1>1, <2>1, <2>2 DEF Holds
  <2> QED
    BY <1>4, <1>6, <2>1, <2>3
<1>12. ASSUME NEW j \in Id, Free(j) PROVE InstancesOwned'
  <2>1. /\ live' = live /\ thread[j].pc = "free"
        /\ \A k \in Id \ {j} : client'[k] = client[k] /\ thread'[k] = thread[k]
    BY <1>1, <1>12 DEF Free
  <2>2. thread'[j].pc = "done"
    BY <1>1, <1>3, <1>12 DEF Free, ThreadType
  <2>3. Same(j)
    BY <2>1, <2>2 DEF Holds
  <2> QED
    BY <1>4, <1>6, <2>1, <2>3
<1>13. CASE NewClient
  <2> DEFINE n == g_next_client_id
             c == [NoClient EXCEPT !.mem = "used", !.rpc_fd = main.host]
  <2>1. /\ n \in Id /\ client' = [client EXCEPT ![n] = c] /\ thread' = thread /\ live' = live
    BY <1>1, <1>13, MaxAssumption DEF NewClient, Id
  <2>2. c.ptr = NULL /\ client[n].ptr = NULL
    BY <1>1, <2>1 DEF IdsOwned, Unissued, NoClient
  <2> HIDE DEF c
  <2>3. ASSUME NEW k \in Id, k = n PROVE Same(k)
    BY <1>1, <2>1, <2>2, <2>3 DEF Holds
  <2>4. \A k \in Id \ {n} : Same(k)
    BY <1>1, <1>6, <2>1
  <2> QED
    BY <1>4, <2>1, <2>3, <2>4
<1>14. CASE StartThread
  <2>1. /\ client' = client /\ live' = live
        /\ thread' = [thread EXCEPT ![main.id].pc = IF g_running THEN "read" ELSE "end"]
        /\ main.pc = "start"
    BY <1>14 DEF StartThread
  <2>2. main.id \in Id /\ thread[main.id].pc = "none"
    BY <2>1 DEF Lifecycle, IdsOwned, MainOwns, BelongsTo
  <2>3. /\ thread'[main.id].pc \in {"read", "end"}
        /\ \A k \in Id \ {main.id} : thread'[k] = thread[k]
    BY <1>1, <1>3, <2>1, <2>2 DEF ThreadType
  <2>4. ASSUME NEW k \in Id, k = main.id PROVE Same(k)
    BY <2>1, <2>2, <2>3, <2>4 DEF Holds
  <2> QED
    BY <1>4, <1>6, <2>1, <2>3, <2>4
<1>15. CASE Associate \/ AssociateStates
  <2>1. thread' = thread /\ live' = live
    BY <1>15 DEF Associate, AssociateStates
  <2>2. \/ client' = client \/ client' = [client EXCEPT ![main.found].cb_fd = main.host]
        \/ client' = [client EXCEPT ![main.found].cbs.cb_fd = main.host]
    BY <1>15 DEF Associate, AssociateStates
  <2>3. ASSUME NEW k \in Id PROVE client'[k].ptr = client[k].ptr
    <3>1. CASE client' = [client EXCEPT ![main.found].cb_fd = main.host]
      BY <1>1, <1>3, <3>1 DEF ClientType
    <3>2. CASE client' = [client EXCEPT ![main.found].cbs.cb_fd = main.host]
      BY <1>1, <1>3, <3>2 DEF ClientType
    <3> QED
      BY <2>2, <3>1, <3>2
  <2>4. \A k \in Id : Holding(k)' <=> Holding(k)
    BY <2>1 DEF Holding
  <2> QED
    BY <1>4, <1>5, <2>1, <2>3, <2>4
<1>16. ASSUME Accept \/ AckRpc \/ AckCb \/ FindClient \/ Signal \/ (\E h \in Host : HostStep(h))
       PROVE  InstancesOwned'
  <2>1. client' = client /\ thread' = thread /\ live' = live
    BY <1>16 DEF Accept, AckRpc, AckCb, FindClient, Signal, HostStep, ConnectRpc, ConnectCb, Leave
  <2> QED
    BY <1>4, <1>6, <2>1
<1> QED
  BY <1>7, <1>8, <1>9, <1>10, <1>11, <1>12, <1>13, <1>14, <1>15, <1>16
     DEF Next, MainStep, ServeRpcChannel, Request, ThreadStep

-----------------------------------------------------------------------------
(* The callback channel. *)

(* A host has left shim_connect's first half. *)
Presented(h) == host[h].st \notin {"off", "rpc", "acked"}

(* A handshake with id n comes from a host that has gone on to its second  *)
(* channel, and n is the id it still has if it has not left.               *)
Says(h, n) == h \in Host /\ Presented(h) /\ (Alive(h) => host[h].id = n)
BacklogSays == \A i \in DOMAIN backlog : backlog[i].id # 0 => Says(backlog[i].host, backlog[i].id)
MainSays == main.pc \in {"ack cb", "find"} => Says(main.host, main.id)
RefusedPresented == \A h \in Host : host[h].refused => Presented(h)
Handshakes == BacklogSays /\ MainSays /\ RefusedPresented

(* The steps of the hosts and of the loop keep what a handshake says. *)
LEMMA SaysStill ==
    ASSUME TypeOK, Next, NEW h \in Host, Presented(h)
    PROVE  /\ Presented(h)'
           /\ Alive(h)' => Alive(h) /\ host'[h].id = host[h].id
<1>1. host \in [Host -> HostType] /\ host[h] \in HostType
  BY DEF TypeOK
<1>2. ASSUME host'[h] = host[h] PROVE Presented(h)' /\ (Alive(h)' => Alive(h) /\ host'[h].id = host[h].id)
  BY <1>2 DEF Presented, Alive
<1>3. ASSUME NEW g \in Host, HostStep(g)
      PROVE  Presented(h)' /\ (Alive(h)' => Alive(h) /\ host'[h].id = host[h].id)
  <2>1. CASE g # h
    BY <1>1, <1>2, <1>3, <2>1 DEF HostStep, ConnectRpc, ConnectCb, Leave
  <2>2. CASE g = h
    <3>1. Leave(h)
      BY <1>3, <2>2 DEF HostStep, ConnectRpc, ConnectCb, Presented
    <3>2. host'[h].st = "gone"
      BY <1>1, <3>1 DEF Leave
    <3> QED
      BY <3>2 DEF Presented, Alive
  <2> QED
    BY <2>1, <2>2
<1>4. CASE AckRpc
  <2>1. host' = [host EXCEPT ![main.host] =
                   IF @.st = "rpc" THEN [@ EXCEPT !.st = "acked", !.id = main.id] ELSE @]
    BY <1>4 DEF AckRpc
  <2>2. host'[h] = host[h]
    BY <1>1, <2>1 DEF Presented
  <2> QED
    BY <1>2, <2>2
<1>5. CASE AckCb
  <2>1. host' = [host EXCEPT ![main.host].st = IF @ = "cb" THEN "ready" ELSE @]
    BY <1>5 DEF AckCb
  <2>2. host'[h].id = host[h].id /\ host'[h].st \in {host[h].st, "ready"}
        /\ (host'[h].st = "ready" => host[h].st \in {"cb", "ready"})
    BY <1>1, <2>1 DEF HostType
  <2> QED
    BY <2>2 DEF Presented, Alive
<1>6. CASE FindClient
  <2>1. host' = host \/ host' = [host EXCEPT ![main.host].refused = Alive(main.host)]
    BY <1>6 DEF FindClient
  <2>2. host'[h].id = host[h].id /\ host'[h].st = host[h].st
    BY <1>1, <2>1 DEF HostType
  <2> QED
    BY <2>2 DEF Presented, Alive
<1>7. ASSUME Accept \/ NewClient \/ StartThread \/ Associate \/ AssociateStates \/ Signal
      PROVE  host' = host
  BY <1>7 DEF Accept, NewClient, StartThread, Associate, AssociateStates, Signal
<1>8. ASSUME NEW k \in Id, Request(k) \/ ThreadStep(k) PROVE host' = host
  BY <1>8, ThreadMoves
<1> QED
  BY <1>2, <1>3, <1>4, <1>5, <1>6, <1>7, <1>8 DEF Next, MainStep, ServeRpcChannel

LEMMA HandshakesKept ==
    ASSUME TypeOK, IdsOwned, Handshakes, Next
    PROVE  Handshakes'
<1>1. /\ backlog \in Seq(Handshake) /\ main \in MainType /\ host \in [Host -> HostType]
      /\ \A h \in Host : host[h] \in HostType
  BY DEF TypeOK
<1>2. BacklogSays /\ MainSays /\ RefusedPresented
  BY DEF Handshakes
<1>3. \A h, n : Says(h, n) => h \in Host /\ Presented(h)' /\ (Alive(h)' => host'[h].id = n)
  BY SaysStill DEF Says
<1>4. ASSUME backlog' = backlog PROVE BacklogSays'
  BY <1>2, <1>3, <1>4 DEF BacklogSays, Says
<1>5. ASSUME main'.pc \notin {"ack cb", "find"} PROVE MainSays'
  BY <1>5 DEF MainSays
<1>6. ASSUME \A h \in Host : host'[h].refused => host[h].refused PROVE RefusedPresented'
  BY <1>2, <1>6, SaysStill DEF RefusedPresented
<1>7. CASE Accept
  <2>1. /\ backlog # <<>> /\ backlog' = Tail(backlog) /\ host' = host
        /\ main' = [pc |-> IF Head(backlog).id = 0 THEN "new" ELSE "ack cb",
                    host |-> Head(backlog).host, id |-> Head(backlog).id, found |-> 0]
    BY <1>7 DEF Accept
  <2>2. /\ Head(backlog) = backlog[1] /\ 1 \in DOMAIN backlog
        /\ \A i \in DOMAIN Tail(backlog) : i + 1 \in DOMAIN backlog /\ Tail(backlog)[i] = backlog[i + 1]
    <3>1. backlog \in Seq(Handshake) /\ backlog # <<>>
      BY <1>1, <2>1
    <3> QED
      BY <3>1
  <2>3. BacklogSays'
    <3> SUFFICES ASSUME NEW i \in DOMAIN backlog', backlog'[i].id # 0
                 PROVE  Says(backlog[i].host, backlog[i].id)'
      BY DEF BacklogSays
    <3>1. i + 1 \in DOMAIN backlog /\ backlog'[i] = backlog[i + 1]
      BY <2>1, <2>2
    <3>2. Says(backlog[i + 1].host, backlog[i + 1].id)
      BY <1>2, <3>1 DEF BacklogSays
    <3> QED
      BY <1>3, <3>1, <3>2 DEF Says
  <2>4. MainSays'
    <3>1. CASE backlog[1].id = 0
      BY <1>5, <2>1, <2>2, <3>1
    <3>2. CASE backlog[1].id # 0
      <4>1. Says(backlog[1].host, backlog[1].id)
        BY <1>2, <2>2, <3>2 DEF BacklogSays
      <4>2. main'.host = backlog[1].host /\ main'.id = backlog[1].id
        BY <2>1, <2>2
      <4> QED
        BY <1>3, <4>1, <4>2 DEF MainSays, Says
    <3> QED
      BY <3>1, <3>2
  <2> QED
    BY <1>6, <2>1, <2>3, <2>4 DEF Handshakes
<1>8. CASE AckCb
  <2>1. main.pc = "ack cb" /\ main' = [main EXCEPT !.pc = "find"] /\ backlog' = backlog
        /\ host' = [host EXCEPT ![main.host].st = IF @ = "cb" THEN "ready" ELSE @]
    BY <1>8 DEF AckCb
  <2>2. main'.host = main.host /\ main'.id = main.id
    BY <1>1, <2>1 DEF MainType
  <2>3. MainSays'
    BY <1>2, <1>3, <2>1, <2>2 DEF MainSays, Says
  <2>4. \A h \in Host : host'[h].refused = host[h].refused
    BY <1>1, <2>1 DEF HostType
  <2> QED
    BY <1>4, <1>6, <2>1, <2>3, <2>4 DEF Handshakes
<1>9. CASE FindClient
  <2>1. main.pc = "find" /\ backlog' = backlog
        /\ (host' = host \/ host' = [host EXCEPT ![main.host].refused = Alive(main.host)])
    BY <1>9 DEF FindClient
  <2>2. main'.pc \in {"associate", "accept", "exit"}
    BY <1>1, <1>9, Constants DEF FindClient, MainType
  <2>3. ASSUME NEW h \in Host, host'[h].refused PROVE Presented(h)'
    <3>1. h = main.host \/ host'[h] = host[h]
      BY <1>1, <2>1
    <3>2. Presented(h)
      BY <1>2, <2>1, <2>3, <3>1 DEF MainSays, Says, RefusedPresented
    <3> QED
      BY <3>2, SaysStill
  <2> QED
    BY <1>4, <1>5, <2>1, <2>2, <2>3 DEF Handshakes, RefusedPresented
<1>10. CASE AckRpc
  <2>1. backlog' = backlog /\ main' = [main EXCEPT !.pc = "start"]
        /\ host' = [host EXCEPT ![main.host] =
                      IF @.st = "rpc" THEN [@ EXCEPT !.st = "acked", !.id = main.id] ELSE @]
    BY <1>10 DEF AckRpc
  <2>2. \A h \in Host : host'[h].refused = host[h].refused
    BY <1>1, <2>1 DEF HostType
  <2>3. main'.pc = "start"
    BY <1>1, <2>1 DEF MainType
  <2> QED
    BY <1>4, <1>5, <1>6, <2>1, <2>2, <2>3 DEF Handshakes
<1>11. CASE NewClient \/ StartThread \/ Associate \/ AssociateStates
  <2>1. backlog' = backlog /\ host' = host
    BY <1>11 DEF NewClient, StartThread, Associate, AssociateStates
  <2>2. main'.pc \notin {"ack cb", "find"}
    <3>1. CASE NewClient
      BY <1>1, <3>1 DEF NewClient, MainType
    <3>2. CASE StartThread
      BY <3>2, Constants DEF StartThread
    <3>3. CASE Associate
      BY <1>1, <3>3, Constants DEF Associate, MainType, Waiting
    <3>4. CASE AssociateStates
      BY <3>4, Constants DEF AssociateStates, Waiting
    <3> QED
      BY <1>11, <3>1, <3>2, <3>3, <3>4
  <2> QED
    BY <1>4, <1>5, <1>6, <2>1, <2>2 DEF Handshakes
<1>12. ASSUME main' = main PROVE MainSays'
  BY <1>2, <1>3, <1>12 DEF MainSays, Says
<1>13. ASSUME NEW h \in Host, ConnectCb(h) PROVE Handshakes'
  <2> DEFINE r == [host |-> h, id |-> host[h].id]
  <2>1. /\ backlog' = Append(backlog, r) /\ main' = main /\ host[h].st = "acked"
        /\ host' = [host EXCEPT ![h].st = "cb"]
    BY <1>13 DEF ConnectCb
  <2>2. r \in Handshake /\ r.host = h /\ r.id = host[h].id
    BY <1>1 DEF Handshake, HostType
  <2>3. host'[h].st = "cb" /\ host'[h].id = host[h].id
        /\ \A g \in Host : host'[g].refused = host[g].refused
    BY <1>1, <2>1 DEF HostType
  <2> HIDE DEF r
  <2>4. \A i \in DOMAIN backlog' : \/ i \in DOMAIN backlog /\ backlog'[i] = backlog[i]
                                   \/ backlog'[i] = r
    BY <1>1, <2>1, <2>2
  <2>5. BacklogSays'
    <3> SUFFICES ASSUME NEW i \in DOMAIN backlog', backlog'[i].id # 0
                 PROVE  Says(backlog[i].host, backlog[i].id)'
      BY DEF BacklogSays
    <3>1. CASE i \in DOMAIN backlog /\ backlog'[i] = backlog[i]
      BY <1>2, <1>3, <3>1 DEF BacklogSays, Says
    <3>2. CASE backlog'[i] = r
      BY <2>2, <2>3, <3>2 DEF Says, Presented
    <3> QED
      BY <2>4, <3>1, <3>2
  <2> QED
    BY <1>6, <1>12, <2>1, <2>3, <2>5 DEF Handshakes
<1>14. ASSUME NEW h \in Host, ConnectRpc(h) PROVE Handshakes'
  <2> DEFINE r == [host |-> h, id |-> 0]
  <2>1. /\ backlog' = Append(backlog, r) /\ main' = main
        /\ host' = [host EXCEPT ![h].st = "rpc"]
    BY <1>14 DEF ConnectRpc
  <2>2. r \in Handshake /\ r.id = 0
    BY DEF Handshake
  <2>3. \A g \in Host : host'[g].refused = host[g].refused
    BY <1>1, <2>1 DEF HostType
  <2> HIDE DEF r
  <2>4. \A i \in DOMAIN backlog' : \/ i \in DOMAIN backlog /\ backlog'[i] = backlog[i]
                                   \/ backlog'[i] = r
    BY <1>1, <2>1, <2>2
  <2>5. BacklogSays'
    BY <1>2, <1>3, <2>2, <2>4 DEF BacklogSays, Says
  <2> QED
    BY <1>6, <1>12, <2>1, <2>3, <2>5 DEF Handshakes
<1>15. ASSUME NEW h \in Host, Leave(h) PROVE Handshakes'
  <2>1. /\ backlog' = backlog /\ main' = main
        /\ host' = [host EXCEPT ![h] = [st |-> "gone", id |-> 0, refused |-> FALSE]]
    BY <1>15 DEF Leave
  <2>2. \A g \in Host : host'[g].refused => host[g].refused
    BY <1>1, <2>1
  <2> QED
    BY <1>4, <1>6, <1>12, <2>1, <2>2 DEF Handshakes
<1>16. CASE Signal
  <2>1. backlog' = backlog /\ main' = main /\ host' = host
    BY <1>16 DEF Signal
  <2> QED
    BY <1>4, <1>6, <1>12, <2>1 DEF Handshakes
<1>17. ASSUME NEW j \in Id, Request(j) \/ ThreadStep(j) PROVE Handshakes'
  <2>1. backlog' = backlog /\ host' = host /\ (main' = main \/ main' = [Waiting EXCEPT !.pc = "exit"])
    BY <1>17, ThreadMoves
  <2>2. MainSays'
    <3>1. main' = [Waiting EXCEPT !.pc = "exit"] => main'.pc = "exit"
      BY DEF Waiting
    <3> QED
      BY <1>5, <1>12, <2>1, <3>1
  <2> QED
    BY <1>4, <1>6, <2>1, <2>2 DEF Handshakes
<1> QED
  BY <1>7, <1>8, <1>9, <1>10, <1>11, <1>13, <1>14, <1>15, <1>16, <1>17
     DEF Next, MainStep, ServeRpcChannel, HostStep

(* A host that is refused has lost its client: find_client_by_id has not   *)
(* found an id that was given out, so the thread has taken it from the     *)
(* list, and it does not come back.                                        *)
Lost(h) == Alive(h) /\ host[h].id \in Id /\ Unlisted(host[h].id)
RefusedLost == \A h \in Host : host[h].refused => Lost(h)

LEMMA RefusedLostKept ==
    ASSUME TypeOK, IdsOwned, Lifecycle, RegistryExact, Handshakes, RefusedLost, Next
    PROVE  RefusedLost'
<1>1. /\ main \in MainType /\ host \in [Host -> HostType]
      /\ client \in [Id -> ClientType] /\ thread \in [Id -> ThreadType]
      /\ \A h \in Host : host[h] \in HostType
  BY DEF TypeOK
<1>2. ASSUME NEW k, Unlisted(k), k \in Id PROVE Unlisted(k)'
  <2>1. ASSUME NEW j \in Id, Request(j) \/ ThreadStep(j) PROVE thread'[k].pc \in {"free", "done"}
    <3>1. k # j => thread'[k] = thread[k]
      BY <1>2, <2>1, ThreadMoves
    <3>2. thread[j].pc = "free" => thread'[j].pc = "done"
      BY <2>1, ThreadMoves
    <3>3. thread[j].pc # "done"
      BY <2>1, ThreadMoves
    <3> QED
      BY <1>2, <3>1, <3>2, <3>3 DEF Unlisted
  <2>2. CASE StartThread
    <3>1. main.pc = "start" /\ main.id # k
      BY <1>2, <2>2 DEF StartThread, Lifecycle, Unlisted
    <3>2. thread'[k] = thread[k]
      BY <1>1, <1>2, <2>2, <3>1 DEF StartThread
    <3> QED
      BY <1>2, <3>2 DEF Unlisted
  <2>3. ASSUME \/ Accept \/ NewClient \/ AckRpc \/ AckCb \/ FindClient \/ Associate
               \/ AssociateStates \/ Signal \/ (\E h \in Host : HostStep(h))
        PROVE  thread' = thread
    BY <2>3 DEF Accept, NewClient, AckRpc, AckCb, FindClient, Associate, AssociateStates, Signal,
                HostStep, ConnectRpc, ConnectCb, Leave
  <2> QED
    BY <1>2, <2>1, <2>2, <2>3 DEF Unlisted, Next, MainStep, ServeRpcChannel
<1>3. ASSUME NEW h \in Host, host'[h].refused, ~host[h].refused
      PROVE  FindClient /\ h = main.host
  <2>1. host' # host
    BY <1>3
  <2>2. ASSUME NEW g \in Host, HostStep(g) PROVE FALSE
    BY <1>1, <1>3, <2>2 DEF HostStep, ConnectRpc, ConnectCb, Leave, HostType
  <2>3. ASSUME AckRpc PROVE FALSE
    <3>1. host' = [host EXCEPT ![main.host] =
                     IF @.st = "rpc" THEN [@ EXCEPT !.st = "acked", !.id = main.id] ELSE @]
      BY <2>3 DEF AckRpc
    <3>2. host'[h].refused = host[h].refused
      BY <1>1, <3>1 DEF HostType
    <3> QED
      BY <1>3, <3>2
  <2>4. ASSUME AckCb PROVE FALSE
    BY <1>1, <1>3, <2>4 DEF AckCb, HostType
  <2>5. ASSUME FindClient PROVE h = main.host
    BY <1>1, <1>3, <2>5 DEF FindClient
  <2>6. ASSUME Accept \/ NewClient \/ StartThread \/ Associate \/ AssociateStates \/ Signal
        PROVE  host' = host
    BY <2>6 DEF Accept, NewClient, StartThread, Associate, AssociateStates, Signal
  <2>7. ASSUME NEW k \in Id, Request(k) \/ ThreadStep(k) PROVE host' = host
    BY <2>7, ThreadMoves
  <2> QED
    BY <2>1, <2>2, <2>3, <2>4, <2>5, <2>6, <2>7 DEF Next, MainStep, ServeRpcChannel
<1>4. ASSUME NEW h \in Host, host'[h].refused, Alive(h), Presented(h)
      PROVE  Alive(h)'
  <2>1. ASSUME NEW g \in Host, HostStep(g) PROVE Alive(h)'
    <3>1. CASE g # h
      BY <1>1, <1>4, <2>1, <3>1 DEF HostStep, ConnectRpc, ConnectCb, Leave, Alive
    <3>2. CASE g = h
      BY <1>1, <1>4, <2>1, <3>2 DEF HostStep, ConnectRpc, ConnectCb, Leave, Presented
    <3> QED
      BY <3>1, <3>2
  <2>2. ASSUME AckRpc PROVE Alive(h)'
    <3>1. host' = [host EXCEPT ![main.host] =
                     IF @.st = "rpc" THEN [@ EXCEPT !.st = "acked", !.id = main.id] ELSE @]
      BY <2>2 DEF AckRpc
    <3>2. host'[h] = host[h]
      BY <1>1, <1>4, <3>1 DEF Presented
    <3> QED
      BY <1>4, <3>2 DEF Alive
  <2>3. ASSUME AckCb PROVE Alive(h)'
    <3>1. host'[h].st \in {host[h].st, "ready"}
      BY <1>1, <2>3 DEF AckCb, HostType
    <3> QED
      BY <1>4, <3>1 DEF Alive
  <2>4. ASSUME FindClient PROVE Alive(h)'
    <3>1. host' = host \/ host' = [host EXCEPT ![main.host].refused = Alive(main.host)]
      BY <2>4 DEF FindClient
    <3>2. host'[h].st = host[h].st
      BY <1>1, <3>1 DEF HostType
    <3> QED
      BY <1>4, <3>2 DEF Alive
  <2>5. ASSUME Accept \/ NewClient \/ StartThread \/ Associate \/ AssociateStates \/ Signal
        PROVE  host' = host
    BY <2>5 DEF Accept, NewClient, StartThread, Associate, AssociateStates, Signal
  <2>6. ASSUME NEW k \in Id, Request(k) \/ ThreadStep(k) PROVE host' = host
    BY <2>6, ThreadMoves
  <2>7. host' = host => Alive(h)'
    BY <1>4 DEF Alive
  <2> QED
    BY <2>1, <2>2, <2>3, <2>4, <2>5, <2>6, <2>7 DEF Next, MainStep, ServeRpcChannel
<1>5. ASSUME NEW h \in Host, host'[h].refused, Presented(h), Lost(h)
      PROVE  Lost(h)'
  <2>1. Alive(h)' /\ host'[h].id = host[h].id
    BY <1>4, <1>5, SaysStill DEF Lost
  <2>2. \A k \in Id : k = host[h].id => Unlisted(k)'
    BY <1>2, <1>5 DEF Lost
  <2> QED
    BY <1>5, <2>1, <2>2 DEF Lost, Unlisted
<1>6. ASSUME FindClient, host'[main.host].refused, main.host \in Host, ~host[main.host].refused
      PROVE  Lost(main.host) /\ Presented(main.host)
  <2>1. main.pc = "find" /\ FindClientById(main.id) = 0 /\ Alive(main.host)
    BY <1>1, <1>6 DEF FindClient, HostType
  <2>2. /\ BelongsTo(main.id, main.host) /\ Presented(main.host) /\ host[main.host].id = main.id
    BY <2>1 DEF IdsOwned, MainOwns, Handshakes, MainSays, Says
  <2>3. main.id \in Id /\ main.id < g_next_client_id /\ main.id # 0
    BY <2>2 DEF BelongsTo, Id
  <2>4. main.id \notin ToSet(g_clients)
    BY <2>1, <2>3 DEF FindClientById
  <2>5. client[main.id].mem # "used" \/ Unlisted(main.id)
    BY <2>3, <2>4 DEF RegistryExact
  <2>6. Unlisted(main.id)
    BY <1>1, <2>3, <2>5 DEF Lifecycle, Unlisted, ClientType
  <2> QED
    BY <2>1, <2>2, <2>3, <2>6 DEF Lost
<1> SUFFICES ASSUME NEW h \in Host, host'[h].refused PROVE Lost(h)'
  BY DEF RefusedLost
<1>7. CASE host[h].refused
  BY <1>5, <1>7 DEF RefusedLost, Handshakes, RefusedPresented
<1>8. CASE ~host[h].refused
  BY <1>3, <1>5, <1>6, <1>8
<1> QED
  BY <1>7, <1>8

ClientsInv ==
    /\ TypeOK /\ IdsOwned /\ OwnChannel /\ Lifecycle /\ RegistryExact
    /\ InstancesOwned /\ Handshakes /\ RefusedLost

LEMMA ClientsInvariant == Spec => []ClientsInv
<1> USE DEF ClientsInv
<1>1. ASSUME Init PROVE ClientsInv
  <2>1. TypeOK /\ IdsOwned /\ OwnChannel /\ Lifecycle /\ RegistryExact
    BY <1>1, TypeInit, IdsInit, RegistryInit
  <2>2. /\ \A k \in Id : client[k].ptr = NULL
        /\ live = {} /\ backlog = <<>> /\ main.pc = "accept"
        /\ \A h \in Host : host[h].refused = FALSE
    BY <1>1 DEF Init, NoClient, Waiting
  <2>3. InstancesOwned
    BY <2>2, NullAssumption DEF InstancesOwned, Holds
  <2>4. Handshakes /\ RefusedLost
    BY <2>2 DEF Handshakes, BacklogSays, MainSays, RefusedPresented, RefusedLost
  <2> QED
    BY <2>1, <2>3, <2>4
<1>2. ASSUME ClientsInv, [Next]_vars PROVE ClientsInv'
  <2>1. TypeOK' /\ IdsOwned' /\ OwnChannel' /\ Lifecycle' /\ RegistryExact'
    BY <1>2, TypeStep, IdsStep, RegistryStep
  <2>2. CASE Next
    BY <1>2, <2>1, <2>2, InstancesKept, HandshakesKept, RefusedLostKept
  <2>3. CASE UNCHANGED vars
    <3>1. InstancesOwned'
      BY <1>2, <2>3 DEF vars, InstancesOwned, Holds
    <3>2. Handshakes' /\ RefusedLost'
      BY <1>2, <2>3 DEF vars, Handshakes, BacklogSays, MainSays, RefusedPresented, Says, Presented,
                        Alive, RefusedLost, Lost, Unlisted
    <3> QED
      BY <2>1, <3>1, <3>2
  <2> QED
    BY <1>2, <2>2, <2>3
<1> HIDE DEF ClientsInv
<1> QED
  BY <1>1, <1>2, PTL DEF Spec

(* The engine's instances are at every moment those of the clients: nothing *)
(* is leaked when a host goes (client_thread's clean-up), nothing is shared *)
(* even though the engine reuses the pointers of deleted instances.         *)
THEOREM ClientsInstancesOwned == Spec => []InstancesOwned
<1>1. ClientsInv => InstancesOwned
  BY DEF ClientsInv
<1> QED
  BY <1>1, ClientsInvariant, PTL

(* The bridge refuses the callback channel of a host only when the thread  *)
(* of that host's client has taken it from the list: the order of          *)
(* register_client and the acknowledgement in main.                        *)
THEOREM ClientsCbFound == Spec => []CbFound
<1>1. ClientsInv => CbFound
  BY DEF ClientsInv, CbFound, RefusedLost, Lost
<1> QED
  BY <1>1, ClientsInvariant, PTL
=============================================================================
