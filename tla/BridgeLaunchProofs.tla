------------------------- MODULE BridgeLaunchProofs -------------------------
(***************************************************************************)
(* Proofs about BridgeLaunch: the types and the handshakes for any hosts,  *)
(* backlog and number of bridges, and for one host that the daemon it      *)
(* launches never takes a serving daemon's path and that both its channels *)
(* lead to one process.                                                    *)
(***************************************************************************)
EXTENDS BridgeLaunch, SequenceTheorems, TLAPS

USE MaxAssumption, NullAssumption

Kind == {"probe", "rpc", "cb"}
Conn == [host : Host, kind : Kind]
BridgeSt == Starting \cup {"none", "serving", "exiting", "closed", "dead"}
BridgeType == [st : BridgeSt, g_running : BOOLEAN, queue : Seq(Conn)]
HostSt == {"idle", "fork", "wait", "rpc", "rpc ack", "cb", "cb ack", "ready"}
HostType == [st : HostSt, pid : Bridge \cup {NULL}, rpc : Bridge \cup {NULL},
             cb : Bridge \cup {NULL}]

(* The same types, by name, and what makes them inductive: a host that      *)
(* waits has forked a bridge, and no later bridge exists.                   *)
Types ==
    /\ socket \in Bridge \cup {NULL}
    /\ bridge \in [Bridge -> BridgeType]
    /\ forked \in 0..MaxBridge
    /\ host \in [Host -> HostType]
Placed ==
    /\ \A h \in Host : host[h].st = "wait" => host[h].pid \in Bridge
    /\ \A b \in Bridge : b > forked => bridge[b].st = "none"
    /\ \A b \in Bridge : ~Listens(b) => bridge[b].queue = <<>>

LEMMA TypesAreTypeOK == Types <=> TypeOK
BY DEF Types, TypeOK, BridgeType, BridgeSt, Conn, Kind, HostType, HostSt

LEMMA BridgeIsNat == Bridge \subseteq Nat /\ NULL \notin Bridge
BY DEF Bridge

LEMMA Records ==
    /\ Idle \in HostType /\ NoBridge \in BridgeType
    /\ [NoBridge EXCEPT !.st = "dead"] \in BridgeType
    /\ [NoBridge EXCEPT !.st = "dead"].st = "dead"
    /\ [NoBridge EXCEPT !.st = "dead"].queue = <<>>
    /\ Idle.st = "idle"
<1>1. <<>> \in Seq(Conn)
  BY EmptySeq
<1> QED
  BY <1>1 DEF Idle, NoBridge, HostType, HostSt, BridgeType, BridgeSt

-----------------------------------------------------------------------------
(* What a step does to one bridge or one host, in terms of the record it    *)
(* leaves there.                                                            *)
BridgeSet(b, r) == bridge' = [bridge EXCEPT ![b] = r]
HostSet(h, r) == host' = [host EXCEPT ![h] = r]

(* A connection of h is queued at b. *)
LEMMA Sends ==
    ASSUME Types, NEW b \in Bridge, NEW h \in Host, NEW kind \in Kind,
           bridge' = Queued(b, h, kind)
    PROVE  /\ bridge' \in [Bridge -> BridgeType]
           /\ \A c \in Bridge : /\ bridge'[c].st = bridge[c].st
                                /\ bridge'[c].g_running = bridge[c].g_running
                                /\ c # b => bridge'[c] = bridge[c]
           /\ DOMAIN bridge[b].queue = 1..Len(bridge[b].queue)
           /\ DOMAIN bridge'[b].queue = 1..(Len(bridge[b].queue) + 1)
           /\ Len(bridge[b].queue) \in Nat
           /\ \A i \in 1..Len(bridge[b].queue) : bridge'[b].queue[i] = bridge[b].queue[i]
           /\ bridge'[b].queue[Len(bridge[b].queue) + 1] = [host |-> h, kind |-> kind]
<1> DEFINE conn == [host |-> h, kind |-> kind]
           q == bridge[b].queue
<1>1. bridge[b] \in BridgeType /\ q \in Seq(Conn) /\ conn \in Conn
  BY DEF Types, BridgeType, Conn
<1>2. bridge' = [bridge EXCEPT ![b].queue = Append(q, conn)]
  BY DEF Queued
<1> HIDE DEF conn
<1>3. /\ Append(q, conn) \in Seq(Conn)
      /\ Len(Append(q, conn)) = Len(q) + 1
      /\ \A i \in 1..Len(q) : Append(q, conn)[i] = q[i]
      /\ Append(q, conn)[Len(q) + 1] = conn
  BY <1>1, AppendProperties
<1>4. /\ DOMAIN q = 1..Len(q) /\ Len(q) \in Nat
      /\ DOMAIN Append(q, conn) = 1..(Len(q) + 1)
  BY <1>1, <1>3, LenProperties
<1> HIDE DEF q
<1>5. [bridge[b] EXCEPT !.queue = Append(q, conn)] \in BridgeType
  BY <1>1, <1>3 DEF BridgeType
<1>6. bridge' = [bridge EXCEPT ![b] = [bridge[b] EXCEPT !.queue = Append(q, conn)]]
  BY <1>2, <1>1 DEF Types
<1>7. bridge' \in [Bridge -> BridgeType]
  BY <1>5, <1>6 DEF Types
<1>8. bridge'[b] = [bridge[b] EXCEPT !.queue = Append(q, conn)]
  BY <1>6 DEF Types
<1>9. bridge'[b].queue = Append(q, conn) /\ bridge'[b].st = bridge[b].st
      /\ bridge'[b].g_running = bridge[b].g_running
  BY <1>1, <1>8 DEF BridgeType
<1>10. \A c \in Bridge : c # b => bridge'[c] = bridge[c]
  BY <1>6 DEF Types
<1> QED
  BY <1>3, <1>4, <1>7, <1>9, <1>10 DEF q, conn

(* The other steps leave the queues alone or empty one. *)
LEMMA Sets ==
    ASSUME Types, NEW b \in Bridge, NEW r \in BridgeType, BridgeSet(b, r)
    PROVE  /\ bridge' \in [Bridge -> BridgeType]
           /\ bridge'[b] = r
           /\ \A c \in Bridge : c # b => bridge'[c] = bridge[c]
BY DEF BridgeSet, Types

LEMMA Moves ==
    ASSUME Types, NEW h \in Host, NEW r \in HostType, HostSet(h, r)
    PROVE  /\ host' \in [Host -> HostType]
           /\ host'[h] = r
           /\ \A g \in Host : g # h => host'[g] = host[g]
BY DEF HostSet, Types

LEMMA Becoming ==
    ASSUME Types, NEW b \in Bridge, NEW st \in BridgeSt, Becomes(b, st)
    PROVE  /\ bridge' \in [Bridge -> BridgeType]
           /\ bridge'[b].st = st /\ bridge'[b].queue = bridge[b].queue
           /\ bridge'[b].g_running = bridge[b].g_running
           /\ \A c \in Bridge : c # b => bridge'[c] = bridge[c]
<1>1. bridge[b] \in BridgeType
  BY DEF Types
<1>2. [bridge[b] EXCEPT !.st = st] \in BridgeType
  BY <1>1 DEF BridgeType
<1>3. BridgeSet(b, [bridge[b] EXCEPT !.st = st])
  BY DEF Becomes, BridgeSet, Types
<1>4. [bridge[b] EXCEPT !.st = st].st = st
      /\ [bridge[b] EXCEPT !.st = st].queue = bridge[b].queue
      /\ [bridge[b] EXCEPT !.st = st].g_running = bridge[b].g_running
  BY <1>1 DEF BridgeType
<1> QED
  BY <1>2, <1>3, <1>4, Sets

LEMMA Dying ==
    ASSUME Types, NEW b \in Bridge, Dies(b)
    PROVE  /\ bridge' \in [Bridge -> BridgeType]
           /\ bridge'[b].st = "dead" /\ bridge'[b].queue = <<>>
           /\ \A c \in Bridge : c # b => bridge'[c] = bridge[c]
<1>1. BridgeSet(b, [NoBridge EXCEPT !.st = "dead"])
  BY DEF Dies, BridgeSet
<1> QED
  BY <1>1, Records, Sets

(* A bridge is stopped before its first accept. *)
Stops(b) ==
    /\ bridge[b].st = "listening"
    /\ bridge' = [bridge EXCEPT ![b] = [@ EXCEPT !.st = "exiting", !.g_running = FALSE]]
    /\ UNCHANGED <<socket, forked, host>>

LEMMA Stopping ==
    ASSUME Types, NEW b \in Bridge, Stops(b)
    PROVE  /\ bridge' \in [Bridge -> BridgeType]
           /\ bridge'[b].st = "exiting" /\ bridge'[b].queue = bridge[b].queue
           /\ \A c \in Bridge : c # b => bridge'[c] = bridge[c]
<1> DEFINE r == [bridge[b] EXCEPT !.st = "exiting", !.g_running = FALSE]
<1>1. bridge[b] \in BridgeType
  BY DEF Types
<1>2. "exiting" \in BridgeSt
  BY DEF BridgeSt
<1>3. r \in BridgeType /\ r.st = "exiting" /\ r.queue = bridge[b].queue
  BY <1>1, <1>2 DEF BridgeType
<1>4. bridge' = [bridge EXCEPT ![b] = r]
  BY DEF Stops
<1> HIDE DEF r
<1> QED
  BY <1>3, <1>4 DEF Types

(* A signal kills a bridge, clears its g_running, or is lost. *)
LEMMA Signalling ==
    ASSUME Types, NEW b \in Bridge, bridge' = Signalled(b)
    PROVE  /\ bridge' \in [Bridge -> BridgeType]
           /\ \A c \in Bridge : c # b => bridge'[c] = bridge[c]
           /\ \/ /\ bridge[b].st \in Starting
                 /\ bridge'[b].st = "dead" /\ bridge'[b].queue = <<>>
              \/ /\ bridge[b].st \notin Starting
                 /\ bridge'[b].st = bridge[b].st /\ bridge'[b].queue = bridge[b].queue
                 /\ bridge'[b].g_running => bridge[b].g_running
<1>1. CASE bridge[b].st \in Starting
  <2>1. Dies(b)
    BY <1>1 DEF Dies, Signalled, Starting
  <2> QED
    BY <1>1, <2>1, Dying
<1>2. CASE bridge[b].st = "serving"
  <2>1. bridge[b] \in BridgeType
    BY DEF Types
  <2>2. [bridge[b] EXCEPT !.g_running = FALSE] \in BridgeType
    BY <2>1 DEF BridgeType
  <2>3. bridge[b].st \notin Starting
    BY <1>2 DEF Starting
  <2>4. bridge' = [bridge EXCEPT ![b].g_running = FALSE]
    BY <1>2, <2>3 DEF Signalled
  <2>5. BridgeSet(b, [bridge[b] EXCEPT !.g_running = FALSE])
    BY <2>4 DEF BridgeSet, Types
  <2>6. [bridge[b] EXCEPT !.g_running = FALSE].st = bridge[b].st
        /\ [bridge[b] EXCEPT !.g_running = FALSE].queue = bridge[b].queue
        /\ [bridge[b] EXCEPT !.g_running = FALSE].g_running = FALSE
    BY <2>1 DEF BridgeType
  <2> QED
    BY <2>2, <2>3, <2>5, <2>6, Sets
<1>3. CASE bridge[b].st \notin Starting /\ bridge[b].st # "serving"
  <2>1. bridge' = bridge
    BY <1>3 DEF Signalled
  <2> QED
    BY <1>3, <2>1 DEF Types
<1> QED
  BY <1>1, <1>2, <1>3

(* One connection leaves the front of b's queue. *)
LEMMA Accepting ==
    ASSUME Types, NEW b \in Bridge, Accept(b)
    PROVE  LET q == bridge[b].queue IN
           /\ bridge' \in [Bridge -> BridgeType]
           /\ bridge'[b].st \in {"serving", "exiting"}
           /\ bridge'[b].st = "serving" => bridge'[b].g_running = bridge[b].g_running
           /\ \A c \in Bridge : c # b => bridge'[c] = bridge[c]
           /\ Len(q) \in Nat \ {0} /\ DOMAIN q = 1..Len(q) /\ q[1] \in Conn /\ q[1] = Head(q)
           /\ DOMAIN bridge'[b].queue = 1..(Len(q) - 1)
           /\ \A i \in 1..(Len(q) - 1) : bridge'[b].queue[i] = q[i + 1]
<1> DEFINE q == bridge[b].queue
           st == IF bridge[b].g_running THEN bridge[b].st ELSE "exiting"
<1>1. bridge[b] \in BridgeType /\ q \in Seq(Conn) /\ q # <<>>
  BY DEF Types, BridgeType, Accept
<1>2. bridge' = [bridge EXCEPT ![b].queue = Tail(q), ![b].st = st]
  BY DEF Accept
<1>3. bridge[b].st = "serving"
  BY DEF Accept
<1>3a. st \in {"serving", "exiting"} /\ st \in BridgeSt
  BY <1>3 DEF BridgeSt
<1> HIDE DEF q, st
<1>4. /\ Tail(q) \in Seq(Conn) /\ Len(Tail(q)) = Len(q) - 1 /\ Head(q) \in Conn
      /\ \A i \in 1..(Len(q) - 1) : Tail(q)[i] = q[i + 1]
  BY <1>1, HeadTailProperties
<1>5. Len(q) \in Nat \ {0} /\ DOMAIN q = 1..Len(q) /\ DOMAIN Tail(q) = 1..(Len(q) - 1)
  BY <1>1, <1>4, LenProperties, EmptySeq
<1>5a. q[1] = Head(q)
  BY <1>1
<1>6. [[bridge[b] EXCEPT !.queue = Tail(q)] EXCEPT !.st = st] \in BridgeType
  BY <1>1, <1>3a, <1>4 DEF BridgeType
<1>7. BridgeSet(b, [[bridge[b] EXCEPT !.queue = Tail(q)] EXCEPT !.st = st])
  BY <1>2, <1>1 DEF BridgeSet, Types
<1>8. /\ [[bridge[b] EXCEPT !.queue = Tail(q)] EXCEPT !.st = st].st = st
      /\ [[bridge[b] EXCEPT !.queue = Tail(q)] EXCEPT !.st = st].queue = Tail(q)
      /\ [[bridge[b] EXCEPT !.queue = Tail(q)] EXCEPT !.st = st].g_running = bridge[b].g_running
  BY <1>1 DEF BridgeType
<1>9. /\ bridge' \in [Bridge -> BridgeType]
      /\ bridge'[b].st = st /\ bridge'[b].queue = Tail(q)
      /\ bridge'[b].g_running = bridge[b].g_running
      /\ \A c \in Bridge : c # b => bridge'[c] = bridge[c]
  BY <1>6, <1>7, <1>8, Sets
<1> QED
  BY <1>3a, <1>4, <1>5, <1>5a, <1>9 DEF q

-----------------------------------------------------------------------------
(* The types. *)

(* A host's record in its new place. *)
LEMMA HostRecords ==
    ASSUME Types, NEW h \in Host
    PROVE  /\ host[h] \in HostType
           /\ \A st \in HostSt : /\ [host[h] EXCEPT !.st = st] \in HostType
                                 /\ [host[h] EXCEPT !.st = st].st = st
                                 /\ [host[h] EXCEPT !.st = st].pid = host[h].pid
                                 /\ [host[h] EXCEPT !.st = st].rpc = host[h].rpc
                                 /\ [host[h] EXCEPT !.st = st].cb = host[h].cb
<1>1. host[h] \in HostType
  BY DEF Types
<1> QED
  BY <1>1 DEF HostType

WithPid(r, st, b) == [[r EXCEPT !.st = st] EXCEPT !.pid = b]
WithRpc(r, st, b) == [[r EXCEPT !.st = st] EXCEPT !.rpc = b]
WithCb(r, st, b) == [[r EXCEPT !.st = st] EXCEPT !.cb = b]

LEMMA HostFields ==
    ASSUME NEW r \in HostType, NEW st \in HostSt, NEW b \in Bridge
    PROVE  /\ WithPid(r, st, b) \in HostType
           /\ WithPid(r, st, b).st = st
           /\ WithPid(r, st, b).pid = b
           /\ WithRpc(r, st, b) \in HostType
           /\ WithRpc(r, st, b).st = st
           /\ WithRpc(r, st, b).rpc = b
           /\ WithCb(r, st, b) \in HostType
           /\ WithCb(r, st, b).st = st
           /\ WithCb(r, st, b).cb = b
           /\ WithCb(r, st, b).rpc = r.rpc
BY DEF HostType, WithPid, WithRpc, WithCb

LEMMA HostGoes ==
    ASSUME Types, NEW h \in Host, NEW st \in HostSt, host' = [host EXCEPT ![h].st = st]
    PROVE  /\ host' \in [Host -> HostType]
           /\ host'[h].st = st /\ host'[h].pid = host[h].pid
           /\ host'[h].rpc = host[h].rpc /\ host'[h].cb = host[h].cb
           /\ \A g \in Host : g # h => host'[g] = host[g]
<1>1. HostSet(h, [host[h] EXCEPT !.st = st])
  BY DEF HostSet, Types
<1> QED
  BY <1>1, HostRecords, Moves

(* The steps of a host that queue a connection: a probe, then the channels. *)
Probes(h) ==
    /\ host[h].st \in {"idle", "wait"}
    /\ \E b \in Bridge : Reached(b) /\ bridge' = Queued(b, h, "probe")
    /\ host' = [host EXCEPT ![h].st = "rpc"]
    /\ UNCHANGED <<socket, forked>>
OpensRpc(h) ==
    /\ host[h].st = "rpc"
    /\ \E b \in Bridge : /\ Reached(b)
                          /\ bridge' = Queued(b, h, "rpc")
                          /\ host' = [host EXCEPT ![h].st = "rpc ack", ![h].rpc = b]
    /\ UNCHANGED <<socket, forked>>
OpensCb(h) ==
    /\ host[h].st = "cb"
    /\ \E b \in Bridge : /\ Reached(b)
                          /\ bridge' = Queued(b, h, "cb")
                          /\ host' = [host EXCEPT ![h].st = "cb ack", ![h].cb = b]
    /\ UNCHANGED <<socket, forked>>
(* ... a host that gives up, signalling its bridge or not ... *)
GivesUp(h) ==
    /\ HostSet(h, Idle)
    /\ \/ host[h].st \in {"fork", "rpc", "cb", "ready"} /\ UNCHANGED bridge
       \/ host[h].st = "rpc ack" /\ ~Running(host[h].rpc) /\ UNCHANGED bridge
       \/ host[h].st = "cb ack" /\ ~Running(host[h].cb) /\ UNCHANGED bridge
       \/ host[h].st = "wait" /\ bridge' = Signalled(host[h].pid)
    /\ UNCHANGED <<socket, forked>>
(* ... and one that finds nobody and forks. *)
FindsNobody(h) ==
    /\ host[h].st = "idle" /\ Refused
    /\ host' = [host EXCEPT ![h].st = "fork"]
    /\ UNCHANGED <<socket, bridge, forked>>
Forks(h) ==
    /\ host[h].st = "fork" /\ forked < MaxBridge
    /\ forked' = forked + 1
    /\ Becomes(forked + 1, "loading")
    /\ host' = [host EXCEPT ![h].st = "wait", ![h].pid = forked + 1]
    /\ UNCHANGED socket

(* The start of a bridge up to listen, but for the file it makes. *)
Starts(b) ==
    /\ \/ bridge[b].st = "loading" /\ Becomes(b, "loaded") /\ UNCHANGED socket
       \/ bridge[b].st = "loaded" /\ Becomes(b, "unlinked") /\ socket' = NULL
       \/ bridge[b].st = "unlinked" /\ Becomes(b, "bound") /\ socket' = b
       \/ bridge[b].st = "bound" /\ Becomes(b, "listening") /\ UNCHANGED socket
       \/ bridge[b].st = "listening" /\ Becomes(b, "serving") /\ UNCHANGED socket
    /\ UNCHANGED <<forked, host>>
Ends(b) ==
    /\ bridge[b].st \notin {"none", "dead"} /\ Dies(b)
    /\ socket' \in {socket, NULL}
    /\ UNCHANGED <<forked, host>>

HostKinds(h) ==
    Probes(h) \/ OpensRpc(h) \/ OpensCb(h) \/ GivesUp(h) \/ FindsNobody(h) \/ Forks(h)
BridgeKinds(b) ==
    Starts(b) \/ Stops(b) \/ Ends(b) \/ Accept(b) \/ CloseListen(b) \/ Signal(b)

(* Every step is one of these. *)
LEMMA HostStepKinds ==
    ASSUME NEW h \in Host, HostStep(h) \/ Probe(h) \/ Leave(h)
    PROVE  HostKinds(h)
<1>1. CASE Probe(h)
  BY <1>1 DEF Probe, HostKinds, Probes, FindsNobody
<1>2. CASE Fork(h)
  BY <1>2 DEF Fork, HostKinds, Forks, GivesUp, HostSet, Becomes
<1>3. CASE Poll(h)
  BY <1>3 DEF Poll, HostKinds, Probes
<1>4. CASE TimeOut(h)
  BY <1>4 DEF TimeOut, HostKinds, GivesUp, HostSet
<1>5. CASE ConnectRpc(h)
  BY <1>5 DEF ConnectRpc, HostKinds, OpensRpc, GivesUp, HostSet
<1>6. CASE ConnectCb(h)
  BY <1>6 DEF ConnectCb, HostKinds, OpensCb, GivesUp, HostSet
<1>7. CASE HandshakeFails(h)
  BY <1>7 DEF HandshakeFails, HostKinds, GivesUp, HostSet
<1>8. CASE Leave(h)
  BY <1>8 DEF Leave, HostKinds, GivesUp, HostSet
<1> QED
  BY <1>1, <1>2, <1>3, <1>4, <1>5, <1>6, <1>7, <1>8 DEF HostStep

LEMMA BridgeStepKinds ==
    ASSUME NEW b \in Bridge, BridgeStep(b) \/ Signal(b) \/ Crash(b)
    PROVE  BridgeKinds(b)
<1>1. CASE Load(b)
  BY <1>1 DEF Load, BridgeKinds, Starts, Ends
<1>2. CASE Unlink(b)
  BY <1>2 DEF Unlink, BridgeKinds, Starts
<1>3. CASE Bind(b)
  BY <1>3 DEF Bind, BridgeKinds, Starts, Ends
<1>4. CASE Listen(b)
  BY <1>4 DEF Listen, BridgeKinds, Starts
<1>5. CASE InstallHandlers(b)
  BY <1>5 DEF InstallHandlers, BridgeKinds, Starts, Stops
<1>6. CASE Accept(b) \/ CloseListen(b) \/ Signal(b)
  BY <1>6 DEF BridgeKinds
<1>7. CASE Exit(b)
  BY <1>7 DEF Exit, BridgeKinds, Ends
<1>8. CASE Crash(b)
  BY <1>8 DEF Crash, Running, BridgeKinds, Ends
<1> QED
  BY <1>1, <1>2, <1>3, <1>4, <1>5, <1>6, <1>7, <1>8 DEF BridgeStep

LEMMA StepKinds ==
    ASSUME [Next]_vars
    PROVE  \/ \E h \in Host : HostKinds(h)
           \/ \E b \in Bridge : BridgeKinds(b)
           \/ UNCHANGED vars
BY HostStepKinds, BridgeStepKinds DEF Next

(* What Forks and CloseListen leave. *)
LEMMA Forking ==
    ASSUME Types, NEW h \in Host, Forks(h)
    PROVE  /\ forked + 1 \in Bridge
           /\ bridge' \in [Bridge -> BridgeType]
           /\ bridge'[forked + 1].st = "loading"
           /\ bridge'[forked + 1].queue = bridge[forked + 1].queue
           /\ \A c \in Bridge : c # forked + 1 => bridge'[c] = bridge[c]
           /\ host' \in [Host -> HostType]
           /\ host'[h].st = "wait" /\ host'[h].pid = forked + 1
           /\ \A g \in Host : g # h => host'[g] = host[g]
<1>1. PICK n \in Bridge : n = forked + 1
  BY DEF Forks, Types, Bridge
<1>2. Becomes(n, "loading")
  BY <1>1 DEF Forks
<1>3. "loading" \in BridgeSt
  BY DEF BridgeSt, Starting
<1>4. WithPid(host[h], "wait", n) \in HostType
      /\ WithPid(host[h], "wait", n).st = "wait"
      /\ WithPid(host[h], "wait", n).pid = n
  <2>1. host[h] \in HostType /\ "wait" \in HostSt
    BY HostRecords DEF HostSt
  <2> QED
    BY <2>1, HostFields
<1>5. HostSet(h, WithPid(host[h], "wait", n))
  BY <1>1, HostRecords DEF Forks, HostSet, Types, WithPid, WithRpc, WithCb
<1>6. /\ bridge' \in [Bridge -> BridgeType]
      /\ bridge'[n].st = "loading" /\ bridge'[n].queue = bridge[n].queue
      /\ \A c \in Bridge : c # n => bridge'[c] = bridge[c]
  BY <1>2, <1>3, Becoming
<1>7. /\ host' \in [Host -> HostType]
      /\ host'[h].st = "wait" /\ host'[h].pid = n
      /\ \A g \in Host : g # h => host'[g] = host[g]
  BY <1>4, <1>5, Moves
<1> QED
  BY <1>1, <1>6, <1>7

LEMMA Closing ==
    ASSUME Types, NEW b \in Bridge, CloseListen(b)
    PROVE  /\ bridge' \in [Bridge -> BridgeType]
           /\ bridge'[b].st = "closed" /\ bridge'[b].queue = <<>>
           /\ \A c \in Bridge : c # b => bridge'[c] = bridge[c]
<1>1. bridge[b] \in BridgeType /\ <<>> \in Seq(Conn) /\ "closed" \in BridgeSt
  BY EmptySeq DEF Types, BridgeSt
<1>2. [[bridge[b] EXCEPT !.st = "closed"] EXCEPT !.queue = <<>>] \in BridgeType
      /\ [[bridge[b] EXCEPT !.st = "closed"] EXCEPT !.queue = <<>>].st = "closed"
      /\ [[bridge[b] EXCEPT !.st = "closed"] EXCEPT !.queue = <<>>].queue = <<>>
  BY <1>1 DEF BridgeType
<1>3. BridgeSet(b, [[bridge[b] EXCEPT !.st = "closed"] EXCEPT !.queue = <<>>])
  BY <1>1 DEF CloseListen, BridgeSet, Types
<1> QED
  BY <1>2, <1>3, Sets

(* Opening a channel. *)
LEMMA Opening ==
    ASSUME Types, NEW h \in Host, OpensRpc(h) \/ OpensCb(h)
    PROVE  \E b \in Bridge, kind \in {"rpc", "cb"} :
             /\ Reached(b) /\ bridge' = Queued(b, h, kind)
             /\ kind = "rpc" => /\ host[h].st = "rpc"
                                /\ host'[h].st = "rpc ack" /\ host'[h].rpc = b
             /\ kind = "cb" => /\ host[h].st = "cb"
                               /\ host'[h].st = "cb ack" /\ host'[h].cb = b
                               /\ host'[h].rpc = host[h].rpc
             /\ host' \in [Host -> HostType]
             /\ \A g \in Host : g # h => host'[g] = host[g]
<1>1. CASE OpensRpc(h)
  <2>1. PICK b \in Bridge : /\ Reached(b) /\ bridge' = Queued(b, h, "rpc")
                            /\ host' = [host EXCEPT ![h].st = "rpc ack", ![h].rpc = b]
    BY <1>1 DEF OpensRpc
  <2>2. WithRpc(host[h], "rpc ack", b) \in HostType
        /\ WithRpc(host[h], "rpc ack", b).st = "rpc ack"
        /\ WithRpc(host[h], "rpc ack", b).rpc = b
    <3>1. host[h] \in HostType
      BY HostRecords
    <3>2. PICK st \in HostSt : st = "rpc ack"
      BY DEF HostSt
    <3>3. WithRpc(host[h], st, b) \in HostType
      BY <3>1, HostFields
    <3>4. WithRpc(host[h], st, b).st = st
      BY <3>1, HostFields
    <3> QED
      BY <3>1, <3>2, <3>3, <3>4, HostFields
  <2>3. HostSet(h, WithRpc(host[h], "rpc ack", b))
    BY <2>1, HostRecords DEF HostSet, Types, WithPid, WithRpc, WithCb
  <2>4. /\ host' \in [Host -> HostType]
        /\ host'[h].st = "rpc ack" /\ host'[h].rpc = b
        /\ \A g \in Host : g # h => host'[g] = host[g]
    BY <2>2, <2>3, Moves
  <2> QED
    BY <1>1, <2>1, <2>4 DEF OpensRpc
<1>2. CASE OpensCb(h)
  <2>1. PICK b \in Bridge : /\ Reached(b) /\ bridge' = Queued(b, h, "cb")
                            /\ host' = [host EXCEPT ![h].st = "cb ack", ![h].cb = b]
    BY <1>2 DEF OpensCb
  <2>2. WithCb(host[h], "cb ack", b) \in HostType
        /\ WithCb(host[h], "cb ack", b).st = "cb ack"
        /\ WithCb(host[h], "cb ack", b).cb = b
        /\ WithCb(host[h], "cb ack", b).rpc = host[h].rpc
    <3>1. host[h] \in HostType
      BY HostRecords
    <3>2. PICK st \in HostSt : st = "cb ack"
      BY DEF HostSt
    <3>3. WithCb(host[h], st, b) \in HostType
      BY <3>1, HostFields
    <3>4. WithCb(host[h], st, b).st = st
      BY <3>1, HostFields
    <3>5. WithCb(host[h], st, b).cb = b
      BY <3>1, HostFields
    <3>6. WithCb(host[h], st, b).rpc = host[h].rpc
      BY <3>1, HostFields
    <3> QED
      BY <3>2, <3>3, <3>4, <3>5, <3>6
  <2>3. HostSet(h, WithCb(host[h], "cb ack", b))
    BY <2>1, HostRecords DEF HostSet, Types, WithPid, WithRpc, WithCb
  <2>4. /\ host' \in [Host -> HostType]
        /\ host'[h].st = "cb ack" /\ host'[h].cb = b /\ host'[h].rpc = host[h].rpc
        /\ \A g \in Host : g # h => host'[g] = host[g]
    BY <2>2, <2>3, Moves
  <2> QED
    BY <1>2, <2>1, <2>4 DEF OpensCb
<1> QED
  BY <1>1, <1>2

(* Who moves when a connection is accepted. *)
LEMMA Acknowledging ==
    ASSUME Types, NEW b \in Bridge, Accept(b)
    PROVE  LET conn == bridge[b].queue[1] IN
           /\ conn.host \in Host /\ conn.kind \in Kind
           /\ host' \in [Host -> HostType]
           /\ \A g \in Host : g # conn.host => host'[g] = host[g]
           /\ conn.kind = "probe" => host' = host
           /\ conn.kind = "rpc" => host'[conn.host].st = "cb"
           /\ conn.kind = "cb" => host'[conn.host].st = "ready"
           /\ host'[conn.host].pid = host[conn.host].pid
           /\ host'[conn.host].rpc = host[conn.host].rpc
           /\ host'[conn.host].cb = host[conn.host].cb
<1>1. PICK conn \in Conn : conn = Head(bridge[b].queue) /\ conn = bridge[b].queue[1]
  BY Accepting
<1>2. conn.host \in Host /\ conn.kind \in Kind
  BY <1>1 DEF Conn
<1>3. PICK h \in Host : h = conn.host
  BY <1>2
<1>4. host' = [host EXCEPT ![h].st = CASE conn.kind = "probe" -> host[h].st
                      [] conn.kind = "rpc" -> "cb"
                      [] conn.kind = "cb" -> "ready"]
  BY <1>1, <1>3 DEF Accept, Types
<1>5. CASE conn.kind = "probe"
  <2>1. host' = [host EXCEPT ![h].st = host[h].st]
    BY <1>4, <1>5
  <2>2. [host[h] EXCEPT !.st = host[h].st] = host[h]
    BY HostRecords DEF HostType
  <2>3. host' = host
    BY <2>1, <2>2 DEF Types
  <2> QED
    BY <1>1, <1>2, <1>3, <1>5, <2>3 DEF Types
<1>6. CASE conn.kind = "rpc"
  <2>1. host' = [host EXCEPT ![h].st = "cb"] /\ "cb" \in HostSt
    BY <1>4, <1>6 DEF HostSt
  <2> QED
    BY <1>1, <1>2, <1>3, <1>6, <2>1, HostGoes
<1>7. CASE conn.kind = "cb"
  <2>1. host' = [host EXCEPT ![h].st = "ready"] /\ "ready" \in HostSt
    BY <1>4, <1>7 DEF HostSt
  <2> QED
    BY <1>1, <1>2, <1>3, <1>7, <2>1, HostGoes
<1> QED
  BY <1>2, <1>5, <1>6, <1>7 DEF Kind

(* TypeOK with what makes it inductive. *)
LEMMA HostTypes ==
    ASSUME Types, Placed, NEW h \in Host, HostKinds(h)
    PROVE  Types' /\ Placed'
<1> USE DEF Types, Placed, Listens
<1>1. CASE Probes(h)
  <2>1. PICK b \in Bridge : Reached(b) /\ bridge' = Queued(b, h, "probe")
    BY <1>1 DEF Probes
  <2>2. "rpc" \in HostSt /\ "probe" \in Kind /\ "rpc" # "wait"
    BY DEF HostSt, Kind
  <2>3. /\ host' \in [Host -> HostType]
        /\ host'[h].st = "rpc"
        /\ \A g \in Host : g # h => host'[g] = host[g]
    BY <1>1, <2>2, HostGoes DEF Probes
  <2>4. /\ bridge' \in [Bridge -> BridgeType]
        /\ \A c \in Bridge : /\ bridge'[c].st = bridge[c].st
                             /\ c # b => bridge'[c] = bridge[c]
    BY <2>1, <2>2, Sends
  <2>5. UNCHANGED <<socket, forked>>
    BY <1>1 DEF Probes
  <2>6. Listens(b)
    BY <2>1 DEF Reached
  <2> QED
    BY <2>2, <2>3, <2>4, <2>5, <2>6
<1>2. CASE OpensRpc(h) \/ OpensCb(h)
  <2>1. PICK b \in Bridge, kind \in {"rpc", "cb"} :
             /\ Reached(b) /\ bridge' = Queued(b, h, kind)
             /\ host'[h].st \in {"rpc ack", "cb ack"}
             /\ host' \in [Host -> HostType]
             /\ \A g \in Host : g # h => host'[g] = host[g]
    BY <1>2, Opening
  <2>2. kind \in Kind
    BY DEF Kind
  <2>4. /\ bridge' \in [Bridge -> BridgeType]
        /\ \A c \in Bridge : /\ bridge'[c].st = bridge[c].st
                             /\ c # b => bridge'[c] = bridge[c]
    BY <2>1, <2>2, Sends
  <2>5. UNCHANGED <<socket, forked>>
    BY <1>2 DEF OpensRpc, OpensCb
  <2>6. Listens(b)
    BY <2>1 DEF Reached
  <2> QED
    BY <2>1, <2>4, <2>5, <2>6
<1>3. CASE GivesUp(h)
  <2>1. /\ host' \in [Host -> HostType]
        /\ host'[h].st = "idle"
        /\ \A g \in Host : g # h => host'[g] = host[g]
    BY <1>3, Records, Moves DEF GivesUp
  <2>2. UNCHANGED <<socket, forked>>
    BY <1>3 DEF GivesUp
  <2>3. CASE UNCHANGED bridge
    BY <2>1, <2>2, <2>3
  <2>4. CASE host[h].st = "wait" /\ bridge' = Signalled(host[h].pid)
    <3>1. PICK b \in Bridge : b = host[h].pid
      BY <2>4
    <3>2. bridge' = Signalled(b)
      BY <2>4, <3>1
    <3>3. /\ bridge' \in [Bridge -> BridgeType]
          /\ \A c \in Bridge : c # b => bridge'[c] = bridge[c]
          /\ \/ bridge[b].st \in Starting /\ bridge'[b].st = "dead" /\ bridge'[b].queue = <<>>
             \/ bridge'[b].st = bridge[b].st /\ bridge'[b].queue = bridge[b].queue
      BY <3>2, Signalling
    <3> QED
      BY <2>1, <2>2, <3>3 DEF Starting
  <2> QED
    BY <1>3, <2>3, <2>4 DEF GivesUp
<1>4. CASE FindsNobody(h)
  <2>1. "fork" \in HostSt
    BY DEF HostSt
  <2>2. /\ host' \in [Host -> HostType]
        /\ host'[h].st = "fork"
        /\ \A g \in Host : g # h => host'[g] = host[g]
    BY <1>4, <2>1, HostGoes DEF FindsNobody
  <2> QED
    BY <1>4, <2>2 DEF FindsNobody
<1>5. CASE Forks(h)
  <2>1. forked' = forked + 1 /\ socket' = socket /\ forked < MaxBridge
    BY <1>5 DEF Forks
  <2>2. /\ forked + 1 \in Bridge
        /\ bridge' \in [Bridge -> BridgeType]
        /\ bridge'[forked + 1].queue = bridge[forked + 1].queue
        /\ \A c \in Bridge : c # forked + 1 => bridge'[c] = bridge[c]
        /\ host' \in [Host -> HostType]
        /\ host'[h].pid = forked + 1
        /\ \A g \in Host : g # h => host'[g] = host[g]
    BY <1>5, Forking
  <2>3. bridge[forked + 1].st = "none"
    BY <2>2 DEF Bridge
  <2>4. \A b \in Bridge : b > forked' => b # forked + 1 /\ b > forked
    BY <2>1 DEF Bridge
  <2>5. forked' \in 0..MaxBridge
    BY <2>1
  <2>6. \A b \in Bridge : b > forked' => bridge'[b].st = "none"
    BY <2>2, <2>4
  <2>7. \A g \in Host : host'[g].st = "wait" => host'[g].pid \in Bridge
    BY <2>2
  <2>8. bridge[forked + 1].queue = <<>>
    BY <2>2, <2>3
  <2>9. \A b \in Bridge : ~Listens(b)' => bridge'[b].queue = <<>>
    BY <2>2, <2>8
  <2> QED
    BY <2>1, <2>2, <2>5, <2>6, <2>7, <2>9
<1> QED
  BY <1>1, <1>2, <1>3, <1>4, <1>5 DEF HostKinds

LEMMA BridgeTypes ==
    ASSUME Types, Placed, NEW b \in Bridge, BridgeKinds(b)
    PROVE  Types' /\ Placed'
<1> USE DEF Types, Placed, Listens
<1>1. CASE Starts(b)
  <2>1. PICK st \in Starting \cup {"serving"} : Becomes(b, st) /\ (Listens(b) => st = "serving")
    BY <1>1 DEF Starts, Starting
  <2>2. st \in BridgeSt
    BY DEF BridgeSt
  <2>3. /\ bridge' \in [Bridge -> BridgeType]
        /\ bridge'[b].st = st /\ bridge'[b].queue = bridge[b].queue
        /\ \A c \in Bridge : c # b => bridge'[c] = bridge[c]
    BY <2>1, <2>2, Becoming
  <2>4. UNCHANGED <<forked, host>> /\ socket' \in Bridge \cup {NULL} /\ bridge[b].st # "none"
    BY <1>1 DEF Starts
  <2> QED
    BY <2>1, <2>3, <2>4
<1>2. CASE Ends(b)
  <2>1. /\ bridge' \in [Bridge -> BridgeType]
        /\ bridge'[b].st = "dead" /\ bridge'[b].queue = <<>>
        /\ \A c \in Bridge : c # b => bridge'[c] = bridge[c]
    BY <1>2, Dying DEF Ends
  <2>2. UNCHANGED <<forked, host>> /\ socket' \in Bridge \cup {NULL} /\ bridge[b].st # "none"
    BY <1>2 DEF Ends
  <2> QED
    BY <2>1, <2>2
<1>3. CASE Accept(b)
  <2>1. /\ bridge' \in [Bridge -> BridgeType]
        /\ bridge'[b].st \in {"serving", "exiting"}
        /\ \A c \in Bridge : c # b => bridge'[c] = bridge[c]
    BY <1>3, Accepting
  <2>2. PICK h \in Host :
           /\ host' \in [Host -> HostType]
           /\ \A g \in Host : g # h => host'[g] = host[g]
           /\ host' = host \/ host'[h].st \in {"cb", "ready"}
    <3>1. PICK conn \in Conn : conn = bridge[b].queue[1]
      BY <1>3, Accepting
    <3>2. /\ conn.host \in Host /\ conn.kind \in Kind
          /\ host' \in [Host -> HostType]
          /\ \A g \in Host : g # conn.host => host'[g] = host[g]
          /\ conn.kind = "probe" => host' = host
          /\ conn.kind = "rpc" => host'[conn.host].st = "cb"
          /\ conn.kind = "cb" => host'[conn.host].st = "ready"
      BY <1>3, <3>1, Acknowledging
    <3> QED
      BY <3>2 DEF Kind
  <2>3. UNCHANGED <<socket, forked>> /\ bridge[b].st = "serving"
    BY <1>3 DEF Accept
  <2> QED
    BY <2>1, <2>2, <2>3
<1>4. CASE CloseListen(b)
  <2>1. /\ bridge' \in [Bridge -> BridgeType]
        /\ bridge'[b].st = "closed" /\ bridge'[b].queue = <<>>
        /\ \A c \in Bridge : c # b => bridge'[c] = bridge[c]
    BY <1>4, Closing
  <2>2. UNCHANGED <<socket, forked, host>> /\ bridge[b].st = "exiting"
    BY <1>4 DEF CloseListen
  <2> QED
    BY <2>1, <2>2
<1>5. CASE Signal(b)
  <2>1. /\ bridge' \in [Bridge -> BridgeType]
        /\ \A c \in Bridge : c # b => bridge'[c] = bridge[c]
        /\ \/ bridge[b].st \in Starting /\ bridge'[b].st = "dead" /\ bridge'[b].queue = <<>>
           \/ bridge'[b].st = bridge[b].st /\ bridge'[b].queue = bridge[b].queue
    BY <1>5, Signalling DEF Signal
  <2>2. UNCHANGED <<socket, forked, host>>
    BY <1>5 DEF Signal
  <2> QED
    BY <2>1, <2>2 DEF Starting
<1>6. CASE Stops(b)
  <2>1. /\ bridge' \in [Bridge -> BridgeType]
        /\ bridge'[b].st = "exiting"
        /\ \A c \in Bridge : c # b => bridge'[c] = bridge[c]
    BY <1>6, Stopping
  <2>2. UNCHANGED <<socket, forked, host>> /\ bridge[b].st = "listening"
    BY <1>6 DEF Stops
  <2> QED
    BY <2>1, <2>2
<1> QED
  BY <1>1, <1>2, <1>3, <1>4, <1>5, <1>6 DEF BridgeKinds

LEMMA TypeInit == Init => Types /\ Placed
<1>1. NoBridge.st = "none" /\ NoBridge.queue = <<>>
  BY DEF NoBridge
<1> QED
  BY <1>1, Records DEF Init, Types, Placed

LEMMA TypeStep == Types /\ Placed /\ [Next]_vars => Types' /\ Placed'
<1> SUFFICES ASSUME Types, Placed, [Next]_vars PROVE Types' /\ Placed'
  OBVIOUS
<1>1. CASE UNCHANGED vars
  BY <1>1 DEF vars, Types, Placed, Listens
<1> QED
  BY <1>1, StepKinds, HostTypes, BridgeTypes

(* Wherever a bridge or a host is, its record is one of the type; in        *)
(* particular a host that waits, and may signal, has a bridge to signal.    *)
THEOREM LaunchTypes == Spec => []TypeOK
<1>1. Spec => [](Types /\ Placed)
  BY TypeInit, TypeStep, PTL DEF Spec
<1> QED
  BY <1>1, TypesAreTypeOK, PTL

-----------------------------------------------------------------------------
(* The handshakes. *)

(* No host asks twice. *)
AskedOnce ==
    \A b \in Bridge : \A i, j \in DOMAIN bridge[b].queue :
        /\ bridge[b].queue[i].kind # "probe" /\ bridge[b].queue[j].kind # "probe"
        /\ bridge[b].queue[i].host = bridge[b].queue[j].host
        => i = j
Handshakes == HandshakesOwed /\ AskedOnce

(* What HandshakesOwed says of the i-th connection queued at b. *)
AskedBy(b, i, g, k) ==
    /\ bridge[b].queue[i].host = g /\ bridge[b].queue[i].kind = k
    /\ k = "rpc" => host[g].st = "rpc ack" /\ host[g].rpc = b
    /\ k = "cb" => host[g].st = "cb ack" /\ host[g].cb = b

LEMMA QueuedIsAwaited ==
    ASSUME Types, Handshakes, NEW b \in Bridge, NEW i \in DOMAIN bridge[b].queue
    PROVE  \E g \in Host, k \in Kind : AskedBy(b, i, g, k)
<1>1. bridge[b].queue \in Seq(Conn)
  BY DEF Types, BridgeType
<1>2. bridge[b].queue[i] \in Conn
  BY <1>1, ElementOfSeq, LenProperties
<1>3. PICK g \in Host, k \in Kind : bridge[b].queue[i] = [host |-> g, kind |-> k]
  BY <1>2 DEF Conn
<1>4. bridge[b].queue[i].host = g /\ bridge[b].queue[i].kind = k
  BY <1>3
<1>5. k # "probe" => Awaits(g, b, k)
  BY <1>4 DEF Handshakes, HandshakesOwed
<1>6. AskedBy(b, i, g, k)
  BY <1>4, <1>5 DEF Awaits, AskedBy
<1> QED
  BY <1>6

LEMMA EmptyDomain == DOMAIN <<>> = {}
<1>1. <<>> \in Seq(Conn) /\ Len(<<>>) = 0
  BY EmptySeq
<1>2. DOMAIN <<>> = 1..0
  BY <1>1, LenProperties
<1> QED
  BY <1>2

(* Steps that leave the queues alone or empty one as its bridge closes, and *)
(* move no host that waits for an acknowledgement it may still get.         *)
LEMMA Quiet ==
    ASSUME Types, Handshakes,
           \A c \in Bridge : \/ bridge'[c].queue = bridge[c].queue
                             \/ bridge'[c].queue = <<>> /\ bridge'[c].st \in {"closed", "dead"},
           \A c \in Bridge :
               bridge[c].st \in {"closed", "dead"} => bridge'[c].st \in {"closed", "dead"},
           \A g \in Host :
               \/ host'[g] = host[g]
               \/ /\ host'[g].st \notin {"rpc ack", "cb ack"}
                  /\ \A c \in Bridge : \A i \in DOMAIN bridge[c].queue :
                        bridge[c].queue[i].host = g => bridge[c].queue[i].kind = "probe"
    PROVE  Handshakes'
<1>1. ASSUME NEW b \in Bridge, NEW i \in DOMAIN bridge'[b].queue,
             bridge'[b].queue[i].kind # "probe"
      PROVE  Awaits(bridge[b].queue[i].host, b, bridge[b].queue[i].kind)'
             /\ bridge'[b].queue = bridge[b].queue
  <2>0. DOMAIN <<>> = {}
    BY EmptyDomain
  <2>1. bridge'[b].queue = bridge[b].queue /\ i \in DOMAIN bridge[b].queue
    BY <1>1, <2>0
  <2>2. PICK h \in Host, kind \in Kind : AskedBy(b, i, h, kind)
    BY <2>1, QueuedIsAwaited
  <2>2a. kind # "probe"
    BY <2>1, <2>2, <1>1 DEF AskedBy
  <2>2b. Awaits(h, b, kind)
    BY <2>1, <2>2, <2>2a DEF Handshakes, HandshakesOwed, AskedBy
  <2>2c. host'[h] = host[h]
    BY <2>1, <2>2, <2>2a DEF AskedBy
  <2>3. Awaits(h, b, kind) /\ host'[h] = host[h]
    BY <2>2b, <2>2c
  <2>4. bridge'[b].queue[i].host = h /\ bridge'[b].queue[i].kind = kind
    BY <2>1, <2>2 DEF AskedBy
  <2> QED
    BY <2>1, <2>3, <2>4 DEF Awaits
<1>2. ASSUME NEW b \in Bridge, NEW h \in Host, NEW kind \in {"rpc", "cb"}, Awaits(h, b, kind)'
      PROVE  \/ bridge'[b].st \in {"closed", "dead"}
             \/ \E i \in DOMAIN bridge'[b].queue :
                   bridge'[b].queue[i] = [host |-> h, kind |-> kind]
  <2>1. host'[h] = host[h]
    BY <1>2 DEF Awaits
  <2>2. Awaits(h, b, kind)
    BY <1>2, <2>1 DEF Awaits
  <2>3. \/ bridge[b].st \in {"closed", "dead"}
        \/ \E i \in DOMAIN bridge[b].queue : bridge[b].queue[i] = [host |-> h, kind |-> kind]
    BY <2>2 DEF Handshakes, HandshakesOwed
  <2> QED
    BY <2>3
<1>3. AskedOnce'
  <2>1. ASSUME NEW b \in Bridge, NEW i \in DOMAIN bridge'[b].queue, NEW j \in DOMAIN bridge'[b].queue,
               bridge'[b].queue[i].kind # "probe", bridge'[b].queue[j].kind # "probe",
               bridge'[b].queue[i].host = bridge'[b].queue[j].host
        PROVE  i = j
    <3>1. bridge'[b].queue = bridge[b].queue
      BY <1>1, <2>1
    <3> QED
      BY <2>1, <3>1 DEF AskedOnce, Handshakes
  <2> QED
    BY <2>1 DEF AskedOnce
<1>4. HandshakesOwed'
  BY <1>1, <1>2 DEF HandshakesOwed
<1> QED
  BY <1>3, <1>4 DEF Handshakes

LEMMA Positions ==
    ASSUME NEW n \in Nat
    PROVE  /\ n + 1 \in 1..(n + 1)
           /\ \A i \in 1..(n + 1) : i # n + 1 => i \in 1..n
           /\ \A i \in 1..n : i \in 1..(n + 1)
OBVIOUS

(* A probe or a handshake is queued: only the host that asks moves. *)
LEMMA Asks ==
    ASSUME Types, Handshakes,
           NEW h \in Host, NEW b \in Bridge, NEW kind \in Kind,
           bridge' = Queued(b, h, kind),
           host[h].st \notin {"rpc ack", "cb ack"},
           \A g \in Host : g # h => host'[g] = host[g],
           kind = "probe" => host'[h].st \notin {"rpc ack", "cb ack"},
           kind = "rpc" => host'[h].st = "rpc ack" /\ host'[h].rpc = b,
           kind = "cb" => host'[h].st = "cb ack" /\ host'[h].cb = b
    PROVE  Handshakes'
<1> DEFINE n == Len(bridge[b].queue)
           conn == [host |-> h, kind |-> kind]
<1>1. /\ \A c \in Bridge : bridge'[c].st = bridge[c].st /\ (c # b => bridge'[c] = bridge[c])
      /\ DOMAIN bridge[b].queue = 1..n /\ DOMAIN bridge'[b].queue = 1..(n + 1) /\ n \in Nat
      /\ \A i \in 1..n : bridge'[b].queue[i] = bridge[b].queue[i]
      /\ bridge'[b].queue[n + 1] = conn
  BY Sends
<1>2. conn.host = h /\ conn.kind = kind
  OBVIOUS
<1> HIDE DEF n, conn
<1>2a. DOMAIN bridge[b].queue = 1..n /\ DOMAIN bridge'[b].queue = 1..(n + 1) /\ n \in Nat
  BY <1>1
<1>2b. /\ n + 1 \in 1..(n + 1)
       /\ \A i \in 1..(n + 1) : i # n + 1 => i \in 1..n
       /\ \A i \in 1..n : i \in 1..(n + 1)
  BY <1>2a, Positions
<1>3. \A i \in DOMAIN bridge'[b].queue :
         i # n + 1 => i \in DOMAIN bridge[b].queue /\ bridge'[b].queue[i] = bridge[b].queue[i]
  BY <1>1, <1>2a, <1>2b
<1>3a. \A i \in DOMAIN bridge[b].queue : i \in DOMAIN bridge'[b].queue /\ bridge'[b].queue[i] = bridge[b].queue[i]
  BY <1>1, <1>2a, <1>2b
<1>3b. n + 1 \in DOMAIN bridge'[b].queue /\ bridge'[b].queue[n + 1] = [host |-> h, kind |-> kind]
  BY <1>1, <1>2a, <1>2b DEF conn
(* h has no handshake in any queue yet. *)
<1>4. ASSUME NEW c \in Bridge, NEW i \in DOMAIN bridge[c].queue, bridge[c].queue[i].host = h
      PROVE  bridge[c].queue[i].kind = "probe"
  <2>1. PICK g \in Host, k \in Kind : AskedBy(c, i, g, k)
    BY QueuedIsAwaited
  <2> QED
    BY <2>1, <1>4 DEF Kind, AskedBy
<1>5. ASSUME NEW c \in Bridge, NEW i \in DOMAIN bridge'[c].queue,
             bridge'[c].queue[i].kind # "probe"
      PROVE  Awaits(bridge[c].queue[i].host, c, bridge[c].queue[i].kind)'
  <2>1. CASE c = b /\ i = n + 1
    <3>1. Awaits(h, b, kind)'
      BY <2>1, <1>1, <1>2, <1>5 DEF Awaits, Kind
    <3>2. bridge'[c].queue[i].host = h /\ bridge'[c].queue[i].kind = kind
      BY <2>1, <1>1, <1>2
    <3> QED
      BY <3>1, <3>2, <2>1 DEF Awaits
  <2>2. CASE ~(c = b /\ i = n + 1)
    <3>1. i \in DOMAIN bridge[c].queue /\ bridge'[c].queue[i] = bridge[c].queue[i]
      BY <2>2, <1>1, <1>3
    <3>2. PICK g \in Host, k \in Kind : AskedBy(c, i, g, k)
      BY <3>1, QueuedIsAwaited
    <3>3. g # h /\ k # "probe"
      BY <3>1, <3>2, <1>4, <1>5 DEF AskedBy
    <3>4. Awaits(g, c, k)
      BY <3>1, <3>2, <3>3 DEF Handshakes, HandshakesOwed, AskedBy
    <3>5. host'[g] = host[g]
      BY <3>3
    <3>6. bridge'[c].queue[i].host = g /\ bridge'[c].queue[i].kind = k
      BY <3>1, <3>2 DEF AskedBy
    <3> QED
      BY <3>4, <3>5, <3>6 DEF Awaits
  <2> QED
    BY <2>1, <2>2
<1>6. ASSUME NEW c \in Bridge, NEW g \in Host, NEW k \in {"rpc", "cb"}, Awaits(g, c, k)'
      PROVE  \/ bridge'[c].st \in {"closed", "dead"}
             \/ \E i \in DOMAIN bridge'[c].queue : bridge'[c].queue[i] = [host |-> g, kind |-> k]
  <2>1. CASE g = h
    <3>1. k = kind /\ c = b
      BY <2>1, <1>6 DEF Awaits, Kind
    <3> QED
      BY <2>1, <3>1, <1>3b
  <2>2. CASE g # h
    <3>1. host'[g] = host[g]
      BY <2>2
    <3>2. Awaits(g, c, k)
      BY <3>1, <1>6 DEF Awaits
    <3>3. \/ bridge[c].st \in {"closed", "dead"}
          \/ \E i \in DOMAIN bridge[c].queue : bridge[c].queue[i] = [host |-> g, kind |-> k]
      BY <3>2 DEF Handshakes, HandshakesOwed
    <3> QED
      <4>1. CASE bridge[c].st \in {"closed", "dead"}
        BY <4>1, <1>1
      <4>2. ASSUME NEW i \in DOMAIN bridge[c].queue,
                   bridge[c].queue[i] = [host |-> g, kind |-> k]
            PROVE  i \in DOMAIN bridge'[c].queue /\ bridge'[c].queue[i] = [host |-> g, kind |-> k]
        <5>1. CASE c = b
          BY <4>2, <5>1, <1>3a
        <5>2. CASE c # b
          BY <4>2, <5>2, <1>1
        <5> QED
          BY <5>1, <5>2
      <4> QED
        BY <3>3, <4>1, <4>2
  <2> QED
    BY <2>1, <2>2
<1>7. ASSUME NEW c \in Bridge, NEW i \in DOMAIN bridge'[c].queue, NEW j \in DOMAIN bridge'[c].queue,
             bridge'[c].queue[i].kind # "probe", bridge'[c].queue[j].kind # "probe",
             bridge'[c].queue[i].host = bridge'[c].queue[j].host
      PROVE  i = j
  <2>1. CASE c # b
    <3>1. bridge'[c].queue = bridge[c].queue
      BY <2>1, <1>1
    <3> QED
      BY <3>1, <1>7 DEF Handshakes, AskedOnce
  <2>2. CASE c = b /\ i # n + 1 /\ j # n + 1
    <3>1. /\ i \in DOMAIN bridge[b].queue /\ bridge'[b].queue[i] = bridge[b].queue[i]
          /\ j \in DOMAIN bridge[b].queue /\ bridge'[b].queue[j] = bridge[b].queue[j]
      BY <2>2, <1>3
    <3> QED
      BY <3>1, <2>2, <1>7 DEF Handshakes, AskedOnce
  <2>3. ASSUME NEW l \in DOMAIN bridge'[b].queue, l # n + 1, bridge'[b].queue[l].host = h
        PROVE  bridge'[b].queue[l].kind = "probe"
    <3>1. l \in DOMAIN bridge[b].queue /\ bridge'[b].queue[l] = bridge[b].queue[l]
      BY <2>3, <1>3
    <3>2. bridge[b].queue[l].host = h
      BY <2>3, <3>1
    <3>3. bridge[b].queue[l].kind = "probe"
      BY <3>1, <3>2, <1>4
    <3> QED
      BY <3>1, <3>3
  <2>4. bridge'[b].queue[n + 1].host = h
    BY <1>1, <1>2
  <2>5. CASE c = b /\ i = n + 1 /\ j # n + 1
    BY <2>3, <2>4, <2>5, <1>7
  <2>6. CASE c = b /\ i # n + 1 /\ j = n + 1
    BY <2>3, <2>4, <2>6, <1>7
  <2> QED
    BY <2>1, <2>2, <2>5, <2>6
<1>8. AskedOnce'
  BY <1>7 DEF AskedOnce
<1>9. HandshakesOwed'
  BY <1>5, <1>6 DEF HandshakesOwed
<1> QED
  BY <1>8, <1>9 DEF Handshakes

(* The first connection is accepted: its host, if it asked, waits no more. *)
LEMMA Acknowledges ==
    ASSUME Types, Handshakes, NEW b \in Bridge, Accept(b)
    PROVE  Handshakes'
<1> DEFINE q == bridge[b].queue
<1>1. PICK conn \in Conn : conn = q[1]
  BY Accepting
<1>2. PICK h \in Host : h = conn.host
  BY DEF Conn
<1>3. /\ conn.kind \in Kind
      /\ \A g \in Host : g # h => host'[g] = host[g]
      /\ conn.kind = "probe" => host' = host
      /\ conn.kind = "rpc" => host'[h].st = "cb"
      /\ conn.kind = "cb" => host'[h].st = "ready"
  BY <1>1, <1>2, Acknowledging
<1>4. /\ \A c \in Bridge : c # b => bridge'[c] = bridge[c]
      /\ Len(q) \in Nat \ {0} /\ DOMAIN q = 1..Len(q)
      /\ DOMAIN bridge'[b].queue = 1..(Len(q) - 1)
      /\ \A i \in 1..(Len(q) - 1) : bridge'[b].queue[i] = q[i + 1]
  BY Accepting
<1>5. bridge[b].st = "serving"
  BY DEF Accept
<1>6. 1 \in DOMAIN q
  BY <1>4
<1>7. PICK g0 \in Host, k0 \in Kind : AskedBy(b, 1, g0, k0)
  BY <1>6, QueuedIsAwaited
<1>7a. /\ conn.kind = "rpc" => host[h].st = "rpc ack" /\ host[h].rpc = b
       /\ conn.kind = "cb" => host[h].st = "cb ack" /\ host[h].cb = b
  <2>1. h = g0 /\ conn.kind = k0
    BY <1>1, <1>2, <1>7 DEF AskedBy
  <2> QED
    BY <2>1, <1>7 DEF AskedBy
<1>7b. Len(q) \in Nat \ {0}
  BY <1>4
<1>7c. Len(q) - 1 \in Nat
  BY <1>7b
<1>8. PICK n \in Nat : n = Len(q) - 1
  BY <1>7c
<1>9. DOMAIN bridge'[b].queue = 1..n
  BY <1>4, <1>8
<1>10. DOMAIN q = 1..(n + 1)
  BY <1>4, <1>8
<1>11. \A i \in 1..n : bridge'[b].queue[i] = q[i + 1]
  BY <1>4, <1>8
<1>12. \A i \in 1..n : i + 1 \in 1..(n + 1) /\ i + 1 # 1
  OBVIOUS
<1>13. \A i \in 1..(n + 1) : i # 1 => i - 1 \in 1..n /\ (i - 1) + 1 = i
  OBVIOUS
<1>14. 1 \in 1..(n + 1)
  OBVIOUS
(* What is still queued at b was queued behind conn. *)
<1>15. ASSUME NEW i \in DOMAIN bridge'[b].queue
       PROVE  i + 1 \in DOMAIN q /\ i + 1 # 1 /\ bridge'[b].queue[i] = q[i + 1]
  BY <1>9, <1>10, <1>11, <1>12
<1>16. ASSUME NEW i \in DOMAIN q, i # 1
       PROVE  \E j \in DOMAIN bridge'[b].queue : bridge'[b].queue[j] = q[i]
  <2>1. i - 1 \in 1..n /\ (i - 1) + 1 = i
    BY <1>10, <1>13, <1>16
  <2>2. bridge'[b].queue[i - 1] = q[(i - 1) + 1]
    BY <2>1, <1>11
  <2> QED
    BY <2>1, <2>2, <1>9
<1> HIDE DEF q
(* Another handshake's host stays where it is. *)
<1>20. ASSUME NEW c \in Bridge, NEW i \in DOMAIN bridge[c].queue,
              bridge[c].queue[i].kind # "probe", c # b \/ i # 1
       PROVE  host'[bridge[c].queue[i].host] = host[bridge[c].queue[i].host]
  <2>1. PICK g \in Host, k \in Kind : AskedBy(c, i, g, k)
    BY QueuedIsAwaited
  <2>3. CASE g = h /\ conn.kind # "probe"
    <3>1. c = b
      BY <2>1, <2>3, <1>3, <1>7a, <1>20 DEF Kind, AskedBy
    <3>2. i = 1
      BY <3>1, <2>1, <2>3, <1>1, <1>2, <1>10, <1>14, <1>20 DEF Handshakes, AskedOnce, AskedBy, q
    <3> QED
      BY <3>1, <3>2, <1>20
  <2> QED
    BY <2>1, <2>3, <1>3 DEF AskedBy
<1>21. ASSUME NEW c \in Bridge, NEW i \in DOMAIN bridge'[c].queue, bridge'[c].queue[i].kind # "probe"
       PROVE  Awaits(bridge[c].queue[i].host, c, bridge[c].queue[i].kind)'
  <2>1. PICK j \in DOMAIN bridge[c].queue : bridge'[c].queue[i] = bridge[c].queue[j] /\ (c # b \/ j # 1)
    BY <1>4, <1>15 DEF q
  <2>2. PICK g \in Host, k \in Kind : AskedBy(c, j, g, k)
    BY QueuedIsAwaited
  <2>3. k # "probe"
    BY <2>1, <2>2, <1>21 DEF AskedBy
  <2>4. Awaits(g, c, k)
    BY <2>2, <2>3 DEF Handshakes, HandshakesOwed, AskedBy
  <2>5. host'[g] = host[g]
    BY <2>1, <2>2, <2>3, <1>20 DEF AskedBy
  <2>6. bridge'[c].queue[i].host = g /\ bridge'[c].queue[i].kind = k
    BY <2>1, <2>2 DEF AskedBy
  <2> QED
    BY <2>4, <2>5, <2>6 DEF Awaits
<1>22. ASSUME NEW c \in Bridge, NEW g \in Host, NEW k \in {"rpc", "cb"}, Awaits(g, c, k)'
       PROVE  \/ bridge'[c].st \in {"closed", "dead"}
              \/ \E i \in DOMAIN bridge'[c].queue : bridge'[c].queue[i] = [host |-> g, kind |-> k]
  <2>1. host'[g] = host[g]
    BY <1>22, <1>3 DEF Awaits, Kind
  <2>2. Awaits(g, c, k)
    BY <2>1, <1>22 DEF Awaits
  <2>3. \/ bridge[c].st \in {"closed", "dead"}
        \/ \E i \in DOMAIN bridge[c].queue : bridge[c].queue[i] = [host |-> g, kind |-> k]
    BY <2>2 DEF Handshakes, HandshakesOwed
  <2>4. CASE c # b
    BY <2>3, <2>4, <1>4
  <2>5. CASE c = b
    <3>1. PICK i \in DOMAIN q : q[i] = [host |-> g, kind |-> k]
      BY <2>3, <2>5, <1>5 DEF q
    <3>2. i # 1
      <4>1. SUFFICES ASSUME i = 1 PROVE FALSE
        OBVIOUS
      <4>2. h = g /\ conn.kind = k
        BY <3>1, <4>1, <1>1, <1>2
      <4> QED
        BY <4>2, <1>3, <1>22 DEF Awaits
    <3> QED
      BY <3>1, <3>2, <2>5, <1>16
  <2> QED
    BY <2>4, <2>5
<1>23. ASSUME NEW c \in Bridge, NEW i \in DOMAIN bridge'[c].queue, NEW j \in DOMAIN bridge'[c].queue,
              bridge'[c].queue[i].kind # "probe", bridge'[c].queue[j].kind # "probe",
              bridge'[c].queue[i].host = bridge'[c].queue[j].host
       PROVE  i = j
  <2>1. CASE c # b
    <3>1. bridge'[c].queue = bridge[c].queue
      BY <2>1, <1>4
    <3> QED
      BY <3>1, <1>23 DEF Handshakes, AskedOnce
  <2>2. CASE c = b
    <3>1. i + 1 \in DOMAIN q /\ bridge'[b].queue[i] = q[i + 1]
      BY <2>2, <1>15
    <3>2. j + 1 \in DOMAIN q /\ bridge'[b].queue[j] = q[j + 1]
      BY <2>2, <1>15
    <3>3. i + 1 = j + 1
      BY <3>1, <3>2, <2>2, <1>23 DEF Handshakes, AskedOnce, q
    <3>4. i \in Nat /\ j \in Nat
      BY <2>2, <1>9
    <3> QED
      BY <3>3, <3>4
  <2> QED
    BY <2>1, <2>2
<1>24. AskedOnce'
  BY <1>23 DEF AskedOnce
<1>25. HandshakesOwed'
  BY <1>21, <1>22 DEF HandshakesOwed
<1> QED
  BY <1>24, <1>25 DEF Handshakes

LEMMA HandshakesStep == Types /\ Placed /\ Handshakes /\ [Next]_vars => Handshakes'
<1> SUFFICES ASSUME Types, Placed, Handshakes, [Next]_vars PROVE Handshakes'
  OBVIOUS
(* A host that awaits nothing has no handshake queued. *)
<1>1. ASSUME NEW g \in Host, host[g].st \notin {"rpc ack", "cb ack"},
             NEW c \in Bridge, NEW i \in DOMAIN bridge[c].queue, bridge[c].queue[i].host = g
      PROVE  bridge[c].queue[i].kind = "probe"
  <2>1. PICK h \in Host, k \in Kind : AskedBy(c, i, h, k)
    BY QueuedIsAwaited
  <2> QED
    BY <2>1, <1>1 DEF Kind, AskedBy
<1>2. ASSUME NEW h \in Host, HostKinds(h) PROVE Handshakes'
  <2>1. CASE Probes(h)
    <3>1. PICK b \in Bridge : bridge' = Queued(b, h, "probe")
      BY <2>1 DEF Probes
    <3>2. "rpc" \in HostSt /\ "probe" \in Kind
      BY DEF HostSt, Kind
    <3>3. host'[h].st = "rpc" /\ \A g \in Host : g # h => host'[g] = host[g]
      BY <2>1, <3>2, HostGoes DEF Probes
    <3>4. host[h].st \notin {"rpc ack", "cb ack"}
      BY <2>1 DEF Probes
    <3> QED
      BY <3>1, <3>2, <3>3, <3>4, Asks
  <2>2. CASE OpensRpc(h) \/ OpensCb(h)
    <3>1. PICK b \in Bridge, kind \in {"rpc", "cb"} :
             /\ bridge' = Queued(b, h, kind)
             /\ kind = "rpc" => /\ host[h].st = "rpc"
                                /\ host'[h].st = "rpc ack" /\ host'[h].rpc = b
             /\ kind = "cb" => /\ host[h].st = "cb"
                               /\ host'[h].st = "cb ack" /\ host'[h].cb = b
             /\ \A g \in Host : g # h => host'[g] = host[g]
      BY <2>2, Opening
    <3>2. kind \in Kind /\ kind # "probe"
      BY DEF Kind
    <3>3. host[h].st \notin {"rpc ack", "cb ack"}
      BY <3>1
    <3> QED
      BY <3>1, <3>2, <3>3, Asks
  <2>3. CASE GivesUp(h)
    <3>1. host'[h].st = "idle" /\ \A g \in Host : g # h => host'[g] = host[g]
      BY <2>3, Records, Moves DEF GivesUp
    <3>2. CASE host[h].st = "wait" /\ bridge' = Signalled(host[h].pid)
      <4>1. PICK b \in Bridge : b = host[h].pid
        BY <3>2 DEF Placed
      <4>2. /\ \A c \in Bridge : c # b => bridge'[c] = bridge[c]
            /\ \/ bridge[b].st \in Starting /\ bridge'[b].st = "dead" /\ bridge'[b].queue = <<>>
               \/ bridge'[b].st = bridge[b].st /\ bridge'[b].queue = bridge[b].queue
        BY <3>2, <4>1, Signalling
      <4>3. \A c \in Bridge : \A i \in DOMAIN bridge[c].queue :
              bridge[c].queue[i].host = h => bridge[c].queue[i].kind = "probe"
        BY <3>2, <1>1
      <4> QED
        BY <3>1, <4>2, <4>3, Quiet
    <3>3. CASE /\ host[h].st \in {"fork", "rpc", "cb", "ready"} /\ UNCHANGED bridge
      <4>1. \A c \in Bridge : \A i \in DOMAIN bridge[c].queue :
              bridge[c].queue[i].host = h => bridge[c].queue[i].kind = "probe"
        BY <3>3, <1>1
      <4> QED
        BY <3>1, <3>3, <4>1, Quiet
(* Its bridge has ended, and its queue with it. *)
    <3>4. CASE /\ UNCHANGED bridge
               /\ \/ host[h].st = "rpc ack" /\ ~Running(host[h].rpc)
                  \/ host[h].st = "cb ack" /\ ~Running(host[h].cb)
      <4>1. ASSUME NEW c \in Bridge, NEW i \in DOMAIN bridge[c].queue, bridge[c].queue[i].host = h
            PROVE  bridge[c].queue[i].kind = "probe"
        <5>1. PICK g \in Host, k \in Kind : AskedBy(c, i, g, k)
          BY QueuedIsAwaited
        <5>2. CASE k # "probe"
          <6>1. ~Running(c)
            BY <5>1, <5>2, <3>4, <4>1 DEF AskedBy, Kind
          <6>2. bridge[c].queue = <<>>
            BY <6>1 DEF Running, Placed, Listens
          <6> QED
            BY <6>2, EmptyDomain
        <5> QED
          BY <5>1, <5>2 DEF AskedBy
      <4> QED
        BY <3>1, <3>4, <4>1, Quiet
    <3> QED
      BY <2>3, <3>2, <3>3, <3>4 DEF GivesUp
  <2>4. CASE FindsNobody(h)
    <3>1. "fork" \in HostSt
      BY DEF HostSt
    <3>2. host'[h].st = "fork" /\ \A g \in Host : g # h => host'[g] = host[g]
      BY <2>4, <3>1, HostGoes DEF FindsNobody
    <3>3. bridge' = bridge /\ host[h].st \notin {"rpc ack", "cb ack"}
      BY <2>4 DEF FindsNobody
    <3>4. \A c \in Bridge : \A i \in DOMAIN bridge[c].queue :
            bridge[c].queue[i].host = h => bridge[c].queue[i].kind = "probe"
      BY <3>3, <1>1
    <3> QED
      BY <3>2, <3>3, <3>4, Quiet
  <2>5. CASE Forks(h)
    <3>1. PICK n \in Bridge : n = forked + 1
      BY <2>5, Forking
    <3>2. /\ bridge'[n].queue = bridge[n].queue
          /\ \A c \in Bridge : c # n => bridge'[c] = bridge[c]
          /\ host'[h].st = "wait"
          /\ \A g \in Host : g # h => host'[g] = host[g]
      BY <2>5, <3>1, Forking
    <3>3. bridge[n].st = "none" /\ host[h].st \notin {"rpc ack", "cb ack"}
      BY <2>5, <3>1 DEF Forks, Placed, Bridge, Types
    <3>4. \A c \in Bridge : \A i \in DOMAIN bridge[c].queue :
            bridge[c].queue[i].host = h => bridge[c].queue[i].kind = "probe"
      BY <3>3, <1>1
    <3> QED
      BY <3>2, <3>3, <3>4, Quiet
  <2> QED
    BY <1>2, <2>1, <2>2, <2>3, <2>4, <2>5 DEF HostKinds
<1>3. ASSUME NEW b \in Bridge, BridgeKinds(b) PROVE Handshakes'
  <2>1. CASE Starts(b)
    <3>1. PICK st \in Starting \cup {"serving"} : Becomes(b, st)
      BY <2>1 DEF Starts, Starting
    <3>2. st \in BridgeSt
      BY DEF BridgeSt
    <3>3. /\ bridge'[b].queue = bridge[b].queue
          /\ \A c \in Bridge : c # b => bridge'[c] = bridge[c]
      BY <3>1, <3>2, Becoming
    <3>4. host' = host /\ bridge[b].st \notin {"closed", "dead"}
      BY <2>1 DEF Starts
    <3> QED
      BY <3>3, <3>4, Quiet
  <2>2. CASE Ends(b)
    <3>1. /\ bridge'[b].st = "dead" /\ bridge'[b].queue = <<>>
          /\ \A c \in Bridge : c # b => bridge'[c] = bridge[c]
      BY <2>2, Dying DEF Ends
    <3>2. host' = host
      BY <2>2 DEF Ends
    <3> QED
      BY <3>1, <3>2, Quiet
  <2>3. CASE Accept(b)
    BY <2>3, Acknowledges
  <2>4. CASE CloseListen(b)
    <3>1. /\ bridge'[b].st = "closed" /\ bridge'[b].queue = <<>>
          /\ \A c \in Bridge : c # b => bridge'[c] = bridge[c]
      BY <2>4, Closing
    <3>2. host' = host
      BY <2>4 DEF CloseListen
    <3> QED
      BY <3>1, <3>2, Quiet
  <2>5. CASE Signal(b)
    <3>1. /\ \A c \in Bridge : c # b => bridge'[c] = bridge[c]
          /\ \/ bridge[b].st \in Starting /\ bridge'[b].st = "dead" /\ bridge'[b].queue = <<>>
             \/ bridge'[b].st = bridge[b].st /\ bridge'[b].queue = bridge[b].queue
      BY <2>5, Signalling DEF Signal
    <3>2. host' = host
      BY <2>5 DEF Signal
    <3> QED
      BY <3>1, <3>2, Quiet
  <2>6. CASE Stops(b)
    <3>1. /\ bridge'[b].st = "exiting" /\ bridge'[b].queue = bridge[b].queue
          /\ \A c \in Bridge : c # b => bridge'[c] = bridge[c]
      BY <2>6, Stopping
    <3>2. host' = host /\ bridge[b].st \notin {"closed", "dead"}
      BY <2>6 DEF Stops
    <3> QED
      BY <3>1, <3>2, Quiet
  <2> QED
    BY <1>3, <2>1, <2>2, <2>3, <2>4, <2>5, <2>6 DEF BridgeKinds
<1>4. CASE UNCHANGED vars
  <2>1. bridge' = bridge /\ host' = host
    BY <1>4 DEF vars
  <2> QED
    BY <2>1, Quiet
<1> QED
  BY <1>2, <1>3, <1>4, StepKinds

LEMMA HandshakesInit == Init => Handshakes
<1> SUFFICES ASSUME Init PROVE Handshakes
  OBVIOUS
<1>1. \A b \in Bridge : bridge[b].queue = <<>>
  BY DEF Init, NoBridge
<1>2. \A b \in Bridge : DOMAIN bridge[b].queue = {}
  BY <1>1, EmptyDomain
<1>3. \A h \in Host : host[h].st = "idle"
  BY DEF Init, Idle
<1>4. AskedOnce
  BY <1>2 DEF AskedOnce
<1>5. HandshakesOwed
  BY <1>2, <1>3 DEF HandshakesOwed, Awaits
<1> QED
  BY <1>4, <1>5 DEF Handshakes

(* The safety that ConnectEnds rests on: a host that waits, without a       *)
(* time-out, for the acknowledgement of a handshake is queued at the bridge *)
(* it has asked or that bridge closes its connections; and no bridge        *)
(* answers a handshake that nobody waits for.                               *)
THEOREM LaunchHandshakesOwed == Spec => []HandshakesOwed
<1>1. Spec => [](Types /\ Placed)
  BY TypeInit, TypeStep, PTL DEF Spec
<1>2. Types /\ Placed /\ Handshakes /\ [Next]_vars => Handshakes'
  BY HandshakesStep
<1>3. Handshakes => HandshakesOwed
  BY DEF Handshakes
<1> QED
  BY <1>1, <1>2, <1>3, HandshakesInit, PTL DEF Spec

-----------------------------------------------------------------------------
(* One host.  A bridge that does not listen yet is the one the host waits   *)
(* for; while the host is in shim_connect, whoever listens on the path is   *)
(* that bridge, or the one that has the host's first channel; and the       *)
(* second channel leads there too.                                          *)
NotYet == {"loading", "loaded", "unlinked", "bound"}
OwnStart ==
    \A b \in Bridge : bridge[b].st \in NotYet =>
        \E h \in Host : host[h].st = "wait" /\ host[h].pid = b
PathIsKnown ==
    \A h \in Host : \A b \in Bridge : socket = b /\ Listens(b) =>
        /\ host[h].st # "fork"
        /\ host[h].st = "wait" => b = host[h].pid
        /\ host[h].st \in {"rpc ack", "cb"} => b = host[h].rpc
ChannelsAgree == \A h \in Host : host[h].st \in {"cb ack", "ready"} => host[h].cb = host[h].rpc
OneHostInv == OwnStart /\ PathIsKnown /\ ChannelsAgree

LEMMA OneHostInit == Init => OneHostInv
<1> SUFFICES ASSUME Init PROVE OneHostInv
  OBVIOUS
<1>1. \A b \in Bridge : bridge[b].st = "none" /\ bridge[b].st \notin NotYet
  BY DEF Init, NoBridge, NotYet
<1>2. \A h \in Host : host[h].st = "idle"
  BY DEF Init, Idle
<1> QED
  BY <1>1, <1>2 DEF OneHostInv, OwnStart, PathIsKnown, ChannelsAgree, Listens

LEMMA OneHostMoves ==
    ASSUME Types, Placed, OneHostInv, \A g, h \in Host : g = h,
           NEW h \in Host, HostKinds(h)
    PROVE  OneHostInv'
<1> USE DEF Listens, NotYet
<1>0. OwnStart /\ PathIsKnown /\ ChannelsAgree
  BY DEF OneHostInv
(* Unless h waits, every bridge listens or has ended. *)
<1>1. ASSUME NEW b \in Bridge, bridge[b].st \in NotYet
      PROVE  host[h].st = "wait" /\ host[h].pid = b
  BY <1>0, <1>1 DEF OwnStart
<1>2. CASE Probes(h)
  <2>1. PICK b \in Bridge : Reached(b) /\ bridge' = Queued(b, h, "probe")
    BY <1>2 DEF Probes
  <2>2. "rpc" \in HostSt /\ "probe" \in Kind
    BY DEF HostSt, Kind
  <2>3. host'[h].st = "rpc"
    BY <1>2, <2>2, HostGoes DEF Probes
  <2>4. \A c \in Bridge : bridge'[c].st = bridge[c].st
    BY <2>1, <2>2, Sends
  <2>5. socket = b /\ Listens(b) /\ (host[h].st = "wait" => b = host[h].pid)
    BY <2>1, <1>0 DEF Reached, PathIsKnown
  <2>6. \A c \in Bridge : bridge[c].st \notin NotYet
    BY <1>1, <2>5
  <2>7. OwnStart'
    BY <2>4, <2>6 DEF OwnStart
  <2>8. PathIsKnown'
    BY <2>3 DEF PathIsKnown
  <2>9. ChannelsAgree'
    BY <2>3 DEF ChannelsAgree
  <2> QED
    BY <2>7, <2>8, <2>9 DEF OneHostInv
<1>3. CASE OpensRpc(h) \/ OpensCb(h)
  <2>1. PICK b \in Bridge, kind \in {"rpc", "cb"} :
           /\ Reached(b) /\ bridge' = Queued(b, h, kind)
           /\ kind = "rpc" => host[h].st = "rpc" /\ host'[h].st = "rpc ack" /\ host'[h].rpc = b
           /\ kind = "cb" => /\ host[h].st = "cb" /\ host'[h].st = "cb ack"
                             /\ host'[h].cb = b /\ host'[h].rpc = host[h].rpc
    BY <1>3, Opening
  <2>2. kind \in Kind /\ socket' = socket
    BY <1>3 DEF Kind, OpensRpc, OpensCb
  <2>3. \A c \in Bridge : bridge'[c].st = bridge[c].st
    BY <2>1, <2>2, Sends
  <2>4. socket = b /\ Listens(b)
    BY <2>1 DEF Reached
  <2>5. \A c \in Bridge : bridge[c].st \notin NotYet
    BY <1>1, <2>1
  <2>6. OwnStart'
    BY <2>3, <2>5 DEF OwnStart
  <2>7. CASE kind = "rpc"
    BY <2>1, <2>2, <2>4, <2>6, <2>7 DEF OneHostInv, PathIsKnown, ChannelsAgree
  <2>8. CASE kind = "cb"
    <3>1. b = host[h].rpc
      BY <1>0, <2>1, <2>4, <2>8 DEF PathIsKnown
    <3> QED
      BY <2>1, <2>6, <2>8, <3>1 DEF OneHostInv, PathIsKnown, ChannelsAgree
  <2> QED
    BY <2>7, <2>8
<1>4. CASE GivesUp(h)
  <2>1. host'[h].st = "idle" /\ socket' = socket
    BY <1>4, Records, Moves DEF GivesUp
  <2>2. \A c \in Bridge : bridge'[c].st \notin NotYet
    <3>1. CASE host[h].st = "wait" /\ bridge' = Signalled(host[h].pid)
      <4>1. PICK b \in Bridge : b = host[h].pid
        BY <3>1 DEF Placed
      <4>2. /\ \A c \in Bridge : c # b => bridge'[c] = bridge[c]
            /\ \/ bridge'[b].st = "dead"
               \/ bridge[b].st \notin Starting /\ bridge'[b].st = bridge[b].st
        BY <3>1, <4>1, Signalling
      <4> QED
        BY <1>1, <4>1, <4>2 DEF Starting
    <3>2. CASE host[h].st # "wait" /\ bridge' = bridge
      BY <1>1, <3>2
    <3> QED
      BY <1>4, <3>1, <3>2 DEF GivesUp
  <2> QED
    BY <2>1, <2>2 DEF OneHostInv, OwnStart, PathIsKnown, ChannelsAgree
<1>5. CASE FindsNobody(h)
  <2>1. "fork" \in HostSt
    BY DEF HostSt
  <2>2. host'[h].st = "fork"
    BY <1>5, <2>1, HostGoes DEF FindsNobody
  <2>3. socket' = socket /\ bridge' = bridge /\ host[h].st = "idle"
    BY <1>5 DEF FindsNobody
  <2>4. \A b \in Bridge : socket = b => ~Listens(b)
    BY <1>5, BridgeIsNat DEF FindsNobody, Refused
  <2> QED
    BY <1>1, <2>2, <2>3, <2>4 DEF OneHostInv, OwnStart, PathIsKnown, ChannelsAgree
<1>6. CASE Forks(h)
  <2>1. PICK n \in Bridge : n = forked + 1
    BY <1>6, Forking
  <2>2. /\ bridge'[n].st = "loading"
        /\ \A c \in Bridge : c # n => bridge'[c] = bridge[c]
        /\ host'[h].st = "wait" /\ host'[h].pid = n
    BY <1>6, <2>1, Forking
  <2>3. socket' = socket /\ host[h].st = "fork"
    BY <1>6 DEF Forks
  <2>4. OwnStart'
    BY <1>1, <2>2, <2>3 DEF OwnStart
  <2>5. \A b \in Bridge : socket' = b => ~Listens(b)'
    BY <1>0, <2>2, <2>3 DEF PathIsKnown
  <2> QED
    BY <2>2, <2>4, <2>5 DEF OneHostInv, PathIsKnown, ChannelsAgree
<1> QED
  BY <1>2, <1>3, <1>4, <1>5, <1>6 DEF HostKinds

LEMMA OneHostBridges ==
    ASSUME Types, Handshakes, OneHostInv, \A g, h \in Host : g = h,
           NEW b \in Bridge, BridgeKinds(b)
    PROVE  OneHostInv'
<1> USE DEF Listens, NotYet
<1>0. OwnStart /\ PathIsKnown /\ ChannelsAgree
  BY DEF OneHostInv
(* A bridge that ends, or whose place does not change, disturbs nobody. *)
<1>1. ASSUME host' = host, socket' \in {socket, NULL},
             \A c \in Bridge : \/ bridge'[c].st = bridge[c].st
                               \/ bridge'[c].st \in {"closed", "dead"}
      PROVE  OneHostInv'
  <2>1. OwnStart'
    BY <1>0, <1>1 DEF OwnStart
  <2>2. ASSUME NEW c \in Bridge, socket' = c, Listens(c)'
        PROVE  socket = c /\ Listens(c)
    BY <1>1, <2>2, BridgeIsNat
  <2> QED
    BY <1>0, <1>1, <2>1, <2>2 DEF OneHostInv, PathIsKnown, ChannelsAgree
<1>2. CASE Starts(b)
  <2>1. PICK st \in Starting \cup {"serving"} : Becomes(b, st)
    BY <1>2 DEF Starts, Starting
  <2>2. st \in BridgeSt
    BY DEF BridgeSt
  <2>3. bridge'[b].st = st /\ \A c \in Bridge : c # b => bridge'[c] = bridge[c]
    BY <2>1, <2>2, Becoming
  <2>4. host' = host
    BY <1>2 DEF Starts
  <2>5. "loaded" \in BridgeSt /\ "unlinked" \in BridgeSt /\ "bound" \in BridgeSt
        /\ "listening" \in BridgeSt /\ "serving" \in BridgeSt
    BY DEF BridgeSt, Starting
(* b is served already. *)
  <2>6. CASE bridge[b].st = "listening"
    <3>1. socket' = socket /\ bridge'[b].st = "serving"
      BY <1>2, <2>5, <2>6, Becoming DEF Starts
    <3>2. OwnStart'
      BY <1>0, <2>3, <2>4, <3>1 DEF OwnStart
    <3>3. \A c \in Bridge : Listens(c)' => Listens(c)
      BY <2>3, <2>6, <3>1
    <3> QED
      BY <1>0, <2>4, <3>1, <3>2, <3>3 DEF OneHostInv, PathIsKnown, ChannelsAgree
(* b is the bridge the host waits for. *)
  <2>7. CASE bridge[b].st # "listening"
    <3>1. PICK h \in Host : host[h].st = "wait" /\ host[h].pid = b
      <4>1. bridge[b].st \in NotYet
        BY <1>2, <2>7 DEF Starts
      <4> QED
        BY <1>0, <4>1 DEF OwnStart
    <3>2. \A c \in Bridge : bridge'[c].st \in NotYet => c = b
      <4>1. \A c \in Bridge : bridge[c].st \in NotYet => c = b
        BY <1>0, <3>1 DEF OwnStart
      <4> QED
        BY <2>3, <4>1
    <3>3. OwnStart'
      BY <2>4, <3>1, <3>2 DEF OwnStart
    <3>4. ASSUME NEW c \in Bridge, socket' = c, Listens(c)' PROVE c = b
      <4>1. SUFFICES ASSUME c # b PROVE FALSE
        OBVIOUS
      <4>2. socket' \in {socket, NULL, b}
        BY <1>2 DEF Starts
      <4>3. socket = c /\ Listens(c)
        BY <2>3, <3>4, <4>1, <4>2, BridgeIsNat
      <4> QED
        BY <1>0, <3>1, <4>1, <4>3 DEF PathIsKnown
    <3>5. PathIsKnown'
      BY <2>4, <3>1, <3>4 DEF PathIsKnown
    <3> QED
      BY <1>0, <2>4, <3>3, <3>5 DEF OneHostInv, ChannelsAgree
  <2> QED
    BY <2>6, <2>7
<1>3. CASE Ends(b)
  <2>1. bridge'[b].st = "dead" /\ \A c \in Bridge : c # b => bridge'[c] = bridge[c]
    BY <1>3, Dying DEF Ends
  <2>2. host' = host /\ socket' \in {socket, NULL}
    BY <1>3 DEF Ends
  <2> QED
    BY <1>1, <2>1, <2>2
<1>4. CASE CloseListen(b)
  <2>1. bridge'[b].st = "closed" /\ \A c \in Bridge : c # b => bridge'[c] = bridge[c]
    BY <1>4, Closing
  <2>2. host' = host /\ socket' \in {socket, NULL}
    BY <1>4 DEF CloseListen
  <2> QED
    BY <1>1, <2>1, <2>2
<1>5. CASE Signal(b)
  <2>1. /\ \A c \in Bridge : c # b => bridge'[c] = bridge[c]
        /\ bridge'[b].st = "dead" \/ bridge'[b].st = bridge[b].st
    BY <1>5, Signalling DEF Signal
  <2>2. host' = host /\ socket' \in {socket, NULL}
    BY <1>5 DEF Signal
  <2> QED
    BY <1>1, <2>1, <2>2
<1>6. CASE Accept(b)
  <2>1. /\ \A c \in Bridge : c # b => bridge'[c] = bridge[c]
        /\ bridge'[b].st \in {"serving", "exiting"}
        /\ 1 \in DOMAIN bridge[b].queue
    BY <1>6, Accepting
  <2>2. PICK h \in Host, k \in Kind : AskedBy(b, 1, h, k)
    BY <2>1, QueuedIsAwaited
  <2>3. bridge[b].queue[1].host = h /\ bridge[b].queue[1].kind = k
    BY <2>2 DEF AskedBy
  <2>4. /\ k = "rpc" => host[h].st = "rpc ack" /\ host[h].rpc = b
        /\ k = "cb" => host[h].st = "cb ack" /\ host[h].cb = b
    BY <2>2 DEF AskedBy
  <2>5. /\ k = "probe" => host' = host
        /\ k = "rpc" => host'[h].st = "cb"
        /\ k = "cb" => host'[h].st = "ready"
        /\ host'[h].rpc = host[h].rpc /\ host'[h].cb = host[h].cb
    BY <1>6, <2>3, Acknowledging
  <2>6. socket' = socket /\ bridge[b].st = "serving"
    BY <1>6 DEF Accept
  <2>7. \A c \in Bridge :
           /\ bridge'[c].st \in NotYet => bridge[c].st \in NotYet
           /\ Listens(c)' => Listens(c)
    BY <2>1, <2>6
  <2>8. CASE k = "probe"
    <3>1. host' = host
      BY <2>5, <2>8
    <3>2. OwnStart'
      BY <1>0, <2>7, <3>1 DEF OwnStart
    <3>3. PathIsKnown'
      BY <1>0, <2>6, <2>7, <3>1 DEF PathIsKnown
    <3>4. ChannelsAgree'
      BY <1>0, <3>1 DEF ChannelsAgree
    <3> QED
      BY <3>2, <3>3, <3>4 DEF OneHostInv
  <2>9. CASE k # "probe"
    <3>1. k \in {"rpc", "cb"} /\ host[h].st # "wait"
      BY <2>4, <2>9 DEF Kind
    <3>2. \A c \in Bridge : bridge'[c].st \notin NotYet
      <4>1. \A c \in Bridge : bridge[c].st \notin NotYet
        BY <1>0, <3>1 DEF OwnStart
      <4> QED
        BY <2>7, <4>1
    <3>3. OwnStart'
      BY <3>2 DEF OwnStart
    <3>4. PathIsKnown'
      BY <1>0, <2>4, <2>5, <2>6, <2>7, <3>1 DEF PathIsKnown
    <3>5. ChannelsAgree'
      BY <1>0, <2>4, <2>5, <3>1 DEF ChannelsAgree
    <3> QED
      BY <3>3, <3>4, <3>5 DEF OneHostInv
  <2> QED
    BY <2>8, <2>9
<1>7. CASE Stops(b)
  <2>1. bridge'[b].st = "exiting" /\ \A c \in Bridge : c # b => bridge'[c] = bridge[c]
    BY <1>7, Stopping
  <2>2. host' = host /\ socket' = socket /\ bridge[b].st = "listening"
    BY <1>7 DEF Stops
  <2>3. OwnStart'
    BY <1>0, <2>1, <2>2 DEF OwnStart
  <2>4. \A c \in Bridge : Listens(c)' => Listens(c)
    BY <2>1, <2>2
  <2> QED
    BY <1>0, <2>2, <2>3, <2>4 DEF OneHostInv, PathIsKnown, ChannelsAgree
<1> QED
  BY <1>2, <1>3, <1>4, <1>5, <1>6, <1>7 DEF BridgeKinds

LEMMA OneHostStep ==
    ASSUME \A g, h \in Host : g = h
    PROVE  Types /\ Placed /\ Handshakes /\ OneHostInv /\ [Next]_vars => OneHostInv'
<1> SUFFICES ASSUME Types, Placed, Handshakes, OneHostInv, [Next]_vars PROVE OneHostInv'
  OBVIOUS
<1>1. CASE UNCHANGED vars
  BY <1>1 DEF vars, OneHostInv, OwnStart, PathIsKnown, ChannelsAgree, Listens
<1> QED
  BY <1>1, StepKinds, OneHostMoves, OneHostBridges

LEMMA OneHostInvariant ==
    ASSUME \A g, h \in Host : g = h
    PROVE  Spec => []OneHostInv
<1>1. Spec => [](Types /\ Placed)
  BY TypeInit, TypeStep, PTL DEF Spec
<1>2. Spec => []Handshakes
  BY <1>1, HandshakesInit, HandshakesStep, PTL DEF Spec
<1> QED
  BY <1>1, <1>2, OneHostInit, OneHostStep, PTL DEF Spec

(* Where one host uses the shim, its two channels lead to one process,      *)
(* whatever bridges it has launched, timed out on or lost before.           *)
THEOREM LaunchSameBridge ==
    ASSUME \A g, h \in Host : g = h
    PROVE  Spec => []SameBridge
<1>1. OneHostInv => SameBridge
  BY DEF OneHostInv, ChannelsAgree, SameBridge
<1> QED
  BY <1>1, OneHostInvariant, PTL

(* Where one host uses the shim, a bridge never takes the path of one that  *)
(* serves: only the bridge the host waits for can be about to, and whoever  *)
(* listens on the path meanwhile is that bridge itself.                     *)
THEOREM LaunchTakesStalePathOnly ==
    ASSUME \A g, h \in Host : g = h
    PROVE  Spec => []TakesStalePathOnly
<1>1. OneHostInv => TakesStalePathOnly
  <2> SUFFICES ASSUME OneHostInv, NEW b \in Bridge, NEW c \in Bridge,
                      bridge[c].st = "loaded", socket = b, Listens(b)
               PROVE  FALSE
    BY DEF TakesStalePathOnly
  <2>1. PICK h \in Host : host[h].st = "wait" /\ host[h].pid = c
    BY DEF OneHostInv, OwnStart, NotYet
  <2>2. b = c
    BY <2>1 DEF OneHostInv, PathIsKnown
  <2> QED
    BY <2>2 DEF Listens
<1> QED
  BY <1>1, OneHostInvariant, PTL
=============================================================================
