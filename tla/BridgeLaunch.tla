---------------------------- MODULE BridgeLaunch ----------------------------
(***************************************************************************)
(* How a host finds the bridge daemon or launches it (shim_launch_bridge   *)
(* in src/host/shim_launch.c, shim_connect in src/host/shim_connection.c)  *)
(* and how the daemon takes the socket path, serves it and leaves it (main *)
(* in src/arm/bridge_main.c).  All processes share one path in the file    *)
(* system: a bridge unlinks whatever is there before it binds, and unlinks *)
(* it again when it exits.                                                 *)
(*                                                                         *)
(* A bridge is the process some host has forked; it may fail to load the   *)
(* engine, crash, or be signalled at any point, and it may be slower than  *)
(* the four seconds a host waits for it.                                   *)
(***************************************************************************)
EXTENDS Naturals, Sequences

CONSTANTS
    Host,       \* the processes that use the shim
    NULL,
    MaxBridge,  \* bound: the bridges ever forked
    Backlog     \* connections that wait to be accepted (8 in listen's argument)

ASSUME MaxAssumption == MaxBridge \in Nat /\ Backlog \in Nat \ {0}
ASSUME NullAssumption == NULL \notin Nat

VARIABLES
    socket,     \* the bridge whose socket the path names, NULL for no file
    bridge,     \* the bridge processes
    forked,     \* how many there have been
    host        \* where a host is in shim_connect, and what it is connected to

vars == <<socket, bridge, forked, host>>

Bridge == 1..MaxBridge
NoBridge == [st |-> "none", g_running |-> TRUE, queue |-> <<>>]
IdleZeroFds == [st |-> "idle", pid |-> NULL, rpc |-> 0, cb |-> 0]
Idle == [st |-> "idle", pid |-> NULL, rpc |-> NULL, cb |-> NULL]

Init ==
    /\ socket = NULL
    /\ bridge = [b \in Bridge |-> NoBridge]
    /\ forked = 0
    /\ host = [h \in Host |-> Idle]

Starting == {"loading", "loaded", "unlinked", "bound", "listening"}
Listens(b) == bridge[b].st \in {"listening", "serving", "exiting"}
Running(b) == bridge[b].st \notin {"none", "dead"}

(* connect() on the path reaches a bridge, is refused, or waits for room in *)
(* the backlog.                                                             *)
Reached(b) == socket = b /\ Listens(b) /\ Len(bridge[b].queue) < Backlog
Refused == socket = NULL \/ \E b \in Bridge : socket = b /\ ~Listens(b)

(* The bridge's queue with a connection of h added. *)
Queued(b, h, kind) ==
    [bridge EXCEPT ![b].queue = Append(@, [host |-> h, kind |-> kind])]

-----------------------------------------------------------------------------
(* shim_connect, when there is no connection. *)

(* check_bridge_running: a connection that is closed at once.  The bridge  *)
(* will accept it and read its end.                                        *)
Probe(h) ==
    /\ host[h].st = "idle"
    /\ \/ \E b \in Bridge : /\ Reached(b)
                            /\ bridge' = Queued(b, h, "probe")
                            /\ host' = [host EXCEPT ![h].st = "rpc"]
       \/ Refused /\ host' = [host EXCEPT ![h].st = "fork"] /\ UNCHANGED bridge
    /\ UNCHANGED <<socket, forked>>

(* fork and exec; either may fail. *)
Fork(h) ==
    /\ host[h].st = "fork"
    /\ \/ /\ forked < MaxBridge
          /\ forked' = forked + 1
          /\ bridge' = [bridge EXCEPT ![forked + 1].st = "loading"]
          /\ host' = [host EXCEPT ![h].st = "wait", ![h].pid = forked + 1]
       \/ host' = [host EXCEPT ![h] = Idle] /\ UNCHANGED <<bridge, forked>>
    /\ UNCHANGED socket

(* One of the forty polls succeeds, with this bridge or another's. *)
Poll(h) ==
    /\ host[h].st = "wait"
    /\ \E b \in Bridge : Reached(b) /\ bridge' = Queued(b, h, "probe")
    /\ host' = [host EXCEPT ![h].st = "rpc"]
    /\ UNCHANGED <<socket, forked>>

(* SIGTERM: until main has installed its handler, after listen, the signal *)
(* kills and cleans nothing up; then it clears g_running.                  *)
Signalled(b) ==
    CASE bridge[b].st \in Starting -> [bridge EXCEPT ![b] = [NoBridge EXCEPT !.st = "dead"]]
      [] bridge[b].st = "serving" -> [bridge EXCEPT ![b].g_running = FALSE]
      [] OTHER -> bridge

TimeOutNoKill(h) ==
    /\ host[h].st = "wait"
    /\ host' = [host EXCEPT ![h] = Idle]
    /\ UNCHANGED <<socket, bridge, forked>>
TimeOutNever(h) == FALSE /\ UNCHANGED <<socket, bridge, forked, host>>
(* Four seconds are over: the host kills its own bridge, whoever uses it. *)
TimeOut(h) ==
    /\ host[h].st = "wait"
    /\ bridge' = Signalled(host[h].pid)
    /\ host' = [host EXCEPT ![h] = Idle]
    /\ UNCHANGED <<socket, forked>>

(* The two channels are two connections to the path, one after the other; *)
(* each waits for the acknowledgement of its handshake.                   *)
ConnectRpc(h) ==
    /\ host[h].st = "rpc"
    /\ \/ \E b \in Bridge : /\ Reached(b)
                            /\ bridge' = Queued(b, h, "rpc")
                            /\ host' = [host EXCEPT ![h].st = "rpc ack", ![h].rpc = b]
       \/ Refused /\ host' = [host EXCEPT ![h] = Idle] /\ UNCHANGED bridge
    /\ UNCHANGED <<socket, forked>>

ConnectCb(h) ==
    /\ host[h].st = "cb"
    /\ \/ \E b \in Bridge : /\ Reached(b)
                            /\ bridge' = Queued(b, h, "cb")
                            /\ host' = [host EXCEPT ![h].st = "cb ack", ![h].cb = b]
       \/ Refused /\ host' = [host EXCEPT ![h] = Idle] /\ UNCHANGED bridge
    /\ UNCHANGED <<socket, forked>>

(* The acknowledgement does not come: the bridge has closed the channel. *)
HandshakeFails(h) ==
    /\ \/ host[h].st = "rpc ack" /\ ~Running(host[h].rpc)
       \/ host[h].st = "cb ack" /\ ~Running(host[h].cb)
    /\ host' = [host EXCEPT ![h] = Idle]
    /\ UNCHANGED <<socket, bridge, forked>>

(* A connected process ends, or its bridge is gone and shim_rpc says so: *)
(* the next call connects again.                                         *)
Leave(h) ==
    /\ host[h].st = "ready"
    /\ host' = [host EXCEPT ![h] = Idle]
    /\ UNCHANGED <<socket, bridge, forked>>

-----------------------------------------------------------------------------
(* main in bridge_main.c, for bridge b. *)

Dies(b) == bridge' = [bridge EXCEPT ![b] = [NoBridge EXCEPT !.st = "dead"]]
Becomes(b, st) == bridge' = [bridge EXCEPT ![b].st = st]

(* exec of qemu and eci_load, which may fail. *)
Load(b) ==
    /\ bridge[b].st = "loading"
    /\ Becomes(b, "loaded") \/ Dies(b)
    /\ UNCHANGED <<socket, forked, host>>

(* create_listen_socket: whatever is at the path goes, ... *)
Unlink(b) ==
    /\ bridge[b].st = "loaded"
    /\ Becomes(b, "unlinked")
    /\ socket' = NULL
    /\ UNCHANGED <<forked, host>>

(* ... bind makes the file, or fails because there is one again, ... *)
Bind(b) ==
    /\ bridge[b].st = "unlinked"
    /\ IF socket = NULL THEN Becomes(b, "bound") /\ socket' = b
                        ELSE Dies(b) /\ UNCHANGED socket
    /\ UNCHANGED <<forked, host>>

(* ... and from listen on a connection is not refused. *)
Listen(b) ==
    /\ bridge[b].st = "bound"
    /\ Becomes(b, "listening")
    /\ UNCHANGED <<socket, forked, host>>

(* The pid file, atexit and the signal handlers; a signal between these and *)
(* the first test of g_running ends the loop before it accepts anything.    *)
InstallHandlers(b) ==
    /\ bridge[b].st = "listening"
    /\ \/ Becomes(b, "serving")
       \/ bridge' = [bridge EXCEPT ![b] = [@ EXCEPT !.st = "exiting", !.g_running = FALSE]]
    /\ UNCHANGED <<socket, forked, host>>

AcceptUnanswered(b) ==
    /\ bridge[b].st = "serving" /\ bridge[b].queue # <<>>
    /\ LET conn == Head(bridge[b].queue) IN
         host' = IF ~bridge[b].g_running THEN host
                 ELSE [host EXCEPT ![conn.host].st =
                         CASE conn.kind = "probe" -> @
                           [] conn.kind = "rpc" -> "cb"
                           [] conn.kind = "cb" -> "ready"]
    /\ bridge' = [bridge EXCEPT ![b].queue = Tail(@),
                    ![b].st = IF bridge[b].g_running THEN @ ELSE "exiting"]
    /\ UNCHANGED <<socket, forked>>
(* One turn of the accept loop: a probe is read to its end, a handshake is *)
(* acknowledged (BridgeClients has the details); g_running is looked at    *)
(* after that, since a signal does not interrupt accept.                   *)
Accept(b) ==
    /\ bridge[b].st = "serving" /\ bridge[b].queue # <<>>
    /\ LET conn == Head(bridge[b].queue) IN
         host' = [host EXCEPT ![conn.host].st =
                    CASE conn.kind = "probe" -> @
                      [] conn.kind = "rpc" -> "cb"
                      [] conn.kind = "cb" -> "ready"]
    /\ bridge' = [bridge EXCEPT ![b].queue = Tail(@),
                    ![b].st = IF bridge[b].g_running THEN @ ELSE "exiting"]
    /\ UNCHANGED <<socket, forked>>

(* cleanup closes the listening socket, and what is queued with it; then   *)
(* it unlinks the path, whoever has bound it.                              *)
CloseListen(b) ==
    /\ bridge[b].st = "exiting"
    /\ bridge' = [bridge EXCEPT ![b].st = "closed", ![b].queue = <<>>]
    /\ UNCHANGED <<socket, forked, host>>

Exit(b) ==
    /\ bridge[b].st = "closed"
    /\ Dies(b)
    /\ socket' = NULL
    /\ UNCHANGED <<forked, host>>

(* From outside: SIGTERM or SIGINT, and a crash of qemu or the engine. *)
Signal(b) ==
    /\ bridge[b].st \in Starting \cup {"serving"} /\ bridge[b].g_running
    /\ bridge' = Signalled(b)
    /\ UNCHANGED <<socket, forked, host>>

Crash(b) ==
    /\ Running(b)
    /\ Dies(b)
    /\ UNCHANGED <<socket, forked, host>>

-----------------------------------------------------------------------------
HostStep(h) ==
    \/ Fork(h) \/ Poll(h) \/ TimeOut(h)
    \/ ConnectRpc(h) \/ ConnectCb(h) \/ HandshakeFails(h)
BridgeStep(b) ==
    \/ Load(b) \/ Unlink(b) \/ Bind(b) \/ Listen(b) \/ InstallHandlers(b)
    \/ Accept(b) \/ CloseListen(b) \/ Exit(b)

Next ==
    \/ \E h \in Host : HostStep(h) \/ Probe(h) \/ Leave(h)
    \/ \E b \in Bridge : BridgeStep(b) \/ Signal(b) \/ Crash(b)

Spec == Init /\ [][Next]_vars

(* Processes run; nothing makes a host call, leave, or a bridge fail. *)
FairSpec ==
    /\ Spec
    /\ \A h \in Host : WF_vars(HostStep(h))
    /\ \A b \in Bridge : WF_vars(BridgeStep(b))

-----------------------------------------------------------------------------
(* The type invariant: where each bridge and each host is. *)
TypeOK ==
    /\ socket \in Bridge \cup {NULL}
    /\ bridge \in [Bridge -> [st : Starting \cup {"none", "serving", "exiting", "closed", "dead"},
                              g_running : BOOLEAN,
                              queue : Seq([host : Host, kind : {"probe", "rpc", "cb"}])]]
    /\ forked \in 0..MaxBridge
    /\ host \in [Host -> [st : {"idle", "fork", "wait", "rpc", "rpc ack", "cb", "cb ack", "ready"},
                          pid : Bridge \cup {NULL}, rpc : Bridge \cup {NULL},
                          cb : Bridge \cup {NULL}]]

(* "Each client opens two connections to the bridge" (README.md): the      *)
(* channels of a host lead to one process.  The second connection is made  *)
(* by path again, and another bridge acknowledges any client id.           *)
SameBridge == \A h \in Host : host[h].st = "ready" => host[h].cb = host[h].rpc

(* "It automatically launches the bridge daemon if it isn't already        *)
(* running": a bridge that is about to unlink the path and take it does so *)
(* to a dead bridge's file, or one's that is stopping, never to a bridge's *)
(* that serves.  (The unlink of a bridge that exits has no such luck: see  *)
(* Exit, and README.md.)                                                   *)
TakesStalePathOnly ==
    \A b, c \in Bridge :
        bridge[c].st = "loaded" /\ socket = b => ~(Listens(b) /\ bridge[b].g_running)

(* Each connection waits for the acknowledgement of its handshake, with no *)
(* time-out (shim_connect reads it from the channel it has just opened): a *)
(* host that waits is in the queue of the bridge it has asked, unless that *)
(* bridge closes its connections, and a queued handshake is one that some  *)
(* host still waits for.                                                   *)
Awaits(h, b, kind) ==
    \/ kind = "rpc" /\ host[h].st = "rpc ack" /\ host[h].rpc = b
    \/ kind = "cb" /\ host[h].st = "cb ack" /\ host[h].cb = b
HandshakesOwed ==
    \A b \in Bridge :
        LET queue == bridge[b].queue IN
        /\ \A i \in DOMAIN queue :
              queue[i].kind # "probe" => Awaits(queue[i].host, b, queue[i].kind)
        /\ \A h \in Host : \A kind \in {"rpc", "cb"} :
              Awaits(h, b, kind) => \/ bridge[b].st \in {"closed", "dead"}
                                    \/ \E i \in DOMAIN queue :
                                          queue[i] = [host |-> h, kind |-> kind]

(* shim_connect comes to an end, with a connection or without, whatever    *)
(* happens to the bridges: a host is never left waiting in it.             *)
ConnectEnds ==
    \A h \in Host : host[h].st \in {"fork", "wait", "rpc", "rpc ack", "cb", "cb ack"}
                      ~> host[h].st \in {"idle", "ready"}
=============================================================================
