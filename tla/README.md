# A TLA+ model of eloquence

Eloquence lets 64-bit Linux programs use the closed-source 32-bit ARM ECI
text-to-speech engine.  A host program links the shim `libeci.so`; every ECI call
becomes a request on a socket to `eci-bridge`, an ARM daemon run under qemu, which
calls the real engine and sends the engine's audio callbacks back on a second
socket.  This directory holds TLA+ modules of the parts that carry the
program's own logic, the TLC runs that check them, and TLAPS proofs about them.

## 1. The system

| Component | Source | State it keeps | Operations | Module |
|---|---|---|---|---|
| handle map, callback states | `arm/bridge_handle.*`, `arm/bridge_dispatch.c` | per client: 3 x 64 slots (pointer, id, in_use), next id per type, 64 callback states with an output buffer | the requests that make, delete and bind engine objects; clean-up of a client | `BridgeHandles`, abstractly `HandleTable` |
| shim connection and RPC | `host/shim_connection.c`, `host/shim_libeci.c` | `g_conn`: two descriptors, `connected`, `next_seq`, `rpc_lock` | connect on demand, one request and one response under the lock, drop on failure | `EciSession` |
| shim callback thread | `host/shim_callback.c` | 64 callback entries under `g_cb_lock`; `g_cb_running`, `g_cb_fd` | register, start the thread, read an event, run the user's callback, answer | `EciSession` |
| bridge client thread | `arm/bridge_main.c`, `arm/bridge_callback.c` | the request in progress | read, dispatch, respond; inside `eciSynchronize`, one event and one answer per buffer | `EciSession` |
| argument lists, wire protocol | `host/shim_libeci.c`, `arm/bridge_dispatch.c`, `proto/*.c` | none | 57 encoders and 57 decoders; typed values, headers, frames and their limits | `RpcCall` |
| bridge accept loop | `arm/bridge_main.c`, `arm/bridge_dispatch.c` | `g_clients`, `g_running`, next client id | handshakes, association of the callback channel, unregistering, shutdown | `BridgeClients` |
| bridge launch | `host/shim_launch.c`, `arm/bridge_main.c` | the socket file | probe, fork, wait, kill; bind and unlink in the bridge | `BridgeLaunch` |
| speech-dispatcher module | `spd/sd_eloquence.c` | voice, speed, pitch, volume, `g_stop`, `g_eci` | set, speak, stop, pause, close; the engine's callback | `SpdModule` |
| command-line program | `cli/eloquence.c` | options | one synthesis to a WAV file | not modelled |

The host's threads and the callback thread share `g_conn` and the callback table;
the host and the bridge share only the two sockets; the bridge's client threads
share `g_clients` and the engine.  What is hard here: two locks on the host and a
blocking round trip in each direction; a connected flag and a running flag that
are read and written outside the locks; a daemon that may die and be launched again
under a host that keeps its handles; tables of fixed size whose slots are reused
while ids are not; engine pointers and heap blocks that come back; and 57 argument
lists that are written out twice by hand.

What makes each part correct:

- handle map: an id means one object until it is deleted and is never issued again;
  the callback states follow the instances; no buffer is lost or freed too early;
- connection: a call takes the response to its own request, every call returns, a
  process is one client of the bridge;
- callbacks: the host hears every buffer, once, in order, before the engine goes on,
  and an abort stops the engine;
- marshalling: the engine gets the host's arguments, the host gets the engine's
  values, and a failure does not look like a result;
- accept loop: the client list walks memory in use, both channels of a client lead to its
  host, a host that goes takes its instances with it, and no two clients own one instance;
- launch: both connections of a host reach one bridge, a new bridge takes the path of a dead
  one only, and a host never waits for ever;
- speech-dispatcher module: a stop silences the message, ends it and is reported as a stop;
  nothing of an earlier message is heard; the text and the settings are the ones sent.

`PROJECT.json` lists the hazards, each at its line, with the properties that cover it.

## 2. The modules and the code

### HandleTable, BridgeHandles

`HandleTable` is the promise: per type a partial map from ids to objects, with
Issue, Recall, Revoke and Close.  `BridgeHandles` is one client's `handle_map_t` and
callback states.  One client's requests are served by one thread, so each request
(`EciNew`, `EciDelete`, `SetOutputBuffer`, `RegisterCallback`, `NewOwned` for
dictionaries and filters, `GetDict`, `DeleteOwned`) is one action, with every call it
makes; `Disconnect` is the end of `client_thread`.  `entries`, `next_id` and
`cb_states` are the code's own fields; `IsFirst` stands for a scan from slot 0.  A
request may name any id, issued or not.  The engine and the C heap are external: a
pointer that is not live may be handed out again, `calloc` may fail or return
the block just freed, the engine may refuse an output buffer or have no entry point for it
(`EngineSetBuffer`), and its `eciDelete` frees any of the dictionaries and filters made on the
instance (`EngineDelete`), since the repository does not tell which.  Three history variables: `regd`, the
instances a client has registered a callback for; `refused`, those whose engine refused the last
buffer it was offered; `dangling`, the freed dictionaries and filters the map still leads to.

### EciSession

One host process, its threads, its callback thread, and the bridge's client threads.
A session is one successful `shim_connect`; its number stands for the two descriptors
on the host and for the client at the bridge, and 0 for -1.  A descriptor keeps
pointing to its dead session when the bridge has died: `shim_rpc` only clears
`connected`.

| Actions | Code |
|---|---|
| `Enter`, `SetCallback` | an API call; `shim_set_callback` comes before the request |
| `GetConn`, `Connect` | `shim_get_conn`, its check outside and the one under the lock; `shim_connect` with its partial failures, up to the second acknowledgement |
| `Associate` | the bridge's main thread, after that acknowledgement: the client and its callback states get the descriptor |
| `Ready`, `Send`, `Recv`, `RecvFails`, `Drop` | `do_rpc` and `shim_rpc`; `Drop`, `connected = 0`, comes after the unlock and is a step of its own |
| `Done`, `CheckReader`, `StartReader` | the rest of `eciNew`; the test of `g_cb_running` and the start of the thread are two steps |
| `BeginRead`, `ReadEvent`, `Deliver`, `UserReturns`, `SendReturn`, `ReaderEnds` | `callback_thread`; `g_cb_fd` is read again for every message; the user's callback runs under `g_cb_lock` |
| `Dispatch` (`ServeNew`, `ServeRegister`, `ServeDelete`, `ServeSync`), `StoreNoFd`, `Produce`, `TakeReturn`, `Finish` | `client_thread`, `dispatch_rpc`, `bridge_internal_callback` |
| `Crash` | the bridge dies: what it had written can be read, what it had not read is gone |

The four calls are those that differ in control: one that makes a handle and starts the
callback thread, one that stores a callback first, one that stays in the engine and calls
back, one that ends a handle.  All others are a request and a response like `eciDelete`.
`joined` says whether the client has its callback descriptor, `linked` which instances' callback states
have it: `alloc_cb_state` copies it, and a copy of -1 may be stored after the association (`StoreNoFd`).
`Creator` and `Speaker` say which threads make and delete instances and which synchronize.
`heard`, `aborted` and `skipped` are history variables: what the host's callback was given, where
it answered with `eciDataAbort`, and the last buffer for which the callback state had no descriptor.  Messages are whole: what two readers of one channel do to a
frame they each read a part of is not shown.  The host is assumed to ignore SIGPIPE; otherwise
the kernel ends it at the first write to a dead bridge.

### RpcCall

One call at a time, for each of the 57 functions that cross the socket.  `Shim` is the list of
what `shim_libeci.c` encodes and reads back, `Bridge` what `dispatch_rpc` decodes, which
handles it needs, what it answers without the engine and what it replies.  The two are
transcribed each from its own file, a group of functions at a time (`ShimLifecycle`,
`BridgeLifecycle` and so on), and the properties compare them.  `Reads` is how the shim takes
values off a response: `ReadPos` says where each begins, given how far the ones before it were read.  Past a
string over the limit that is in the string's own text (`InText`), whose bytes may be taken for nothing or
for any value (`Scraps`).  A value
keeps its tag, its place in the parameter list and the one thing the code looks at:
a string's length, whether a handle names an object, the size of a buffer.  `Passed` is the one parameter the bridge
replaces, the size of `eciGeneratePhonemes`; `Keeps` the longest string each function stores for the host.  The actions are the path of one call:
`Enter`, `Unconnected` or `Send`, `Serve` (`ServeRefused`, `ServeSkipped`, `ServeCalled`)
or `Lose`, then `Receive` or `Fail`.  `Unconnected` returns what an
uninitialized `rv` holds, as the code does: a nondeterministic choice.

### BridgeClients

The daemon with several hosts.  `main` is the accept loop between two of its steps, `backlog` the
connections `accept` has not returned (with the handshake the host has written), `g_clients`
the linked list head first, `client` the `client_state_t` by id, `thread` its `client_thread`.
A channel is named by the host at its other end.  A client has one instance slot and one
callback state: `BridgeHandles` has the tables, here it matters what threads see of each other.

| Actions | Code |
|---|---|
| `Accept`, `NewClient`, `AckRpc`, `StartThread` | `accept` and the handshake 0: the client is registered, its id told, its thread started |
| `AckCb`, `FindClient`, `Associate`, `AssociateStates` | a handshake with an id: acknowledged first, then the client is looked for under the lock, written to without it, and its callback states under it again |
| `Signal`, `LoopAgain` | SIGINT and SIGTERM clear `g_running`, which the loop looks at after a connection only |
| `EciNew`, `AllocCbState` | `FN_ECI_NEW`; `alloc_cb_state` reads `cb_fd` in one step and stores it in the next |
| `RegisterCallback`, `EngineEvent`, `SendEvent` | `find_cb_state_by_eci_ptr` walks all clients under the lock, `bridge_internal_callback` uses what it found without it |
| `EciDelete`, `Forget` | the engine frees the instance, then the map and the callback state forget it |
| `SeesEnd`, `DeleteInstances`, `Unregister`, `Free` | the end of `client_thread` |
| `ConnectRpc`, `ConnectCb`, `Leave` | the host's side; a host may go at any step |

A use of a client that has been freed (`Dangles`) is undefined: the model lets it change
nothing that is in use, or end the bridge.

### BridgeLaunch

`socket` is the process the path in the file system leads to, `bridge` the processes hosts have forked,
each with its queue of connections, `host` the place in `shim_connect`.  `Probe`, `Fork`, `Poll`,
`TimeOut` are `shim_launch_bridge`; `ConnectRpc` and `ConnectCb` the two connections, each by path;
`Load`, `Unlink`, `Bind`, `Listen`, `InstallHandlers`, `Accept`, `CloseListen` and `Exit` are the
bridge's `main` and `cleanup`.  A bridge may crash, be signalled, fail to load the engine, or be slower than
the host's four seconds.  A signal before the handlers are installed kills and cleans nothing up;
one before the loop first looks at `g_running` ends the bridge without an `accept`.

### SpdModule

Three threads.  `Speak`, `SpeakOk`, `SpeakError`, `Prepare`, `CheckStop`, `EventBegin`, `Finish`, `EventStop`,
`EventEnd` are `module_speak_sync`, cut at every access of `g_stop` and every report; `Stop` is `module_stop` or
`module_pause`, at any moment; `CbEnter`, `Play`, `CbReturn` are `eci_callback`, which reads `g_stop` twice.
`Set` (by voice type, name or number) and `Close` come between messages.  `EngineSends`, `EngineSays`, `Returns` and
`BridgeLost` are the engine behind the shim; an event that was sent when the bridge is lost is still delivered,
and `buffer` says whose audio it carries, which it does from the moment it is sent.
`strip_ssml` is modelled by what it does to a message made of the tokens it tells apart: `Scan`
goes through it once for the tags, `Decode` once for each of the five entities, each as a
recursive function that adds one token after the other.  Against them stands one reading of the message
(`Says`), which looks at every token in its place: inside a tag, part of an entity, or as it stands.  The history variables
say whether the message was stopped, in time for its last test of `g_stop` or late (`stopped`), whether some of it will
not be heard (`cut`), how many buffers were played after their message (`late`), and whether the engine was given
what the message says (`said`).

## 3. The runs

| Run | Question | Outcome |
|---|---|---|
| `handles` | one client's instances, dictionaries, callback states and buffers, with slots, pointers and blocks reused and an engine that refuses buffers and frees dictionaries | five invariants hold; implements `HandleTable` |
| `clients` | two hosts that come, call and go at any moment, and a signal; fairness | `RegistryExact`, `OwnChannel`, `CbFound`, `InstancesOwned`, `GoneFreed`, `ChannelJoins` hold |
| `clients_events` | the same hosts, an engine with one pointer | `EventsHome` violated |
| `launch` | one host and the bridges it launches one after the other; fairness | `SameBridge`, `TakesStalePathOnly`, `HandshakesOwed`, `ConnectEnds` hold |
| `launch_two` | two hosts that launch at once | `SameBridge` violated |
| `rpc_calls` | all functions, strings and sizes at and over the limits, NULL strings, deleted handles, missing entry points, lost connections | `ArgumentsArrive`, `OutParamsInPlace`, `SuccessIsReal` hold |
| `session_sync` | two threads, a bridge that stays up, a channel joined at any moment, a callback table of one; fairness | `EngineInStep` and `CallsReturn` hold |
| `session_crash` | two threads, one crash, up to three connections | `ChannelDiscipline`, `ResponseMatches` hold |
| `session_hang` | one thread after a crash; fairness | `CallsReturn` violated |
| `session_flag` | two threads notice one crash | `OneSession` violated |
| `spd` | messages, settings, stops at any moment, a lost bridge; fairness | `SpokenIsWritten`, `NoLeftover`, `EndMeansAll`, `SettingsApplied`, `StopSilences`, `StopEndsSpeech` hold |
| `spd_voice` | two voices chosen in turn | `VoiceSelected` violated |

### What the violations mean

- `clients_events`: the callback channel is acknowledged before it is joined to its client, so the
  host may already make an instance, register a callback and synchronize; the event finds no
  descriptor and `bridge_internal_callback` answers `eciDataProcessed` itself: the audio is lost.
- `launch_two`: a bridge unlinks the path without looking whether another serves it; the later one
  takes it between the two connections of a host, which then reach two processes.
- `session_hang`: the callback thread ends at end of file and leaves `g_cb_running` set, so
  after a reconnection nobody reads the events, and `eciSynchronize`, with the RPC lock
  held, never returns.
- `session_flag`: `connected` is cleared after the lock is released, so a late thread clears
  the flag of a connection another thread has just made.
- `spd_voice`: every message copies the chosen preset over voice 0, which is Reed's own preset;
  once another voice has been there, Reed (MALE1) cannot be chosen again.

### Seen while modelling, without a run

- `FN_ECI_DELETE` removes the instance's own handle only.  If the engine frees a dictionary or filter
  with it, its id leads to freed memory, or to what the engine puts there next; if it does not, the object outlives its
  client.  `ObjectsLive` names that case and excludes every other.
- `FN_ECI_SET_OUTPUT_BUFFER` frees the old buffer before it offers the new one.  When the engine refuses
  (or has no such entry point) it goes on writing to freed memory, and the host sees a 0.  `BuffersOwned` names that case
  and excludes every other.
- An instance made while the callback channel is being joined may keep a descriptor of -1 for its whole life, since
  `alloc_cb_state` reads `cb_fd` before the association and stores it after: all its audio is lost (`StoreNoFd`).
- `g_cb_running` is tested and set without a lock: two threads in `eciNew` start two readers of
  one channel (`MaxReader` 2, two creators).
- Nothing frees an entry of the callback table: after 64 handles registrations are dropped while the bridge
  goes on sending events; the audio is lost, and nothing else (`EngineInStep`).
- The error flag of a response is ignored: a refused dictionary or filter request returns 0, NoError.
- `cleanup` unlinks the path even when a newer bridge has bound it (`Exit` in `BridgeLaunch`): that bridge
  goes on serving its clients where no new host finds it.
- A string over the limit in a response leaves the reader in the string's text, which may be read as the
  values that follow it; `OutParamsInPlace` says that nothing else is disturbed.
- A response of `eciGeneratePhonemes` is cut to `iSize - 1`, cast to unsigned (`host/shim_libeci.c:305`).  With a buffer
  and an `iSize` of 0 or less the cast makes a huge limit of it, and up to 4095 bytes go into a buffer the host calls
  empty.  A host that gives such a size is taken to give no buffer (`NoBuffer`).
- A bridge lost during a message makes `eciSynchronize` return: the message is reported as ended.  The one buffer
  that was on its way may be played after that, or during the next message.
- A stop between the last test of `g_stop` and `module_report_event_end` is reported as an end, and so is one of a message
  with nothing to say, which is ended without a look at `g_stop`.
- `strip_ssml` decodes `&amp;` first and then the other entities over the result, so the
  text `&amp;lt;` comes out as `<`.  `Faithful` says so: what a message says is decoded once more.

### Bounds, and why they are enough

- `handles`: two slots per type (`MaxHandles`), three pointers for instances and for dictionaries, three instance and two
  dictionary ids, four of them issued in one behaviour (`MaxIds`): a
  table fills, a slot is reused under a new id, and a stale id meets the slot's next
  tenant.  Two output buffers, so that an instance can get back the block it has freed or
  another's.  Filters run through the same actions as dictionaries and are left empty.  Nothing in
  the code depends on 64.  Instance pointers, dictionaries and buffers are symmetric (no liveness here).
- `clients`: two hosts and two clients, each of which can be at any step of its life while the other is at any
  other; two pointers, one in `clients_events`, so that a pointer goes from one client to the other.
- `launch`: three bridges, so that a bridge is succeeded twice; `launch_two`: two hosts, two bridges.  Two
  connections wait in the queue, a probe and one more.
- `MaxSess` 3 with one crash: two threads can each lose the old session, and a late one can
  replace a good session by a third.  `MaxCalls` 5 is enough for eciNew,
  eciRegisterCallback, a crash noticed, eciNew, eciSynchronize.  One thread makes and deletes instances, the other
  synchronizes, and both register: that is where two threads can meet (`session_hang` has one thread, which does all).  `MaxReader` bounds the callback threads.
- `MaxBuf` 2 where the order of buffers matters, 1 elsewhere.  `MAX_CB_HANDLES` 1 in `session_sync`,
  which two handles fill; 2 elsewhere.
- Strings, and sizes of buffers: 0, a voice name's 30, the 4096 of the dictionary entries' buffers and of the
  bridge's own for phonemes, `MAX_STRING_LEN`, one more, and one that makes the frame exceed `MAX_MSG_SIZE`.
- `spd`: every message of up to four of seven tokens, which is long enough for a tag in an entity's place,
  an escaped ampersand, an entity escaped twice and a blank message; settings at and beyond the ends of their ranges, voices by
  type, name and number, known and unknown.
- `CHECK_DEADLOCK FALSE` stands where the hosts may stop calling, the client has left, or the bound on
  processes is reached.

### Fairness

Nothing makes a host call, come or go, a bridge crash, or a signal arrive; what is fair is
the progress of threads and processes that are running.

- `EciSession`: weak fairness of the steps of a thread inside a call, of the callback
  thread and of each client thread: they are threads, and locks and sockets wake them.  `UserReturns`
  is among them: the user's callback is taken to return.  Weak fairness is enough although a lock is
  contended for: calls are bounded, so no thread can be overtaken for ever.
- `BridgeClients`: of the accept loop (`MainStep`), of each client thread (`ThreadStep`), and of the step by
  which a host inside `shim_connect` makes its second connection (`ConnectCb`).
- `BridgeLaunch`: of each host inside `shim_connect`, whose poll ends by the clock (`TimeOut`), and of each bridge.
- `SpdModule`: of `module_speak_sync`, of the callback, and of the engine as a whole, which may
  go on producing buffers of one text for ever: `StopEndsSpeech` rests on the abort alone.

## 4. The proofs

`tlapm` proves the following for every value of the constants, under the
assumptions named in the modules (sizes and bounds are natural numbers, NULL is no engine
object, buffer, thread or host, messages are sequences of tokens, `atoi` gives integers).

**BridgeHandlesProofs.**  `TypeCorrect`, `HandlesStayConsistent`, `EventsRouted`, `BuffersStayOwned`,
`ObjectsStayLive`: every state invariant of the run `handles`.  The core is
`TypeOK /\ HandlesConsistent`.  Neither of its parts is inductive alone: that an id is in one slot needs
that ids in use are below `next_id`; that `alloc_cb_state` finds the slot `hmap_add` has found
needs the two tables to be aligned slot by slot (`CbStatesAligned`); and that `eciDelete`
leaves the other entries with live pointers needs each pointer to be mapped once.
On it `StepKinds` reduces the requests to five effects on the instances (nothing, made, deleted, another
buffer, registered), and the other invariants follow the effects.  `EventsRouted` needs `MarksMatch`: no
id that is not yet handed out is remembered as registered, although a request naming handle 0 marks a
free callback state.  `BuffersStayOwned` needs `BuffersFree`: a free callback state holds no buffer,
which `alloc_cb_state` would lose, and an instance that does not exist writes nowhere.  It holds for an engine that
refuses at any time: a refusal concerns its own handle until the next offer or the deletion.
`ObjectsStayLive` holds for an engine whose `eciDelete` frees any of the dictionaries and filters; it
shows that one that is not in doubt is mapped once (`OwnedMapped`), or the deletion through one handle would
leave the other without its object.

**BridgeTableProofs.**  `HandleTableImplemented`: the handle map implements `HandleTable`.  The refinement
mapping takes an id to the pointer of the first slot that holds it; `IdsDistinct` makes that the only
one, so that what `hmap_add` and `hmap_remove` do to a slot is an `Issue` or a `Revoke` of one id
(`AddIssues`, `RemoveRevokes`) and a slot's new tenant leaves every other id's meaning alone.

**EciSessionProofs.**  `SessionTypeCorrect`, `ChannelDisciplined` and `ResponsesMatch`.  The inductive
invariant is `TypeOK /\ ChannelDiscipline /\ ResponseMatches`.  `ResponseMatches` is not inductive: the
shim never compares sequence numbers, so the proof has to know that the channel a call reads from holds
nothing but its own message.  That is `Exchange`: of the session the lock holder waits on,
the one message under way is a request, is in service, or is a response (or the session is down
with nothing left); every other session is quiet.  It is kept because a request is sent
under the lock only, and because `RecvFails` releases the lock only when the channel is empty.
`Holding` says when a response can be kept without its sequence number being renewed,
and `CallbackFds` that a callback thread has a descriptor, which types need.  The step
lemmas follow the actions: `CallFrame` for those that touch no channel, `ExchangeFrame`
for the bridge's.

**BridgeClientsProofs.**  `ClientsTypeCorrect`, `ClientsOwnChannel`, `ClientsRegistryExact`,
`ClientsInstancesOwned`, `ClientsCbFound`: every state invariant of the run `clients`, for any number of hosts.
The inductive invariant `ClientsInv` adds to them: `IdsOwned`, by which every id written down anywhere
(in the loop, at a host, in a handshake under way) is the id of that host's client, so that a callback channel can only
join its own; `Lifecycle`, by which a client is freed exactly when its thread is done and a thread starts
once; `Handshakes`, by which what waits in the backlog says what its host was told; and `RefusedLost`.
`ClientsCbFound` follows from all of them: a client the loop does not find was registered before
its id was told, so its own thread has taken it out.

**EciSyncProofs.**  `CallbackInStep`: `EngineInStep`, for any threads, calls, callback threads and buffers, any
size of the callback table and any moment of the association, in every state that is `Sound`, in which the bridge has not
crashed.  After a crash the callback thread of the lost session has ended (`session_hang`).  The proof stands on the invariant
of `EciSessionProofs`.  `StepInv` adds four things.  `Link`: there is one session, which every call that is past
`shim_get_conn` uses.  `ReadersLinked`: every callback thread reads, and answers on, its channel.  `Registered`: a
handle the bridge takes for registered has its entry in the shim's table, because the shim stores the callback
before it sends the request, or the table was full then, and stays so.  `InPlace`: a buffer the engine waits for is in one place, as an event on the channel (`Sent`), with
exactly one callback thread (`Held`), or as an answer on the channel (`Replied`), and how much was heard,
from the first buffer after the last one skipped, and whether it was aborted follow from the place.  It allows several callback threads, so a second reader of
the channel, which two threads in `eciNew` can start, puts no event out of order as long as each reads whole messages.

**BridgeLaunchProofs.**  `LaunchTypes` and `LaunchHandshakesOwed` for any hosts that launch, kill and lose bridges;
`LaunchSameBridge` and `LaunchTakesStalePathOnly` for one host, which they assume because `launch_two` refutes the
first for two.  `Placed` says where a bridge can be: none is numbered above the last one forked, and only one that
listens has a queue.  `HandshakesOwed` needs `AskedOnce`: of the handshakes in one queue no two are the same host's.
With one host `OwnStart` says that a bridge that does not listen yet is the one the host waits for, and `PathIsKnown` who
listens on the path while the host is in `shim_connect`: nobody when it is about to fork, and afterwards
the bridge it forked or the one that has its first channel.  So no bridge can unlink the path of another, and the second
connection, which goes by the path again, finds the bridge of the first (`ChannelsAgree`).

**RpcCallProofs.**  `ListsAgree` compares the two tables row by row, for all functions: what the
shim sends is what the bridge takes, what it reads is what the bridge replies, only handles are
looked up, and what is answered without the engine is no success.  On it `RpcTypes`, `RpcArgumentsArrive`,
`RpcOutParamsInPlace` and `RpcSuccessIsReal` hold for strings of any length.  The invariant `Inv` says, for each stage of
a call, what was sent, what the engine was called with, and what the response holds.  `RpcOutParamsInPlace` is the
hard one: a string over the limit is not skipped, so what is read after it is in its text, and may be anything.  The proof
follows `ReadPos` from value to value (`ReadBack`): each is read from its own place, until one is over the limit, and only
those after it are void.  For the phonemes three sizes have to agree, the host's, the bridge's and the string's (`PhonemesFit`).

**SpdModuleProofs.**  `SpdTypeCorrect`, `SpdNoLeftover`, `SpdEndMeansAll`, `SpdSettingsApplied`, and
`SpdStopSilences`, an action property.  The inductive invariant `SpeechInv` adds `StopShows` (a stop or an abort of
this message is still to be seen in `g_stop`, since only the next message resets it, and while a test is to come, what is
seen there is a stop of this message), `ReportSoFar`, `ReportTrue` (what is about to be reported is true, whatever
stop comes now), `InputOwn` (after `eciClearInput` the engine has only this message's text, and while the bridge is there a
callback is under way only inside `eciSynchronize`, with a buffer of this message), `VoiceSet`, and `LateOnce` (once a
buffer of a lost bridge was played there is no other).

`SpdSpokenIsWritten` says that `strip_ssml` is right about every message (`StripSsmlFaithful`), not
only those of four tokens.  It is an induction over the message, and no installed prover can use the library's induction
theorems; here induction is a statement about sets (`NatInduct`, `SeqInduct`), drawn from `<` being
well-founded on the naturals, and `FoldExists` shows that a function that folds a sequence exists, so that `Scan` and `Decode`
satisfy their definitions (`ScanSteps`, `DecodeSteps`).  `TagsAgree`: the scan's flag is what `InTag` says of the
position.  `UnescapeGrows`: what the five passes make of a text grows with it by the token, or by
the character of an entity, and which of the two depends only on what they had made of it before; so two texts of which they
make the same stay equal as they grow alike.
`InAccord` puts the three together: after i tokens the passes over what the scan has left give what the passes over the
reading give so far, or, between an ampersand and the rest of its entity, what they will give.  `UnescapeKeeps`: a
reading that spells no entity is left as it is, so there the engine is given the reading itself.

## 5. Only model-checked

The liveness properties `CallsReturn`, `GoneFreed`, `ChannelJoins`, `ConnectEnds` and `StopEndsSpeech`: fairness and
ENABLED are out of the prover's reach.  The five runs that expect a violation have nothing to prove; what is
left when their cause is taken away is proved where a theorem says so (`CallbackInStep` without a crash,
`LaunchSameBridge` for one host).  Every invariant and action property of the other runs is proved.

## 6. Not modelled

- The command-line program: one thread, one pass from options to a WAV file; its calls are those
  `EciSession` and `RpcCall` model.
- In `SpdModule`: the configuration file, the voice list, the hooks that do nothing, a `module_init` that fails.
- In `BridgeClients`: a peer that does not keep to the handshake or stays silent in it; more
  than one instance of a client.
- In `EciSession`: the shim's copy into the user's output buffer; a callback that calls
  the API; an engine that delivers from a thread of its own; what a stale handle reaches after a
  reconnection; descriptors that are never closed.
- `shim_disconnect`, `shim_callback_stop` and `rpc_decode_skip`: nothing calls them.
- `rpc_buf_ensure`'s arithmetic; allocation failures outside `calloc` of the output
  buffer and `strip_ssml`.
- The engine, `eci_load`'s symbol table beyond missing entry points, the SJLJ stubs, build and
  installation scripts: no state of this program's own.

## 7. Plan

1. `EciSession` with the output buffer, a callback that calls back, an engine with threads of its own and
   descriptors that are closed or leaked; an abstract `SpeechStream` (buffers made, heard, aborted) that its
   synchronous part implements.
2. What an old handle reaches after a reconnection: `EciSession` over `HandleTable`, one table a session.
3. Proofs: that the synchronous part of `EciSession` implements `SpeechStream`, on `StepInv`.
