------------------------------ MODULE RpcCall ------------------------------
(***************************************************************************)
(* The marshalling of one API call at a time: what the shim encodes and    *)
(* returns to the host (src/host/shim_libeci.c), what the bridge decodes,  *)
(* calls and answers (src/arm/bridge_dispatch.c), through the typed values *)
(* and frames of src/proto and src/include/eci_proto.h.                    *)
(*                                                                         *)
(* A value keeps its tag, the parameter it comes from (at) and what the    *)
(* code looks at (n): the length of a string, whether a handle names an    *)
(* object, the iSize of eciGeneratePhonemes, nothing of another number.    *)
(* Buffers and callbacks that cross no socket are not parameters here.     *)
(***************************************************************************)
EXTENDS Integers, Sequences, SequencesExt

CONSTANTS
    StrLen,    \* bound: the lengths of strings, and the sizes of buffers
    Missing    \* entry points the engine lacks: eci_load only warns, but of eciNew

ASSUME StrLenAssumption == StrLen \subseteq Nat
ASSUME MissingAssumption == Missing \cap {"eciNew", "eciDelete", "eciSetOutputBuffer"} = {}

MAX_MSG_SIZE == 4 * 1024 * 1024
MAX_STRING_LEN == 64 * 1024

(* The tags of typed values. *)
H == "handle"
I == "int32"
U == "uint32"
S == "string"

-----------------------------------------------------------------------------
(* The functions, in the groups of their numbers.  eciRegisterVoice and      *)
(* eciUnregisterVoice have a number and send nothing.                        *)
Lifecycle == {"eciNew", "eciNewEx", "eciDelete", "eciReset", "eciIsBeingReentered", "eciVersion",
              "eciProgStatus", "eciErrorMessage", "eciClearErrors", "eciTestPhrase",
              "eciGetAvailableLanguages"}
Synthesis == {"eciAddText", "eciInsertIndex", "eciSynthesize", "eciSynthesizeFile",
              "eciClearInput", "eciGeneratePhonemes", "eciGetIndex", "eciStop", "eciSpeaking",
              "eciSynchronize", "eciSpeakText", "eciSpeakTextEx"}
ParamAudio == {"eciGetParam", "eciSetParam", "eciGetDefaultParam", "eciSetDefaultParam",
               "eciSetOutputBuffer", "eciSetOutputFilename", "eciSetOutputDevice", "eciPause",
               "eciRegisterCallback"}
Voice == {"eciCopyVoice", "eciGetVoiceName", "eciSetVoiceName", "eciGetVoiceParam",
          "eciSetVoiceParam"}
Dict == {"eciNewDict", "eciGetDict", "eciSetDict", "eciDeleteDict", "eciLoadDict", "eciSaveDict",
         "eciUpdateDict"}
DictFind == {"eciDictFindFirst", "eciDictFindNext", "eciDictLookup"}
DictA == {"eciUpdateDictA", "eciDictFindFirstA", "eciDictFindNextA", "eciDictLookupA"}
Filter == {"eciNewFilter", "eciDeleteFilter", "eciActivateFilter", "eciDeactivateFilter",
           "eciUpdateFilter", "eciGetFilteredText"}
Function == Lifecycle \cup Synthesis \cup ParamAudio \cup Voice \cup Dict \cup DictFind
            \cup DictA \cup Filter

-----------------------------------------------------------------------------
(* The shim: the values a call encodes, what its return value means, the     *)
(* values it reads from the reply.  A "bool" and an "error" (0 is XNoError)  *)
(* return the response's retval; a "handle" and a "lookup" what they read.   *)
To(sends, returns, reads) == [sends |-> sends, returns |-> returns, reads |-> reads]

ShimLifecycle == [f \in Lifecycle |->
    CASE f \in {"eciReset", "eciIsBeingReentered", "eciTestPhrase"} -> To(<<H>>, "bool", <<>>)
      [] f \in {"eciDelete", "eciClearErrors"} -> To(<<H>>, "none", <<>>)
      [] f = "eciNew" -> To(<<>>, "handle", <<H>>)
      [] f = "eciNewEx" -> To(<<I>>, "handle", <<H>>)
      [] f = "eciGetAvailableLanguages" -> To(<<>>, "value", <<I, I, I>>)
      [] f = "eciVersion" -> To(<<>>, "none", <<S>>)
      [] f = "eciProgStatus" -> To(<<H>>, "value", <<>>)
      [] f = "eciErrorMessage" -> To(<<H>>, "none", <<S>>)]
ShimSynthesis == [f \in Synthesis |->
    CASE f \in {"eciSynthesize", "eciClearInput", "eciStop", "eciSpeaking", "eciSynchronize"} ->
             To(<<H>>, "bool", <<>>)
      [] f \in {"eciAddText", "eciSynthesizeFile"} -> To(<<H, S>>, "bool", <<>>)
      [] f = "eciInsertIndex" -> To(<<H, I>>, "bool", <<>>)
      [] f = "eciGeneratePhonemes" -> To(<<H, I>>, "bool", <<S>>)
      [] f = "eciGetIndex" -> To(<<H>>, "value", <<>>)
      [] f = "eciSpeakText" -> To(<<S, I>>, "bool", <<>>)
      [] f = "eciSpeakTextEx" -> To(<<S, I, I>>, "bool", <<>>)]
ShimParamAudio == [f \in ParamAudio |->
    CASE f \in {"eciSetOutputBuffer", "eciSetOutputDevice", "eciPause"} ->
             To(<<H, I>>, "bool", <<>>)
      [] f = "eciGetParam" -> To(<<H, I>>, "value", <<>>)
      [] f = "eciSetParam" -> To(<<H, I, I>>, "value", <<>>)
      [] f = "eciGetDefaultParam" -> To(<<I>>, "value", <<>>)
      [] f = "eciSetDefaultParam" -> To(<<I, I>>, "value", <<>>)
      [] f = "eciSetOutputFilename" -> To(<<H, S>>, "bool", <<>>)
      [] f = "eciRegisterCallback" -> To(<<H>>, "none", <<>>)]
ShimVoice == [f \in Voice |->
    CASE f = "eciCopyVoice" -> To(<<H, I, I>>, "bool", <<>>)
      [] f = "eciGetVoiceName" -> To(<<H, I>>, "bool", <<S>>)
      [] f = "eciSetVoiceName" -> To(<<H, I, S>>, "bool", <<>>)
      [] f = "eciGetVoiceParam" -> To(<<H, I, I>>, "value", <<>>)
      [] f = "eciSetVoiceParam" -> To(<<H, I, I, I>>, "value", <<>>)]
ShimDict == [f \in Dict |->
    CASE f \in {"eciNewDict", "eciGetDict"} -> To(<<H>>, "handle", <<H>>)
      [] f \in {"eciLoadDict", "eciSaveDict"} -> To(<<H, H, I, S>>, "error", <<>>)
      [] f = "eciSetDict" -> To(<<H, H>>, "error", <<>>)
      [] f = "eciDeleteDict" -> To(<<H, H>>, "none", <<>>)
      [] f = "eciUpdateDict" -> To(<<H, H, I, S, S>>, "error", <<>>)]
ShimDictFind == [f \in DictFind |->
    CASE f \in {"eciDictFindFirst", "eciDictFindNext"} -> To(<<H, H, I>>, "error", <<S, S>>)
      [] f = "eciDictLookup" -> To(<<H, H, I, S>>, "lookup", <<S>>)]
ShimDictA == [f \in DictA |->
    CASE f \in {"eciDictFindFirstA", "eciDictFindNextA"} -> To(<<H, H, I>>, "error", <<S, S, I>>)
      [] f = "eciUpdateDictA" -> To(<<H, H, I, S, S, I>>, "error", <<>>)
      [] f = "eciDictLookupA" -> To(<<H, H, I, S>>, "error", <<S, I>>)]
ShimFilter == [f \in Filter |->
    CASE f \in {"eciActivateFilter", "eciDeactivateFilter"} -> To(<<H, H>>, "error", <<>>)
      [] f = "eciNewFilter" -> To(<<H, U, I>>, "handle", <<H>>)
      [] f = "eciDeleteFilter" -> To(<<H, H>>, "none", <<>>)
      [] f = "eciUpdateFilter" -> To(<<H, H, S, S>>, "error", <<>>)
      [] f = "eciGetFilteredText" -> To(<<H, H, S>>, "error", <<S>>)]
Shim == [f \in Function |->
    CASE f \in Lifecycle -> ShimLifecycle[f]
      [] f \in Synthesis -> ShimSynthesis[f]
      [] f \in ParamAudio -> ShimParamAudio[f]
      [] f \in Voice -> ShimVoice[f]
      [] f \in Dict -> ShimDict[f]
      [] f \in DictFind -> ShimDictFind[f]
      [] f \in DictA -> ShimDictA[f]
      [] f \in Filter -> ShimFilter[f]]

-----------------------------------------------------------------------------
(* The bridge: the values a request's handler decodes, how many of its       *)
(* handles must name an object for the engine to be called, the retval when  *)
(* it is not (Refused: 0 and the error flag), the reply's values.            *)
Refused == 1
From(takes, needs, otherwise, replies) ==
    [takes |-> takes, needs |-> needs, otherwise |-> otherwise, replies |-> replies]

BridgeLifecycle == [f \in Lifecycle |->
    CASE f \in {"eciDelete", "eciReset", "eciClearErrors", "eciIsBeingReentered",
                "eciTestPhrase"} -> From(<<H>>, 1, 0, <<>>)
      [] f = "eciNew" -> From(<<>>, 0, Refused, <<H>>)
      [] f = "eciNewEx" -> From(<<I>>, 0, Refused, <<H>>)
      [] f = "eciVersion" -> From(<<>>, 0, 0, <<S>>)
      [] f = "eciProgStatus" -> From(<<H>>, 1, -1, <<>>)
      [] f = "eciErrorMessage" -> From(<<H>>, 1, 0, <<S>>)
      [] f = "eciGetAvailableLanguages" -> From(<<>>, 0, -1, <<I, I, I>>)]
BridgeSynthesis == [f \in Synthesis |->
    CASE f \in {"eciSynthesize", "eciClearInput", "eciStop", "eciSpeaking", "eciSynchronize"} ->
             From(<<H>>, 1, 0, <<>>)
      [] f \in {"eciAddText", "eciSynthesizeFile"} -> From(<<H, S>>, 1, 0, <<>>)
      [] f = "eciInsertIndex" -> From(<<H, I>>, 1, 0, <<>>)
      [] f = "eciGeneratePhonemes" -> From(<<H, I>>, 1, 0, <<S>>)
      [] f = "eciGetIndex" -> From(<<H>>, 1, -1, <<>>)
      [] f = "eciSpeakText" -> From(<<S, I>>, 0, 0, <<>>)
      [] f = "eciSpeakTextEx" -> From(<<S, I, I>>, 0, 0, <<>>)]
BridgeParamAudio == [f \in ParamAudio |->
    CASE f \in {"eciSetOutputDevice", "eciPause"} -> From(<<H, I>>, 1, 0, <<>>)
      [] f = "eciGetParam" -> From(<<H, I>>, 1, -1, <<>>)
      [] f = "eciSetParam" -> From(<<H, I, I>>, 1, -1, <<>>)
      [] f = "eciGetDefaultParam" -> From(<<I>>, 0, -1, <<>>)
      [] f = "eciSetDefaultParam" -> From(<<I, I>>, 0, -1, <<>>)
      [] f = "eciSetOutputBuffer" -> From(<<H, I>>, 1, Refused, <<>>)
      [] f = "eciSetOutputFilename" -> From(<<H, S>>, 1, 0, <<>>)
      [] f = "eciRegisterCallback" -> From(<<H>>, 1, 0, <<>>)]
BridgeVoiceSwapped == [f \in Voice |->
    CASE f = "eciCopyVoice" -> From(<<H, I, I>>, 1, 0, <<>>)
      [] f = "eciGetVoiceName" -> From(<<H, I>>, 1, 0, <<S>>)
      [] f = "eciSetVoiceName" -> From(<<H, S, I>>, 1, 0, <<>>)
      [] f = "eciGetVoiceParam" -> From(<<H, I, I>>, 1, -1, <<>>)
      [] f = "eciSetVoiceParam" -> From(<<H, I, I, I>>, 1, -1, <<>>)]
BridgeVoice == [f \in Voice |->
    CASE f = "eciCopyVoice" -> From(<<H, I, I>>, 1, 0, <<>>)
      [] f = "eciGetVoiceName" -> From(<<H, I>>, 1, 0, <<S>>)
      [] f = "eciSetVoiceName" -> From(<<H, I, S>>, 1, 0, <<>>)
      [] f = "eciGetVoiceParam" -> From(<<H, I, I>>, 1, -1, <<>>)
      [] f = "eciSetVoiceParam" -> From(<<H, I, I, I>>, 1, -1, <<>>)]
BridgeDict == [f \in Dict |->
    CASE f \in {"eciNewDict", "eciGetDict"} -> From(<<H>>, 1, 0, <<H>>)
      [] f \in {"eciLoadDict", "eciSaveDict"} -> From(<<H, H, I, S>>, 2, -1, <<>>)
      [] f = "eciSetDict" -> From(<<H, H>>, 1, -1, <<>>)
      [] f = "eciDeleteDict" -> From(<<H, H>>, 2, 0, <<>>)
      [] f = "eciUpdateDict" -> From(<<H, H, I, S, S>>, 2, -1, <<>>)]
BridgeDictFind == [f \in DictFind |->
    CASE f \in {"eciDictFindFirst", "eciDictFindNext"} -> From(<<H, H, I>>, 2, -1, <<S, S>>)
      [] f = "eciDictLookup" -> From(<<H, H, I, S>>, 2, -1, <<S>>)]
BridgeDictA == [f \in DictA |->
    CASE f \in {"eciDictFindFirstA", "eciDictFindNextA"} -> From(<<H, H, I>>, 2, -1, <<S, S, I>>)
      [] f = "eciUpdateDictA" -> From(<<H, H, I, S, S, I>>, 2, -1, <<>>)
      [] f = "eciDictLookupA" -> From(<<H, H, I, S>>, 2, -1, <<S, I>>)]
BridgeFilter == [f \in Filter |->
    CASE f \in {"eciActivateFilter", "eciDeactivateFilter"} -> From(<<H, H>>, 2, -1, <<>>)
      [] f = "eciNewFilter" -> From(<<H, U, I>>, 1, 0, <<H>>)
      [] f = "eciDeleteFilter" -> From(<<H, H>>, 2, 0, <<>>)
      [] f = "eciUpdateFilter" -> From(<<H, H, S, S>>, 2, -1, <<>>)
      [] f = "eciGetFilteredText" -> From(<<H, H, S>>, 2, -1, <<S>>)]
Bridge == [f \in Function |->
    CASE f \in Lifecycle -> BridgeLifecycle[f]
      [] f \in Synthesis -> BridgeSynthesis[f]
      [] f \in ParamAudio -> BridgeParamAudio[f]
      [] f \in Voice -> BridgeVoice[f]
      [] f \in Dict -> BridgeDict[f]
      [] f \in DictFind -> BridgeDictFind[f]
      [] f \in DictA -> BridgeDictA[f]
      [] f \in Filter -> BridgeFilter[f]]

-----------------------------------------------------------------------------
VARIABLES
    pc,        \* "host", "connect", "sent", "served" or "lost"
    fn, args,  \* the call: its function and the host's parameters
    resp,      \* the response: [retval, error, items]
    ret,       \* what the call returns to the host
    got,       \* what it stores in the host's out parameters
    end,       \* history: how the call ended, "answered", "failed" or "unconnected"
    done, outs \* history: what the engine was called with and returned

vars == <<pc, fn, args, resp, ret, got, end, done, outs>>

NULL == -1
NoResp == [retval |-> 0, error |-> 0, items |-> <<>>]
NotDone == [args |-> <<>>, result |-> NULL]
Value(tag, i, n) == [tag |-> tag, at |-> i, n |-> n]
Unset == Value("unset", 0, 0)

EncodeNullAsBuffer(v) == IF v.tag = S /\ v.n = NULL THEN Value("buffer", v.at, NULL) ELSE v
(* rpc_encode_*: a NULL string is a tag of its own. *)
Encode(v) == IF v.tag = S /\ v.n = NULL THEN Value("null", v.at, NULL) ELSE v
EncodeAll(vs) == [i \in DOMAIN vs |-> Encode(vs[i])]
Bytes(v) == CASE v.tag = "null" -> 1 [] v.tag = S -> 5 + v.n [] OTHER -> 5
(* The length in front of a frame, and the reader's limit. *)
Frame(header, items) == 1 + header + FoldLeft(LAMBDA n, v : n + Bytes(v), 0, items)
Readable(header, items) == Frame(header, items) <= MAX_MSG_SIZE

DecodesBelowLimit(v, tag) == \/ v.tag = tag /\ (tag = S => v.n < MAX_STRING_LEN)
                             \/ v.tag = "null" /\ tag = S
(* rpc_decode_*: the tag must be the one expected, a string within its limit. *)
Decodes(v, tag) == \/ v.tag = tag /\ (tag = S => v.n <= MAX_STRING_LEN)
                   \/ v.tag = "null" /\ tag = S
DecodeV(v) == IF v.tag = "null" THEN Value(S, v.at, NULL) ELSE v

Init ==
    /\ pc = "host"
    /\ fn = "eciNew"
    /\ args = <<>>
    /\ resp = NoResp
    /\ ret = 0
    /\ got = <<>>
    /\ end = "none"
    /\ done = NotDone
    /\ outs = <<>>

Positions(tags, tag) == {i \in DOMAIN tags : tags[i] = tag}
(* The parameter that is the size of the host's buffer: a host that gives no *)
(* buffer may give any size, one that does gives what it holds.              *)
Sized(f) == IF f = "eciGeneratePhonemes" THEN {2} ELSE {}
NoBuffer == \E i \in Sized(fn) : args[i].n <= 0

(* The host calls f. *)
Enter(f) ==
    /\ pc = "host"
    /\ pc' = "connect"
    /\ fn' = f
    /\ LET sends == Shim[f].sends
       IN  \E named \in [Positions(sends, H) -> {0, 1}],
              len \in [Positions(sends, S) \cup Sized(f) -> StrLen \cup {NULL}] :
             args' = [i \in DOMAIN sends |-> Value(sends[i], i,
                        IF sends[i] = H THEN named[i] ELSE IF i \in DOMAIN len THEN len[i] ELSE 0)]
    /\ resp' = NoResp
    /\ ret' = 0
    /\ got' = <<>>
    /\ end' = "answered"
    /\ done' = NotDone
    /\ outs' = <<>>

(* What a call returns, from the retval of the response and the values read. *)
Returned(retval, vals) ==
    CASE Shim[fn].returns \in {"bool", "error", "value"} -> retval
      [] Shim[fn].returns = "handle" -> IF vals[1] = Unset THEN 0 ELSE vals[1].n
      [] Shim[fn].returns = "lookup" -> IF retval < 0 \/ vals[1] = Unset THEN NULL ELSE vals[1].n
      [] OTHER -> 0
Nothing == [i \in DOMAIN Shim[fn].reads |-> Unset]

(* do_rpc without a connection returns before it stores a retval: the     *)
(* caller's rv is uninitialized.  eciGetAvailableLanguages looks at the   *)
(* result, eciNew and eciNewEx return NULL.                               *)
Unconnected ==
    /\ pc = "connect"
    /\ pc' = "host"
    /\ \E rv \in {-1, 0, 1} :
         ret' = IF fn = "eciGetAvailableLanguages" THEN -1 ELSE Returned(rv, Nothing)
    /\ end' = "unconnected"
    /\ UNCHANGED <<fn, args, resp, got, done, outs>>

(* shim_rpc writes the request. *)
Send ==
    /\ pc = "connect"
    /\ pc' = "sent"
    /\ UNCHANGED <<fn, args, resp, ret, got, end, done, outs>>

(* The connection goes while the response is awaited: the bridge refuses a *)
(* frame that is too long, or dies.                                        *)
Lose ==
    /\ pc \in {"sent", "served"}
    /\ pc' = "lost"
    /\ UNCHANGED <<fn, args, resp, ret, got, end, done, outs>>

(* The engine's result and the values it returns. *)
EngineResult(f) == CASE Shim[f].returns \in {"bool", "error", "handle"} -> {0, 1}
                     [] Shim[f].returns = "value" -> {7}
                     [] OTHER -> {0}
EngineLen(f, given) ==
    CASE f \in {"eciVersion", "eciErrorMessage"} -> {n \in StrLen : n < 256}
      [] f = "eciGetVoiceName" -> {n \in StrLen : n <= 30}
      [] f = "eciGeneratePhonemes" -> {n \in StrLen : n < given[2].n}
      [] f = "eciDictLookup" -> StrLen \cup {NULL}
      [] OTHER -> StrLen
Outs(f, given, r) ==
    LET tags == Bridge[f].replies
    IN  {[i \in DOMAIN tags |-> Value(tags[i], i,
            CASE tags[i] = H -> r [] tags[i] = S -> len[i] [] OTHER -> 0)] :
            len \in [Positions(tags, S) -> EngineLen(f, given)]}

(* With no engine call the reply holds empty strings, zeros and NULL handles; *)
(* eciDictLookup's holds a NULL string, eciGetAvailableLanguages' the size of *)
(* its array and what that happened to hold.                                  *)
Blank(f, junk) ==
    LET tags == Bridge[f].replies
    IN  [i \in DOMAIN tags |-> Value(tags[i], i,
            CASE f = "eciDictLookup" -> NULL
              [] f = "eciGetAvailableLanguages" -> IF i = 1 THEN 64 ELSE junk
              [] OTHER -> 0)]

Respond(retval, error, vals) ==
    resp' = [retval |-> retval, error |-> error, items |-> EncodeAll(vals)]

(* The request's values can be decoded, in the order of its handler. *)
Decoded(b, items) == /\ Len(items) >= Len(b.takes)
                     /\ \A i \in DOMAIN b.takes : Decodes(items[i], b.takes[i])
(* The handles it needs name objects and the engine has the entry point. *)
Callable(b, vals) == /\ fn \notin Missing
                     /\ \A i \in 1..b.needs : vals[i].n = 1

(* A value that cannot be decoded. *)
ServeRefused ==
    /\ ~Decoded(Bridge[fn], EncodeAll(args))
    /\ Respond(0, 1, <<>>)
    /\ UNCHANGED <<done, outs>>
(* A handle that names nothing, or no such entry point. *)
ServeSkipped ==
    /\ Decoded(Bridge[fn], EncodeAll(args))
    /\ ~Callable(Bridge[fn], args)
    /\ IF Bridge[fn].otherwise = Refused
       THEN Respond(0, 1, <<>>)
       ELSE \E junk \in {0, 1} : Respond(Bridge[fn].otherwise, 0, Blank(fn, junk))
    /\ UNCHANGED <<done, outs>>
(* The engine writes the phonemes to a buffer of the bridge, of the size the *)
(* host gave or, were that no size for one, of its own.                      *)
MAX_PHONEMES == 64 * 1024
OWN_PHONEMES == 4 * 1024
BufferSize(v) == IF v.n \in 1..MAX_PHONEMES THEN v ELSE [v EXCEPT !.n = OWN_PHONEMES]
Passed(vals) == [i \in DOMAIN vals |-> IF i \in Sized(fn) THEN BufferSize(vals[i]) ELSE vals[i]]
(* The engine is called; eciNew and eciNewEx may come back without a handle, *)
(* eciDictLookup answers -1 for a NULL.                                      *)
ServeCalled ==
    /\ Decoded(Bridge[fn], EncodeAll(args))
    /\ Callable(Bridge[fn], args)
    /\ LET given == Passed([i \in DOMAIN Bridge[fn].takes |-> DecodeV(EncodeAll(args)[i])])
       IN  \E r \in EngineResult(fn) : \E o \in Outs(fn, given, r) :
         /\ done' = [args |-> given, result |-> r]
         /\ outs' = o
         /\ CASE Bridge[fn].otherwise = Refused /\ Shim[fn].returns = "handle" /\ r = 0 ->
                   Respond(0, 1, <<>>)
              [] fn = "eciDictLookup" -> Respond(IF o[1].n = NULL THEN -1 ELSE 0, 0, o)
              [] OTHER -> Respond(r, 0, o)

(* client_thread reads the request, dispatch_rpc serves it. *)
Serve ==
    /\ pc = "sent"
    /\ Readable(6, EncodeAll(args))
    /\ pc' = "served"
    /\ ServeRefused \/ ServeSkipped \/ ServeCalled
    /\ UNCHANGED <<fn, args, ret, got, end>>

FailUninitialized ==
    /\ pc = "lost"
    /\ pc' = "host"
    /\ \E rv \in {-1, 0, 1} :
         ret' = IF fn = "eciGetAvailableLanguages" THEN -1 ELSE Returned(rv, Nothing)
    /\ end' = "failed"
    /\ UNCHANGED <<fn, args, resp, got, done, outs>>
(* shim_rpc fails: retval keeps the 0 of do_rpc. *)
Fail ==
    /\ pc = "lost"
    /\ pc' = "host"
    /\ ret' = IF fn = "eciGetAvailableLanguages" THEN -1 ELSE Returned(0, Nothing)
    /\ end' = "failed"
    /\ UNCHANGED <<fn, args, resp, got, done, outs>>

(* The longest string the call stores for the host. *)
Keeps == CASE fn = "eciGetVoiceName" -> 30
           [] fn \in DictFind \cup DictA -> 4095
           [] fn = "eciGetFilteredText" -> MAX_STRING_LEN - 1
           [] fn = "eciGeneratePhonemes" -> args[2].n - 1
           [] OTHER -> MAX_STRING_LEN
Cut(v) == IF v.tag = S /\ v.n > Keeps THEN [v EXCEPT !.n = Keeps] ELSE v

(* The values are read one after the other; one that cannot be decoded is    *)
(* tried again as the next.  Of a string over the limit only the tag and the *)
(* length are passed over: the reader goes on in its text.                   *)
InText == 0
Fits(items, pos, tag) == pos \in DOMAIN items /\ Decodes(items[pos], tag)
NextPos(items, pos, tag) ==
    IF Fits(items, pos, tag) THEN pos + 1
    ELSE IF pos \in DOMAIN items /\ items[pos].tag = S /\ tag = S THEN InText
    ELSE pos
(* Where the reader is when it has tried i values. *)
ReadPos(tags, items) ==
    LET pos[i \in 0..Len(tags)] == IF i = 0 THEN 1 ELSE NextPos(items, pos[i - 1], tags[i])
    IN  pos
(* What the bytes of a text are taken for: nothing, or any value of the tag. *)
Scraps(tag) == {Unset} \cup {Value(tag, 0, n) : n \in {k \in StrLen : k <= MAX_STRING_LEN}}
(* What the call stores of a value: a NULL string is not, the rest is cut. *)
Stored(v) == IF v.tag \in {"null", "unset"} \/ NoBuffer THEN Unset ELSE Cut(v)
(* The values the call may store of a reply. *)
Reads(tags, items) ==
    LET at == ReadPos(tags, items)
        read(i) == IF at[i - 1] = InText THEN Scraps(tags[i])
                   ELSE IF Fits(items, at[i - 1], tags[i]) THEN {items[at[i - 1]]}
                   ELSE {Unset}
    IN  {[i \in DOMAIN tags |-> Stored(vals[i])] :
            vals \in {f \in [DOMAIN tags -> UNION {read(i) : i \in DOMAIN tags}] :
                        \A i \in DOMAIN tags : f[i] \in read(i)}}

(* The response arrives.  Its error flag is decoded and not looked at. *)
Receive ==
    /\ pc = "served"
    /\ Readable(10, resp.items)
    /\ pc' = "host"
    /\ \E vals \in Reads(Shim[fn].reads, resp.items) :
         /\ got' = vals
         /\ ret' = IF fn = "eciGetAvailableLanguages" /\ vals[1] = Unset THEN -1
                   ELSE Returned(resp.retval, vals)
    /\ UNCHANGED <<fn, args, resp, end, done, outs>>

Next == \/ \E f \in Function : Enter(f)
        \/ Unconnected \/ Send \/ Lose \/ Serve \/ Fail \/ Receive

Spec == Init /\ [][Next]_vars

-----------------------------------------------------------------------------
(* The type invariant. *)
Values == Seq([tag : {H, I, U, S, "null", "unset"}, at : 0..6, n : Nat \cup {NULL}])
TypeOK ==
    /\ pc \in {"host", "connect", "sent", "served", "lost"}
    /\ fn \in Function
    /\ {args, resp.items, got, done.args, outs} \subseteq Values
    /\ resp.retval \in Int /\ resp.error \in {0, 1}
    /\ ret \in Int /\ done.result \in Int
    /\ end \in {"none", "answered", "failed", "unconnected"}

Answered == pc = "host" /\ end = "answered"

(* Two hand-written lists, the encoders of shim_libeci.c and the decoders of *)
(* dispatch_rpc, agree for every function: a call whose handles name objects *)
(* and whose strings are within the limit reaches the engine, and the engine *)
(* is called with the host's parameters, in their order, NULL strings        *)
(* included.  One alone is replaced: the iSize of eciGeneratePhonemes, and   *)
(* only where a buffer of that size cannot be had or is over the limit.      *)
ArgumentsArrive ==
    Answered =>
        /\ /\ fn \notin Missing
           /\ \A i \in DOMAIN args : /\ args[i].tag = H => args[i].n = 1
                                     /\ args[i].tag = S => args[i].n <= MAX_STRING_LEN
           => done # NotDone
        /\ done # NotDone =>
             /\ DOMAIN done.args = DOMAIN args
             /\ \A i \in DOMAIN args :
                  \/ done.args[i] = args[i]
                  \/ /\ fn = "eciGeneratePhonemes" /\ i = 2
                     /\ args[i].n \notin 1..MAX_PHONEMES
                     /\ done.args[i] = Value(I, i, OWN_PHONEMES)

OverLimit(v) == v.tag = S /\ v.n > MAX_STRING_LEN

(* What a call stores in an out parameter is the engine's value of that very *)
(* parameter, whole or cut at the end, and a value is only missing where it  *)
(* is over the limit or NULL, or the host gave no buffer.  Past a string     *)
(* over the limit the reader goes on in its text, and all of that is void:   *)
(* never elsewhere.  The phonemes arrive whole and fit the host's buffer,    *)
(* although the engine wrote them to one of another size.                    *)
OutParamsInPlace ==
    Answered /\ done # NotDone /\ resp.error = 0 =>
        \A i \in DOMAIN got :
            (\A j \in 1..(i - 1) : ~OverLimit(outs[j])) =>
                IF got[i] = Unset
                THEN OverLimit(outs[i]) \/ outs[i].n = NULL \/ NoBuffer
                ELSE /\ got[i].tag = outs[i].tag
                     /\ got[i].at = i
                     /\ got[i].n = outs[i].n
                          \/ (fn # "eciGeneratePhonemes" /\ got[i].n \in 4095..(outs[i].n - 1))
                     /\ fn = "eciGeneratePhonemes" => got[i].n < args[2].n

(* With a connection, a call that returns TRUE, a handle or a translation was *)
(* made by the engine, which returned just that: not so a call that was       *)
(* refused, named a deleted object or lost its connection, even one the       *)
(* engine made and whose response was lost.                                   *)
SuccessIsReal ==
    pc = "host" /\ end \in {"answered", "failed"} =>
        /\ Shim[fn].returns \in {"bool", "handle"} /\ ret # 0 =>
             Answered /\ done.result = ret
        /\ Shim[fn].returns = "lookup" /\ ret # NULL =>
             Answered /\ outs # <<>> /\ ret <= outs[1].n
=============================================================================
