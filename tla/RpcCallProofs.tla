--------------------------- MODULE RpcCallProofs ---------------------------
(***************************************************************************)
(* The argument lists of the ECI functions, and the calls that use them,   *)
(* for strings of any length and an engine with or without each of its     *)
(* entry points.  ListsAgree compares the two tables of RpcCall row by     *)
(* row; the invariant Inv says what the bridge has answered at each stage, *)
(* and the properties of RpcCall follow from it and from how a reply is    *)
(* read back.                                                              *)
(***************************************************************************)
EXTENDS RpcCall, SequenceTheorems, TLAPS

Tags == {H, I, U, S}
(* A list of l typed values, none longer than eciUpdateDictA's. *)
List(s, l) == s \in Seq(Tags) /\ Len(s) = l /\ l \in 0..6
(* The shim's row s and the bridge's row b of f.  What is sent is what is   *)
(* taken, what is replied is what is read; only handles are looked up, and *)
(* what is returned without an engine is no success.                       *)
Agree(f, s, b) ==
    /\ b.takes = s.sends
    /\ b.replies = s.reads
    /\ \E l \in 0..6 : List(s.sends, l)
    /\ \E l \in 0..3 : List(s.reads, l)
    /\ b.needs \in 0..Len(s.sends)
    /\ \A i \in 1..b.needs : s.sends[i] = H
    /\ s.returns \in {"bool", "error", "value", "none", "handle", "lookup"}
    /\ b.otherwise \in {-1, 0, Refused}
    /\ s.returns \in {"bool", "handle"} => b.otherwise \in {0, Refused}
    /\ s.returns = "handle" => s.reads = <<H>>
    /\ s.returns = "lookup" => s.reads = <<S>>
    /\ s.returns = "lookup" <=> f = "eciDictLookup"
    /\ f = "eciGetAvailableLanguages" => s.returns = "value"
    /\ f = "eciGeneratePhonemes" => s.sends = <<H, I>> /\ s.returns = "bool"

(* The lists of the tables. *)
LEMMA Lists ==
    /\ List(<<>>, 0)
    /\ List(<<H>>, 1)
    /\ List(<<I>>, 1)
    /\ List(<<S>>, 1)
    /\ List(<<H, H>>, 2)
    /\ List(<<H, I>>, 2)
    /\ List(<<H, S>>, 2)
    /\ List(<<I, I>>, 2)
    /\ List(<<S, I>>, 2)
    /\ List(<<S, S>>, 2)
    /\ List(<<H, H, I>>, 3)
    /\ List(<<H, H, S>>, 3)
    /\ List(<<H, I, I>>, 3)
    /\ List(<<H, I, S>>, 3)
    /\ List(<<H, U, I>>, 3)
    /\ List(<<I, I, I>>, 3)
    /\ List(<<S, I, I>>, 3)
    /\ List(<<S, S, I>>, 3)
    /\ List(<<H, H, I, S>>, 4)
    /\ List(<<H, H, S, S>>, 4)
    /\ List(<<H, I, I, I>>, 4)
    /\ List(<<H, H, I, S, S>>, 5)
    /\ List(<<H, H, I, S, S, I>>, 6)
  BY EmptySeq DEF List, Tags, H, I, U, S

(* The groups, a case for each row. *)
LEMMA LifecycleAgree ==
    ASSUME NEW f \in Lifecycle
    PROVE  Agree(f, ShimLifecycle[f], BridgeLifecycle[f])
<1>1. CASE f \in {"eciReset", "eciIsBeingReentered", "eciTestPhrase"}
  <2>1. ShimLifecycle[f] = To(<<H>>, "bool", <<>>) /\ BridgeLifecycle[f] = From(<<H>>, 1, 0, <<>>)
    BY <1>1 DEF Lifecycle, ShimLifecycle, BridgeLifecycle
  <2> QED
    BY <1>1, <2>1, Lists DEF Agree, List, To, From, Refused, H, I, U, S
<1>2. CASE f \in {"eciDelete", "eciClearErrors"}
  <2>1. ShimLifecycle[f] = To(<<H>>, "none", <<>>) /\ BridgeLifecycle[f] = From(<<H>>, 1, 0, <<>>)
    BY <1>2 DEF Lifecycle, ShimLifecycle, BridgeLifecycle
  <2> QED
    BY <1>2, <2>1, Lists DEF Agree, List, To, From, Refused, H, I, U, S
<1>3. CASE f = "eciNew"
  <2>1. ShimLifecycle[f] = To(<<>>, "handle", <<H>>) /\ BridgeLifecycle[f] = From(<<>>, 0, Refused, <<H>>)
    BY <1>3 DEF Lifecycle, ShimLifecycle, BridgeLifecycle
  <2> QED
    BY <1>3, <2>1, Lists DEF Agree, List, To, From, Refused, H, I, U, S
<1>4. CASE f = "eciNewEx"
  <2>1. ShimLifecycle[f] = To(<<I>>, "handle", <<H>>) /\ BridgeLifecycle[f] = From(<<I>>, 0, Refused, <<H>>)
    BY <1>4 DEF Lifecycle, ShimLifecycle, BridgeLifecycle
  <2> QED
    BY <1>4, <2>1, Lists DEF Agree, List, To, From, Refused, H, I, U, S
<1>5. CASE f = "eciGetAvailableLanguages"
  <2>1. ShimLifecycle[f] = To(<<>>, "value", <<I, I, I>>) /\ BridgeLifecycle[f] = From(<<>>, 0, -1, <<I, I, I>>)
    BY <1>5 DEF Lifecycle, ShimLifecycle, BridgeLifecycle
  <2> QED
    BY <1>5, <2>1, Lists DEF Agree, List, To, From, Refused, H, I, U, S
<1>6. CASE f = "eciVersion"
  <2>1. ShimLifecycle[f] = To(<<>>, "none", <<S>>) /\ BridgeLifecycle[f] = From(<<>>, 0, 0, <<S>>)
    BY <1>6 DEF Lifecycle, ShimLifecycle, BridgeLifecycle
  <2> QED
    BY <1>6, <2>1, Lists DEF Agree, List, To, From, Refused, H, I, U, S
<1>7. CASE f = "eciProgStatus"
  <2>1. ShimLifecycle[f] = To(<<H>>, "value", <<>>) /\ BridgeLifecycle[f] = From(<<H>>, 1, -1, <<>>)
    BY <1>7 DEF Lifecycle, ShimLifecycle, BridgeLifecycle
  <2> QED
    BY <1>7, <2>1, Lists DEF Agree, List, To, From, Refused, H, I, U, S
<1>8. CASE f = "eciErrorMessage"
  <2>1. ShimLifecycle[f] = To(<<H>>, "none", <<S>>) /\ BridgeLifecycle[f] = From(<<H>>, 1, 0, <<S>>)
    BY <1>8 DEF Lifecycle, ShimLifecycle, BridgeLifecycle
  <2> QED
    BY <1>8, <2>1, Lists DEF Agree, List, To, From, Refused, H, I, U, S
<1> QED
  BY <1>1, <1>2, <1>3, <1>4, <1>5, <1>6, <1>7, <1>8 DEF Lifecycle

LEMMA SynthesisAgree ==
    ASSUME NEW f \in Synthesis
    PROVE  Agree(f, ShimSynthesis[f], BridgeSynthesis[f])
<1>1. CASE f \in {"eciSynthesize", "eciClearInput", "eciStop", "eciSpeaking", "eciSynchronize"}
  <2>1. ShimSynthesis[f] = To(<<H>>, "bool", <<>>) /\ BridgeSynthesis[f] = From(<<H>>, 1, 0, <<>>)
    BY <1>1 DEF Synthesis, ShimSynthesis, BridgeSynthesis
  <2> QED
    BY <1>1, <2>1, Lists DEF Agree, List, To, From, Refused, H, I, U, S
<1>2. CASE f \in {"eciAddText", "eciSynthesizeFile"}
  <2>1. ShimSynthesis[f] = To(<<H, S>>, "bool", <<>>) /\ BridgeSynthesis[f] = From(<<H, S>>, 1, 0, <<>>)
    BY <1>2 DEF Synthesis, ShimSynthesis, BridgeSynthesis
  <2> QED
    BY <1>2, <2>1, Lists DEF Agree, List, To, From, Refused, H, I, U, S
<1>3. CASE f = "eciInsertIndex"
  <2>1. ShimSynthesis[f] = To(<<H, I>>, "bool", <<>>) /\ BridgeSynthesis[f] = From(<<H, I>>, 1, 0, <<>>)
    BY <1>3 DEF Synthesis, ShimSynthesis, BridgeSynthesis
  <2> QED
    BY <1>3, <2>1, Lists DEF Agree, List, To, From, Refused, H, I, U, S
<1>4. CASE f = "eciGeneratePhonemes"
  <2>1. ShimSynthesis[f] = To(<<H, I>>, "bool", <<S>>) /\ BridgeSynthesis[f] = From(<<H, I>>, 1, 0, <<S>>)
    BY <1>4 DEF Synthesis, ShimSynthesis, BridgeSynthesis
  <2> QED
    BY <1>4, <2>1, Lists DEF Agree, List, To, From, Refused, H, I, U, S
<1>5. CASE f = "eciGetIndex"
  <2>1. ShimSynthesis[f] = To(<<H>>, "value", <<>>) /\ BridgeSynthesis[f] = From(<<H>>, 1, -1, <<>>)
    BY <1>5 DEF Synthesis, ShimSynthesis, BridgeSynthesis
  <2> QED
    BY <1>5, <2>1, Lists DEF Agree, List, To, From, Refused, H, I, U, S
<1>6. CASE f = "eciSpeakText"
  <2>1. ShimSynthesis[f] = To(<<S, I>>, "bool", <<>>) /\ BridgeSynthesis[f] = From(<<S, I>>, 0, 0, <<>>)
    BY <1>6 DEF Synthesis, ShimSynthesis, BridgeSynthesis
  <2> QED
    BY <1>6, <2>1, Lists DEF Agree, List, To, From, Refused, H, I, U, S
<1>7. CASE f = "eciSpeakTextEx"
  <2>1. ShimSynthesis[f] = To(<<S, I, I>>, "bool", <<>>) /\ BridgeSynthesis[f] = From(<<S, I, I>>, 0, 0, <<>>)
    BY <1>7 DEF Synthesis, ShimSynthesis, BridgeSynthesis
  <2> QED
    BY <1>7, <2>1, Lists DEF Agree, List, To, From, Refused, H, I, U, S
<1> QED
  BY <1>1, <1>2, <1>3, <1>4, <1>5, <1>6, <1>7 DEF Synthesis

LEMMA ParamAudioAgree ==
    ASSUME NEW f \in ParamAudio
    PROVE  Agree(f, ShimParamAudio[f], BridgeParamAudio[f])
<1>1. CASE f = "eciSetOutputBuffer"
  <2>1. ShimParamAudio[f] = To(<<H, I>>, "bool", <<>>) /\ BridgeParamAudio[f] = From(<<H, I>>, 1, Refused, <<>>)
    BY <1>1 DEF ParamAudio, ShimParamAudio, BridgeParamAudio
  <2> QED
    BY <1>1, <2>1, Lists DEF Agree, List, To, From, Refused, H, I, U, S
<1>2. CASE f \in {"eciSetOutputDevice", "eciPause"}
  <2>1. ShimParamAudio[f] = To(<<H, I>>, "bool", <<>>) /\ BridgeParamAudio[f] = From(<<H, I>>, 1, 0, <<>>)
    BY <1>2 DEF ParamAudio, ShimParamAudio, BridgeParamAudio
  <2> QED
    BY <1>2, <2>1, Lists DEF Agree, List, To, From, Refused, H, I, U, S
<1>3. CASE f = "eciGetParam"
  <2>1. ShimParamAudio[f] = To(<<H, I>>, "value", <<>>) /\ BridgeParamAudio[f] = From(<<H, I>>, 1, -1, <<>>)
    BY <1>3 DEF ParamAudio, ShimParamAudio, BridgeParamAudio
  <2> QED
    BY <1>3, <2>1, Lists DEF Agree, List, To, From, Refused, H, I, U, S
<1>4. CASE f = "eciSetParam"
  <2>1. ShimParamAudio[f] = To(<<H, I, I>>, "value", <<>>) /\ BridgeParamAudio[f] = From(<<H, I, I>>, 1, -1, <<>>)
    BY <1>4 DEF ParamAudio, ShimParamAudio, BridgeParamAudio
  <2> QED
    BY <1>4, <2>1, Lists DEF Agree, List, To, From, Refused, H, I, U, S
<1>5. CASE f = "eciGetDefaultParam"
  <2>1. ShimParamAudio[f] = To(<<I>>, "value", <<>>) /\ BridgeParamAudio[f] = From(<<I>>, 0, -1, <<>>)
    BY <1>5 DEF ParamAudio, ShimParamAudio, BridgeParamAudio
  <2> QED
    BY <1>5, <2>1, Lists DEF Agree, List, To, From, Refused, H, I, U, S
<1>6. CASE f = "eciSetDefaultParam"
  <2>1. ShimParamAudio[f] = To(<<I, I>>, "value", <<>>) /\ BridgeParamAudio[f] = From(<<I, I>>, 0, -1, <<>>)
    BY <1>6 DEF ParamAudio, ShimParamAudio, BridgeParamAudio
  <2> QED
    BY <1>6, <2>1, Lists DEF Agree, List, To, From, Refused, H, I, U, S
<1>7. CASE f = "eciSetOutputFilename"
  <2>1. ShimParamAudio[f] = To(<<H, S>>, "bool", <<>>) /\ BridgeParamAudio[f] = From(<<H, S>>, 1, 0, <<>>)
    BY <1>7 DEF ParamAudio, ShimParamAudio, BridgeParamAudio
  <2> QED
    BY <1>7, <2>1, Lists DEF Agree, List, To, From, Refused, H, I, U, S
<1>8. CASE f = "eciRegisterCallback"
  <2>1. ShimParamAudio[f] = To(<<H>>, "none", <<>>) /\ BridgeParamAudio[f] = From(<<H>>, 1, 0, <<>>)
    BY <1>8 DEF ParamAudio, ShimParamAudio, BridgeParamAudio
  <2> QED
    BY <1>8, <2>1, Lists DEF Agree, List, To, From, Refused, H, I, U, S
<1> QED
  BY <1>1, <1>2, <1>3, <1>4, <1>5, <1>6, <1>7, <1>8 DEF ParamAudio

LEMMA VoiceAgree ==
    ASSUME NEW f \in Voice
    PROVE  Agree(f, ShimVoice[f], BridgeVoice[f])
<1>1. CASE f = "eciCopyVoice"
  <2>1. ShimVoice[f] = To(<<H, I, I>>, "bool", <<>>) /\ BridgeVoice[f] = From(<<H, I, I>>, 1, 0, <<>>)
    BY <1>1 DEF Voice, ShimVoice, BridgeVoice
  <2> QED
    BY <1>1, <2>1, Lists DEF Agree, List, To, From, Refused, H, I, U, S
<1>2. CASE f = "eciGetVoiceName"
  <2>1. ShimVoice[f] = To(<<H, I>>, "bool", <<S>>) /\ BridgeVoice[f] = From(<<H, I>>, 1, 0, <<S>>)
    BY <1>2 DEF Voice, ShimVoice, BridgeVoice
  <2> QED
    BY <1>2, <2>1, Lists DEF Agree, List, To, From, Refused, H, I, U, S
<1>3. CASE f = "eciSetVoiceName"
  <2>1. ShimVoice[f] = To(<<H, I, S>>, "bool", <<>>) /\ BridgeVoice[f] = From(<<H, I, S>>, 1, 0, <<>>)
    BY <1>3 DEF Voice, ShimVoice, BridgeVoice
  <2> QED
    BY <1>3, <2>1, Lists DEF Agree, List, To, From, Refused, H, I, U, S
<1>4. CASE f = "eciGetVoiceParam"
  <2>1. ShimVoice[f] = To(<<H, I, I>>, "value", <<>>) /\ BridgeVoice[f] = From(<<H, I, I>>, 1, -1, <<>>)
    BY <1>4 DEF Voice, ShimVoice, BridgeVoice
  <2> QED
    BY <1>4, <2>1, Lists DEF Agree, List, To, From, Refused, H, I, U, S
<1>5. CASE f = "eciSetVoiceParam"
  <2>1. ShimVoice[f] = To(<<H, I, I, I>>, "value", <<>>) /\ BridgeVoice[f] = From(<<H, I, I, I>>, 1, -1, <<>>)
    BY <1>5 DEF Voice, ShimVoice, BridgeVoice
  <2> QED
    BY <1>5, <2>1, Lists DEF Agree, List, To, From, Refused, H, I, U, S
<1> QED
  BY <1>1, <1>2, <1>3, <1>4, <1>5 DEF Voice

LEMMA DictAgree ==
    ASSUME NEW f \in Dict
    PROVE  Agree(f, ShimDict[f], BridgeDict[f])
<1>1. CASE f \in {"eciNewDict", "eciGetDict"}
  <2>1. ShimDict[f] = To(<<H>>, "handle", <<H>>) /\ BridgeDict[f] = From(<<H>>, 1, 0, <<H>>)
    BY <1>1 DEF Dict, ShimDict, BridgeDict
  <2> QED
    BY <1>1, <2>1, Lists DEF Agree, List, To, From, Refused, H, I, U, S
<1>2. CASE f \in {"eciLoadDict", "eciSaveDict"}
  <2>1. ShimDict[f] = To(<<H, H, I, S>>, "error", <<>>) /\ BridgeDict[f] = From(<<H, H, I, S>>, 2, -1, <<>>)
    BY <1>2 DEF Dict, ShimDict, BridgeDict
  <2> QED
    BY <1>2, <2>1, Lists DEF Agree, List, To, From, Refused, H, I, U, S
<1>3. CASE f = "eciSetDict"
  <2>1. ShimDict[f] = To(<<H, H>>, "error", <<>>) /\ BridgeDict[f] = From(<<H, H>>, 1, -1, <<>>)
    BY <1>3 DEF Dict, ShimDict, BridgeDict
  <2> QED
    BY <1>3, <2>1, Lists DEF Agree, List, To, From, Refused, H, I, U, S
<1>4. CASE f = "eciDeleteDict"
  <2>1. ShimDict[f] = To(<<H, H>>, "none", <<>>) /\ BridgeDict[f] = From(<<H, H>>, 2, 0, <<>>)
    BY <1>4 DEF Dict, ShimDict, BridgeDict
  <2> QED
    BY <1>4, <2>1, Lists DEF Agree, List, To, From, Refused, H, I, U, S
<1>5. CASE f = "eciUpdateDict"
  <2>1. ShimDict[f] = To(<<H, H, I, S, S>>, "error", <<>>) /\ BridgeDict[f] = From(<<H, H, I, S, S>>, 2, -1, <<>>)
    BY <1>5 DEF Dict, ShimDict, BridgeDict
  <2> QED
    BY <1>5, <2>1, Lists DEF Agree, List, To, From, Refused, H, I, U, S
<1> QED
  BY <1>1, <1>2, <1>3, <1>4, <1>5 DEF Dict

LEMMA DictFindAgree ==
    ASSUME NEW f \in DictFind
    PROVE  Agree(f, ShimDictFind[f], BridgeDictFind[f])
<1>1. CASE f \in {"eciDictFindFirst", "eciDictFindNext"}
  <2>1. ShimDictFind[f] = To(<<H, H, I>>, "error", <<S, S>>) /\ BridgeDictFind[f] = From(<<H, H, I>>, 2, -1, <<S, S>>)
    BY <1>1 DEF DictFind, ShimDictFind, BridgeDictFind
  <2> QED
    BY <1>1, <2>1, Lists DEF Agree, List, To, From, Refused, H, I, U, S
<1>2. CASE f = "eciDictLookup"
  <2>1. ShimDictFind[f] = To(<<H, H, I, S>>, "lookup", <<S>>) /\ BridgeDictFind[f] = From(<<H, H, I, S>>, 2, -1, <<S>>)
    BY <1>2 DEF DictFind, ShimDictFind, BridgeDictFind
  <2> QED
    BY <1>2, <2>1, Lists DEF Agree, List, To, From, Refused, H, I, U, S
<1> QED
  BY <1>1, <1>2 DEF DictFind

LEMMA DictAAgree ==
    ASSUME NEW f \in DictA
    PROVE  Agree(f, ShimDictA[f], BridgeDictA[f])
<1>1. CASE f \in {"eciDictFindFirstA", "eciDictFindNextA"}
  <2>1. ShimDictA[f] = To(<<H, H, I>>, "error", <<S, S, I>>) /\ BridgeDictA[f] = From(<<H, H, I>>, 2, -1, <<S, S, I>>)
    BY <1>1 DEF DictA, ShimDictA, BridgeDictA
  <2> QED
    BY <1>1, <2>1, Lists DEF Agree, List, To, From, Refused, H, I, U, S
<1>2. CASE f = "eciUpdateDictA"
  <2>1. ShimDictA[f] = To(<<H, H, I, S, S, I>>, "error", <<>>) /\ BridgeDictA[f] = From(<<H, H, I, S, S, I>>, 2, -1, <<>>)
    BY <1>2 DEF DictA, ShimDictA, BridgeDictA
  <2> QED
    BY <1>2, <2>1, Lists DEF Agree, List, To, From, Refused, H, I, U, S
<1>3. CASE f = "eciDictLookupA"
  <2>1. ShimDictA[f] = To(<<H, H, I, S>>, "error", <<S, I>>) /\ BridgeDictA[f] = From(<<H, H, I, S>>, 2, -1, <<S, I>>)
    BY <1>3 DEF DictA, ShimDictA, BridgeDictA
  <2> QED
    BY <1>3, <2>1, Lists DEF Agree, List, To, From, Refused, H, I, U, S
<1> QED
  BY <1>1, <1>2, <1>3 DEF DictA

LEMMA FilterAgree ==
    ASSUME NEW f \in Filter
    PROVE  Agree(f, ShimFilter[f], BridgeFilter[f])
<1>1. CASE f \in {"eciActivateFilter", "eciDeactivateFilter"}
  <2>1. ShimFilter[f] = To(<<H, H>>, "error", <<>>) /\ BridgeFilter[f] = From(<<H, H>>, 2, -1, <<>>)
    BY <1>1 DEF Filter, ShimFilter, BridgeFilter
  <2> QED
    BY <1>1, <2>1, Lists DEF Agree, List, To, From, Refused, H, I, U, S
<1>2. CASE f = "eciNewFilter"
  <2>1. ShimFilter[f] = To(<<H, U, I>>, "handle", <<H>>) /\ BridgeFilter[f] = From(<<H, U, I>>, 1, 0, <<H>>)
    BY <1>2 DEF Filter, ShimFilter, BridgeFilter
  <2> QED
    BY <1>2, <2>1, Lists DEF Agree, List, To, From, Refused, H, I, U, S
<1>3. CASE f = "eciDeleteFilter"
  <2>1. ShimFilter[f] = To(<<H, H>>, "none", <<>>) /\ BridgeFilter[f] = From(<<H, H>>, 2, 0, <<>>)
    BY <1>3 DEF Filter, ShimFilter, BridgeFilter
  <2> QED
    BY <1>3, <2>1, Lists DEF Agree, List, To, From, Refused, H, I, U, S
<1>4. CASE f = "eciUpdateFilter"
  <2>1. ShimFilter[f] = To(<<H, H, S, S>>, "error", <<>>) /\ BridgeFilter[f] = From(<<H, H, S, S>>, 2, -1, <<>>)
    BY <1>4 DEF Filter, ShimFilter, BridgeFilter
  <2> QED
    BY <1>4, <2>1, Lists DEF Agree, List, To, From, Refused, H, I, U, S
<1>5. CASE f = "eciGetFilteredText"
  <2>1. ShimFilter[f] = To(<<H, H, S>>, "error", <<S>>) /\ BridgeFilter[f] = From(<<H, H, S>>, 2, -1, <<S>>)
    BY <1>5 DEF Filter, ShimFilter, BridgeFilter
  <2> QED
    BY <1>5, <2>1, Lists DEF Agree, List, To, From, Refused, H, I, U, S
<1> QED
  BY <1>1, <1>2, <1>3, <1>4, <1>5 DEF Filter

(* The encoders of shim_libeci.c and the decoders of dispatch_rpc, for every *)
(* function: the same values in the same order, in both directions.          *)
THEOREM ListsAgree == \A f \in Function : Agree(f, Shim[f], Bridge[f])
<1> TAKE f \in Function
<1>1. CASE f \in Lifecycle
  <2>1. Shim[f] = ShimLifecycle[f] /\ Bridge[f] = BridgeLifecycle[f]
    BY <1>1 DEF Shim, Bridge, Function, Lifecycle, Synthesis, ParamAudio, Voice, Dict, DictFind, DictA, Filter
  <2> QED
    BY <1>1, <2>1, LifecycleAgree
<1>2. CASE f \in Synthesis
  <2>1. Shim[f] = ShimSynthesis[f] /\ Bridge[f] = BridgeSynthesis[f]
    BY <1>2 DEF Shim, Bridge, Function, Lifecycle, Synthesis, ParamAudio, Voice, Dict, DictFind, DictA, Filter
  <2> QED
    BY <1>2, <2>1, SynthesisAgree
<1>3. CASE f \in ParamAudio
  <2>1. Shim[f] = ShimParamAudio[f] /\ Bridge[f] = BridgeParamAudio[f]
    BY <1>3 DEF Shim, Bridge, Function, Lifecycle, Synthesis, ParamAudio, Voice, Dict, DictFind, DictA, Filter
  <2> QED
    BY <1>3, <2>1, ParamAudioAgree
<1>4. CASE f \in Voice
  <2>1. Shim[f] = ShimVoice[f] /\ Bridge[f] = BridgeVoice[f]
    BY <1>4 DEF Shim, Bridge, Function, Lifecycle, Synthesis, ParamAudio, Voice, Dict, DictFind, DictA, Filter
  <2> QED
    BY <1>4, <2>1, VoiceAgree
<1>5. CASE f \in Dict
  <2>1. Shim[f] = ShimDict[f] /\ Bridge[f] = BridgeDict[f]
    BY <1>5 DEF Shim, Bridge, Function, Lifecycle, Synthesis, ParamAudio, Voice, Dict, DictFind, DictA, Filter
  <2> QED
    BY <1>5, <2>1, DictAgree
<1>6. CASE f \in DictFind
  <2>1. Shim[f] = ShimDictFind[f] /\ Bridge[f] = BridgeDictFind[f]
    BY <1>6 DEF Shim, Bridge, Function, Lifecycle, Synthesis, ParamAudio, Voice, Dict, DictFind, DictA, Filter
  <2> QED
    BY <1>6, <2>1, DictFindAgree
<1>7. CASE f \in DictA
  <2>1. Shim[f] = ShimDictA[f] /\ Bridge[f] = BridgeDictA[f]
    BY <1>7 DEF Shim, Bridge, Function, Lifecycle, Synthesis, ParamAudio, Voice, Dict, DictFind, DictA, Filter
  <2> QED
    BY <1>7, <2>1, DictAAgree
<1>8. CASE f \in Filter
  <2>1. Shim[f] = ShimFilter[f] /\ Bridge[f] = BridgeFilter[f]
    BY <1>8 DEF Shim, Bridge, Function, Lifecycle, Synthesis, ParamAudio, Voice, Dict, DictFind, DictA, Filter
  <2> QED
    BY <1>8, <2>1, FilterAgree
<1> QED
  BY <1>1, <1>2, <1>3, <1>4, <1>5, <1>6, <1>7, <1>8 DEF Function

-----------------------------------------------------------------------------
(* The inductive invariant. *)
(* Values, one of each tag, in their order. *)
Typed(vs, tags) ==
    /\ vs = [i \in DOMAIN tags |-> Value(tags[i], i, vs[i].n)]
    /\ \A i \in DOMAIN tags : vs[i].n \in Nat \cup {NULL}
(* The host's parameters are what the shim encodes. *)
Sent == Typed(args, Shim[fn].sends)

(* A reason not to call the engine. *)
Unready == \/ fn \in Missing
           \/ \E i \in DOMAIN args : \/ args[i].tag = H /\ args[i].n # 1
                                     \/ args[i].tag = S /\ args[i].n > MAX_STRING_LEN
Uncalled == done = NotDone /\ outs = <<>>
Response(retval, error, vals) ==
    resp = [retval |-> retval, error |-> error, items |-> EncodeAll(vals)]

(* The bridge has answered nothing yet, refused the call, answered without *)
(* the engine, or called it: with the host's parameters, but for a size.   *)
Fresh == Uncalled /\ resp = NoResp
Turned == Uncalled /\ Unready /\ Response(0, 1, <<>>)
Skipped == /\ Uncalled /\ Unready
           /\ Bridge[fn].otherwise # Refused
           /\ \E junk \in {0, 1} : Response(Bridge[fn].otherwise, 0, Blank(fn, junk))
Made(r) == /\ done = [args |-> Passed(args), result |-> r]
           /\ Typed(outs, Bridge[fn].replies)
           /\ \A i \in DOMAIN outs : outs[i].tag = H => outs[i].n = r
           /\ fn = "eciGetVoiceName" => \A i \in DOMAIN outs : outs[i].n <= 30
           /\ fn = "eciGeneratePhonemes" =>
                \A i \in DOMAIN outs : outs[i].n < Passed(args)[2].n
           /\ \/ Shim[fn].returns = "handle" /\ r = 0 /\ Response(0, 1, <<>>)
              \/ fn = "eciDictLookup" /\ Response(IF outs[1].n = NULL THEN -1 ELSE 0, 0, outs)
              \/ fn # "eciDictLookup" /\ Response(r, 0, outs)
Called == \E r \in {0, 1, 7} : Made(r)
Served == Turned \/ Skipped \/ Called

(* What the host has of the answer. *)
Received ==
    /\ got \in Reads(Shim[fn].reads, resp.items)
    /\ ret = IF fn = "eciGetAvailableLanguages" /\ got[1] = Unset THEN -1
             ELSE Returned(resp.retval, got)
Failed == ret = IF fn = "eciGetAvailableLanguages" THEN -1 ELSE Returned(0, Nothing)

Control == /\ pc \in {"host", "connect", "sent", "served", "lost"}
           /\ fn \in Function
           /\ end \in {"none", "answered", "failed", "unconnected"}
           /\ pc # "host" => end = "answered"
Inv == /\ Control
       /\ got \in Values /\ ret \in Int
       /\ Sent
       /\ Fresh \/ Served
       /\ pc \in {"connect", "sent"} => Fresh
       /\ pc = "served" \/ Answered => Served
       /\ Answered => Received
       /\ pc = "host" /\ end = "failed" => Failed

-----------------------------------------------------------------------------
(* Lists of values, and what crosses the socket of them. *)
Rec == [tag : {H, I, U, S, "null", "unset"}, at : 0..6, n : Nat \cup {NULL}]

LEMMA SeqOfRec ==
    ASSUME NEW l \in Nat, NEW vs \in [1..l -> Rec]
    PROVE  vs \in Values /\ Len(vs) = l /\ DOMAIN vs = 1..l
<1>1. vs \in Seq(Rec)
  BY SeqDef
<1>2. DOMAIN vs = 1..l /\ Len(vs) \in Nat /\ DOMAIN vs = 1..Len(vs)
  BY <1>1, LenProperties
<1> QED
  BY <1>1, <1>2 DEF Values, Rec

LEMMA ListFacts ==
    ASSUME NEW l, NEW tags, List(tags, l)
    PROVE  /\ l \in 0..6 /\ l \in Nat
           /\ DOMAIN tags = 1..l
           /\ Len(tags) = l
           /\ \A i \in 1..l : tags[i] \in Tags
  BY LenProperties, ElementOfSeq DEF List

LEMMA TypedFields ==
    ASSUME NEW l, NEW tags, List(tags, l), NEW vs, Typed(vs, tags)
    PROVE  /\ DOMAIN vs = 1..l
           /\ \A i \in 1..l : /\ vs[i].tag = tags[i] /\ vs[i].at = i
                              /\ vs[i] = Value(tags[i], i, vs[i].n)
                              /\ vs[i].n \in Nat \cup {NULL}
<1>1. DOMAIN tags = 1..l
  BY ListFacts
<1>2. \A i \in 1..l : vs[i] = Value(tags[i], i, vs[i].n)
  BY <1>1 DEF Typed
<1> QED
  BY <1>1, <1>2 DEF Typed, Value

LEMMA TypedValues ==
    ASSUME NEW l, NEW tags, List(tags, l), NEW vs, Typed(vs, tags)
    PROVE  /\ vs \in Values /\ Len(vs) = l
           /\ EncodeAll(vs) \in Values /\ Len(EncodeAll(vs)) = l
<1>1. /\ l \in 0..6
      /\ DOMAIN tags = 1..l
      /\ \A i \in 1..l : tags[i] \in Tags
  BY ListFacts
<1>2. \A i \in 1..l : vs[i] \in Rec /\ Encode(vs[i]) \in Rec
  <2> TAKE i \in 1..l
  <2>1. i \in 0..6 /\ tags[i] \in {H, I, U, S}
    BY <1>1 DEF Tags
  <2>2. vs[i] = Value(tags[i], i, vs[i].n) /\ vs[i].n \in Nat \cup {NULL}
    BY TypedFields
  <2>3. vs[i] \in Rec
    BY <2>1, <2>2 DEF Value, Rec
  <2>4. Value("null", vs[i].at, NULL) \in Rec
    BY <2>1, <2>2 DEF Value, Rec
  <2> QED
    BY <2>3, <2>4 DEF Encode
<1>3. vs \in [1..l -> Rec]
  BY <1>1, <1>2 DEF Typed
<1>4. EncodeAll(vs) \in [1..l -> Rec]
  BY <1>1, <1>2, <1>3 DEF EncodeAll
<1> QED
  BY <1>1, <1>3, <1>4, SeqOfRec

(* A value arrives as it was sent, unless it is a string over the limit. *)
LEMMA Crossing ==
    ASSUME NEW l, NEW tags, List(tags, l), NEW vs, Typed(vs, tags), NEW i \in 1..l
    PROVE  /\ EncodeAll(vs)[i] = Encode(vs[i])
           /\ Decodes(EncodeAll(vs)[i], tags[i]) <=>
                (tags[i] = S => vs[i].n <= MAX_STRING_LEN)
           /\ DecodeV(EncodeAll(vs)[i]) = vs[i]
           /\ EncodeAll(vs)[i].tag = "null" => tags[i] = S /\ vs[i].n = NULL
           /\ EncodeAll(vs)[i].tag # "null" =>
                /\ EncodeAll(vs)[i] = vs[i]
                /\ tags[i] = S => vs[i].n \in Nat
<1>1. EncodeAll(vs)[i] = Encode(vs[i])
  BY TypedFields DEF EncodeAll
<1>2. tags[i] \in Tags
  BY ListFacts
<1>3. vs[i] = Value(tags[i], i, vs[i].n) /\ vs[i].n \in Nat \cup {NULL}
  BY TypedFields
<1>4. CASE tags[i] = S /\ vs[i].n = NULL
  <2>1. Encode(vs[i]) = Value("null", i, NULL)
    BY <1>3, <1>4 DEF Encode, Value, S
  <2>2. DecodeV(Encode(vs[i])) = vs[i]
    BY <1>3, <1>4, <2>1 DEF DecodeV, Value
  <2>3. Decodes(Encode(vs[i]), tags[i])
    BY <1>4, <2>1 DEF Decodes, Value
  <2> QED
    BY <1>1, <1>4, <2>1, <2>2, <2>3 DEF NULL, MAX_STRING_LEN, Value
<1>5. CASE ~(tags[i] = S /\ vs[i].n = NULL)
  <2>1. Encode(vs[i]) = vs[i] /\ vs[i].tag = tags[i]
    BY <1>3, <1>5 DEF Encode, Value
  <2>2. vs[i].tag # "null"
    BY <1>2, <2>1 DEF Tags, H, I, U, S
  <2>3. Decodes(vs[i], tags[i]) <=> (tags[i] = S => vs[i].n <= MAX_STRING_LEN)
    BY <2>1, <2>2 DEF Decodes
  <2> QED
    BY <1>1, <1>3, <1>5, <2>1, <2>2, <2>3 DEF DecodeV
<1> QED
  BY <1>4, <1>5

LEMMA NothingSent == EncodeAll(<<>>) = <<>> /\ <<>> \in Values
<1>1. DOMAIN (<<>>) = {} /\ <<>> \in Values
  BY EmptySeq DEF Values
<1> QED
  BY <1>1 DEF EncodeAll

(* The lists of a function. *)
LEMMA FunctionLists ==
    ASSUME NEW f \in Function
    PROVE  /\ Bridge[f].takes = Shim[f].sends
           /\ Bridge[f].replies = Shim[f].reads
           /\ \E l \in 0..6 : List(Shim[f].sends, l)
           /\ \E l \in 0..3 : List(Shim[f].reads, l)
  BY ListsAgree DEF Agree

LEMMA OutsTyped ==
    ASSUME NEW f \in Function, NEW given, NEW r \in {0, 1, 7}, NEW o \in Outs(f, given, r)
    PROVE  /\ Typed(o, Bridge[f].replies)
           /\ \A i \in DOMAIN o : o[i].tag = H => o[i].n = r
           /\ f = "eciGetVoiceName" => \A i \in DOMAIN o : o[i].n <= 30
           /\ f = "eciGeneratePhonemes" => \A i \in DOMAIN o : o[i].n < given[2].n
<1> DEFINE tags == Bridge[f].replies
<1> HIDE DEF tags
<1>1. PICK len \in [Positions(tags, S) -> EngineLen(f, given)] :
        o = [i \in DOMAIN tags |-> Value(tags[i], i,
              CASE tags[i] = H -> r [] tags[i] = S -> len[i] [] OTHER -> 0)]
  BY DEF Outs, tags
<1>2. \A i \in DOMAIN tags : tags[i] = S => len[i] \in EngineLen(f, given)
  BY DEF Positions
<1>3. EngineLen(f, given) \subseteq Nat \cup {NULL}
  BY StrLenAssumption DEF EngineLen, NULL
<1>4. f \in {"eciGetVoiceName", "eciGeneratePhonemes"} =>
        DOMAIN tags = 1..1 /\ tags[1] = S
  <2>1. f = "eciGetVoiceName" => Bridge[f] = BridgeVoice[f]
    BY DEF Bridge, Function, Lifecycle, Synthesis, ParamAudio, Voice, Dict, DictFind, DictA,
           Filter
  <2>2. f = "eciGetVoiceName" => BridgeVoice[f].replies = <<S>>
    BY DEF BridgeVoice, Voice, From
  <2>3. f = "eciGeneratePhonemes" => Bridge[f] = BridgeSynthesis[f]
    BY DEF Bridge, Function, Lifecycle, Synthesis, ParamAudio, Voice, Dict, DictFind, DictA,
           Filter
  <2>4. f = "eciGeneratePhonemes" => BridgeSynthesis[f].replies = <<S>>
    BY DEF BridgeSynthesis, Synthesis, From
  <2>5. DOMAIN (<<S>>) = 1..1 /\ (<<S>>)[1] = S
    BY Lists, ListFacts
  <2> QED
    BY <2>1, <2>2, <2>3, <2>4, <2>5 DEF tags
<1>5. \A i \in DOMAIN tags : /\ o[i] = Value(tags[i], i, o[i].n)
                             /\ o[i].n = CASE tags[i] = H -> r
                                           [] tags[i] = S -> len[i] [] OTHER -> 0
  BY <1>1 DEF Value
<1>6. Typed(o, tags)
  <2>1. \A i \in DOMAIN tags : o[i].n \in Nat \cup {NULL}
    BY <1>2, <1>3, <1>5 DEF H, S
  <2>2. o = [i \in DOMAIN tags |-> Value(tags[i], i, o[i].n)]
    BY <1>1, <1>5
  <2> QED
    BY <2>1, <2>2 DEF Typed
<1>7. \A i \in DOMAIN o : o[i].tag = H => o[i].n = r
  BY <1>1, <1>5 DEF Value, H, S
<1>8. f \in {"eciGetVoiceName", "eciGeneratePhonemes"} =>
        \A i \in DOMAIN o : o[i].n \in EngineLen(f, given)
  <2> SUFFICES ASSUME f \in {"eciGetVoiceName", "eciGeneratePhonemes"}, NEW i \in DOMAIN o
               PROVE  o[i].n \in EngineLen(f, given)
    OBVIOUS
  <2>1. DOMAIN o = DOMAIN tags
    BY <1>1
  <2>2. i = 1 /\ tags[i] = S /\ i \in DOMAIN tags
    BY <1>4, <2>1
  <2> QED
    BY <1>2, <1>5, <2>2 DEF H, S
<1>9. f = "eciGetVoiceName" => \A n \in EngineLen(f, given) : n <= 30
  BY DEF EngineLen
<1>10. f = "eciGeneratePhonemes" => \A n \in EngineLen(f, given) : n < given[2].n
  BY DEF EngineLen
<1> QED
  BY <1>6, <1>7, <1>8, <1>9, <1>10 DEF tags

LEMMA BlankTyped ==
    ASSUME NEW f \in Function, NEW junk \in {0, 1}
    PROVE  /\ Typed(Blank(f, junk), Bridge[f].replies)
           /\ f \notin {"eciDictLookup", "eciGetAvailableLanguages"} =>
                \A i \in DOMAIN Blank(f, junk) : Blank(f, junk)[i].n = 0
           /\ f = "eciDictLookup" => \A i \in DOMAIN Blank(f, junk) : Blank(f, junk)[i].n = NULL
<1> DEFINE tags == Bridge[f].replies
           n(i) == CASE f = "eciDictLookup" -> NULL
                     [] f = "eciGetAvailableLanguages" -> IF i = 1 THEN 64 ELSE junk
                     [] OTHER -> 0
<1>1. Blank(f, junk) = [i \in DOMAIN tags |-> Value(tags[i], i, n(i))]
  BY DEF Blank
<1>2. \A i : n(i) \in Nat \cup {NULL}
  BY DEF NULL
<1>3. /\ f \notin {"eciDictLookup", "eciGetAvailableLanguages"} => \A i : n(i) = 0
      /\ f = "eciDictLookup" => \A i : n(i) = NULL
  OBVIOUS
<1> HIDE DEF tags, n
<1>4. \A i \in DOMAIN tags : /\ Blank(f, junk)[i] = Value(tags[i], i, n(i))
                             /\ Blank(f, junk)[i].n = n(i)
  BY <1>1 DEF Value
<1>5. Typed(Blank(f, junk), tags)
  <2>1. Blank(f, junk) = [i \in DOMAIN tags |-> Value(tags[i], i, Blank(f, junk)[i].n)]
    BY <1>1, <1>4
  <2> QED
    BY <1>2, <1>4, <2>1 DEF Typed
<1> QED
  BY <1>1, <1>3, <1>4, <1>5 DEF tags

(* The size the host gives eciGeneratePhonemes. *)
LEMMA PhonemesSize ==
    ASSUME fn \in Function, Sent, fn = "eciGeneratePhonemes"
    PROVE  /\ DOMAIN args = 1..2
           /\ args[2] = Value(I, 2, args[2].n)
           /\ args[2].n \in Int
           /\ Sized(fn) = {2}
           /\ NoBuffer <=> args[2].n <= 0
<1>1. Shim[fn].sends = <<H, I>>
  BY ListsAgree DEF Agree
<1>2. List(<<H, I>>, 2) /\ (<<H, I>>)[2] = I /\ 2 \in 1..2
  BY Lists
<1>3. DOMAIN args = 1..2 /\ args[2] = Value(I, 2, args[2].n) /\ args[2].n \in Nat \cup {NULL}
  <2>1. Typed(args, <<H, I>>)
    BY <1>1 DEF Sent
  <2> QED
    BY <1>2, <2>1, TypedFields
<1>4. Sized(fn) = {2} /\ args[2].n \in Int
  BY <1>3 DEF Sized, NULL
<1> QED
  BY <1>3, <1>4 DEF NoBuffer

-----------------------------------------------------------------------------
(* The reader.  No reply has more than three values, so its positions are *)
(* written out.                                                            *)
LEMMA ReadPosExists ==
    ASSUME NEW tags, NEW items, Len(tags) \in 0..3
    PROVE  \E pos : pos = [i \in 0..Len(tags) |->
                             IF i = 0 THEN 1 ELSE NextPos(items, pos[i - 1], tags[i])]
<1>0. \A l \in 0..3 : \A i \in 0..l : i = 0 \/ (i \in 1..3 /\ i - 1 \in 0..l)
  OBVIOUS
<1> DEFINE a1 == NextPos(items, 1, tags[1])
           a2 == NextPos(items, a1, tags[2])
           a3 == NextPos(items, a2, tags[3])
           at(i) == IF i = 0 THEN 1 ELSE IF i = 1 THEN a1 ELSE IF i = 2 THEN a2 ELSE a3
           w == [i \in 0..Len(tags) |-> at(i)]
<1>1. \A i \in 1..3 : at(i) = NextPos(items, at(i - 1), tags[i])
  <2>1. at(1) = NextPos(items, at(0), tags[1])
    OBVIOUS
  <2>2. at(2) = NextPos(items, at(1), tags[2])
    OBVIOUS
  <2>3. at(3) = NextPos(items, at(2), tags[3])
    OBVIOUS
  <2> HIDE DEF at
  <2>4. at(1 - 1) = at(0) /\ at(2 - 1) = at(1) /\ at(3 - 1) = at(2)
    OBVIOUS
  <2>5. \A i \in 1..3 : i = 1 \/ i = 2 \/ i = 3
    OBVIOUS
  <2> QED
    BY <2>1, <2>2, <2>3, <2>4, <2>5
<1>2. at(0) = 1
  OBVIOUS
<1> HIDE DEF at
<1>3. \A i \in 0..Len(tags) : w[i] = IF i = 0 THEN 1 ELSE NextPos(items, w[i - 1], tags[i])
  <2> TAKE i \in 0..Len(tags)
  <2>1. i = 0 \/ (i \in 1..3 /\ i - 1 \in 0..Len(tags))
    BY <1>0
  <2>2. CASE i = 0
    BY <1>2, <2>2
  <2>3. CASE i # 0
    BY <1>1, <2>1, <2>3
  <2> QED
    BY <2>2, <2>3
<1>4. w = [i \in 0..Len(tags) |->
             IF i = 0 THEN 1 ELSE NextPos(items, w[i - 1], tags[i])]
  BY <1>3
<1> QED
  BY <1>4

LEMMA ReadPosSteps ==
    ASSUME NEW tags, NEW items, NEW l \in 0..3, Len(tags) = l
    PROVE  /\ ReadPos(tags, items)[0] = 1
           /\ \A i \in 1..l : ReadPos(tags, items)[i]
                                = NextPos(items, ReadPos(tags, items)[i - 1], tags[i])
<1> DEFINE pos == ReadPos(tags, items)
<1>1. pos = [i \in 0..Len(tags) |->
               IF i = 0 THEN 1 ELSE NextPos(items, pos[i - 1], tags[i])]
  BY ReadPosExists DEF ReadPos
<1> HIDE DEF pos
<1>2. 0 \in 0..Len(tags) /\ \A i \in 1..l : i \in 0..Len(tags) /\ i # 0
  OBVIOUS
<1>3. pos[0] = 1
  BY <1>1, <1>2
<1>4. \A i \in 1..l : pos[i] = NextPos(items, pos[i - 1], tags[i])
  BY <1>1, <1>2
<1> QED
  BY <1>3, <1>4 DEF pos

LEMMA ReadStarts ==
    ASSUME NEW tags, NEW items, NEW l \in 0..3, Len(tags) = l
    PROVE  ReadPos(tags, items)[1 - 1] = 1
<1>1. 1 - 1 = 0
  OBVIOUS
<1>2. ReadPos(tags, items)[0] = 1
  BY ReadPosSteps
<1> QED
  BY <1>1, <1>2

LEMMA LimitInt == MAX_STRING_LEN \in Nat /\ MAX_STRING_LEN >= 4096
  BY DEF MAX_STRING_LEN

LEMMA KeepsInt ==
    ASSUME fn \in Function, Sent, ~NoBuffer
    PROVE  Keeps \in Nat
<1>1. CASE fn = "eciGeneratePhonemes"
  <2>1. Keeps = args[2].n - 1
    BY <1>1 DEF Keeps, DictFind, DictA
  <2>2. args[2].n \in Int /\ ~(args[2].n <= 0)
    BY <1>1, PhonemesSize
  <2> QED
    BY <2>1, <2>2
<1>2. CASE fn # "eciGeneratePhonemes"
  BY <1>2 DEF Keeps, MAX_STRING_LEN
<1> QED
  BY <1>1, <1>2

LEMMA UnsetTag == Unset \in Rec /\ Unset.tag = "unset" /\ Unset.tag \notin Tags
  BY DEF Unset, Value, Rec, Tags, H, I, U, S

(* What is stored of a value. *)
LEMMA StoredRec ==
    ASSUME fn \in Function, Sent, NEW v \in Rec
    PROVE  Stored(v) \in Rec
<1>1. CASE v.tag \in {"null", "unset"} \/ NoBuffer
  BY <1>1, UnsetTag DEF Stored
<1>2. CASE ~(v.tag \in {"null", "unset"} \/ NoBuffer)
  <2>1. Stored(v) = Cut(v)
    BY <1>2 DEF Stored
  <2>2. Keeps \in Nat
    BY <1>2, KeepsInt
  <2> QED
    BY <2>1, <2>2 DEF Cut, Rec
<1> QED
  BY <1>1, <1>2

LEMMA StoredUnset == Stored(Unset) = Unset
  BY UnsetTag DEF Stored

(* What may be read at i, the reader being at pos. *)
At(tags, items, pos, i) == IF pos = InText THEN Scraps(tags[i])
                           ELSE IF Fits(items, pos, tags[i]) THEN {items[pos]}
                           ELSE {Unset}
LEMMA ReadsAre ==
    ASSUME NEW tags, NEW items, NEW vals \in Reads(tags, items)
    PROVE  \E w : /\ vals = [i \in DOMAIN tags |-> Stored(w[i])]
                  /\ \A i \in DOMAIN tags :
                       w[i] \in At(tags, items, ReadPos(tags, items)[i - 1], i)
  BY DEF Reads, At

LEMMA ReadValues ==
    ASSUME NEW l \in 0..3, NEW tags, List(tags, l), NEW items \in Values,
           NEW vals \in Reads(tags, items), fn \in Function, Sent
    PROVE  vals \in Values /\ DOMAIN vals = 1..l
<1>1. DOMAIN tags = 1..l /\ \A i \in 1..l : tags[i] \in Tags
  BY ListFacts
<1>2. items \in Seq(Rec) /\ DOMAIN items = 1..Len(items)
  BY LenProperties DEF Values, Rec
<1>3. \A p \in DOMAIN items : items[p] \in Rec
  BY <1>2, ElementOfSeq
<1>4. \A i \in 1..l : Scraps(tags[i]) \subseteq Rec
  BY <1>1, UnsetTag, StrLenAssumption DEF Scraps, Value, Rec, Tags
<1>5. \A i \in 1..l : \A p : At(tags, items, p, i) \subseteq Rec
  BY <1>3, <1>4, UnsetTag DEF At, Fits
<1>6. PICK w : /\ vals = [i \in DOMAIN tags |-> Stored(w[i])]
               /\ \A i \in DOMAIN tags : w[i] \in At(tags, items, ReadPos(tags, items)[i - 1], i)
  BY ReadsAre
<1>7. \A i \in 1..l : w[i] \in Rec
  BY <1>1, <1>5, <1>6
<1>8. \A i \in 1..l : Stored(w[i]) \in Rec
  BY <1>7, StoredRec
<1>9. vals \in [1..l -> Rec]
  BY <1>1, <1>6, <1>8
<1> QED
  BY <1>9, SeqOfRec

(* What is read first from an empty reply. *)
LEMMA ReadNothing ==
    ASSUME NEW l \in 1..3, NEW tags, List(tags, l), NEW vals \in Reads(tags, <<>>)
    PROVE  vals[1] = Unset
<1>1. DOMAIN tags = 1..l /\ Len(tags) = l /\ 1 \in 1..l /\ l \in 0..3
  BY ListFacts
<1>2. PICK w : /\ vals = [i \in DOMAIN tags |-> Stored(w[i])]
               /\ \A i \in DOMAIN tags : w[i] \in At(tags, <<>>, ReadPos(tags, <<>>)[i - 1], i)
  BY ReadsAre
<1>3. w[1] \in At(tags, <<>>, 1, 1)
  BY <1>1, <1>2, ReadStarts
<1>4. w[1] = Unset
  BY <1>3 DEF At, Fits, InText
<1> QED
  BY <1>1, <1>2, <1>4, StoredUnset

(* The values of a reply, read back: each is in its place, or nothing is *)
(* stored of one over the limit or NULL; until one was over the limit.   *)
LEMMA ReadBack ==
    ASSUME NEW l \in 0..3, NEW tags, List(tags, l), NEW o, Typed(o, tags),
           NEW vals \in Reads(tags, EncodeAll(o)), NEW i \in 1..l
    PROVE  \/ \E j \in 1..(i - 1) : tags[j] = S /\ o[j].n > MAX_STRING_LEN
           \/ /\ vals[i] = Unset
              /\ NoBuffer \/ (tags[i] = S /\ o[i].n \notin 0..MAX_STRING_LEN)
           \/ /\ vals[i] = Cut(o[i])
              /\ ~NoBuffer
              /\ tags[i] = S => o[i].n \in 0..MAX_STRING_LEN
<1>0. i = 1 \/ (i = 2 /\ 1 \in 1..l) \/ (i = 3 /\ 2 \in 1..l)
  OBVIOUS
<1> DEFINE items == EncodeAll(o)
           at == ReadPos(tags, items)
           Over(k) == \E j \in 1..k : tags[j] = S /\ o[j].n > MAX_STRING_LEN
           P(k) == at[k] = k + 1 \/ Over(k)
<1>1. DOMAIN tags = 1..l /\ Len(tags) = l /\ Len(items) = l /\ l \in Nat
  BY ListFacts, TypedValues
<1>2. at[0] = 1 /\ \A k \in 1..l : at[k] = NextPos(items, at[k - 1], tags[k])
  BY <1>1, ReadPosSteps
<1>3. \A k \in 1..l : /\ Decodes(items[k], tags[k]) <=> (tags[k] = S => o[k].n <= MAX_STRING_LEN)
                      /\ items[k].tag = "null" => tags[k] = S /\ o[k].n = NULL
                      /\ items[k].tag # "null" => /\ items[k] = o[k]
                                                  /\ tags[k] = S => o[k].n \in Nat
  BY Crossing
<1>4. \A k \in 1..l : /\ o[k].tag = tags[k]
                      /\ o[k].n \in Int
                      /\ o[k].tag \in Tags
  BY TypedFields, ListFacts DEF NULL
<1>5. DOMAIN items = 1..l
  BY <1>1, TypedValues, LenProperties DEF Values
<1>6. PICK w : /\ vals = [k \in DOMAIN tags |-> Stored(w[k])]
               /\ \A k \in DOMAIN tags : w[k] \in At(tags, items, at[k - 1], k)
  BY ReadsAre
<1> HIDE DEF items, at
<1>7. \A k \in 1..l : P(k - 1) => P(k)
  <2> SUFFICES ASSUME NEW k \in 1..l, P(k - 1)
               PROVE  P(k)
    OBVIOUS
  <2>1. k \in Nat /\ k <= l /\ k - 1 + 1 = k /\ k \in 1..k
    OBVIOUS
  <2>2. CASE at[k - 1] = k /\ Decodes(items[k], tags[k])
    BY <1>2, <1>5, <2>1, <2>2 DEF NextPos, Fits
  <2>3. CASE at[k - 1] = k /\ ~Decodes(items[k], tags[k])
    <3>1. tags[k] = S /\ ~(o[k].n <= MAX_STRING_LEN) /\ o[k].n \in Int
      BY <1>3, <1>4, <2>3
    <3>2. tags[k] = S /\ o[k].n > MAX_STRING_LEN
      BY <3>1, LimitInt
    <3> QED
      BY <2>1, <3>2
  <2>4. CASE Over(k - 1)
    <3>1. \A j \in 1..(k - 1) : j \in 1..k
      OBVIOUS
    <3> QED
      BY <2>4, <3>1
  <2> QED
    BY <2>1, <2>2, <2>3, <2>4
<1>8. P(i - 1)
  <2>1. P(0)
    <3>1. 0 + 1 = 1
      OBVIOUS
    <3> QED
      BY <1>2, <3>1
  <2> HIDE DEF P
  <2>2. 1 - 1 = 0 /\ 2 - 1 = 1 /\ 3 - 1 = 2
    OBVIOUS
  <2>3. (1 \in 1..l => P(1)) /\ (2 \in 1..l => 1 \in 1..l)
    BY <1>7, <2>1, <2>2
  <2>4. 2 \in 1..l => P(2)
    BY <1>7, <2>2, <2>3
  <2> QED
    BY <1>0, <2>1, <2>2, <2>3, <2>4
<1>9. CASE at[i - 1] = i
  <2>1. w[i] \in At(tags, items, i, i) /\ i # InText /\ i \in DOMAIN items
    BY <1>1, <1>5, <1>6, <1>9 DEF InText
  <2>2. vals[i] = Stored(w[i])
    BY <1>1, <1>6
  <2>3. CASE ~Decodes(items[i], tags[i])
    <3>1. w[i] = Unset
      BY <2>1, <2>3 DEF At, Fits
    <3>2. tags[i] = S /\ o[i].n \notin 0..MAX_STRING_LEN
      BY <1>3, <2>3, LimitInt
    <3> QED
      BY <2>2, <3>1, <3>2, StoredUnset
  <2>4. CASE Decodes(items[i], tags[i])
    <3>1. w[i] = items[i]
      BY <2>1, <2>4 DEF At, Fits
    <3>2. CASE items[i].tag = "null"
      <4>1. tags[i] = S /\ o[i].n = NULL
        BY <1>3, <3>2
      <4>2. tags[i] = S /\ o[i].n \notin 0..MAX_STRING_LEN
        BY <4>1 DEF NULL
      <4>3. vals[i] = Unset
        BY <2>2, <3>1, <3>2 DEF Stored
      <4> QED
        BY <4>2, <4>3
    <3>3. CASE items[i].tag # "null"
      <4>1. items[i] = o[i] /\ o[i].tag \notin {"null", "unset"}
        BY <1>3, <1>4, <3>3 DEF Tags, H, I, U, S
      <4>2. vals[i] = IF NoBuffer THEN Unset ELSE Cut(o[i])
        BY <2>2, <3>1, <4>1 DEF Stored
      <4>3. tags[i] = S => o[i].n \in 0..MAX_STRING_LEN
        <5>1. tags[i] = S => o[i].n \in Nat /\ o[i].n <= MAX_STRING_LEN
          BY <1>3, <2>4, <3>3
        <5> QED
          BY <5>1, LimitInt
      <4> QED
        BY <4>2, <4>3
    <3> QED
      BY <3>2, <3>3
  <2> QED
    BY <2>3, <2>4
<1>10. i - 1 + 1 = i
  OBVIOUS
<1> QED
  BY <1>8, <1>9, <1>10

-----------------------------------------------------------------------------
(* The inductive invariant holds of every reachable state. *)
AnswerTyped == /\ resp.retval \in Int /\ resp.error \in {0, 1} /\ resp.items \in Values
               /\ outs \in Values
               /\ done.args \in Values /\ done.result \in Int

LEMMA PhonemesLimits ==
    MAX_PHONEMES \in Nat /\ OWN_PHONEMES \in Nat /\ OWN_PHONEMES < MAX_PHONEMES
  BY DEF MAX_PHONEMES, OWN_PHONEMES

(* What is passed to the engine is what the host gave, but for a size. *)
LEMMA PassedValues ==
    ASSUME fn \in Function, Sent
    PROVE  /\ DOMAIN Passed(args) = DOMAIN args
           /\ Passed(args) \in Values
           /\ \A i \in DOMAIN args :
                \/ Passed(args)[i] = args[i]
                \/ /\ fn = "eciGeneratePhonemes" /\ i = 2
                   /\ args[i].n \notin 1..MAX_PHONEMES
                   /\ Passed(args)[i] = Value(I, i, OWN_PHONEMES)
<1>1. PICK l \in 0..6 : List(Shim[fn].sends, l)
  BY FunctionLists
<1>2. DOMAIN args = 1..l /\ args \in Values /\ l \in Nat
  BY <1>1, TypedFields, TypedValues DEF Sent
<1>3. args \in Seq(Rec)
  BY <1>2 DEF Values, Rec
<1>4. \A i \in 1..l : args[i] \in Rec
  BY <1>2, <1>3, ElementOfSeq
<1>5. DOMAIN Passed(args) = 1..l
  BY <1>2 DEF Passed
<1>6. \A i \in 1..l :
        \/ Passed(args)[i] = args[i]
        \/ /\ fn = "eciGeneratePhonemes" /\ i = 2
           /\ args[i].n \notin 1..MAX_PHONEMES
           /\ Passed(args)[i] = Value(I, i, OWN_PHONEMES)
  <2> TAKE i \in 1..l
  <2>1. CASE i \in Sized(fn) /\ args[i].n \notin 1..MAX_PHONEMES
    <3>1. fn = "eciGeneratePhonemes" /\ i = 2
      BY <2>1 DEF Sized
    <3>2. args[i] = Value(I, i, args[i].n)
      BY <3>1, PhonemesSize
    <3>3. [args[i] EXCEPT !.n = OWN_PHONEMES] = Value(I, i, OWN_PHONEMES)
      BY <3>2 DEF Value
    <3>4. Passed(args)[i] = Value(I, i, OWN_PHONEMES)
      BY <1>2, <2>1, <3>3 DEF Passed, BufferSize
    <3> QED
      BY <2>1, <3>1, <3>4
  <2>2. CASE ~(i \in Sized(fn) /\ args[i].n \notin 1..MAX_PHONEMES)
    BY <1>2, <2>2 DEF Passed, BufferSize
  <2> QED
    BY <2>1, <2>2
<1>7. Value(I, 2, OWN_PHONEMES) \in Rec
  BY PhonemesLimits DEF Value, Rec
<1>8. Passed(args) \in [1..l -> Rec]
  <2>1. \A i \in 1..l : Passed(args)[i] \in Rec
    BY <1>4, <1>6, <1>7
  <2> QED
    BY <1>5, <2>1 DEF Passed
<1> QED
  BY <1>2, <1>5, <1>6, <1>8, SeqOfRec

(* Whatever stage the call is in, what the bridge and the engine hold of it *)
(* has its type.                                                            *)
LEMMA AnswerTypes ==
    ASSUME fn \in Function, Sent, Fresh \/ Served
    PROVE  AnswerTyped
<1>1. <<>> \in Values /\ EncodeAll(<<>>) = <<>>
  BY NothingSent
<1>2. args \in Values
  BY FunctionLists, TypedValues DEF Sent
<1>3. PICK l \in 0..3 : List(Bridge[fn].replies, l)
  BY FunctionLists
<1>4. CASE Uncalled
  <2>1. outs \in Values /\ done.args \in Values /\ done.result \in Int
    BY <1>1, <1>4 DEF Uncalled, NotDone, NULL
  <2>2. CASE Fresh
    BY <1>1, <2>1, <2>2 DEF Fresh, NoResp, AnswerTyped
  <2>3. CASE Turned
    BY <1>1, <2>1, <2>3 DEF Turned, Response, AnswerTyped
  <2>4. CASE Skipped
    <3>1. \A junk \in {0, 1} : EncodeAll(Blank(fn, junk)) \in Values
      BY <1>3, BlankTyped, TypedValues
    <3>2. Bridge[fn].otherwise \in Int
      BY ListsAgree DEF Agree, Refused
    <3> QED
      BY <2>1, <2>4, <3>1, <3>2 DEF Skipped, Response, AnswerTyped
  <2>5. CASE Called
    <3>1. PICK r \in {0, 1, 7} : Made(r)
      BY <2>5 DEF Called
    <3> QED
      BY <1>4, <3>1 DEF Made, Uncalled, NotDone, NULL
  <2> QED
    BY <2>2, <2>3, <2>4, <2>5 DEF Served
<1>5. CASE Called
  <2>1. PICK r \in {0, 1, 7} : Made(r)
    BY <1>5 DEF Called
  <2>2. outs \in Values /\ EncodeAll(outs) \in Values
    BY <1>3, <2>1, TypedValues DEF Made
  <2>3. done.args \in Values /\ done.result \in Int
    BY <1>2, <2>1, PassedValues DEF Made
  <2>4. \E rv \in Int, e \in {0, 1}, items \in Values :
          resp = [retval |-> rv, error |-> e, items |-> items]
    BY <1>1, <2>1, <2>2 DEF Made, Response
  <2> QED
    BY <2>2, <2>3, <2>4 DEF AnswerTyped
<1> QED
  BY <1>4, <1>5 DEF Fresh, Served, Turned, Skipped

(* What a call returns is an integer. *)
LEMMA ReturnedInt ==
    ASSUME fn \in Function, NEW rv \in Int, NEW vals,
           \A i \in DOMAIN Shim[fn].reads : vals[i].n \in Int
    PROVE  Returned(rv, vals) \in Int
<1>1. Shim[fn].returns \in {"handle", "lookup"} => 1 \in DOMAIN Shim[fn].reads
  <2>1. 1 \in DOMAIN <<H>> /\ 1 \in DOMAIN <<S>>
    BY Lists, ListFacts
  <2> QED
    BY <2>1, ListsAgree DEF Agree
<1>2. Shim[fn].returns \in {"handle", "lookup"} => vals[1].n \in Int
  BY <1>1
<1> QED
  BY <1>2 DEF Returned, NULL

LEMMA NothingInts == \A i \in DOMAIN Shim[fn].reads : Nothing[i] = Unset /\ Nothing[i].n \in Int
  BY DEF Nothing, Unset, Value

LEMMA InitInv == Init => Inv
<1> SUFFICES ASSUME Init PROVE Inv
  OBVIOUS
<1>1. fn = "eciNew" /\ fn \in Function
  BY DEF Init, Function, Lifecycle
<1>2. Control
  BY <1>1 DEF Init, Control
<1>3. Sent
  <2>1. Shim[fn].sends = <<>>
    <3>1. Shim[fn] = ShimLifecycle[fn]
      BY <1>1 DEF Shim, Function, Lifecycle, Synthesis, ParamAudio, Voice, Dict, DictFind,
                  DictA, Filter
    <3>2. ShimLifecycle[fn] = To(<<>>, "handle", <<H>>)
      BY <1>1 DEF ShimLifecycle, Lifecycle
    <3> QED
      BY <3>1, <3>2 DEF To
  <2>2. DOMAIN (<<>>) = {}
    OBVIOUS
  <2>3. args = <<>>
    BY DEF Init
  <2> QED
    BY <2>1, <2>2, <2>3 DEF Sent, Typed
<1>4. Fresh
  BY DEF Init, Fresh, Uncalled
<1>5. got \in Values /\ ret \in Int
  BY NothingSent DEF Init
<1> QED
  BY <1>2, <1>3, <1>4, <1>5 DEF Init, Inv, Answered

LEMMA EnterInv ==
    ASSUME Inv, NEW f \in Function, Enter(f)
    PROVE  Inv'
<1>1. Control'
  BY DEF Control, Inv, Enter
<1>2. Sent'
  <2> DEFINE sends == Shim[f].sends
  <2>1. fn' = f
    BY DEF Enter
  <2> HIDE DEF sends
  <2>2. PICK named \in [Positions(sends, H) -> {0, 1}],
             len \in [Positions(sends, S) \cup Sized(f) -> StrLen \cup {NULL}] :
          args' = [i \in DOMAIN sends |-> Value(sends[i], i,
                     IF sends[i] = H THEN named[i] ELSE IF i \in DOMAIN len THEN len[i] ELSE 0)]
    BY DEF Enter, sends
  <2>3. \A i \in DOMAIN sends : /\ sends[i] = H => named[i] \in {0, 1}
                                /\ i \in DOMAIN len => len[i] \in Nat \cup {NULL}
    BY StrLenAssumption DEF Positions
  <2>4. \A i \in DOMAIN sends :
          /\ args'[i] = Value(sends[i], i, args'[i].n)
          /\ args'[i].n = IF sends[i] = H THEN named[i]
                          ELSE IF i \in DOMAIN len THEN len[i] ELSE 0
    BY <2>2 DEF Value
  <2>5. \A i \in DOMAIN sends : args'[i].n \in Nat \cup {NULL}
    BY <2>3, <2>4
  <2>6. args' = [i \in DOMAIN sends |-> Value(sends[i], i, args'[i].n)]
    BY <2>2, <2>4
  <2>7. Typed(args', sends)
    BY <2>5, <2>6 DEF Typed
  <2> QED
    BY <2>1, <2>7 DEF Sent, Typed, sends
<1>3. Fresh'
  BY DEF Enter, Fresh, Uncalled, NoResp, NotDone
<1>4. (got \in Values)' /\ (ret \in Int)'
  BY NothingSent DEF Enter, Values
<1> QED
  BY <1>1, <1>2, <1>3, <1>4 DEF Enter, Inv, Answered

(* A step of the connection keeps the call and its answer. *)
Kept == UNCHANGED <<fn, args, resp, done, outs>>
LEMMA KeptAnswer ==
    ASSUME Kept
    PROVE  /\ (fn \in Function)' <=> fn \in Function
           /\ Sent' <=> Sent
           /\ Fresh' <=> Fresh
           /\ Served' <=> Served
  BY DEF Kept, Sent, Typed, Fresh, Served, Turned, Skipped, Called, Made, Uncalled, Unready,
         Response, Blank, Encode, EncodeAll, Value, NotDone, NoResp, Passed, Sized, BufferSize

LEMMA ConnectionInv ==
    ASSUME Inv, Unconnected \/ Send \/ Lose \/ Fail
    PROVE  Inv'
<1>1. Kept /\ got' = got /\ pc # "host" /\ end = "answered"
  BY DEF Inv, Control, Unconnected, Send, Lose, Fail, Kept
<1>2. Sent' /\ (Fresh \/ Served)' /\ (Fresh' <=> Fresh) /\ (Served' <=> Served)
  BY <1>1, KeptAnswer DEF Inv
<1>3. (got \in Values)'
  BY <1>1 DEF Inv, Values
<1>4. \A rv \in Int : Returned(rv, Nothing) \in Int
  BY ReturnedInt, NothingInts DEF Inv, Control
<1>5. CASE Unconnected
  <2>1. (ret \in Int)'
    BY <1>4, <1>5 DEF Unconnected
  <2> QED
    BY <1>2, <1>3, <1>5, <2>1 DEF Unconnected, Inv, Control, Answered
<1>6. CASE Send \/ Lose
  BY <1>1, <1>2, <1>3, <1>6 DEF Send, Lose, Inv, Control, Answered
<1>7. CASE Fail
  <2>1. (ret \in Int)'
    BY <1>4, <1>7 DEF Fail
  <2>2. Failed'
    BY <1>1, <1>7 DEF Fail, Failed, Returned, Nothing, Kept, Unset, Value
  <2> QED
    BY <1>2, <1>3, <1>7, <2>1, <2>2 DEF Fail, Inv, Control, Answered
<1> QED
  BY <1>5, <1>6, <1>7

(* A request that is not decoded, or whose function is not called, had a *)
(* reason in the host's parameters.                                      *)
LEMMA NotCalled ==
    ASSUME fn \in Function, Sent,
           ~(Decoded(Bridge[fn], EncodeAll(args)) /\ Callable(Bridge[fn], args))
    PROVE  Unready
<1>1. PICK l \in 0..6 : List(Shim[fn].sends, l)
  BY FunctionLists
<1> DEFINE tags == Shim[fn].sends
<1>2. Bridge[fn].takes = tags /\ Typed(args, tags)
  BY FunctionLists DEF Sent
<1>3. DOMAIN tags = 1..l /\ DOMAIN args = 1..l /\ Len(EncodeAll(args)) = l /\ l \in Nat
  BY <1>1, <1>2, ListFacts, TypedFields, TypedValues
<1>4. \A i \in 1..l : args[i].tag = tags[i] /\ args[i].n \in Int
  BY <1>1, <1>2, TypedFields DEF NULL
<1>5. CASE ~Decoded(Bridge[fn], EncodeAll(args))
  <2>1. PICK i \in 1..l : ~Decodes(EncodeAll(args)[i], tags[i])
    BY <1>2, <1>3, <1>5 DEF Decoded
  <2>2. tags[i] = S /\ ~(args[i].n <= MAX_STRING_LEN)
    BY <1>1, <1>2, <2>1, Crossing
  <2>3. args[i].n > MAX_STRING_LEN
    BY <1>4, <2>2, LimitInt
  <2> QED
    BY <1>3, <1>4, <2>2, <2>3 DEF Unready
<1>6. CASE ~Callable(Bridge[fn], args)
  <2>1. CASE fn \in Missing
    BY <2>1 DEF Unready
  <2>2. CASE fn \notin Missing
    <3>1. PICK i \in 1..Bridge[fn].needs : args[i].n # 1
      BY <1>6, <2>2 DEF Callable
    <3>2. i \in 1..l /\ tags[i] = H
      <4>1. Bridge[fn].needs \in 0..Len(tags) /\ \A k \in 1..Bridge[fn].needs : tags[k] = H
        BY ListsAgree DEF Agree
      <4>2. Len(tags) = l
        BY <1>1, ListFacts
      <4> QED
        BY <1>3, <4>1, <4>2
    <3> QED
      BY <1>3, <1>4, <3>1, <3>2 DEF Unready
  <2> QED
    BY <2>1, <2>2
<1> QED
  BY <1>5, <1>6

(* What the bridge decodes are the host's parameters. *)
LEMMA DecodedArgs ==
    ASSUME fn \in Function, Sent
    PROVE  [i \in DOMAIN Bridge[fn].takes |-> DecodeV(EncodeAll(args)[i])] = args
<1>1. PICK l \in 0..6 : List(Shim[fn].sends, l)
  BY FunctionLists
<1> DEFINE tags == Shim[fn].sends
<1>2. Bridge[fn].takes = tags /\ Typed(args, tags)
  BY FunctionLists DEF Sent
<1>3. DOMAIN tags = 1..l
  BY <1>1, ListFacts
<1>4. \A i \in 1..l : DecodeV(EncodeAll(args)[i]) = args[i]
  BY <1>1, <1>2, Crossing
<1> HIDE DEF tags
<1>5. args = [i \in 1..l |-> args[i]]
  BY <1>2, <1>3 DEF Typed
<1> QED
  BY <1>2, <1>3, <1>4, <1>5

LEMMA ServeInv ==
    ASSUME Inv, Serve
    PROVE  Inv'
<1>1. fn \in Function /\ Sent /\ Fresh /\ end = "answered" /\ got \in Values /\ ret \in Int
  BY DEF Inv, Control, Serve
<1>2. fn' = fn /\ args' = args /\ ret' = ret /\ got' = got /\ end' = end
  BY DEF Serve
<1>3. Sent'
  BY <1>1, <1>2 DEF Sent, Typed
<1>4. ASSUME ServeRefused PROVE Served'
  <2>1. Unready
    BY <1>1, <1>4, NotCalled DEF ServeRefused
  <2>2. Uncalled' /\ Unready'
    BY <1>1, <1>2, <1>4, <2>1 DEF ServeRefused, Uncalled, Unready, Fresh, NotDone
  <2>3. Response(0, 1, <<>>)'
    BY <1>4 DEF ServeRefused, Respond, Response, Encode, EncodeAll
  <2> QED
    BY <2>2, <2>3 DEF Turned, Served
<1>5. ASSUME ServeSkipped PROVE Served'
  <2>1. Unready
    BY <1>1, <1>5, NotCalled DEF ServeSkipped
  <2>2. Uncalled' /\ Unready'
    BY <1>1, <1>2, <1>5, <2>1 DEF ServeSkipped, Uncalled, Unready, Fresh, NotDone
  <2>3. CASE Bridge[fn].otherwise = Refused
    <3>1. Response(0, 1, <<>>)'
      BY <1>5, <2>3 DEF ServeSkipped, Respond, Response, Encode, EncodeAll
    <3> QED
      BY <2>2, <3>1 DEF Turned, Served
  <2>4. CASE Bridge[fn].otherwise # Refused
    <3>1. PICK junk \in {0, 1} : Respond(Bridge[fn].otherwise, 0, Blank(fn, junk))
      BY <1>5, <2>4 DEF ServeSkipped
    <3>2. Response(Bridge[fn].otherwise, 0, Blank(fn, junk))'
      BY <1>2, <3>1 DEF Respond, Response, EncodeAll, Encode, Blank
    <3>3. Bridge[fn'].otherwise # Refused
      BY <1>2, <2>4
    <3> QED
      BY <2>2, <3>2, <3>3 DEF Skipped, Served
  <2> QED
    BY <2>3, <2>4
<1>6. ASSUME ServeCalled PROVE Served'
  <2> DEFINE given == Passed(args)
  <2>0. Passed([i \in DOMAIN Bridge[fn].takes |-> DecodeV(EncodeAll(args)[i])]) = given
    BY <1>1, DecodedArgs
  <2> HIDE DEF given
  <2>1. PICK r \in EngineResult(fn) : \E o \in Outs(fn, given, r) :
          /\ done' = [args |-> given, result |-> r]
          /\ outs' = o
          /\ CASE Bridge[fn].otherwise = Refused /\ Shim[fn].returns = "handle" /\ r = 0 ->
                    Respond(0, 1, <<>>)
               [] fn = "eciDictLookup" -> Respond(IF o[1].n = NULL THEN -1 ELSE 0, 0, o)
               [] OTHER -> Respond(r, 0, o)
    BY <1>6, <2>0 DEF ServeCalled
  <2>2. r \in {0, 1, 7}
    BY DEF EngineResult
  <2>3. outs' \in Outs(fn, given, r)
    BY <2>1
  <2>4. /\ Typed(outs', Bridge[fn].replies)
        /\ \A i \in DOMAIN outs' : outs'[i].tag = H => outs'[i].n = r
        /\ fn = "eciGetVoiceName" => \A i \in DOMAIN outs' : outs'[i].n <= 30
        /\ fn = "eciGeneratePhonemes" => \A i \in DOMAIN outs' : outs'[i].n < given[2].n
    BY <1>1, <2>2, <2>3, OutsTyped
  <2>5. done' = [args |-> given, result |-> r] /\ Passed(args)' = given
    BY <1>2, <2>1 DEF given, Passed, Sized, BufferSize
  <2>6. fn = "eciDictLookup" => Shim[fn].returns # "handle"
    BY <1>1, ListsAgree DEF Agree
  <2>7. CASE Bridge[fn].otherwise = Refused /\ Shim[fn].returns = "handle" /\ r = 0
    <3>1. Response(0, 1, <<>>)'
      BY <2>1, <2>6, <2>7 DEF Respond, Response, EncodeAll, Encode
    <3>2. Made(r)'
      BY <1>2, <2>4, <2>5, <2>7, <3>1 DEF Made, Typed
    <3> QED
      BY <2>2, <3>2 DEF Called, Served
  <2>8. CASE /\ ~(Bridge[fn].otherwise = Refused /\ Shim[fn].returns = "handle" /\ r = 0)
             /\ fn = "eciDictLookup"
    <3>1. Response(IF outs[1].n = NULL THEN -1 ELSE 0, 0, outs)'
      BY <2>1, <2>6, <2>8 DEF Respond, Response, EncodeAll, Encode
    <3>2. Made(r)'
      BY <1>2, <2>4, <2>5, <2>8, <3>1 DEF Made, Typed
    <3> QED
      BY <2>2, <3>2 DEF Called, Served
  <2>9. CASE /\ ~(Bridge[fn].otherwise = Refused /\ Shim[fn].returns = "handle" /\ r = 0)
             /\ fn # "eciDictLookup"
    <3>1. resp' = [retval |-> r, error |-> 0, items |-> EncodeAll(outs')]
      BY <2>1, <2>9 DEF Respond, EncodeAll, Encode
    <3>2. Made(r)'
      BY <1>2, <2>4, <2>5, <2>9, <3>1 DEF Made, Typed, Response, EncodeAll, Encode
    <3> QED
      BY <2>2, <3>2 DEF Called, Served
  <2> QED
    BY <2>7, <2>8, <2>9
<1>7. Served'
  BY <1>4, <1>5, <1>6 DEF Serve
<1>8. Control' /\ (got \in Values)' /\ (ret \in Int)'
  BY <1>1, <1>2 DEF Serve, Inv, Control, Values
<1> QED
  BY <1>3, <1>7, <1>8 DEF Serve, Inv, Answered

LEMMA ReceiveInv ==
    ASSUME Inv, Receive
    PROVE  Inv'
<1>1. Kept /\ fn \in Function /\ Served /\ end = "answered" /\ Sent
  BY DEF Inv, Control, Receive, Kept
<1>2. PICK vals \in Reads(Shim[fn].reads, resp.items) :
        /\ got' = vals
        /\ ret' = IF fn = "eciGetAvailableLanguages" /\ vals[1] = Unset THEN -1
                  ELSE Returned(resp.retval, vals)
  BY DEF Receive
<1>3. Sent' /\ Served'
  BY <1>1, KeptAnswer DEF Inv
<1>4. resp.retval \in Int /\ resp.items \in Values
  BY <1>1, AnswerTypes DEF Inv, AnswerTyped
<1>5. PICK l \in 0..3 : List(Shim[fn].reads, l)
  BY <1>1, FunctionLists
<1>6. vals \in Values /\ DOMAIN vals = 1..l /\ DOMAIN Shim[fn].reads = 1..l
  BY <1>1, <1>4, <1>5, ReadValues, ListFacts
<1>7. ret' \in Int
  <2>1. \A i \in 1..l : vals[i] \in Rec
    BY <1>6, LenProperties, ElementOfSeq DEF Values, Rec
  <2>2. \A i \in 1..l : vals[i].n \in Int
    BY <2>1 DEF Rec, NULL
  <2>3. Returned(resp.retval, vals) \in Int
    BY <1>1, <1>4, <1>6, <2>2, ReturnedInt
  <2> QED
    BY <1>2, <2>3
<1>8. Received'
  <2>1. Reads(Shim[fn].reads, resp.items)' = Reads(Shim[fn].reads, resp.items)
    BY <1>1 DEF Kept, Reads, Stored, Cut, Keeps, NoBuffer
  <2>2. (got \in Reads(Shim[fn].reads, resp.items))'
    BY <1>2, <2>1
  <2>3. Returned(resp.retval, got)' = Returned(resp.retval, vals)
    BY <1>1, <1>2 DEF Kept, Returned
  <2> QED
    BY <1>1, <1>2, <2>2, <2>3 DEF Received, Kept
<1>9. (got \in Values)'
  BY <1>2, <1>6 DEF Values
<1> QED
  BY <1>1, <1>3, <1>7, <1>8, <1>9 DEF Receive, Inv, Control, Answered

LEMMA NextInv == Inv /\ [Next]_vars => Inv'
<1> SUFFICES ASSUME Inv, [Next]_vars PROVE Inv'
  OBVIOUS
<1>1. ASSUME NEW f \in Function, Enter(f) PROVE Inv'
  BY <1>1, EnterInv
<1>2. CASE Unconnected \/ Send \/ Lose \/ Fail
  BY <1>2, ConnectionInv
<1>3. CASE Serve
  BY <1>3, ServeInv
<1>4. CASE Receive
  BY <1>4, ReceiveInv
<1>5. CASE UNCHANGED vars
  <2>1. Kept /\ pc' = pc /\ end' = end /\ ret' = ret /\ got' = got
    BY <1>5 DEF vars, Kept
  <2>2. (Sent' <=> Sent) /\ (Fresh' <=> Fresh) /\ (Served' <=> Served)
    BY <2>1, KeptAnswer
  <2>3. (Received' <=> Received) /\ (Failed' <=> Failed)
    BY <2>1 DEF Kept, Received, Failed, Returned, Nothing, Reads, Stored, Cut, Keeps, NoBuffer
  <2> QED
    BY <2>1, <2>2, <2>3 DEF Kept, Inv, Control, Answered, Values
<1> QED
  BY <1>1, <1>2, <1>3, <1>4, <1>5 DEF Next

(* Every reachable state satisfies the inductive invariant. *)
THEOREM RpcInv == Spec => []Inv
<1> QED
  BY InitInv, NextInv, PTL DEF Spec

-----------------------------------------------------------------------------
(* The properties follow from the invariant. *)
LEMMA InvTypes == Inv => TypeOK
<1> SUFFICES ASSUME Inv PROVE TypeOK
  OBVIOUS
<1>1. AnswerTyped
  BY AnswerTypes DEF Inv, Control
<1>2. args \in Values
  BY FunctionLists, TypedValues DEF Inv, Control, Sent
<1> QED
  BY <1>1, <1>2 DEF Inv, Control, AnswerTyped, TypeOK

(* Every variable has its type, whatever strings and engine there are. *)
THEOREM RpcTypes == Spec => []TypeOK
<1> QED
  BY RpcInv, InvTypes, PTL

LEMMA InvArguments == Inv => ArgumentsArrive
<1> DEFINE Arrived(i) == \/ done.args[i] = args[i]
                         \/ /\ fn = "eciGeneratePhonemes" /\ i = 2
                            /\ args[i].n \notin 1..MAX_PHONEMES
                            /\ done.args[i] = Value(I, i, OWN_PHONEMES)
<1> SUFFICES ASSUME Inv, Answered PROVE
          /\ /\ fn \notin Missing
             /\ \A i \in DOMAIN args : /\ args[i].tag = H => args[i].n = 1
                                       /\ args[i].tag = S => args[i].n <= MAX_STRING_LEN
             => done # NotDone
          /\ done # NotDone => /\ DOMAIN done.args = DOMAIN args
                               /\ \A i \in DOMAIN args : Arrived(i)
  BY DEF ArgumentsArrive
<1>1. Served
  BY DEF Inv
<1>2. CASE Called
  <2>1. PICK r \in {0, 1, 7} : Made(r)
    BY <1>2 DEF Called
  <2>2. done # NotDone /\ done.args = Passed(args)
    BY <2>1 DEF Made, NotDone, NULL
  <2>3. /\ DOMAIN Passed(args) = DOMAIN args
        /\ \A i \in DOMAIN args :
             \/ Passed(args)[i] = args[i]
             \/ /\ fn = "eciGeneratePhonemes" /\ i = 2
                /\ args[i].n \notin 1..MAX_PHONEMES
                /\ Passed(args)[i] = Value(I, i, OWN_PHONEMES)
    BY PassedValues DEF Inv, Control
  <2> QED
    BY <2>2, <2>3
<1>3. CASE Turned \/ Skipped
  <2>1. done = NotDone /\ Unready
    BY <1>3 DEF Turned, Skipped, Uncalled
  <2>2. ~(/\ fn \notin Missing
          /\ \A i \in DOMAIN args : /\ args[i].tag = H => args[i].n = 1
                                    /\ args[i].tag = S => args[i].n <= MAX_STRING_LEN)
    <3>1. CASE fn \in Missing
      BY <3>1
    <3>2. ASSUME NEW i \in DOMAIN args, args[i].tag = H, args[i].n # 1
          PROVE  FALSE \/ ~(\A k \in DOMAIN args : args[k].tag = H => args[k].n = 1)
      BY <3>2
    <3>3. ASSUME NEW i \in DOMAIN args, args[i].tag = S, args[i].n > MAX_STRING_LEN
          PROVE  ~(args[i].n <= MAX_STRING_LEN)
      <4>1. PICK l \in 0..6 : List(Shim[fn].sends, l)
        BY FunctionLists DEF Inv, Control
      <4>2. args[i].n \in Int
        BY <4>1, TypedFields DEF Inv, Sent, NULL
      <4> QED
        BY <3>3, <4>2, LimitInt
    <3> QED
      BY <2>1, <3>1, <3>2, <3>3 DEF Unready
  <2> QED
    BY <2>1, <2>2
<1> QED
  BY <1>1, <1>2, <1>3 DEF Served

(* A call whose handles name objects and whose strings are within the limit *)
(* reaches the engine, and the engine is called with the host's parameters, *)
(* but for a size of no use: for every function, and strings of any length. *)
THEOREM RpcArgumentsArrive == Spec => []ArgumentsArrive
<1> QED
  BY RpcInv, InvArguments, PTL

(* Of a string within the limits of the API, what is kept. *)
LEMMA CutKeeps ==
    ASSUME NEW v \in Rec,
           fn = "eciGetVoiceName" => v.n <= 30,
           fn = "eciGeneratePhonemes" => args[2].n \in Int /\ v.n < args[2].n,
           v.tag = S => v.n \in 0..MAX_STRING_LEN
    PROVE  /\ Cut(v).tag = v.tag /\ Cut(v).at = v.at
           /\ \/ Cut(v).n = v.n
              \/ fn # "eciGeneratePhonemes" /\ Cut(v).n \in 4095..(v.n - 1)
           /\ v.tag # S => Cut(v) = v
           /\ v.tag = S => Cut(v).n <= v.n
<1>1. CASE v.tag = S /\ v.n > Keeps
  <2>1. Cut(v) = [v EXCEPT !.n = Keeps]
    BY <1>1 DEF Cut
  <2>2. Cut(v).tag = v.tag /\ Cut(v).at = v.at /\ Cut(v).n = Keeps
    BY <2>1 DEF Rec
  <2>3. v.n \in Nat /\ v.n <= MAX_STRING_LEN
    BY <1>1, LimitInt
  <2>4. fn # "eciGetVoiceName"
    BY <1>1, <2>3 DEF Keeps
  <2>5. fn # "eciGeneratePhonemes"
    <3>1. fn = "eciGeneratePhonemes" => Keeps = args[2].n - 1
      BY DEF Keeps, DictFind, DictA
    <3>2. fn = "eciGeneratePhonemes" => ~(v.n > Keeps)
      BY <2>3, <3>1
    <3> QED
      BY <1>1, <3>2
  <2>6. Keeps \in Nat /\ Keeps >= 4095
    <3>1. Keeps \in {4095, MAX_STRING_LEN - 1, MAX_STRING_LEN}
      BY <2>4, <2>5 DEF Keeps
    <3> QED
      BY <3>1, LimitInt
  <2>7. Keeps \in 4095..(v.n - 1) /\ Keeps <= v.n
    BY <1>1, <2>3, <2>6
  <2> QED
    BY <1>1, <2>2, <2>5, <2>7
<1>2. CASE ~(v.tag = S /\ v.n > Keeps)
  <2>1. Cut(v) = v
    BY <1>2 DEF Cut
  <2>2. v.tag = S => v.n <= v.n
    BY LimitInt
  <2> QED
    BY <2>1, <2>2
<1> QED
  BY <1>1, <1>2

(* What the host's buffer has room for. *)
LEMMA PhonemesFit ==
    ASSUME fn \in Function, Sent, fn = "eciGeneratePhonemes", ~NoBuffer,
           NEW n \in Int, n < Passed(args)[2].n
    PROVE  args[2].n \in Int /\ n < args[2].n
<1>1. DOMAIN args = 1..2 /\ 2 \in 1..2 /\ args[2].n \in Int /\ ~(args[2].n <= 0)
  BY PhonemesSize
<1>2. CASE Passed(args)[2] = args[2]
  BY <1>1, <1>2
<1>3. CASE args[2].n \notin 1..MAX_PHONEMES /\ Passed(args)[2] = Value(I, 2, OWN_PHONEMES)
  <2>1. args[2].n > MAX_PHONEMES
    BY <1>1, <1>3, PhonemesLimits
  <2>2. n < OWN_PHONEMES
    BY <1>3 DEF Value
  <2> QED
    BY <1>1, <2>1, <2>2, PhonemesLimits
<1>4. \/ Passed(args)[2] = args[2]
      \/ args[2].n \notin 1..MAX_PHONEMES /\ Passed(args)[2] = Value(I, 2, OWN_PHONEMES)
  BY <1>1, PassedValues
<1> QED
  BY <1>2, <1>3, <1>4

LEMMA InvOutParams == Inv => OutParamsInPlace
<1> DEFINE Before(i) == \E j \in 1..(i - 1) : OverLimit(outs[j])
           Absent(i) == OverLimit(outs[i]) \/ outs[i].n = NULL \/ NoBuffer
           InPlace(i) == /\ got[i].tag = outs[i].tag
                         /\ got[i].at = i
                         /\ got[i].n = outs[i].n
                              \/ (fn # "eciGeneratePhonemes"
                                    /\ got[i].n \in 4095..(outs[i].n - 1))
                         /\ fn = "eciGeneratePhonemes" => got[i].n < args[2].n
<1> SUFFICES ASSUME Inv, Answered, done # NotDone, resp.error = 0, NEW i \in DOMAIN got
             PROVE  Before(i) \/ (IF got[i] = Unset THEN Absent(i) ELSE InPlace(i))
  BY DEF OutParamsInPlace
<1>1. Called /\ fn \in Function /\ Received /\ Sent
  BY DEF Inv, Control, Served, Turned, Skipped, Uncalled
<1>2. PICK r \in {0, 1, 7} : Made(r)
  BY <1>1 DEF Called
<1>3. resp.items = EncodeAll(outs)
  BY <1>2 DEF Made, Response
<1>4. PICK l \in 0..3 : List(Shim[fn].reads, l)
  BY <1>1, FunctionLists
<1> DEFINE tags == Shim[fn].reads
<1>5. Typed(outs, tags) /\ got \in Reads(tags, EncodeAll(outs))
  BY <1>1, <1>2, <1>3, FunctionLists DEF Made, Received
<1>6. DOMAIN outs = 1..l /\ EncodeAll(outs) \in Values /\ outs \in Values /\ DOMAIN got = 1..l
  <2>1. DOMAIN outs = 1..l
    BY <1>4, <1>5, TypedFields
  <2>2. EncodeAll(outs) \in Values /\ outs \in Values
    BY <1>4, <1>5, TypedValues
  <2> QED
    BY <1>1, <1>4, <1>5, <2>1, <2>2, ReadValues
<1> HIDE DEF tags
<1>7. i \in 1..l /\ l \in Nat /\ i - 1 <= l
  BY <1>6
<1>8. \A j \in 1..l : /\ outs[j].tag = tags[j] /\ outs[j].at = j /\ tags[j] \in Tags
                      /\ outs[j].n \in Nat \cup {NULL}
  BY <1>4, <1>5, TypedFields, ListFacts DEF tags
<1>9. outs[i] \in Rec
  <2>1. outs \in Seq(Rec)
    BY <1>6 DEF Values, Rec
  <2> QED
    BY <1>6, <1>7, <2>1, ElementOfSeq
<1>10. \/ \E j \in 1..(i - 1) : tags[j] = S /\ outs[j].n > MAX_STRING_LEN
       \/ /\ got[i] = Unset
          /\ NoBuffer \/ (tags[i] = S /\ outs[i].n \notin 0..MAX_STRING_LEN)
       \/ /\ got[i] = Cut(outs[i])
          /\ ~NoBuffer
          /\ tags[i] = S => outs[i].n \in 0..MAX_STRING_LEN
  BY <1>4, <1>5, <1>7, ReadBack DEF tags
<1>11. CASE \E j \in 1..(i - 1) : tags[j] = S /\ outs[j].n > MAX_STRING_LEN
  <2>1. \A j \in 1..(i - 1) : j \in 1..l
    BY <1>7
  <2>2. Before(i)
    BY <1>8, <1>11, <2>1 DEF OverLimit
  <2> QED
    BY <2>2
<1>12. CASE got[i] = Unset /\ (NoBuffer \/ (tags[i] = S /\ outs[i].n \notin 0..MAX_STRING_LEN))
  <2>1. CASE NoBuffer
    BY <1>12, <2>1
  <2>2. CASE tags[i] = S /\ outs[i].n \notin 0..MAX_STRING_LEN
    <3>1. outs[i].n = NULL \/ outs[i].n > MAX_STRING_LEN
      BY <1>7, <1>8, <2>2, LimitInt
    <3>2. Absent(i)
      BY <1>7, <1>8, <2>2, <3>1 DEF OverLimit
    <3> QED
      BY <1>12, <3>2
  <2> QED
    BY <1>12, <2>1, <2>2
<1>13. CASE /\ got[i] = Cut(outs[i]) /\ ~NoBuffer
            /\ tags[i] = S => outs[i].n \in 0..MAX_STRING_LEN
  <2>1. outs[i].n \in Int /\ i \in DOMAIN outs
    BY <1>6, <1>7, <1>8 DEF NULL
  <2>2. fn = "eciGeneratePhonemes" => args[2].n \in Int /\ outs[i].n < args[2].n
    <3>1. fn = "eciGeneratePhonemes" => outs[i].n < Passed(args)[2].n
      BY <1>2, <2>1 DEF Made
    <3> QED
      BY <1>1, <1>13, <2>1, <3>1, PhonemesFit
  <2>3. fn = "eciGetVoiceName" => outs[i].n <= 30
    BY <1>2, <2>1 DEF Made
  <2>4. outs[i].tag = S => outs[i].n \in 0..MAX_STRING_LEN
    BY <1>7, <1>8, <1>13
  <2>5. /\ Cut(outs[i]).tag = outs[i].tag /\ Cut(outs[i]).at = outs[i].at
        /\ \/ Cut(outs[i]).n = outs[i].n
           \/ fn # "eciGeneratePhonemes" /\ Cut(outs[i]).n \in 4095..(outs[i].n - 1)
    BY <1>9, <2>2, <2>3, <2>4, CutKeeps
  <2>6. InPlace(i)
    BY <1>7, <1>8, <1>13, <2>2, <2>5
  <2>7. got[i] # Unset
    BY <1>7, <1>8, <1>13, <2>5, UnsetTag
  <2> QED
    BY <2>6, <2>7
<1> QED
  BY <1>10, <1>11, <1>12, <1>13

(* What a call stores in an out parameter is the engine's value of that very *)
(* parameter, or its beginning, and one is only missing over the limit, NULL *)
(* or for want of a buffer, until a string over the limit has been passed:   *)
(* for strings and buffers of any length.                                    *)
THEOREM RpcOutParamsInPlace == Spec => []OutParamsInPlace
<1> QED
  BY RpcInv, InvOutParams, PTL

LEMMA InvSuccess == Inv => SuccessIsReal
<1> SUFFICES ASSUME Inv, pc = "host", end \in {"answered", "failed"}
             PROVE  /\ Shim[fn].returns \in {"bool", "handle"} /\ ret # 0 =>
                         Answered /\ done.result = ret
                    /\ Shim[fn].returns = "lookup" /\ ret # NULL =>
                         Answered /\ outs # <<>> /\ ret <= outs[1].n
  BY DEF SuccessIsReal
<1>1. /\ fn \in Function
      /\ fn = "eciGetAvailableLanguages" => Shim[fn].returns = "value"
      /\ Shim[fn].returns \in {"bool", "handle"} => Bridge[fn].otherwise \in {0, Refused}
      /\ Shim[fn].returns = "handle" => Shim[fn].reads = <<H>>
      /\ Shim[fn].returns = "lookup" => Shim[fn].reads = <<S>>
      /\ Shim[fn].returns = "lookup" <=> fn = "eciDictLookup"
  BY ListsAgree DEF Inv, Control, Agree
<1>2. PICK l \in 0..3 : List(Shim[fn].reads, l)
  BY <1>1, FunctionLists
<1>3. Shim[fn].returns \in {"handle", "lookup"} =>
        l = 1 /\ DOMAIN Shim[fn].reads = 1..1 /\ Shim[fn].reads[1] \in {H, S}
  <2>1. DOMAIN (<<H>>) = 1..1 /\ DOMAIN (<<S>>) = 1..1 /\ Len(<<H>>) = 1 /\ Len(<<S>>) = 1
    BY Lists, ListFacts
  <2>2. (<<H>>)[1] = H /\ (<<S>>)[1] = S
    OBVIOUS
  <2>3. Len(Shim[fn].reads) = l
    BY <1>2, ListFacts
  <2> QED
    BY <1>1, <2>1, <2>2, <2>3
<1>4. CASE end = "failed"
  <2>1. Failed
    BY <1>4 DEF Inv
  <2>2. Shim[fn].returns \in {"handle", "lookup"} => Nothing[1] = Unset
    BY <1>3, NothingInts
  <2> QED
    BY <1>1, <2>1, <2>2 DEF Failed, Returned
<1>5. CASE end = "answered"
  <2>1. Answered /\ Received /\ Served
    BY <1>5 DEF Inv, Answered
  <2>2. Shim[fn].returns \in {"bool", "handle", "lookup"} => ret = Returned(resp.retval, got)
    BY <1>1, <2>1 DEF Received
  <2>3. CASE Turned
    <3>1. resp.retval = 0 /\ resp.items = <<>>
      BY <2>3, NothingSent DEF Turned, Response
    <3>2. Shim[fn].returns \in {"handle", "lookup"} => got[1] = Unset
      <4>1. l = 1 => 1 \in 1..l
        OBVIOUS
      <4> QED
        BY <1>2, <1>3, <2>1, <3>1, <4>1, ReadNothing DEF Received
    <3> QED
      BY <2>2, <3>1, <3>2 DEF Returned
  <2>4. CASE Skipped
    <3>1. PICK junk \in {0, 1} :
            /\ resp.retval = Bridge[fn].otherwise
            /\ resp.items = EncodeAll(Blank(fn, junk))
            /\ Bridge[fn].otherwise # Refused
      BY <2>4 DEF Skipped, Response
    <3>2. Shim[fn].returns = "bool" => ret = 0
      BY <1>1, <2>2, <3>1 DEF Returned
    <3>3. Shim[fn].returns \in {"handle", "lookup"} =>
            \/ got[1] = Unset
            \/ got[1] = Cut(Blank(fn, junk)[1])
               /\ (Shim[fn].reads[1] = S => Blank(fn, junk)[1].n \in 0..MAX_STRING_LEN)
      <4>1. l = 1 => 1 \in 1..l
        OBVIOUS
      <4>2. Typed(Blank(fn, junk), Shim[fn].reads)
        BY <1>1, FunctionLists, BlankTyped
      <4>3. ~\E j \in 1..(1 - 1) : TRUE
        OBVIOUS
      <4> QED
        BY <1>2, <1>3, <2>1, <3>1, <4>1, <4>2, <4>3, ReadBack DEF Received
    <3>4. Shim[fn].returns \in {"handle", "lookup"} =>
             1 \in DOMAIN Blank(fn, junk) /\ Blank(fn, junk)[1].tag = Shim[fn].reads[1]
      <4>1. Typed(Blank(fn, junk), Shim[fn].reads)
        BY <1>1, FunctionLists, BlankTyped
      <4>2. 1 \in 1..1
        OBVIOUS
      <4> QED
        BY <1>2, <1>3, <4>1, <4>2, TypedFields
    <3>5. Shim[fn].returns = "handle" => ret = 0
      <4> SUFFICES ASSUME Shim[fn].returns = "handle" PROVE ret = 0
        OBVIOUS
      <4>1. Blank(fn, junk)[1].n = 0 /\ Blank(fn, junk)[1].tag = H
        <5>1. fn \notin {"eciDictLookup", "eciGetAvailableLanguages"}
          BY <1>1
        <5>2. Shim[fn].reads[1] = H
          BY <1>1
        <5> QED
          BY <1>1, <3>4, <5>1, <5>2, BlankTyped
      <4>2. Cut(Blank(fn, junk)[1]) = Blank(fn, junk)[1]
        BY <4>1 DEF Cut, H, S
      <4> QED
        BY <2>2, <3>3, <4>1, <4>2 DEF Returned
    <3>6. Shim[fn].returns = "lookup" => ret = NULL
      <4> SUFFICES ASSUME Shim[fn].returns = "lookup" PROVE ret = NULL
        OBVIOUS
      <4>1. Blank(fn, junk)[1].n = NULL /\ Shim[fn].reads[1] = S
        BY <1>1, <3>4, BlankTyped
      <4>2. got[1] = Unset
        BY <3>3, <4>1 DEF NULL
      <4> QED
        BY <2>2, <4>2 DEF Returned
    <3> QED
      BY <3>2, <3>5, <3>6
  <2>5. CASE Called
    <3>1. PICK r \in {0, 1, 7} : Made(r)
      BY <2>5 DEF Called
    <3>2. done.result = r /\ Typed(outs, Shim[fn].reads)
      BY <1>1, <3>1, FunctionLists DEF Made
    <3>3. CASE Shim[fn].returns = "bool"
      <4>1. resp.retval = r
        BY <1>1, <3>1, <3>3 DEF Made, Response
      <4> QED
        BY <2>1, <2>2, <3>2, <3>3, <4>1 DEF Returned
    <3>4. CASE Shim[fn].returns = "handle" /\ Response(0, 1, <<>>)
      <4>1. 1 \in 1..l /\ resp.items = <<>>
        BY <1>3, <3>4, NothingSent DEF Response
      <4>2. got[1] = Unset
        BY <1>2, <2>1, <4>1, ReadNothing DEF Received
      <4> QED
        BY <2>2, <3>4, <4>2 DEF Returned
    <3>5. CASE Shim[fn].returns \in {"handle", "lookup"} /\ ~Response(0, 1, <<>>)
      <4>1. resp.items = EncodeAll(outs) /\ 1 \in 1..l
        BY <1>3, <3>1, <3>5 DEF Made, Response
      <4>2. \/ got[1] = Unset
            \/ got[1] = Cut(outs[1])
               /\ (Shim[fn].reads[1] = S => outs[1].n \in 0..MAX_STRING_LEN)
        <5>1. ~\E j \in 1..(1 - 1) : TRUE
          OBVIOUS
        <5> QED
          BY <1>2, <2>1, <3>2, <4>1, <5>1, ReadBack DEF Received
      <4>3. outs[1].tag = Shim[fn].reads[1] /\ DOMAIN outs = 1..1 /\ outs \in Values
        <5>1. l = 1 /\ \A i \in 1..l : outs[i].tag = Shim[fn].reads[i]
          BY <1>2, <1>3, <3>2, <3>5, TypedFields
        <5>2. DOMAIN outs = 1..l
          BY <1>2, <3>2, TypedFields
        <5>3. outs \in Values
          BY <1>2, <3>2, TypedValues
        <5> QED
          BY <4>1, <5>1, <5>2, <5>3
      <4>4. outs # <<>> /\ outs[1] \in Rec
        <5>1. outs \in Seq(Rec) /\ Len(outs) = 1
          BY <1>2, <1>3, <3>2, <3>5, <4>3, TypedValues DEF Values, Rec
        <5> QED
          BY <5>1, ElementOfSeq
      <4>5. CASE Shim[fn].returns = "handle"
        <5>1. outs[1].tag = H /\ outs[1].n = r
          BY <1>1, <3>1, <4>3, <4>5 DEF Made
        <5>2. Cut(outs[1]) = outs[1]
          BY <5>1 DEF Cut, H, S
        <5> QED
          BY <2>1, <2>2, <3>2, <4>2, <4>5, <5>1, <5>2 DEF Returned
      <4>6. CASE Shim[fn].returns = "lookup"
        <5>1. ret = NULL \/ (got[1] = Cut(outs[1]) /\ ret = Cut(outs[1]).n)
          BY <2>2, <4>2, <4>6 DEF Returned
        <5>2. got[1] = Cut(outs[1]) /\ got[1] # Unset => Cut(outs[1]).n <= outs[1].n
          <6>1. 1 \in DOMAIN outs /\ fn # "eciGetVoiceName" /\ outs[1].tag = S
            BY <1>1, <4>3, <4>6
          <6>2. got[1] = Cut(outs[1]) /\ got[1] # Unset => outs[1].n \in 0..MAX_STRING_LEN
            BY <1>1, <4>2, <4>6
          <6>3. fn # "eciGeneratePhonemes"
            BY <1>1, <4>6
          <6> QED
            BY <4>4, <6>1, <6>2, <6>3, CutKeeps
        <5>3. ret # NULL => got[1] # Unset
          BY <2>2, <4>6 DEF Returned
        <5> QED
          BY <2>1, <4>4, <4>6, <5>1, <5>2, <5>3
      <4> QED
        BY <3>5, <4>5, <4>6
    <3>6. Shim[fn].returns = "lookup" => ~Response(0, 1, <<>>)
      BY <1>1, <3>1 DEF Made, Response
    <3>7. CASE Shim[fn].returns \notin {"bool", "handle", "lookup"}
      BY <3>7
    <3> QED
      BY <3>3, <3>4, <3>5, <3>6, <3>7
  <2> QED
    BY <2>1, <2>3, <2>4, <2>5 DEF Served
<1> QED
  BY <1>4, <1>5

(* With a connection, a call that returns TRUE, a handle or a translation was *)
(* made by the engine, which returned just that.                              *)
THEOREM RpcSuccessIsReal == Spec => []SuccessIsReal
<1> QED
  BY RpcInv, InvSuccess, PTL
=============================================================================
