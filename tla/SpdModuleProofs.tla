-------------------------- MODULE SpdModuleProofs --------------------------
(***************************************************************************)
(* Proofs about SpdModule, for any settings, any messages and any default  *)
(* voice.  First the speech protocol, which never looks at what a message  *)
(* is made of; then strip_ssml, for every sequence of tokens: the          *)
(* recursive functions it is modelled with satisfy their definitions, its  *)
(* passes are followed token by token, and what they leave is compared     *)
(* with the reading of the message so far.                                 *)
(***************************************************************************)
EXTENDS SpdModule, SequenceTheorems, WellFoundedInduction, TLAPS

USE VoiceAssumption

VoiceType == [preset : 0..7, speed : 0..250, pitch : 0..100, volume : 0..100]

(* module_set's conversions end in the ranges of the engine. *)
LEMMA HalfInt == \A n \in Int : Half(n) \in Int
BY DEF Half

LEMMA ConvertedType ==
    ASSUME NEW s \in SettingsType, NEW c \in Command
    PROVE  Converted(s, c) \in SettingsType
<1>0. c.atoi \in Int
  BY CommandAssumption
<1>1. CASE c.var = "rate"
  <2>1. Clamp(50 + c.atoi * 2, 0, 250) \in 0..250
    <3>1. 50 + c.atoi * 2 \in Int
      BY <1>0
    <3> QED
      BY <3>1 DEF Clamp
  <2> QED
    BY <1>1, <2>1 DEF Converted, SettingsType
<1>2. CASE c.var = "pitch"
  <2>1. Clamp(50 + Half(c.atoi), 0, 100) \in 0..100
    <3>1. 50 + Half(c.atoi) \in Int
      BY <1>0, HalfInt
    <3> QED
      BY <3>1 DEF Clamp
  <2> QED
    BY <1>2, <2>1 DEF Converted, SettingsType
<1>3. CASE c.var = "volume"
  <2>1. Half(c.atoi + 100) \in Int
    <3>1. c.atoi + 100 \in Int
      BY <1>0
    <3> QED
      BY <3>1, HalfInt
  <2>2. Clamp(Half(c.atoi + 100), 0, 100) \in 0..100
    BY <2>1 DEF Clamp
  <2> QED
    BY <1>3, <2>2 DEF Converted, SettingsType
<1>4. CASE c.var = "voice"
  <2>1. SpdVoiceToEci(c.val) \in 0..7
    BY DEF SpdVoiceToEci, VoiceNumber
  <2> QED
    BY <1>4, <2>1 DEF Converted, SettingsType
<1>5. CASE c.var = "synthesis_voice"
  <2>1. s.voice \in 0..7
    BY DEF SettingsType
  <2>2. SynthesisVoice(c, s.voice) \in 0..7
    <3>1. c.val \in DOMAIN voice_names => voice_names[c.val] \in 0..7
      BY DEF voice_names
    <3> QED
      BY <2>1, <3>1 DEF SynthesisVoice
  <2>3. Converted(s, c) = [s EXCEPT !.voice = SynthesisVoice(c, s.voice)]
    BY <1>5 DEF Converted
  <2> QED
    BY <2>2, <2>3 DEF SettingsType
<1>6. CASE c.var \notin {"rate", "pitch", "volume", "voice", "synthesis_voice"}
  BY <1>6 DEF Converted
<1> QED
  BY <1>1, <1>2, <1>3, <1>4, <1>5, <1>6

(* eciCopyVoice and the three parameters: voice 0 has the settings. *)
LEMMA Applied ==
    ASSUME NEW vs \in [0..7 -> VoiceType], NEW s \in SettingsType
    PROVE  /\ Apply(vs, s) \in [0..7 -> VoiceType]
           /\ \A p \in {"speed", "pitch", "volume"} : Apply(vs, s)[0][p] = s[p]
<1> DEFINE w == CopyVoice(vs, s.voice)
           u == [w[0] EXCEPT !.speed = s.speed, !.pitch = s.pitch, !.volume = s.volume]
<1>1. s.voice \in 0..7 /\ s.speed \in 0..250 /\ s.pitch \in 0..100 /\ s.volume \in 0..100
  BY DEF SettingsType
<1>2. w \in [0..7 -> VoiceType] /\ 0 \in 0..7
  BY <1>1 DEF CopyVoice
<1>3. Apply(vs, s) = [w EXCEPT ![0] = u]
  BY DEF Apply, SetVoiceParams
<1> HIDE DEF w
<1>4. w[0] \in VoiceType
  BY <1>2
<1>5. u \in VoiceType /\ u.speed = s.speed /\ u.pitch = s.pitch /\ u.volume = s.volume
  <2>1. ASSUME NEW x \in VoiceType
        PROVE  LET y == [x EXCEPT !.speed = s.speed, !.pitch = s.pitch, !.volume = s.volume]
               IN  y \in VoiceType /\ y.speed = s.speed /\ y.pitch = s.pitch /\ y.volume = s.volume
    <3> DEFINE y1 == [x EXCEPT !.speed = s.speed]
               y2 == [y1 EXCEPT !.pitch = s.pitch]
               y3 == [y2 EXCEPT !.volume = s.volume]
    <3>1. y1 \in VoiceType /\ y1.speed = s.speed
      BY <1>1 DEF VoiceType
    <3>2. y2 \in VoiceType /\ y2.speed = s.speed /\ y2.pitch = s.pitch
      <4> HIDE DEF y1
      <4> QED
        BY <1>1, <3>1 DEF VoiceType
    <3>3. y3 \in VoiceType /\ y3.speed = s.speed /\ y3.pitch = s.pitch /\ y3.volume = s.volume
      <4> HIDE DEF y2
      <4> QED
        BY <1>1, <3>2 DEF VoiceType
    <3> QED
      BY <3>3
  <2> QED
    BY <1>4, <2>1
<1> HIDE DEF u
<1>6. Apply(vs, s) \in [0..7 -> VoiceType] /\ Apply(vs, s)[0] = u
  BY <1>2, <1>3, <1>5
<1> QED
  BY <1>5, <1>6

-----------------------------------------------------------------------------
LEMMA EmptySeqs ==
    /\ <<>> \in Seq({"old", "new"}) /\ <<"new">> \in Seq({"old", "new"})
    /\ <<>> \in Seq({"ok", "error", "begin", "stop", "end"})
OBVIOUS

LEMMA SpdTypeInit == Init => TypeOK
<1> SUFFICES ASSUME Init PROVE TypeOK
  OBVIOUS
<1>1. Preset \in [0..7 -> VoiceType]
  BY DEF Preset, VoiceType
<1>2. Defaults \in SettingsType
  BY DEF Defaults, SettingsType
<1>3. voice \in [0..7 -> VoiceType]
  BY <1>1, <1>2, Applied DEF Init
<1> QED
  BY <1>2, <1>3, EmptySeqs DEF Init, TypeOK, VoiceType

LEMMA TypeOfReport ==
    \A r \in Seq({"ok", "error", "begin", "stop", "end"}) :
        \A e \in {"ok", "error", "begin", "stop", "end"} :
            Append(r, e) \in Seq({"ok", "error", "begin", "stop", "end"})
OBVIOUS

(* The reports, each with the place it leads to. *)
LEMMA Told ==
    ASSUME Tells
    PROVE  /\ UNCHANGED <<g_eci, g_stop, settings, callback, engine, history>>
           /\ \/ speak = "speak_ok" /\ report' = Append(report, "ok")
                 /\ speak' \in {"prepare", "speak_error"}
              \/ speak = "speak_error" /\ report' = Append(report, "error") /\ speak' = "idle"
              \/ speak = "event_stop" /\ report' = Append(report, "stop") /\ speak' = "idle"
              \/ speak = "event_end" /\ report' = Append(report, "end") /\ speak' = "idle"
              \/ speak = "event_begin" /\ report' = Append(report, "begin") /\ speak' = "sync"
BY DEF Tells, SpeakOk, SpeakError, EventBegin, EventStop, EventEnd, Reports

LEMMA SpdTypeStep == TypeOK /\ [Next]_vars => TypeOK'
<1> SUFFICES ASSUME TypeOK, [Next]_vars PROVE TypeOK'
  OBVIOUS
<1>0. voice \in [0..7 -> VoiceType]
  BY DEF TypeOK, VoiceType
<1>a. Apply(voice, settings) \in [0..7 -> VoiceType]
  BY <1>0, Applied DEF TypeOK
<1> USE EmptySeqs DEF TypeOK, callback, engine, history
<1>1. ASSUME NEW c \in Command, Set(c) PROVE TypeOK'
  <2>1. Converted(settings, c) \in SettingsType
    BY ConvertedType
  <2> QED
    BY <1>1, <2>1 DEF Set
<1>2. CASE Stop
  <2>1. stopped' \in {"no", "in_time", "late"}
    BY <1>2 DEF Stop
  <2> QED
    BY <1>2, <2>1 DEF Stop
<1>3. CASE Close
  BY <1>3 DEF Close
<1>4. CASE Speak
  <2>1. input' \in Seq({"old", "new"})
    BY <1>4 DEF Speak
  <2>2. buffer' \in {"none", "old", "new"}
    BY <1>4 DEF Speak, Aged
  <2> QED
    BY <1>4, <2>1, <2>2 DEF Speak
<1>5. CASE Tells
  <2>1. report' \in Seq({"ok", "error", "begin", "stop", "end"})
    BY <1>5, Told, TypeOfReport
  <2> QED
    BY <1>5, <2>1, Told
<1>6. CASE Prepare
  <2>1. input' \in Seq({"old", "new"})
    <3>1. input' \in {<<>>, <<"new">>}
      BY <1>6 DEF Prepare
    <3> QED
      BY <3>1
  <2>2. voice' \in [0..7 -> VoiceType]
    BY <1>0, <1>a, <1>6 DEF Prepare
  <2>3. said' \in BOOLEAN
    <3>1. ASSUME NEW text \in Stripped PROVE text.said \in BOOLEAN
      <4>1. PICK m \in Message :
              text = [blank |-> ToSet(StripSsml(m)) \subseteq {" "}, said |-> Faithful(m)]
        BY DEF Stripped
      <4>2. Faithful(m) \in BOOLEAN
        BY DEF Faithful
      <4> QED
        BY <4>1, <4>2
    <3> QED
      BY <1>6, <3>1 DEF Prepare
  <2>4. speak' \in {"event_end", "check"} /\ cut' \in BOOLEAN
    BY <1>6 DEF Prepare
  <2>5. UNCHANGED <<g_eci, g_stop, settings, callback, report, alive, stopped, late>>
    BY <1>6 DEF Prepare
  <2> QED
    BY <2>1, <2>2, <2>3, <2>4, <2>5 DEF VoiceType
<1>7. CASE CheckStop \/ Finish
  <2>1. speak' \in {"event_stop", "event_begin", "event_end"}
    BY <1>7 DEF CheckStop, Finish
  <2>2. UNCHANGED <<g_eci, g_stop, settings, callback, report, engine, history>>
    BY <1>7 DEF CheckStop, Finish
  <2> QED
    BY <2>1, <2>2
<1>8. CASE CbEnter
  <2>1. cb' \in {"return", "play"} /\ cut' \in BOOLEAN
    BY <1>8 DEF CbEnter
  <2> QED
    BY <1>8, <2>1 DEF CbEnter
<1>9. CASE Play
  <2>1. late' \in Nat
    BY <1>9 DEF Play
  <2> QED
    BY <1>9, <2>1 DEF Play
<1>10. CASE CbReturn
  <2>1. speak' \in {speak, "finish"} /\ cut' \in BOOLEAN
    BY <1>10 DEF CbReturn
  <2>2. input' \in Seq({"old", "new"})
    BY <1>10 DEF CbReturn
  <2>3. UNCHANGED <<g_eci, g_stop, settings, report, alive, voice, stopped, late, said>>
        /\ cb' = "idle" /\ buffer' = "none"
    BY <1>10 DEF CbReturn
  <2> QED
    BY <2>1, <2>2, <2>3
<1>11. CASE EngineSends
  <2>1. Head(input) \in {"old", "new"}
    BY <1>11 DEF EngineSends
  <2> QED
    BY <1>11, <2>1 DEF EngineSends
<1>12. CASE EngineSays
  BY <1>12 DEF EngineSays
<1>13. CASE Returns
  BY <1>13 DEF Returns
<1>14. CASE BridgeLost
  <2>1. cut' \in BOOLEAN
    BY <1>14 DEF BridgeLost
  <2>2. UNCHANGED <<g_eci, g_stop, settings, speak, cb, buffer, report, voice, stopped, late, said>>
    BY <1>14 DEF BridgeLost
  <2>3. input' \in Seq({"old", "new"}) /\ alive' \in BOOLEAN
    BY <1>14 DEF BridgeLost
  <2> QED
    BY <2>1, <2>2, <2>3
<1>15. CASE UNCHANGED vars
  BY <1>15 DEF vars
<1> QED
  BY <1>1, <1>2, <1>3, <1>4, <1>5, <1>6, <1>7, <1>8, <1>9, <1>10, <1>11, <1>12, <1>13, <1>14, <1>15
     DEF Next, SpeakStep, CallbackStep, EngineStep

(* Every reachable state of the module has its type, and the settings are  *)
(* in the engine's ranges whatever numbers speech-dispatcher sends         *)
(* (module_set's clamps).                                                  *)
THEOREM SpdTypeCorrect == Spec => []TypeOK
BY SpdTypeInit, SpdTypeStep, PTL DEF Spec

-----------------------------------------------------------------------------
(* A message from its beginning to its report. *)

(* A stop shows in g_stop until the next message resets it, and so does a  *)
(* cut, unless it was the bridge that went; while a test of the flag is    *)
(* still to come, what it shows is a stop of this message.                 *)
Undecided == speak \in {"speak_ok", "prepare", "check", "event_begin", "sync", "finish"}
StopShows ==
    /\ stopped # "no" => g_stop
    /\ cut /\ alive => g_stop
    /\ Undecided /\ g_stop => stopped = "in_time"
(* speech-dispatcher has been told how far the message is. *)
ReportSoFar ==
    /\ speak = "speak_ok" => report = <<>>
    /\ speak \in {"speak_error", "prepare", "check", "event_begin"} => report = <<"ok">>
    /\ speak \in {"sync", "finish"} => report = <<"ok", "begin">>
    /\ speak \in {"event_stop", "event_end"} => report \in {<<"ok">>, <<"ok", "begin">>}
(* What is about to be reported is true. *)
ReportTrue ==
    /\ speak = "event_stop" => stopped = "in_time"
    /\ speak = "event_end" /\ report = <<"ok", "begin">> => stopped # "in_time" /\ (cut => ~alive)
(* The engine's text, once module_speak_sync has cleared its input, and    *)
(* where the callback may still be.                                        *)
Given == speak \in {"check", "event_begin", "sync", "finish"}
InputOwn ==
    /\ ~alive => input = <<>>
    /\ cb # "idle" /\ alive => speak = "sync" /\ buffer = "new"
    /\ Given => \A i \in DOMAIN input : input[i] = "new"
VoiceSet == Given /\ alive => \A p \in {"speed", "pitch", "volume"} : voice[0][p] = settings[p]
(* The buffer of a lost bridge is played, and there is no other. *)
LateOnce == late = 0 \/ (late = 1 /\ ~alive /\ cb \notin {"event", "play"})

SpeechInv ==
    /\ StopShows /\ ReportSoFar /\ ReportTrue /\ InputOwn /\ VoiceSet
    /\ LateOnce /\ EndMeansAll

LEMMA SpeechInit == Init => SpeechInv
<1> SUFFICES ASSUME Init PROVE SpeechInv
  OBVIOUS
<1>1. EndMeansAll
  BY DEF Init, EndMeansAll, ToSet
<1> QED
  BY <1>1 DEF Init, SpeechInv, StopShows, Undecided, ReportSoFar, ReportTrue, InputOwn, VoiceSet,
              Given, LateOnce

LEMMA StopShowsKept == ASSUME TypeOK, InputOwn, StopShows, Next PROVE StopShows'
<1>1. ASSUME stopped' = stopped, g_stop' = g_stop, cut' = cut, alive' = alive, Undecided' => Undecided
      PROVE  StopShows'
  BY <1>1 DEF StopShows
<1>2. CASE Tells
  <2>1. Undecided' => Undecided
    BY <1>2, Told DEF Undecided
  <2> QED
    BY <1>1, <1>2, <2>1, Told DEF engine, history
<1>3. CASE Stop
  BY <1>3 DEF Stop, StopShows, Undecided, Decided
<1>4. CASE Speak
  BY <1>4 DEF Speak, StopShows
<1>5. CASE Prepare
  <2>1. /\ stopped' = stopped /\ g_stop' = g_stop /\ alive' = alive
        /\ speak = "prepare"
    BY <1>5 DEF Prepare
  <2>2. cut' /\ alive => cut
    BY <1>5 DEF Prepare
  <2> QED
    BY <2>1, <2>2 DEF StopShows, Undecided
<1>6. CASE CheckStop \/ Finish \/ EngineSends \/ EngineSays \/ Returns
  <2>1. Undecided' => Undecided
    BY <1>6 DEF CheckStop, Finish, EngineSends, EngineSays, Returns, Undecided
  <2>2. stopped' = stopped /\ g_stop' = g_stop /\ cut' = cut /\ alive' = alive
    BY <1>6 DEF CheckStop, Finish, EngineSends, EngineSays, Returns, engine, history
  <2> QED
    BY <1>1, <2>1, <2>2
<1>7. CASE CbEnter \/ Play
  <2>1. stopped' = stopped /\ g_stop' = g_stop /\ alive' = alive /\ speak' = speak
    BY <1>7 DEF CbEnter, Play, engine
  <2>2. cut' => cut \/ g_stop
    <3>1. CASE CbEnter
      BY <3>1 DEF CbEnter
    <3>2. CASE Play
      BY <3>2 DEF Play
    <3> QED
      BY <1>7, <3>1, <3>2
  <2> QED
    BY <2>1, <2>2 DEF StopShows, Undecided
<1>8. CASE CbReturn
  <2>1. /\ stopped' = stopped /\ g_stop' = g_stop /\ alive' = alive
        /\ cb # "idle" /\ (cut' => cut \/ g_stop)
    BY <1>8 DEF CbReturn
  <2>2. Undecided' => Undecided
    BY <1>8 DEF CbReturn, InputOwn, Undecided
  <2> QED
    BY <2>1, <2>2 DEF StopShows
<1>9. CASE (\E c \in Command : Set(c)) \/ Close
  <2>1. /\ stopped' = stopped /\ g_stop' = g_stop /\ cut' = cut /\ (alive' => alive)
        /\ speak' = speak
    BY <1>9 DEF Set, Close, engine, history
  <2> QED
    BY <2>1 DEF StopShows, Undecided, TypeOK
<1>10. CASE BridgeLost
  BY <1>10 DEF BridgeLost, StopShows, Undecided
<1> QED
  BY <1>2, <1>3, <1>4, <1>5, <1>6, <1>7, <1>8, <1>9, <1>10
     DEF Next, SpeakStep, CallbackStep, EngineStep

Event == {"ok", "error", "begin", "stop", "end"}

LEMMA Longer == Append(<<"ok">>, "begin") = <<"ok", "begin">>
<1> DEFINE r == <<"ok">>
           a == Append(r, "begin")
           b == <<"ok", "begin">>
<1>1. r \in Seq(Event) /\ Len(r) = 1 /\ r[1] = "ok"
  BY DEF Event
<1>2. b \in Seq(Event) /\ Len(b) = 2 /\ b[1] = "ok" /\ b[2] = "begin"
  BY DEF Event
<1>3. "begin" \in Event
  BY DEF Event
<1> HIDE DEF r, b
<1>4. a \in Seq(Event) /\ Len(a) = 2 /\ a[1] = "ok" /\ a[2] = "begin"
  <2>1. /\ a \in Seq(Event) /\ Len(a) = Len(r) + 1 /\ a[Len(r) + 1] = "begin"
        /\ \A i \in 1..Len(r) : a[i] = r[i]
    <3>1. ASSUME NEW s \in Seq(Event), NEW e \in Event
          PROVE  /\ Append(s, e) \in Seq(Event) /\ Len(Append(s, e)) = Len(s) + 1
                 /\ Append(s, e)[Len(s) + 1] = e /\ \A i \in 1..Len(s) : Append(s, e)[i] = s[i]
      BY AppendProperties
    <3> QED
      BY <1>1, <1>3, <3>1
  <2> HIDE DEF a
  <2>2. 1 \in 1..Len(r) /\ Len(r) + 1 = 2
    BY <1>1
  <2> QED
    BY <1>1, <2>1, <2>2
<1> HIDE DEF a
<1>5. \A i \in 1..2 : a[i] = b[i]
  BY <1>2, <1>4
<1>6. a = b
  BY <1>2, <1>4, <1>5, SeqEqual
<1> QED
  BY <1>6 DEF a, b, r

LEMMA ReportKept == ASSUME TypeOK, InputOwn, ReportSoFar, Next PROVE ReportSoFar'
<1>1. ASSUME speak' = speak, report' = report PROVE ReportSoFar'
  BY <1>1 DEF ReportSoFar
<1>2. CASE Tells
  <2>1. speak = "speak_ok" => report' = <<"ok">>
    BY <1>2, Told DEF ReportSoFar
  <2>2. speak = "event_begin" => report' = <<"ok", "begin">>
    <3>1. speak = "event_begin" => report = <<"ok">>
      BY DEF ReportSoFar
    <3>2. speak = "event_begin" => report' = Append(<<"ok">>, "begin")
      BY <1>2, <3>1, Told
    <3> QED
      BY <3>2, Longer
  <2> QED
    BY <1>2, <2>1, <2>2, Told DEF ReportSoFar
<1>3. CASE Speak
  BY <1>3 DEF Speak, ReportSoFar
<1>4. CASE Prepare
  <2>1. report' = report /\ report = <<"ok">> /\ speak' \in {"event_end", "check"}
    BY <1>4 DEF Prepare, ReportSoFar
  <2> QED
    BY <2>1 DEF ReportSoFar
<1>5. CASE CheckStop
  <2>1. report' = report /\ report = <<"ok">> /\ speak' \in {"event_stop", "event_begin"}
    BY <1>5 DEF CheckStop, ReportSoFar
  <2> QED
    BY <2>1 DEF ReportSoFar
<1>6. CASE Finish
  <2>1. report' = report /\ report = <<"ok", "begin">> /\ speak' \in {"event_stop", "event_end"}
    BY <1>6 DEF Finish, ReportSoFar
  <2> QED
    BY <2>1 DEF ReportSoFar
<1>7. CASE CbReturn \/ EngineSays \/ Returns
  <2>1. report' = report /\ (speak' = speak \/ (speak = "sync" /\ speak' = "finish"))
    BY <1>7 DEF CbReturn, EngineSays, Returns, InputOwn
  <2> QED
    BY <2>1 DEF ReportSoFar
<1>8. ASSUME (\E c \in Command : Set(c)) \/ Stop \/ Close \/ Play \/ CbEnter \/ EngineSends \/ BridgeLost
      PROVE  speak' = speak /\ report' = report
  BY <1>8 DEF Set, Stop, Close, Play, CbEnter, EngineSends, BridgeLost
<1> QED
  BY <1>1, <1>2, <1>3, <1>4, <1>5, <1>6, <1>7, <1>8 DEF Next, SpeakStep, CallbackStep, EngineStep

(* A report is decided by a test of the flag, and from then on a stop is   *)
(* late and no callback of a living bridge is under way.                   *)
LEMMA TrueKept ==
    ASSUME TypeOK, StopShows, ReportSoFar, InputOwn, ReportTrue, Next
    PROVE  ReportTrue'
<1>1. ASSUME speak' \notin {"event_stop", "event_end"} PROVE ReportTrue'
  BY <1>1 DEF ReportTrue
<1>2. CASE CheckStop \/ Finish
  <2>1. stopped' = stopped /\ cut' = cut /\ alive' = alive /\ report' = report /\ Undecided
    BY <1>2 DEF CheckStop, Finish, Undecided, engine, history
  <2>2. speak' = "event_stop" => g_stop
    BY <1>2 DEF CheckStop, Finish
  <2>3. speak' = "event_end" => ~g_stop
    BY <1>2 DEF CheckStop, Finish
  <2> QED
    BY <2>1, <2>2, <2>3 DEF ReportTrue, StopShows
<1>3. CASE Prepare
  <2>1. speak' # "event_stop" /\ report' = <<"ok">>
    BY <1>3 DEF Prepare, ReportSoFar
  <2>2. report' # <<"ok", "begin">>
    BY <2>1
  <2> QED
    BY <2>1, <2>2 DEF ReportTrue
<1>4. CASE Stop
  <2>1. /\ speak' = speak /\ report' = report /\ cut' = cut /\ alive' = alive
        /\ stopped' = IF speak = "idle" \/ stopped = "in_time" THEN stopped
                      ELSE IF Decided THEN "late" ELSE "in_time"
    BY <1>4 DEF Stop, engine
  <2> QED
    BY <2>1 DEF ReportTrue, Decided
<1>5. CASE CbEnter \/ Play
  <2>1. /\ speak' = speak /\ report' = report /\ stopped' = stopped /\ alive' = alive
        /\ cb # "idle"
    BY <1>5 DEF CbEnter, Play, engine
  <2> QED
    BY <2>1 DEF ReportTrue, InputOwn
<1>6. CASE CbReturn
  <2>1. /\ report' = report /\ stopped' = stopped /\ alive' = alive /\ cb # "idle"
        /\ (speak' = speak /\ (cut' => cut)) \/ speak' = "finish"
    BY <1>6 DEF CbReturn
  <2> QED
    BY <2>1 DEF ReportTrue
<1>7. CASE BridgeLost
  <2>1. speak' = speak /\ report' = report /\ stopped' = stopped /\ ~alive'
    BY <1>7 DEF BridgeLost
  <2> QED
    BY <2>1 DEF ReportTrue
<1>8. CASE Tells \/ Speak \/ EngineSends \/ EngineSays \/ Returns \/ Close \/ (\E c \in Command : Set(c))
  <2>1. speak' \notin {"event_stop", "event_end"}
    <3>1. CASE Tells
      BY <3>1, Told
    <3>2. CASE ~Tells
      BY <1>8, <3>2 DEF Speak, EngineSends, EngineSays, Returns, Close, Set
    <3> QED
      BY <3>1, <3>2
  <2> QED
    BY <1>1, <2>1
<1> QED
  BY <1>2, <1>3, <1>4, <1>5, <1>6, <1>7, <1>8 DEF Next, SpeakStep, CallbackStep, EngineStep

(* eciClearInput comes before eciAddText, and the callback thread is at     *)
(* work only while eciSynchronize waits for it or the bridge is gone.       *)
LEMMA InputKept == ASSUME TypeOK, InputOwn, Next PROVE InputOwn'
<1>1. input \in Seq({"old", "new"})
  BY DEF TypeOK
<1>2. /\ ~alive => input = <<>>
      /\ cb # "idle" /\ alive => speak = "sync" /\ buffer = "new"
      /\ Given => \A i \in DOMAIN input : input[i] = "new"
  BY DEF InputOwn
<1>3. ASSUME input' = input, alive' = alive, cb' = cb, buffer' = buffer, Given' => Given,
             speak = "sync" => speak' = "sync" \/ ~alive \/ cb = "idle"
      PROVE  InputOwn'
  BY <1>2, <1>3 DEF InputOwn
<1>4. CASE (\E c \in Command : Set(c)) \/ Stop
  <2>1. speak' = speak /\ input' = input /\ alive' = alive /\ cb' = cb /\ buffer' = buffer
    BY <1>4 DEF Set, Stop, engine, callback
  <2> QED
    BY <1>3, <2>1 DEF Given
<1>5. CASE Close \/ BridgeLost
  BY <1>5 DEF Close, BridgeLost, InputOwn
<1>6. CASE Speak
  <2>1. ~alive => input' = <<>>
    BY <1>2, <1>6 DEF Speak
  <2>2. alive' = alive /\ cb' = cb /\ speak = "idle" /\ speak' = "speak_ok"
    BY <1>6 DEF Speak
  <2> QED
    BY <1>2, <2>1, <2>2 DEF InputOwn, Given
<1>7. CASE Tells
  <2>1. input' = input /\ alive' = alive /\ cb' = cb /\ buffer' = buffer
    BY <1>7, Told DEF engine, callback
  <2>2. (Given' => Given) /\ speak # "sync"
    BY <1>7, Told DEF Given
  <2> QED
    BY <1>3, <2>1, <2>2
<1>8. CASE Prepare
  <2>1. /\ alive' = alive /\ cb' = cb /\ speak = "prepare"
        /\ input' = <<>> \/ (alive /\ input' = <<"new">>)
    BY <1>8 DEF Prepare, callback
  <2>2. \A i \in DOMAIN input' : input'[i] = "new"
    BY <2>1
  <2> QED
    BY <1>2, <2>1, <2>2 DEF InputOwn
<1>9. CASE CheckStop \/ Finish
  <2>1. /\ input' = input /\ alive' = alive /\ cb' = cb /\ buffer' = buffer
        /\ speak # "sync" /\ (Given' => Given)
    BY <1>9 DEF CheckStop, Finish, Given, engine, callback
  <2> QED
    BY <1>3, <2>1
<1>10. CASE Play \/ CbEnter
  <2>1. /\ input' = input /\ alive' = alive /\ speak' = speak /\ buffer' = buffer
        /\ cb # "idle"
    BY <1>10 DEF Play, CbEnter, engine
  <2> QED
    BY <1>2, <2>1 DEF InputOwn, Given
<1>11. CASE CbReturn
  <2>1. /\ alive' = alive /\ cb # "idle" /\ cb' = "idle" /\ input' \in {input, <<>>}
        /\ (speak' = speak \/ (alive /\ speak' = "finish")) /\ (~alive => input' = input)
    BY <1>11 DEF CbReturn
  <2>2. Given' => Given
    BY <1>2, <2>1 DEF Given
  <2> QED
    BY <1>2, <2>1, <2>2 DEF InputOwn
<1>12. CASE EngineSends
  <2>1. /\ input' = input /\ alive' = alive /\ speak' = speak /\ speak = "sync"
        /\ buffer' = Head(input) /\ input # <<>>
    BY <1>12 DEF EngineSends, engine
  <2>2. Head(input) = input[1] /\ 1 \in DOMAIN input
    BY <1>1, <2>1
  <2>3. buffer' = "new"
    BY <1>2, <2>1, <2>2 DEF Given
  <2> QED
    BY <1>2, <2>1, <2>3 DEF InputOwn, Given
<1>13. CASE EngineSays
  <2>1. /\ alive' = alive /\ cb' = cb /\ alive /\ cb = "idle" /\ input # <<>>
        /\ input' = Tail(input) /\ speak = "sync"
    BY <1>13 DEF EngineSays, callback
  <2>2. \A i \in DOMAIN Tail(input) : i + 1 \in DOMAIN input /\ Tail(input)[i] = input[i + 1]
    BY <1>1, <2>1
  <2>3. \A i \in DOMAIN input' : input'[i] = "new"
    BY <1>2, <2>1, <2>2 DEF Given
  <2> QED
    BY <2>1, <2>3 DEF InputOwn
<1>14. CASE Returns
  <2>1. /\ input' = input /\ alive' = alive /\ ~alive /\ cb' = cb /\ buffer' = buffer
        /\ speak = "sync"
    BY <1>14 DEF Returns, engine, callback
  <2> QED
    BY <1>3, <2>1 DEF Given
<1> QED
  BY <1>4, <1>5, <1>6, <1>7, <1>8, <1>9, <1>10, <1>11, <1>12, <1>13, <1>14
     DEF Next, SpeakStep, CallbackStep, EngineStep

(* The voice and its parameters are set in Prepare, from settings that do *)
(* not change during a message.                                           *)
LEMMA VoiceKept == ASSUME TypeOK, InputOwn, VoiceSet, Next PROVE VoiceSet'
<1>1. voice \in [0..7 -> VoiceType] /\ settings \in SettingsType
  BY DEF TypeOK, VoiceType
<1>2. CASE Prepare
  <2>1. /\ settings' = settings /\ alive' = alive
        /\ alive => voice' = Apply(voice, settings)
    BY <1>2 DEF Prepare
  <2>2. alive => \A p \in {"speed", "pitch", "volume"} : voice'[0][p] = settings[p]
    BY <1>1, <2>1, Applied
  <2> QED
    BY <2>1, <2>2 DEF VoiceSet
<1>3. ASSUME voice' = voice, settings' = settings, alive' => alive, Given' => Given PROVE VoiceSet'
  BY <1>3 DEF VoiceSet
<1>4. ASSUME NEW c \in Command, Set(c) PROVE VoiceSet'
  <2>1. speak' = "idle"
    BY <1>4 DEF Set
  <2> QED
    BY <2>1 DEF VoiceSet, Given
<1>5. CASE Tells
  <2>1. voice' = voice /\ settings' = settings /\ alive' = alive
    BY <1>5, Told DEF engine
  <2>2. Given' => Given
    BY <1>5, Told DEF Given
  <2> QED
    BY <1>3, <2>1, <2>2
<1>6. CASE Speak \/ CheckStop \/ Finish
  <2>1. voice' = voice /\ settings' = settings /\ alive' = alive
    BY <1>6 DEF Speak, CheckStop, Finish, engine
  <2>2. Given' => Given
    BY <1>6 DEF Speak, CheckStop, Finish, Given
  <2> QED
    BY <1>3, <2>1, <2>2
<1>7. CASE Stop \/ Close \/ Play \/ CbEnter \/ EngineSends \/ EngineSays \/ Returns \/ BridgeLost
  <2>1. voice' = voice /\ settings' = settings /\ (alive' => alive)
    <3>1. CASE Stop \/ Play \/ CbEnter \/ EngineSends \/ Returns
      BY <3>1 DEF Stop, Play, CbEnter, EngineSends, Returns, engine
    <3>2. CASE Close \/ EngineSays \/ BridgeLost
      BY <3>2 DEF Close, EngineSays, BridgeLost
    <3> QED
      BY <1>7, <3>1, <3>2
  <2>2. Given' => Given
    BY <1>7 DEF Stop, Close, Play, CbEnter, EngineSends, EngineSays, Returns, BridgeLost, Given
  <2> QED
    BY <1>3, <2>1, <2>2
<1>8. CASE CbReturn
  <2>1. voice' = voice /\ settings' = settings /\ (alive' => alive)
    BY <1>8 DEF CbReturn
  <2>2. Given' => Given
    BY <1>8 DEF CbReturn, InputOwn, Given
  <2> QED
    BY <1>3, <2>1, <2>2
<1> QED
  BY <1>2, <1>4, <1>5, <1>6, <1>7, <1>8 DEF Next, SpeakStep, CallbackStep, EngineStep

(* A callback of a living bridge plays the message eciSynchronize waits for, *)
(* and a lost one sends no more.                                             *)
LEMMA LateKept == ASSUME TypeOK, InputOwn, LateOnce, Next PROVE LateOnce'
<1>1. CASE Play
  <2>1. /\ cb = "play" /\ cb' = "return" /\ alive' = alive
        /\ late' = IF buffer = "old" \/ speak = "idle" THEN late + 1 ELSE late
    BY <1>1 DEF Play, engine
  <2>2. late = 0
    BY <2>1 DEF LateOnce
  <2>3. buffer = "old" \/ speak = "idle" => ~alive
    BY <2>1 DEF InputOwn
  <2> QED
    BY <2>1, <2>2, <2>3 DEF LateOnce
<1>2. CASE EngineSends
  BY <1>2 DEF EngineSends, LateOnce, engine, history
<1>3. CASE CbEnter \/ CbReturn
  <2>1. /\ late' = late /\ alive' = alive
        /\ cb' \notin {"event", "play"} \/ cb = "event"
    BY <1>3 DEF CbEnter, CbReturn, engine
  <2> QED
    BY <2>1 DEF LateOnce
<1>4. CASE Tells
  BY <1>4, Told DEF LateOnce, engine, callback, history
<1>5. ASSUME ~Play, ~EngineSends, ~CbEnter, ~CbReturn, ~Tells
      PROVE  late' = late /\ cb' = cb /\ (alive' => alive)
  <2>1. CASE (\E c \in Command : Set(c)) \/ Stop \/ CheckStop \/ Finish \/ Returns
    BY <2>1 DEF Set, Stop, CheckStop, Finish, Returns, engine, callback, history
  <2>2. CASE Close \/ Speak \/ Prepare \/ EngineSays \/ BridgeLost
    BY <2>2 DEF Close, Speak, Prepare, EngineSays, BridgeLost, callback, history
  <2> QED
    BY <1>5, <2>1, <2>2 DEF Next, SpeakStep, CallbackStep, EngineStep
<1> QED
  BY <1>1, <1>2, <1>3, <1>4, <1>5 DEF LateOnce

(* What a report consists of. *)
LEMMA NoStopYet ==
    /\ "stop" \notin ToSet(<<>>) /\ "stop" \notin ToSet(<<"ok">>)
    /\ "stop" \notin ToSet(<<"ok", "begin">>)
    /\ \A e \in {"ok", "error", "begin", "end"}, r \in {<<>>, <<"ok">>, <<"ok", "begin">>} :
         "stop" \notin ToSet(Append(r, e))
BY DEF ToSet

LEMMA NoEndYet ==
    \A e \in {"error", "stop"}, r \in {<<>>, <<"ok">>, <<"ok", "begin">>} :
        Append(r, e) # <<"ok", "begin", "end">>
<1> DEFINE b == <<"ok", "begin", "end">>
<1>1. Len(b) = 3 /\ b[3] = "end"
  OBVIOUS
<1>2. /\ <<>> \in Seq(Event) /\ Len(<<>>) = 0
      /\ <<"ok">> \in Seq(Event) /\ Len(<<"ok">>) = 1
      /\ <<"ok", "begin">> \in Seq(Event) /\ Len(<<"ok", "begin">>) = 2
  BY DEF Event
<1>3. ASSUME NEW r \in Seq(Event), Len(r) \in 0..2, NEW e \in {"error", "stop"}
      PROVE  Append(r, e) # b
  <2>1. e \in Event
    BY DEF Event
  <2>2. Len(Append(r, e)) = Len(r) + 1 /\ Append(r, e)[Len(r) + 1] = e
    BY <2>1, AppendProperties
  <2>3. CASE Len(r) = 2
    <3>1. Append(r, e)[3] = e
      BY <2>2, <2>3
    <3> HIDE DEF b
    <3> QED
      BY <1>1, <3>1
  <2>4. CASE Len(r) # 2
    <3> HIDE DEF b
    <3> QED
      BY <1>1, <1>3, <2>2, <2>4
  <2> QED
    BY <2>3, <2>4
<1> HIDE DEF b
<1>4. TAKE e \in {"error", "stop"}, r \in {<<>>, <<"ok">>, <<"ok", "begin">>}
<1>5. r \in Seq(Event) /\ Len(r) \in 0..2
  <2>1. Len(r) \in {0, 1, 2}
    BY <1>2
  <2>2. r \in Seq(Event)
    BY <1>2
  <2> QED
    BY <2>1, <2>2
<1>6. Append(r, e) # b
  BY <1>3, <1>5
<1> QED
  BY <1>6 DEF b

(* A report is true when it goes out, and nothing of what it says changes    *)
(* before the next message, unless the bridge is lost.                       *)
LEMMA EndKept ==
    ASSUME TypeOK, StopShows, ReportSoFar, ReportTrue, InputOwn, EndMeansAll, Next
    PROVE  EndMeansAll'
<1> DEFINE R == {<<>>, <<"ok">>, <<"ok", "begin">>}
<1>1. speak # "idle" => report \in R
  BY DEF ReportSoFar, TypeOK
<1>2. ASSUME speak' # "idle", report' \in R PROVE EndMeansAll'
  BY <1>2, NoStopYet DEF EndMeansAll
<1>3. CASE Tells
  <2>1. stopped' = stopped /\ cut' = cut /\ alive' = alive
    BY <1>3, Told DEF history, engine
  <2>2. CASE speak = "event_stop"
    <3>1. report' = Append(report, "stop") /\ stopped' = "in_time" /\ report \in R
      BY <1>1, <1>3, <2>1, <2>2, Told DEF ReportTrue
    <3>2. report' # <<"ok", "begin", "end">>
      BY <3>1, NoEndYet
    <3> QED
      BY <3>1, <3>2 DEF EndMeansAll
  <2>3. CASE speak # "event_stop"
    <3>1. /\ speak # "idle" /\ speak' = "idle" => speak \in {"speak_error", "event_end"}
      BY <1>3, <2>3, Told
    <3>2. \E e \in {"ok", "error", "begin", "end"} : report' = Append(report, e)
      BY <1>3, <2>3, Told
    <3>3. speak # "idle"
      BY <1>3, Told
    <3>4. "stop" \notin ToSet(report')
      BY <1>1, <3>2, <3>3, NoStopYet
    <3>5. ASSUME speak' = "idle", report' = <<"ok", "begin", "end">>
          PROVE  stopped' # "in_time" /\ (cut' => ~alive')
      <4>1. CASE speak = "speak_error"
        <5>1. report = <<"ok">> /\ report' = Append(report, "error")
          BY <1>3, <4>1, Told DEF ReportSoFar
        <5> QED
          BY <3>5, <5>1, NoEndYet
      <4>2. CASE speak = "event_end"
        <5>1. report' = Append(report, "end") /\ report \in {<<"ok">>, <<"ok", "begin">>}
          BY <1>3, <4>2, Told DEF ReportSoFar
        <5>2. report = <<"ok", "begin">>
          BY <3>5, <5>1
        <5> QED
          BY <2>1, <4>2, <5>2 DEF ReportTrue
      <4> QED
        BY <3>1, <3>3, <3>5, <4>1, <4>2
    <3> QED
      BY <3>4, <3>5 DEF EndMeansAll
  <2> QED
    BY <2>2, <2>3
<1>4. CASE Speak
  BY <1>2, <1>4 DEF Speak
<1>5. CASE Prepare \/ CheckStop \/ Finish \/ EngineSends \/ EngineSays \/ Returns
  <2>1. speak # "idle" /\ speak' # "idle" /\ report' = report
    BY <1>5 DEF Prepare, CheckStop, Finish, EngineSends, EngineSays, Returns
  <2> QED
    BY <1>1, <1>2, <2>1
<1>6. CASE Stop
  <2>1. /\ report' = report /\ speak' = speak /\ cut' = cut /\ alive' = alive
        /\ speak = "idle" => stopped' = stopped
    BY <1>6 DEF Stop, engine
  <2>2. speak # "idle" => EndMeansAll'
    BY <1>1, <1>2, <2>1
  <2> QED
    BY <2>1, <2>2 DEF EndMeansAll
<1>7. CASE CbEnter \/ Play \/ CbReturn
  <2>1. /\ report' = report /\ stopped' = stopped /\ alive' = alive /\ cb # "idle"
        /\ alive \/ speak' = speak
    BY <1>7 DEF CbEnter, Play, CbReturn, engine
  <2>2. CASE alive
    <3>1. speak = "sync" /\ speak' \in {"sync", "finish"}
      BY <1>7, <2>1, <2>2 DEF InputOwn, CbEnter, Play, CbReturn
    <3> QED
      BY <1>1, <1>2, <2>1, <3>1
  <2>3. CASE ~alive
    BY <2>1, <2>3 DEF EndMeansAll
  <2> QED
    BY <2>2, <2>3
<1>8. CASE (\E c \in Command : Set(c)) \/ Close \/ BridgeLost
  <2>1. /\ report' = report /\ speak' = speak /\ stopped' = stopped
        /\ ((cut' => cut) /\ (alive' => alive)) \/ ~alive'
    BY <1>8 DEF Set, Close, BridgeLost, engine, history
  <2>2. (cut => ~alive) => (cut' => ~alive')
    BY <2>1
  <2> QED
    BY <2>1, <2>2 DEF EndMeansAll
<1> QED
  BY <1>3, <1>4, <1>5, <1>6, <1>7, <1>8 DEF Next, SpeakStep, CallbackStep, EngineStep

LEMMA SpeechStep == TypeOK /\ SpeechInv /\ [Next]_vars => SpeechInv'
<1> SUFFICES ASSUME TypeOK, SpeechInv, [Next]_vars PROVE SpeechInv'
  OBVIOUS
<1>1. CASE Next
  BY <1>1, StopShowsKept, ReportKept, TrueKept, InputKept, VoiceKept, LateKept, EndKept DEF SpeechInv
<1>2. CASE UNCHANGED vars
  BY <1>2 DEF vars, callback, engine, history, SpeechInv, StopShows, Undecided, ReportSoFar,
              ReportTrue, InputOwn, VoiceSet, Given, LateOnce, EndMeansAll
<1> QED
  BY <1>1, <1>2

LEMMA SpeechInvariant == Spec => [](TypeOK /\ SpeechInv)
<1>1. Init => TypeOK /\ SpeechInv
  BY SpdTypeInit, SpeechInit
<1>2. TypeOK /\ SpeechInv /\ [Next]_vars => (TypeOK /\ SpeechInv)'
  BY SpdTypeStep, SpeechStep
<1> QED
  BY <1>1, <1>2, PTL DEF Spec

(* "Clear any leftover state from a previous aborted synthesis": whatever was *)
(* stopped before, whatever the engine keeps of it, and whenever the bridge   *)
(* goes, the audio played during a message is that message's, save for the    *)
(* one buffer on its way from a bridge that was lost.                         *)
THEOREM SpdNoLeftover == Spec => []NoLeftover
<1>1. SpeechInv => NoLeftover
  BY DEF SpeechInv, LateOnce, NoLeftover
<1> QED
  BY <1>1, SpeechInvariant, PTL

(* module_speak_sync reports the end of a message it has begun only if no     *)
(* stop came before its last test of g_stop and, unless the bridge was lost,  *)
(* no buffer was skipped or cut short; and a stop only if one came.           *)
THEOREM SpdEndMeansAll == Spec => []EndMeansAll
<1>1. SpeechInv => EndMeansAll
  BY DEF SpeechInv
<1> QED
  BY <1>1, SpeechInvariant, PTL

(* What the engine says, it says with the speed, pitch and volume in force, *)
(* whatever the order of settings and messages.                             *)
THEOREM SpdSettingsApplied == Spec => []SettingsApplied
<1>1. SpeechInv => SettingsApplied
  BY DEF SpeechInv, VoiceSet, Given, SettingsApplied
<1> QED
  BY <1>1, SpeechInvariant, PTL

(* Once a stop has come no further buffer passes eci_callback's test of      *)
(* g_stop: the flag is set, and only the next message resets it.             *)
THEOREM SpdStopSilences == Spec => StopSilences
<1>1. TypeOK /\ SpeechInv /\ [Next]_vars => [cb # "play" /\ cb' = "play" => stopped = "no"]_vars
  <2> SUFFICES ASSUME SpeechInv, Next, cb # "play", cb' = "play" PROVE stopped = "no"
    BY DEF vars
  <2>1. CbEnter
    <3>1. CASE Tells
      BY <3>1, Told DEF callback
    <3>2. CASE ~Tells
      BY <3>2 DEF Next, SpeakStep, CallbackStep, EngineStep, Set, Stop, Close, Speak, Prepare,
             CheckStop, Finish, Play, CbReturn, EngineSends, EngineSays, Returns, BridgeLost,
             callback
    <3> QED
      BY <3>1, <3>2
  <2>2. ~g_stop
    BY <2>1 DEF CbEnter
  <2> QED
    BY <2>2 DEF SpeechInv, StopShows
<1> QED
  BY <1>1, SpeechInvariant, PTL DEF Spec, StopSilences

-----------------------------------------------------------------------------
(* Induction, as a statement about sets of naturals and of sequences. *)
LEMMA LessWellFounded == IsWellFoundedOn({p \in Nat \X Nat : p[1] < p[2]}, Nat)
  BY NatLessThanWellFounded DEF OpToRel

LEMMA Least ==
    ASSUME NEW T \in SUBSET Nat, T # {}
    PROVE  \E x \in T : \A y \in T : ~(y < x)
<1> DEFINE R == {p \in Nat \X Nat : p[1] < p[2]}
<1>1. \E x \in T : \A y \in T : ~(<<y, x>> \in R)
  <2> HIDE DEF R
  <2> QED
    BY LessWellFounded, WFMin DEF R
<1> QED
  BY <1>1

LEMMA NatInduct ==
    ASSUME NEW T, 0 \in T, \A n \in Nat : n \in T => n + 1 \in T
    PROVE  Nat \subseteq T
<1>1. SUFFICES ASSUME Nat \ T # {} PROVE FALSE
  OBVIOUS
<1>2. PICK x \in Nat \ T : \A y \in Nat \ T : ~(y < x)
  BY <1>1, Least
<1>3. x # 0 /\ x - 1 \in Nat /\ x - 1 < x
  BY <1>2
<1>4. x - 1 \in T
  BY <1>2, <1>3
<1> QED
  BY <1>2, <1>3, <1>4

LEMMA SeqInduct ==
    ASSUME NEW X, NEW T, <<>> \in T,
           \A s \in Seq(X), x \in X : s \in T => Append(s, x) \in T
    PROVE  Seq(X) \subseteq T
<1> DEFINE L == {n \in Nat : \A s \in Seq(X) : Len(s) = n => s \in T}
<1>1. 0 \in L
  BY EmptySeq
<1>2. ASSUME NEW n \in Nat, n \in L
      PROVE  n + 1 \in L
  <2> SUFFICES ASSUME NEW s \in Seq(X), Len(s) = n + 1
               PROVE  s \in T
    OBVIOUS
  <2>1. s # <<>>
    BY EmptySeq
  <2>2. PICK u \in Seq(X), x \in X : s = Append(u, x)
    BY <2>1, SequenceEmptyOrAppend
  <2>3. Len(u) = n
    BY <2>2, AppendProperties, LenProperties
  <2> QED
    BY <1>2, <2>2, <2>3
<1>3. Nat \subseteq L
  <2> HIDE DEF L
  <2> QED
    BY <1>1, <1>2, NatInduct
<1> QED
  BY <1>3, LenProperties

(* The last element and what is before it. *)
LEMMA FrontLast ==
    ASSUME NEW X, NEW s \in Seq(X), NEW x \in X
    PROVE  /\ Append(s, x) \in Seq(X) /\ Append(s, x) # <<>>
           /\ Front(Append(s, x)) = s /\ Last(Append(s, x)) = x
<1> DEFINE a == Append(s, x)
<1>1. /\ a \in Seq(X) /\ a # <<>> /\ Len(a) = Len(s) + 1 /\ a[Len(s) + 1] = x
      /\ \A i \in 1..Len(s) : a[i] = s[i]
  BY AppendProperties
<1>2. Len(s) \in Nat /\ \A i \in 1..Len(s) : s[i] \in X
  BY LenProperties, ElementOfSeq
<1> HIDE DEF a
<1>3. /\ SubSeq(a, 1, Len(s)) \in Seq(X) /\ Len(SubSeq(a, 1, Len(s))) = Len(s)
      /\ \A i \in 1..Len(s) : SubSeq(a, 1, Len(s))[i] = a[i]
  <2>1. \A i \in 1..Len(s) : a[i] \in X
    BY <1>1, <1>2
  <2> QED
    BY <1>2, <2>1, SubSeqProperties
<1>4. SubSeq(a, 1, Len(s)) = s
  BY <1>1, <1>3, SeqEqual
<1>5. Front(a) = s /\ Last(a) = x
  BY <1>1, <1>2, <1>4 DEF Front, Last
<1> QED
  BY <1>1, <1>5 DEF a

(* A left fold over sequences exists, its step given as a function. *)
IsFold(f, X, S, b, g) ==
    /\ f \in [Seq(X) -> S]
    /\ f[<<>>] = b
    /\ \A s \in Seq(X), x \in X : f[Append(s, x)] = g[<<f[s], x>>]

LEMMA FoldExists ==
    ASSUME NEW X, NEW S, NEW b \in S, NEW g \in [S \X X -> S]
    PROVE  \E f : IsFold(f, X, S, b, g)
<1> DEFINE Run(h, s) == /\ h \in [0..Len(s) -> S] /\ h[0] = b
                        /\ \A i \in 1..Len(s) : h[i] = g[<<h[i - 1], s[i]>>]
           run(s) == CHOOSE h : Run(h, s)
           f == [s \in Seq(X) |-> run(s)[Len(s)]]
<1>1. \A s \in Seq(X) : \E h : Run(h, s)
  <2> DEFINE T == {s \in Seq(X) : \E h : Run(h, s)}
  <2>1. <<>> \in T
    <3>1. Run([i \in 0..0 |-> b], <<>>)
      BY EmptySeq
    <3> QED
      BY <3>1, EmptySeq
  <2>2. ASSUME NEW s \in Seq(X), NEW x \in X, s \in T
        PROVE  Append(s, x) \in T
    <3>1. PICK h : Run(h, s)
      BY <2>2
    <3> DEFINE a == Append(s, x)
               n == Len(s)
               k == [i \in 0..(n + 1) |-> IF i <= n THEN h[i] ELSE g[<<h[n], x>>]]
    <3>2. a \in Seq(X) /\ Len(a) = n + 1 /\ a[n + 1] = x /\ \A i \in 1..n : a[i] = s[i]
      BY AppendProperties
    <3>3. n \in Nat
      BY LenProperties
    <3> HIDE DEF a, n
    <3>4. h \in [0..n -> S] /\ h[0] = b /\ \A i \in 1..n : h[i] = g[<<h[i - 1], s[i]>>]
      BY <3>1 DEF n
    <3>5. k \in [0..(n + 1) -> S] /\ k[0] = b
      BY <3>3, <3>4
    <3>6. \A i \in 1..(n + 1) : k[i] = g[<<k[i - 1], a[i]>>]
      <4> TAKE i \in 1..(n + 1)
      <4>1. CASE i \in 1..n
        <5>1. k[i] = h[i] /\ k[i - 1] = h[i - 1] /\ a[i] = s[i]
          BY <3>2, <3>3, <4>1
        <5> QED
          BY <3>4, <4>1, <5>1
      <4>2. CASE i = n + 1
        <5>1. k[i] = g[<<h[n], x>>] /\ k[i - 1] = h[n] /\ a[i] = x
          BY <3>2, <3>3, <4>2
        <5> QED
          BY <5>1
      <4> QED
        BY <3>3, <4>1, <4>2
    <3> HIDE DEF k
    <3>7. Run(k, a)
      BY <3>2, <3>5, <3>6
    <3> HIDE DEF Run
    <3> QED
      BY <3>2, <3>7 DEF a
  <2>3. Seq(X) \subseteq T
    <3> HIDE DEF T
    <3> QED
      BY <2>1, <2>2, SeqInduct
  <2> QED
    BY <2>3
<1>2. \A s \in Seq(X) : Run(run(s), s)
  <2> HIDE DEF Run
  <2> QED
    BY <1>1
<1>3. f \in [Seq(X) -> S]
  <2>1. \A s \in Seq(X) : Len(s) \in 0..Len(s)
    BY LenProperties
  <2>2. ASSUME NEW s \in Seq(X) PROVE run(s)[Len(s)] \in S
    <3> HIDE DEF run
    <3> QED
      BY <1>2, <2>1
  <2> HIDE DEF run, Run
  <2> QED
    BY <2>2
<1>4. f[<<>>] = b
  <2>1. <<>> \in Seq(X) /\ Len(<<>>) = 0
    BY EmptySeq
  <2>2. run(<<>>)[0] = b
    <3> HIDE DEF run
    <3> QED
      BY <1>2, <2>1
  <2> HIDE DEF run
  <2> QED
    BY <2>1, <2>2
<1>5. ASSUME NEW s \in Seq(X), NEW x \in X
      PROVE  f[Append(s, x)] = g[<<f[s], x>>]
  <2> DEFINE a == Append(s, x)
             n == Len(s)
             h == run(s)
             k == run(a)
             T == {i \in Nat : i <= n => k[i] = h[i]}
  <2>1. a \in Seq(X) /\ Len(a) = n + 1 /\ a[n + 1] = x /\ \A i \in 1..n : a[i] = s[i]
    BY AppendProperties
  <2>2. n \in Nat
    BY LenProperties
  <2>3. f[s] = h[n] /\ f[a] = k[n + 1]
    <3> HIDE DEF run, a
    <3> QED
      BY <2>1 DEF k
  <2>4. Run(h, s) /\ Run(k, a)
    <3> HIDE DEF run, Run, a
    <3> QED
      BY <1>2, <2>1
  <2> HIDE DEF a, h, k, f, run
  <2>5. h[0] = b /\ \A i \in 1..n : h[i] = g[<<h[i - 1], s[i]>>]
    BY <2>4
  <2>6. k[0] = b /\ \A i \in 1..(n + 1) : k[i] = g[<<k[i - 1], a[i]>>]
    BY <2>1, <2>4
  <2> HIDE DEF n, Run
  <2>7. 0 \in T
    BY <2>5, <2>6
  <2>8. ASSUME NEW i \in Nat, i \in T
        PROVE  i + 1 \in T
    <3>1. SUFFICES ASSUME i + 1 <= n PROVE k[i + 1] = h[i + 1]
      OBVIOUS
    <3>2. k[i] = h[i] /\ i + 1 \in 1..n /\ i + 1 \in 1..(n + 1) /\ (i + 1) - 1 = i
      BY <2>2, <2>8, <3>1
    <3>3. k[i + 1] = g[<<k[i], a[i + 1]>>] /\ h[i + 1] = g[<<h[i], s[i + 1]>>]
      BY <2>5, <2>6, <3>2
    <3> QED
      BY <2>1, <3>2, <3>3
  <2>9. Nat \subseteq T
    <3> HIDE DEF T
    <3> QED
      BY <2>7, <2>8, NatInduct
  <2>10. k[n] = h[n]
    BY <2>2, <2>9
  <2>11. k[n + 1] = g[<<k[n], x>>]
    <3>1. n + 1 \in 1..(n + 1) /\ (n + 1) - 1 = n
      BY <2>2
    <3> QED
      BY <2>1, <2>6, <3>1
  <2> QED
    BY <2>3, <2>10, <2>11 DEF a
<1> HIDE DEF f
<1>6. IsFold(f, X, S, b, g)
  BY <1>3, <1>4, <1>5 DEF IsFold
<1> QED
  BY <1>6

(* The recursive function that folds a sequence satisfies its definition. *)
IsFoldFunction(f, X, b, g) ==
    f = [s \in Seq(X) |-> IF s = <<>> THEN b ELSE g[<<f[Front(s)], Last(s)>>]]

LEMMA FoldFunctionExists ==
    ASSUME NEW X, NEW S, NEW b \in S, NEW g \in [S \X X -> S]
    PROVE  \E f : f \in [Seq(X) -> S] /\ IsFoldFunction(f, X, b, g)
<1>0. PICK f : IsFold(f, X, S, b, g)
  BY FoldExists
<1>1. /\ f \in [Seq(X) -> S]
      /\ f[<<>>] = b
      /\ \A s \in Seq(X), x \in X : f[Append(s, x)] = g[<<f[s], x>>]
  BY <1>0 DEF IsFold
<1>2. ASSUME NEW s \in Seq(X)
      PROVE  f[s] = IF s = <<>> THEN b ELSE g[<<f[Front(s)], Last(s)>>]
  <2>1. CASE s = <<>>
    BY <1>1, <2>1
  <2>2. CASE s # <<>>
    <3>1. PICK u \in Seq(X), x \in X : s = Append(u, x)
      BY <2>2, SequenceEmptyOrAppend
    <3>2. Front(s) = u /\ Last(s) = x
      BY <3>1, FrontLast
    <3> QED
      BY <1>1, <2>2, <3>1, <3>2
  <2> QED
    BY <2>1, <2>2
<1>3. IsFoldFunction(f, X, b, g)
  <2> DEFINE e(s) == IF s = <<>> THEN b ELSE g[<<f[Front(s)], Last(s)>>]
  <2>1. \A s \in Seq(X) : f[s] = e(s)
    BY <1>2
  <2> HIDE DEF e
  <2>2. f = [s \in Seq(X) |-> e(s)]
    BY <1>1, <2>1
  <2> QED
    BY <2>2 DEF IsFoldFunction, e
<1> QED
  BY <1>1, <1>3

-----------------------------------------------------------------------------
(* What strip_ssml does to a message. *)

LEMMA Characters ==
    ASSUME NEW name \in EntityName
    PROVE  name \in Token /\ CharOf(name) \in Token /\ CharOf(name) \notin EntityName
  BY DEF EntityName, CharOf, Token

LEMMA Ampersand == "&" \in Token /\ "&" \notin EntityName
  BY DEF EntityName, Token

(* One pass. *)
LEMMA DecodedType ==
    ASSUME NEW out \in Seq(Token), NEW t \in Token, NEW name \in EntityName
    PROVE  Decoded(out, t, name) \in Seq(Token)
<1>1. CASE out = <<>>
  BY <1>1, AppendProperties DEF Decoded
<1>2. CASE out # <<>>
  <2>1. PICK u \in Seq(Token), x \in Token : out = Append(u, x)
    BY <1>2, SequenceEmptyOrAppend
  <2>2. Front(out) \in Seq(Token)
    BY <2>1, FrontLast
  <2>3. Append(Front(out), CharOf(name)) \in Seq(Token) /\ Append(out, t) \in Seq(Token)
    BY <2>2, Characters, AppendProperties
  <2> QED
    BY <2>3 DEF Decoded
<1> QED
  BY <1>1, <1>2

LEMMA DecodeSteps ==
    ASSUME NEW name \in EntityName
    PROVE  /\ Decode(<<>>, name) = <<>>
           /\ \A s \in Seq(Token) : Decode(s, name) \in Seq(Token)
           /\ \A s \in Seq(Token), t \in Token :
                Decode(Append(s, t), name) = Decoded(Decode(s, name), t, name)
<1> DEFINE S == Seq(Token)
           IsDecode(f) == f = [u \in S |-> IF u = <<>> THEN <<>>
                                           ELSE Decoded(f[Front(u)], Last(u), name)]
           decode == CHOOSE f : IsDecode(f)
           g == [p \in S \X Token |-> Decoded(p[1], p[2], name)]
<1>1. <<>> \in S
  BY EmptySeq
<1>2. g \in [S \X Token -> S]
  BY DecodedType
<1>3. \A u \in S : u # <<>> => Front(u) \in S /\ Last(u) \in Token
  <2> TAKE u \in S
  <2> HAVE u # <<>>
  <2>1. PICK v \in S, x \in Token : u = Append(v, x)
    BY SequenceEmptyOrAppend
  <2> QED
    BY <2>1, FrontLast
<1>4. \E f : f \in [S -> S] /\ IsFoldFunction(f, Token, <<>>, g)
  <2> HIDE DEF g
  <2> QED
    BY <1>1, <1>2, FoldFunctionExists
<1>5. PICK f \in [S -> S] : IsFoldFunction(f, Token, <<>>, g)
  BY <1>4
<1>6. \A u \in S : u # <<>> => g[<<f[Front(u)], Last(u)>>] = Decoded(f[Front(u)], Last(u), name)
  BY <1>3, <1>5
<1>7. IsDecode(f)
  <2> HIDE DEF g
  <2> QED
    BY <1>5, <1>6 DEF IsFoldFunction
<1>8. IsDecode(decode)
  <2> HIDE DEF IsDecode
  <2> QED
    BY <1>7
<1>9. \A s \in S : Decode(s, name) = decode[s]
  BY DEF Decode
<1> HIDE DEF decode, g
<1>10. decode[<<>>] = <<>>
  BY <1>1, <1>8
<1>11. \A s \in S, t \in Token : Append(s, t) \in S /\
                                 decode[Append(s, t)] = Decoded(decode[s], t, name)
  <2> TAKE s \in S, t \in Token
  <2>1. /\ Append(s, t) \in S /\ Append(s, t) # <<>>
        /\ Front(Append(s, t)) = s /\ Last(Append(s, t)) = t
    BY FrontLast
  <2>2. decode[Append(s, t)] =
          Decoded(decode[Front(Append(s, t))], Last(Append(s, t)), name)
    BY <1>8, <2>1
  <2> QED
    BY <2>1, <2>2
<1> HIDE DEF IsDecode
<1>12. S \subseteq {s \in S : decode[s] \in S}
  <2> DEFINE T == {s \in S : decode[s] \in S}
  <2>1. <<>> \in T
    BY <1>1, <1>10
  <2>2. \A s \in S, t \in Token : s \in T => Append(s, t) \in T
    BY <1>11, DecodedType
  <2> HIDE DEF T
  <2>3. Seq(Token) \subseteq T
    BY <2>1, <2>2, SeqInduct
  <2> QED
    BY <2>3 DEF T
<1> QED
  BY <1>1, <1>9, <1>10, <1>11, <1>12

(* The scan for tags. *)
ScanState == [in_tag : BOOLEAN, out : Seq(Token)]

LEMMA ScannedType ==
    ASSUME NEW z \in ScanState, NEW t \in Token
    PROVE  Scanned(z, t) \in ScanState
<1>1. Append(z.out, t) \in Seq(Token)
  BY AppendProperties DEF ScanState
<1> QED
  BY <1>1 DEF Scanned, ScanState

LEMMA ScanSteps ==
    /\ Scan(<<>>) = Outside
    /\ \A s \in Seq(Token) : Scan(s) \in ScanState
    /\ \A s \in Seq(Token), t \in Token : Scan(Append(s, t)) = Scanned(Scan(s), t)
<1> DEFINE S == Seq(Token)
           IsScan(f) == f = [s \in S |-> IF s = <<>> THEN Outside
                                         ELSE Scanned(f[Front(s)], Last(s))]
           scan == CHOOSE f : IsScan(f)
           g == [p \in ScanState \X Token |-> Scanned(p[1], p[2])]
<1>1. <<>> \in S /\ Outside \in ScanState
  BY EmptySeq DEF Outside, ScanState
<1>2. g \in [ScanState \X Token -> ScanState]
  BY ScannedType
<1>3. \A u \in S : u # <<>> => Front(u) \in S /\ Last(u) \in Token
  <2> TAKE u \in S
  <2> HAVE u # <<>>
  <2>1. PICK v \in S, x \in Token : u = Append(v, x)
    BY SequenceEmptyOrAppend
  <2> QED
    BY <2>1, FrontLast
<1>4. \E f : f \in [S -> ScanState] /\ IsFoldFunction(f, Token, Outside, g)
  <2> HIDE DEF g
  <2> QED
    BY <1>1, <1>2, FoldFunctionExists
<1>5. PICK f \in [S -> ScanState] : IsFoldFunction(f, Token, Outside, g)
  BY <1>4
<1>6. \A u \in S : u # <<>> => g[<<f[Front(u)], Last(u)>>] = Scanned(f[Front(u)], Last(u))
  BY <1>3, <1>5
<1>7. IsScan(f)
  <2> HIDE DEF g
  <2> QED
    BY <1>5, <1>6 DEF IsFoldFunction
<1>8. IsScan(scan)
  <2> HIDE DEF IsScan
  <2> QED
    BY <1>7
<1>9. \A s \in S : Scan(s) = scan[s]
  BY DEF Scan
<1> HIDE DEF scan, g
<1>10. scan[<<>>] = Outside
  BY <1>1, <1>8
<1>11. \A s \in S, t \in Token : Append(s, t) \in S /\
                                 scan[Append(s, t)] = Scanned(scan[s], t)
  <2> TAKE s \in S, t \in Token
  <2>1. /\ Append(s, t) \in S /\ Append(s, t) # <<>>
        /\ Front(Append(s, t)) = s /\ Last(Append(s, t)) = t
    BY FrontLast
  <2>2. scan[Append(s, t)] = Scanned(scan[Front(Append(s, t))], Last(Append(s, t)))
    BY <1>8, <2>1
  <2> QED
    BY <2>1, <2>2
<1> HIDE DEF IsScan
<1>12. S \subseteq {s \in S : scan[s] \in ScanState}
  <2> DEFINE T == {s \in S : scan[s] \in ScanState}
  <2>1. <<>> \in T
    BY <1>1, <1>10
  <2>2. \A s \in S, t \in Token : s \in T => Append(s, t) \in T
    BY <1>11, ScannedType
  <2> HIDE DEF T
  <2>3. Seq(Token) \subseteq T
    BY <2>1, <2>2, SeqInduct
  <2> QED
    BY <2>3 DEF T
<1> QED
  BY <1>1, <1>9, <1>10, <1>11, <1>12

-----------------------------------------------------------------------------
(* The five passes together. *)
EndsInAmp(s) == s # <<>> /\ Last(s) = "&"

(* One pass: what is not its entity is left; its entity becomes a character; *)
(* an ampersand at the end stays there.                                      *)
LEMMA PassLeaves ==
    ASSUME NEW name \in EntityName, NEW s \in Seq(Token), NEW t \in Token,
           t # name \/ ~EndsInAmp(Decode(s, name))
    PROVE  Decode(Append(s, t), name) = Append(Decode(s, name), t)
  BY DecodeSteps DEF Decoded, EndsInAmp

LEMMA PassDecodes ==
    ASSUME NEW name \in EntityName, NEW s \in Seq(Token)
    PROVE  Decode(Append(Append(s, "&"), name), name) = Append(Decode(s, name), CharOf(name))
<1> DEFINE d == Decode(s, name)
<1>1. d \in Seq(Token)
  BY DecodeSteps
<1>2. Decode(Append(s, "&"), name) = Append(d, "&")
  BY PassLeaves, Ampersand
<1>3. Append(s, "&") \in Seq(Token) /\ name \in Token
  BY FrontLast, Ampersand, Characters
<1>4. Decode(Append(Append(s, "&"), name), name) = Decoded(Append(d, "&"), name, name)
  BY <1>2, <1>3, DecodeSteps
<1>5. Append(d, "&") # <<>> /\ Last(Append(d, "&")) = "&" /\ Front(Append(d, "&")) = d
  BY <1>1, FrontLast, Ampersand
<1> QED
  BY <1>4, <1>5 DEF Decoded

LEMMA PassKeepsAmp ==
    ASSUME NEW name \in EntityName, NEW s \in Seq(Token), EndsInAmp(s)
    PROVE  EndsInAmp(Decode(s, name))
<1>1. PICK u \in Seq(Token), x \in Token : s = Append(u, x)
  BY SequenceEmptyOrAppend DEF EndsInAmp
<1>2. x = "&"
  BY <1>1, FrontLast DEF EndsInAmp
<1>3. Decode(s, name) = Append(Decode(u, name), "&")
  BY <1>1, <1>2, PassLeaves, Ampersand
<1>4. Decode(u, name) \in Seq(Token)
  BY DecodeSteps
<1> QED
  BY <1>3, <1>4, FrontLast, Ampersand DEF EndsInAmp

LEMMA FiveNames ==
    /\ EntityName = {"amp;", "lt;", "gt;", "quot;", "apos;"}
    /\ "amp;" \in EntityName /\ "lt;" \in EntityName /\ "gt;" \in EntityName
    /\ "quot;" \in EntityName /\ "apos;" \in EntityName
  BY DEF EntityName

(* What each pass leaves. *)
Pass1(s) == Decode(s, "amp;")
Pass2(s) == Decode(Pass1(s), "lt;")
Pass3(s) == Decode(Pass2(s), "gt;")
Pass4(s) == Decode(Pass3(s), "quot;")

LEMMA Passes ==
    ASSUME NEW s \in Seq(Token)
    PROVE  /\ Pass1(s) \in Seq(Token) /\ Pass2(s) \in Seq(Token)
           /\ Pass3(s) \in Seq(Token) /\ Pass4(s) \in Seq(Token)
           /\ Unescape(s) \in Seq(Token)
           /\ Unescape(s) = Decode(Pass4(s), "apos;")
           /\ EndsInAmp(Pass1(s)) \/ EndsInAmp(Pass2(s)) \/ EndsInAmp(Pass3(s))
                \/ EndsInAmp(Pass4(s)) => EndsInAmp(Unescape(s))
<1>1. Unescape(s) = Decode(Pass4(s), "apos;")
  BY DEF Unescape, Pass1, Pass2, Pass3, Pass4
<1>2. Pass1(s) \in Seq(Token)
  BY FiveNames, DecodeSteps DEF Pass1
<1>3. Pass2(s) \in Seq(Token) /\ (EndsInAmp(Pass1(s)) => EndsInAmp(Pass2(s)))
  BY <1>2, FiveNames, DecodeSteps, PassKeepsAmp DEF Pass2
<1>4. Pass3(s) \in Seq(Token) /\ (EndsInAmp(Pass2(s)) => EndsInAmp(Pass3(s)))
  BY <1>3, FiveNames, DecodeSteps, PassKeepsAmp DEF Pass3
<1>5. Pass4(s) \in Seq(Token) /\ (EndsInAmp(Pass3(s)) => EndsInAmp(Pass4(s)))
  BY <1>4, FiveNames, DecodeSteps, PassKeepsAmp DEF Pass4
<1>6. Unescape(s) \in Seq(Token) /\ (EndsInAmp(Pass4(s)) => EndsInAmp(Unescape(s)))
  BY <1>1, <1>5, FiveNames, DecodeSteps, PassKeepsAmp
<1> QED
  BY <1>1, <1>2, <1>3, <1>4, <1>5, <1>6

(* A token that ends no entity is left. *)
LEMMA UnescapeLeaves ==
    ASSUME NEW s \in Seq(Token), NEW t \in Token,
           t \notin EntityName \/ ~EndsInAmp(Unescape(s))
    PROVE  Unescape(Append(s, t)) = Append(Unescape(s), t)
<1> DEFINE Leave(name, u) == t # name \/ ~EndsInAmp(Decode(u, name))
<1>1. /\ Leave("amp;", s) /\ Leave("lt;", Pass1(s)) /\ Leave("gt;", Pass2(s))
      /\ Leave("quot;", Pass3(s)) /\ Leave("apos;", Pass4(s))
  BY Passes, FiveNames DEF Pass1, Pass2, Pass3, Pass4
<1>2. \A name \in EntityName, p \in Seq(Token) :
        Leave(name, p) => Decode(Append(p, t), name) = Append(Decode(p, name), t)
  BY PassLeaves
<1> HIDE DEF Leave
<1>3. Pass1(Append(s, t)) = Append(Pass1(s), t)
  BY <1>1, <1>2, FiveNames DEF Pass1
<1>4. Pass2(Append(s, t)) = Append(Pass2(s), t)
  BY <1>1, <1>2, <1>3, Passes, FiveNames DEF Pass2
<1>5. Pass3(Append(s, t)) = Append(Pass3(s), t)
  BY <1>1, <1>2, <1>4, Passes, FiveNames DEF Pass3
<1>6. Pass4(Append(s, t)) = Append(Pass4(s), t)
  BY <1>1, <1>2, <1>5, Passes, FiveNames DEF Pass4
<1>7. Append(s, t) \in Seq(Token)
  BY FrontLast
<1>8. Decode(Append(Pass4(s), t), "apos;") = Append(Unescape(s), t)
  BY <1>1, <1>2, Passes, FiveNames
<1> QED
  BY <1>6, <1>7, <1>8, Passes

(* An entity becomes its character. *)
LEMMA PassGoesOn ==
    ASSUME NEW name \in EntityName, NEW other \in EntityName \ {name}, NEW s \in Seq(Token)
    PROVE  Decode(Append(Append(s, "&"), name), other) = Append(Append(Decode(s, other), "&"), name)
<1>1. Decode(Append(s, "&"), other) = Append(Decode(s, other), "&")
  BY PassLeaves, Ampersand
<1>2. Append(s, "&") \in Seq(Token) /\ name \in Token
  BY FrontLast, Ampersand, Characters
<1> QED
  BY <1>1, <1>2, PassLeaves

LEMMA PassLeavesCharacter ==
    ASSUME NEW name \in EntityName, NEW other \in EntityName, NEW s \in Seq(Token)
    PROVE  Decode(Append(s, CharOf(name)), other) = Append(Decode(s, other), CharOf(name))
  BY PassLeaves, Characters

LEMMA UnescapeDecodes ==
    ASSUME NEW s \in Seq(Token), NEW name \in EntityName
    PROVE  Unescape(Append(Append(s, "&"), name)) = Append(Unescape(s), CharOf(name))
<1> DEFINE a == Append(Append(s, "&"), name)
           Still(p) == Append(Append(p, "&"), name)
           Done(p) == Append(p, CharOf(name))
<1>1. a \in Seq(Token)
  BY FrontLast, Ampersand, Characters
<1>2. ASSUME NEW other \in EntityName, NEW p \in Seq(Token)
      PROVE  /\ other = name => Decode(Still(p), other) = Done(Decode(p, other))
             /\ other # name => Decode(Still(p), other) = Still(Decode(p, other))
             /\ Decode(Done(p), other) = Done(Decode(p, other))
  BY <1>2, PassDecodes, PassGoesOn, PassLeavesCharacter
<1> HIDE DEF Still, Done
<1>3. Pass1(a) = IF name = "amp;" THEN Done(Pass1(s)) ELSE Still(Pass1(s))
  <2>1. a = Still(s)
    BY DEF Still
  <2> QED
    BY <1>2, <2>1, FiveNames DEF Pass1
<1>4. Pass2(a) = IF name \in {"amp;", "lt;"} THEN Done(Pass2(s)) ELSE Still(Pass2(s))
  BY <1>2, <1>3, Passes, FiveNames DEF Pass2
<1>5. Pass3(a) = IF name \in {"amp;", "lt;", "gt;"} THEN Done(Pass3(s)) ELSE Still(Pass3(s))
  BY <1>2, <1>4, Passes, FiveNames DEF Pass3
<1>6. Pass4(a) = IF name # "apos;" THEN Done(Pass4(s)) ELSE Still(Pass4(s))
  BY <1>2, <1>5, Passes, FiveNames DEF Pass4
<1>7. Decode(Pass4(a), "apos;") = Done(Decode(Pass4(s), "apos;"))
  BY <1>2, <1>6, Passes, FiveNames
<1>8. Unescape(a) = Done(Unescape(s))
  BY <1>1, <1>7, Passes
<1> QED
  BY <1>8 DEF Done

(* An ampersand that is left at the end of a text was there already after the *)
(* first pass: no other makes one.                                            *)
LEMMA PassMakesNoAmp ==
    ASSUME NEW name \in EntityName \ {"amp;"}, NEW s \in Seq(Token), EndsInAmp(Decode(s, name))
    PROVE  EndsInAmp(s)
<1>1. s # <<>>
  BY DecodeSteps DEF EndsInAmp
<1>2. PICK u \in Seq(Token), x \in Token : s = Append(u, x)
  BY <1>1, SequenceEmptyOrAppend
<1>3. Decode(s, name) = Decoded(Decode(u, name), x, name) /\ Decode(u, name) \in Seq(Token)
  BY <1>2, DecodeSteps
<1> DEFINE d == Decode(u, name)
<1> HIDE DEF d
<1>4. x = name /\ EndsInAmp(d) => EndsInAmp(Append(Front(d), CharOf(name)))
  BY <1>3 DEF Decoded, EndsInAmp, d
<1>5. ~(x = name /\ EndsInAmp(d))
  <2>1. SUFFICES ASSUME x = name, EndsInAmp(d) PROVE FALSE
    OBVIOUS
  <2>a. d \in Seq(Token) /\ d # <<>>
    BY <1>3, <2>1 DEF EndsInAmp, d
  <2>2. PICK v \in Seq(Token), y \in Token : d = Append(v, y)
    BY <2>a, SequenceEmptyOrAppend
  <2>3. Front(d) \in Seq(Token) /\ CharOf(name) \in Token
    BY <2>2, FrontLast, Characters
  <2>4. Last(Append(Front(d), CharOf(name))) = CharOf(name)
    BY <2>3, FrontLast
  <2>5. CharOf(name) # "&"
    BY DEF CharOf, EntityName
  <2> QED
    BY <1>4, <2>1, <2>4, <2>5 DEF EndsInAmp
<1>6. Decode(s, name) = Append(d, x)
  BY <1>3, <1>5 DEF Decoded, EndsInAmp, d
<1>7. x = "&"
  <2>1. Last(Append(d, x)) = x
    BY <1>2, <1>3, FrontLast DEF d
  <2> QED
    BY <1>6, <2>1 DEF EndsInAmp
<1> QED
  BY <1>2, <1>7, FrontLast DEF EndsInAmp

LEMMA AmpFromTheFirst ==
    ASSUME NEW s \in Seq(Token), EndsInAmp(Unescape(s))
    PROVE  EndsInAmp(Pass1(s)) /\ EndsInAmp(Pass2(s)) /\ EndsInAmp(Pass3(s)) /\ EndsInAmp(Pass4(s))
<1>1. /\ Pass1(s) \in Seq(Token) /\ Pass2(s) \in Seq(Token) /\ Pass3(s) \in Seq(Token)
      /\ Pass4(s) \in Seq(Token) /\ Unescape(s) = Decode(Pass4(s), "apos;")
  BY Passes
<1>2. \A name \in {"lt;", "gt;", "quot;", "apos;"} : name \in EntityName \ {"amp;"}
  BY FiveNames
<1>3. EndsInAmp(Pass4(s))
  BY <1>1, <1>2, PassMakesNoAmp
<1>4. EndsInAmp(Pass3(s))
  BY <1>1, <1>2, <1>3, PassMakesNoAmp DEF Pass4
<1>5. EndsInAmp(Pass2(s))
  BY <1>1, <1>2, <1>4, PassMakesNoAmp DEF Pass3
<1>6. EndsInAmp(Pass1(s))
  BY <1>1, <1>2, <1>5, PassMakesNoAmp DEF Pass2
<1> QED
  BY <1>3, <1>4, <1>5, <1>6

(* The rest of an entity whose ampersand an earlier pass has made. *)
LEMMA PassCompletes ==
    ASSUME NEW name \in EntityName, NEW s \in Seq(Token), EndsInAmp(Decode(s, name))
    PROVE  Decode(Append(s, name), name) = Append(Front(Decode(s, name)), CharOf(name))
<1>1. name \in Token
  BY Characters
<1>2. Decode(Append(s, name), name) = Decoded(Decode(s, name), name, name)
  BY <1>1, DecodeSteps
<1> QED
  BY <1>2 DEF Decoded, EndsInAmp

LEMMA PassKeepsCompleted ==
    ASSUME NEW name \in EntityName, NEW other \in EntityName, NEW s \in Seq(Token), EndsInAmp(s)
    PROVE  Decode(Append(Front(s), CharOf(name)), other)
             = Append(Front(Decode(s, other)), CharOf(name))
<1>1. PICK u \in Seq(Token), x \in Token : s = Append(u, x)
  BY SequenceEmptyOrAppend DEF EndsInAmp
<1>2. x = "&" /\ Front(s) = u
  BY <1>1, FrontLast DEF EndsInAmp
<1>3. Decode(s, other) = Append(Decode(u, other), "&") /\ Decode(u, other) \in Seq(Token)
  BY <1>1, <1>2, PassLeaves, Ampersand, DecodeSteps
<1>4. Front(Decode(s, other)) = Decode(u, other)
  BY <1>3, FrontLast, Ampersand
<1> QED
  BY <1>2, <1>4, PassLeavesCharacter

LEMMA UnescapeCompletes ==
    ASSUME NEW s \in Seq(Token), NEW name \in EntityName, EndsInAmp(Unescape(s))
    PROVE  Unescape(Append(s, name)) = Append(Front(Unescape(s)), CharOf(name))
<1> DEFINE a == Append(s, name)
           Still(p) == Append(p, name)
           Done(p) == Append(Front(p), CharOf(name))
<1>1. a \in Seq(Token)
  BY FrontLast, Characters
<1>2. ASSUME NEW other \in EntityName, NEW p \in Seq(Token), EndsInAmp(Decode(p, other))
      PROVE  /\ other = name => Decode(Still(p), other) = Done(Decode(p, other))
             /\ other # name => Decode(Still(p), other) = Still(Decode(p, other))
             /\ EndsInAmp(p) => Decode(Done(p), other) = Done(Decode(p, other))
  <2>1. name \in Token
    BY Characters
  <2> QED
    BY <1>2, <2>1, PassCompletes, PassLeaves, PassKeepsCompleted
<1>3. /\ EndsInAmp(Pass1(s)) /\ EndsInAmp(Pass2(s)) /\ EndsInAmp(Pass3(s))
      /\ EndsInAmp(Pass4(s))
  BY AmpFromTheFirst
<1> HIDE DEF Still, Done
<1>4. Pass1(a) = IF name = "amp;" THEN Done(Pass1(s)) ELSE Still(Pass1(s))
  <2>1. a = Still(s)
    BY DEF Still
  <2> QED
    BY <1>2, <1>3, <2>1, FiveNames DEF Pass1
<1>5. Pass2(a) = IF name \in {"amp;", "lt;"} THEN Done(Pass2(s)) ELSE Still(Pass2(s))
  BY <1>2, <1>3, <1>4, Passes, FiveNames DEF Pass2
<1>6. Pass3(a) = IF name \in {"amp;", "lt;", "gt;"} THEN Done(Pass3(s)) ELSE Still(Pass3(s))
  BY <1>2, <1>3, <1>5, Passes, FiveNames DEF Pass3
<1>7. Pass4(a) = IF name # "apos;" THEN Done(Pass4(s)) ELSE Still(Pass4(s))
  BY <1>2, <1>3, <1>6, Passes, FiveNames DEF Pass4
<1>8. Decode(Pass4(a), "apos;") = Done(Decode(Pass4(s), "apos;"))
  <2>1. EndsInAmp(Decode(Pass4(s), "apos;"))
    BY Passes
  <2> QED
    BY <1>2, <1>3, <1>7, <2>1, Passes, FiveNames
<1>9. Unescape(a) = Done(Unescape(s))
  BY <1>1, <1>8, Passes
<1> QED
  BY <1>9 DEF Done

(* What one more token makes of a text is told by what the text became. *)
Grown(u, t) == IF t \in EntityName /\ EndsInAmp(u) THEN Append(Front(u), CharOf(t)) ELSE Append(u, t)

LEMMA UnescapeGrows ==
    ASSUME NEW s \in Seq(Token), NEW t \in Token
    PROVE  Unescape(Append(s, t)) = Grown(Unescape(s), t)
  BY UnescapeLeaves, UnescapeCompletes DEF Grown

LEMMA UnescapeNothing == Unescape(<<>>) = <<>>
  BY FiveNames, DecodeSteps DEF Unescape

(* A text that spells no entity stays as it is. *)
SpellsNone(s) == \A i \in DOMAIN s : ~EntityAt(s, i)

LEMMA UnescapeKeeps == \A s \in Seq(Token) : SpellsNone(s) => Unescape(s) = s
<1> DEFINE T == {s \in Seq(Token) : SpellsNone(s) => Unescape(s) = s}
<1>1. <<>> \in T
  BY EmptySeq, UnescapeNothing
<1>2. ASSUME NEW s \in Seq(Token), NEW t \in Token, s \in T
      PROVE  Append(s, t) \in T
  <2> DEFINE a == Append(s, t)
             l == Len(s)
  <2>1. /\ a \in Seq(Token) /\ Len(a) = l + 1 /\ a[l + 1] = t
        /\ \A i \in 1..l : a[i] = s[i]
    BY AppendProperties
  <2>2. l \in Nat /\ DOMAIN s = 1..l /\ DOMAIN a = 1..(l + 1)
    BY <2>1, LenProperties
  <2>3. SUFFICES ASSUME SpellsNone(a) PROVE Unescape(a) = a
    BY <2>1
  <2> HIDE DEF a
  <2>4. ASSUME NEW i \in 1..l, EntityAt(s, i)
        PROVE  FALSE
    <3>1. i \in 1..(l - 1) /\ i \in 1..(l + 1) /\ i + 1 \in 1..l /\ i \in 1..((l + 1) - 1)
      BY <2>2, <2>4 DEF EntityAt
    <3>2. a[i] = "&" /\ a[i + 1] \in EntityName
      BY <2>1, <2>4, <3>1 DEF EntityAt
    <3>3. EntityAt(a, i)
      BY <2>1, <3>1, <3>2 DEF EntityAt
    <3> QED
      BY <2>2, <2>3, <3>1, <3>3 DEF SpellsNone
  <2>5. SpellsNone(s)
    BY <2>2, <2>4 DEF SpellsNone
  <2>6. Unescape(s) = s
    BY <1>2, <2>5
  <2>7. t \notin EntityName \/ ~EndsInAmp(s)
    <3>1. SUFFICES ASSUME t \in EntityName, EndsInAmp(s) PROVE FALSE
      OBVIOUS
    <3>2. l # 0 /\ s[l] = "&"
      BY <3>1, EmptySeq DEF EndsInAmp, Last
    <3>3. l \in 1..((l + 1) - 1) /\ l \in 1..(l + 1) /\ l \in 1..l
      BY <2>2, <3>2
    <3>4. EntityAt(a, l)
      BY <2>1, <3>1, <3>2, <3>3 DEF EntityAt
    <3> QED
      BY <2>2, <2>3, <3>3, <3>4 DEF SpellsNone
  <2> QED
    BY <2>6, <2>7, UnescapeLeaves DEF a
<1>3. Seq(Token) \subseteq T
  <2> HIDE DEF T
  <2> QED
    BY <1>1, <1>2, SeqInduct
<1> QED
  BY <1>3

-----------------------------------------------------------------------------
(* Prefixes of a sequence, and sequences put together. *)
LEMMA PrefixSteps ==
    ASSUME NEW X, NEW s \in Seq(X)
    PROVE  /\ SubSeq(s, 1, 0) = <<>> /\ SubSeq(s, 1, Len(s)) = s
           /\ \A i \in 0..Len(s) : SubSeq(s, 1, i) \in Seq(X)
           /\ \A i \in 1..Len(s) : SubSeq(s, 1, i) = Append(SubSeq(s, 1, i - 1), s[i])
<1>1. Len(s) \in Nat /\ \A i \in 1..Len(s) : s[i] \in X
  BY LenProperties, ElementOfSeq
<1>2. \A i \in 0..Len(s) : SubSeq(s, 1, i) \in Seq(X)
  <2> TAKE i \in 0..Len(s)
  <2>1. i \in Int /\ \A j \in 1..i : s[j] \in X
    BY <1>1
  <2> QED
    BY <2>1, SubSeqProperties
<1>3. SubSeq(s, 1, 0) = <<>>
  BY SubSeqEmpty
<1>4. \A i \in 1..Len(s) : SubSeq(s, 1, i) = Append(SubSeq(s, 1, i - 1), s[i])
  <2> TAKE i \in 1..Len(s)
  <2>1. 1 \in 1..Len(s) /\ i \in 1..Len(s) /\ i - 1 \in 0..Len(s)
    BY <1>1
  <2>2. SubSeq(s, 1, i) = SubSeq(s, 1, i - 1) \o <<s[i]>>
    BY <2>1, SubSeqRecursiveSecond
  <2>3. SubSeq(s, 1, i - 1) \in Seq(X) /\ s[i] \in X
    BY <1>1, <1>2, <2>1
  <2> QED
    BY <2>2, <2>3, AppendIsConcat
<1> QED
  BY <1>2, <1>3, <1>4, SubSeqFull

IsFlattening(f, X, seqs) ==
    /\ f \in [0..Len(seqs) -> Seq(X)]
    /\ f[0] = <<>>
    /\ \A i \in 1..Len(seqs) : f[i] = f[i - 1] \o seqs[i]
    /\ f[Len(seqs)] = FlattenSeq(seqs)

LEMMA FlattenSteps ==
    ASSUME NEW X, NEW seqs \in Seq(Seq(X))
    PROVE  \E f : IsFlattening(f, X, seqs)
<1>0. /\ SubSeq(seqs, 1, 0) = <<>>
      /\ \A i \in 0..Len(seqs) : SubSeq(seqs, 1, i) \in Seq(Seq(X))
      /\ \A i \in 1..Len(seqs) :
           SubSeq(seqs, 1, i) = Append(SubSeq(seqs, 1, i - 1), seqs[i])
  BY PrefixSteps
<1> DEFINE S == Seq(X)
           n == Len(seqs)
           g == [p \in S \X S |-> p[1] \o p[2]]
           IsIt(fl) == fl = [i \in 1..n |-> IF i = 1 THEN seqs[i] ELSE fl[i - 1] \o seqs[i]]
           flatten == CHOOSE fl : IsIt(fl)
<1>1. n \in Nat /\ <<>> \in S /\ \A i \in 1..n : seqs[i] \in S
  BY LenProperties, ElementOfSeq, EmptySeq
<1>2. g \in [S \X S -> S]
  BY ConcatProperties
<1>3. PICK F : IsFold(F, S, S, <<>>, g)
  <2> HIDE DEF g, S
  <2> QED
    BY <1>1, <1>2, FoldExists
<1> DEFINE e == [i \in 0..n |-> F[SubSeq(seqs, 1, i)]]
<1>4. /\ F \in [Seq(S) -> S] /\ F[<<>>] = <<>>
      /\ \A s \in Seq(S), x \in S : F[Append(s, x)] = F[s] \o x
  BY <1>3 DEF IsFold
<1>5. /\ SubSeq(seqs, 1, 0) = <<>>
      /\ \A i \in 0..n : SubSeq(seqs, 1, i) \in Seq(S)
      /\ \A i \in 1..n : SubSeq(seqs, 1, i) = Append(SubSeq(seqs, 1, i - 1), seqs[i])
  BY <1>0
<1>6. e \in [0..n -> S]
  BY <1>4, <1>5
<1>7. e[0] = <<>>
  <2> HIDE DEF S
  <2>1. 0 \in 0..n
    BY <1>1
  <2>2. e[0] = F[SubSeq(seqs, 1, 0)]
    BY <2>1
  <2> QED
    BY <1>4, <1>5, <2>2
<1>8. \A i \in 1..n : e[i] = e[i - 1] \o seqs[i]
  <2> TAKE i \in 1..n
  <2>1. i \in 0..n /\ i - 1 \in 0..n
    BY <1>1
  <2> HIDE DEF n, S
  <2> QED
    BY <1>1, <1>4, <1>5, <2>1
<1> HIDE DEF e, n, S
<1>9. \A i \in 1..n : e[i] = IF i = 1 THEN seqs[i] ELSE e[i - 1] \o seqs[i]
  <2>1. 1 \in 1..n => e[1] = seqs[1]
    <3>1. 1 \in 1..n => e[1] = <<>> \o seqs[1]
      <4>1. 1 - 1 = 0
        OBVIOUS
      <4> QED
        BY <1>7, <1>8, <4>1
    <3> QED
      BY <1>1, <3>1, ConcatEmptySeq DEF S
  <2> QED
    BY <1>8, <2>1
<1>10. IsIt([i \in 1..n |-> e[i]])
  <2> DEFINE fl == [i \in 1..n |-> e[i]]
  <2>1. \A i \in 1..n : i # 1 => i - 1 \in 1..n
    BY <1>1
  <2>2. \A i \in 1..n : fl[i] = IF i = 1 THEN seqs[i] ELSE fl[i - 1] \o seqs[i]
    BY <1>9, <2>1
  <2>3. fl = [i \in 1..n |-> fl[i]]
    OBVIOUS
  <2> HIDE DEF fl
  <2>4. fl = [i \in 1..n |-> IF i = 1 THEN seqs[i] ELSE fl[i - 1] \o seqs[i]]
    BY <2>2, <2>3
  <2> QED
    BY <2>4 DEF fl
<1>11. IsIt(flatten)
  <2> HIDE DEF IsIt
  <2> QED
    BY <1>10
<1>12. FlattenSeq(seqs) = IF n = 0 THEN seqs ELSE flatten[n]
  BY DEF FlattenSeq, n
<1> HIDE DEF flatten
<1>13. \A i \in Nat : i \in 1..n => flatten[i] = e[i]
  <2> DEFINE T == {i \in Nat : i \in 1..n => flatten[i] = e[i]}
  <2>1. 0 \in T
    OBVIOUS
  <2>2. ASSUME NEW i \in Nat, i \in T
        PROVE  i + 1 \in T
    <3>1. SUFFICES ASSUME i + 1 \in 1..n PROVE flatten[i + 1] = e[i + 1]
      OBVIOUS
    <3>2. CASE i = 0
      BY <1>9, <1>11, <3>1, <3>2
    <3>3. CASE i # 0
      <4>1. i \in 1..n /\ i + 1 # 1 /\ (i + 1) - 1 = i
        BY <1>1, <3>1, <3>3
      <4>2. flatten[i] = e[i]
        BY <2>2, <4>1
      <4>3. e[i + 1] = e[i] \o seqs[i + 1]
        BY <1>9, <3>1, <4>1
      <4>4. flatten[i + 1] = flatten[i] \o seqs[i + 1]
        BY <1>11, <3>1, <4>1
      <4> QED
        BY <4>2, <4>3, <4>4
    <3> QED
      BY <3>2, <3>3
  <2>3. Nat \subseteq T
    <3> HIDE DEF T
    <3> QED
      BY <2>1, <2>2, NatInduct
  <2> QED
    BY <2>3
<1>14. e[n] = FlattenSeq(seqs)
  <2>1. CASE n = 0
    <3>1. seqs = <<>>
      BY <2>1, EmptySeq DEF n
    <3> QED
      BY <1>7, <1>12, <2>1, <3>1
  <2>2. CASE n # 0
    <3>1. n \in 1..n
      BY <1>1, <2>2
    <3> QED
      BY <1>1, <1>12, <1>13, <2>2, <3>1
  <2> QED
    BY <2>1, <2>2
<1>15. IsFlattening(e, X, seqs)
  BY <1>6, <1>7, <1>8, <1>14 DEF IsFlattening, n, S
<1> QED
  BY <1>15

-----------------------------------------------------------------------------
(* The scan of a message, token by token. *)
ScanIn(m, i) == Scan(SubSeq(m, 1, i)).in_tag
ScanOut(m, i) == Scan(SubSeq(m, 1, i)).out

LEMMA ScanStarts ==
    ASSUME NEW m \in Seq(Token)
    PROVE  /\ ScanIn(m, 0) = FALSE /\ ScanOut(m, 0) = <<>>
           /\ ScanOut(m, Len(m)) = StripTags(m)
           /\ \A i \in 0..Len(m) : ScanIn(m, i) \in BOOLEAN /\ ScanOut(m, i) \in Seq(Token)
<1>1. /\ SubSeq(m, 1, 0) = <<>> /\ SubSeq(m, 1, Len(m)) = m
      /\ \A i \in 0..Len(m) : SubSeq(m, 1, i) \in Seq(Token)
  BY PrefixSteps
<1>2. \A s \in Seq(Token) : Scan(s) \in ScanState
  BY ScanSteps
<1>3. Scan(<<>>) = Outside
  BY ScanSteps
<1>4. \A i \in 0..Len(m) : ScanIn(m, i) \in BOOLEAN /\ ScanOut(m, i) \in Seq(Token)
  BY <1>1, <1>2 DEF ScanIn, ScanOut, ScanState
<1>5. Outside.in_tag = FALSE /\ Outside.out = <<>>
  BY DEF Outside
<1>6. ScanIn(m, 0) = FALSE /\ ScanOut(m, 0) = <<>>
  BY <1>1, <1>3, <1>5 DEF ScanIn, ScanOut
<1>7. ScanOut(m, Len(m)) = StripTags(m)
  BY <1>1 DEF ScanOut, StripTags
<1> QED
  BY <1>4, <1>6, <1>7

LEMMA ScanGoesOn ==
    ASSUME NEW m \in Seq(Token), NEW i \in 1..Len(m)
    PROVE  /\ ScanIn(m, i) <=> m[i] = "<" \/ (m[i] # ">" /\ ScanIn(m, i - 1))
           /\ ScanOut(m, i) = IF m[i] \in {"<", ">"} \/ ScanIn(m, i - 1)
                              THEN ScanOut(m, i - 1) ELSE Append(ScanOut(m, i - 1), m[i])
<1> DEFINE p == SubSeq(m, 1, i - 1)
           z == Scan(p)
           t == m[i]
<1>1. p \in Seq(Token) /\ t \in Token /\ SubSeq(m, 1, i) = Append(p, t)
  <2>1. i - 1 \in 0..Len(m)
    BY LenProperties
  <2> QED
    BY <2>1, PrefixSteps, ElementOfSeq
<1>2. Scan(SubSeq(m, 1, i)) = Scanned(z, t) /\ z \in ScanState
  BY <1>1, ScanSteps
<1> HIDE DEF z, t
<1>3. z.in_tag \in BOOLEAN
  BY <1>2 DEF ScanState
<1>4. /\ Scanned(z, t).in_tag <=> t = "<" \/ (t # ">" /\ z.in_tag)
      /\ Scanned(z, t).out = IF t \in {"<", ">"} \/ z.in_tag THEN z.out ELSE Append(z.out, t)
  <2>1. CASE t = "<"
    BY <1>2, <2>1 DEF Scanned, ScanState
  <2>2. CASE t = ">"
    BY <1>2, <2>2 DEF Scanned, ScanState
  <2>3. CASE t \notin {"<", ">"}
    <3>1. Scanned(z, t) = IF z.in_tag THEN z ELSE [z EXCEPT !.out = Append(z.out, t)]
      BY <1>2, <2>3 DEF Scanned, ScanState
    <3> QED
      BY <1>2, <2>3, <3>1 DEF ScanState
  <2> QED
    BY <2>1, <2>2, <2>3
<1> QED
  BY <1>2, <1>4 DEF ScanIn, ScanOut, z, t

LEMMA InTagGoesOn ==
    ASSUME NEW m \in Seq(Token), NEW i \in 1..Len(m)
    PROVE  InTag(m, i) <=> m[i] = "<" \/ (m[i] # ">" /\ InTag(m, i - 1))
<1>1. i \in Nat \ {0} /\ i - 1 \in Nat
  BY LenProperties
<1>2. ASSUME InTag(m, i), m[i] # "<"
      PROVE  m[i] # ">" /\ InTag(m, i - 1)
  <2>1. PICK j \in 1..i : m[j] = "<" /\ \A k \in j..i : m[k] # ">"
    BY <1>2 DEF InTag
  <2>2. j \in 1..(i - 1) /\ i \in j..i /\ \A k \in j..(i - 1) : k \in j..i
    BY <1>1, <1>2, <2>1
  <2> QED
    BY <2>1, <2>2 DEF InTag
<1>3. ASSUME m[i] = "<"
      PROVE  InTag(m, i)
  <2>1. i \in 1..i /\ \A k \in i..i : m[k] # ">"
    BY <1>1, <1>3
  <2> QED
    BY <1>3, <2>1 DEF InTag
<1>4. ASSUME m[i] # ">", InTag(m, i - 1)
      PROVE  InTag(m, i)
  <2>1. PICK j \in 1..(i - 1) : m[j] = "<" /\ \A k \in j..(i - 1) : m[k] # ">"
    BY <1>4 DEF InTag
  <2>2. j \in 1..i /\ \A k \in j..i : k = i \/ k \in j..(i - 1)
    BY <1>1
  <2>3. \A k \in j..i : m[k] # ">"
    BY <1>4, <2>1, <2>2
  <2> QED
    BY <2>1, <2>2, <2>3 DEF InTag
<1> QED
  BY <1>2, <1>3, <1>4

LEMMA TagsAgree ==
    ASSUME NEW m \in Seq(Token)
    PROVE  \A i \in 0..Len(m) : ScanIn(m, i) <=> InTag(m, i)
<1> DEFINE T == {i \in Nat : i <= Len(m) => (ScanIn(m, i) <=> InTag(m, i))}
<1>1. 0 \in T
  <2>1. ~InTag(m, 0)
    BY DEF InTag
  <2> QED
    BY <2>1, ScanStarts
<1>2. ASSUME NEW i \in Nat, i \in T
      PROVE  i + 1 \in T
  <2>1. SUFFICES ASSUME i + 1 <= Len(m) PROVE ScanIn(m, i + 1) <=> InTag(m, i + 1)
    OBVIOUS
  <2>2. i + 1 \in 1..Len(m) /\ i <= Len(m) /\ (i + 1) - 1 = i
    BY <2>1, LenProperties
  <2>3. ScanIn(m, i) <=> InTag(m, i)
    BY <1>2, <2>2
  <2>4. ScanIn(m, i + 1) <=> m[i + 1] = "<" \/ (m[i + 1] # ">" /\ ScanIn(m, (i + 1) - 1))
    BY <2>2, ScanGoesOn
  <2>5. InTag(m, i + 1) <=> m[i + 1] = "<" \/ (m[i + 1] # ">" /\ InTag(m, (i + 1) - 1))
    BY <2>2, InTagGoesOn
  <2> QED
    BY <2>2, <2>3, <2>4, <2>5
<1>3. Nat \subseteq T
  <2> HIDE DEF T
  <2> QED
    BY <1>1, <1>2, NatInduct
<1> QED
  BY <1>3, LenProperties

-----------------------------------------------------------------------------
(* What the message says, token by token. *)
Piece(m, i) == IF InTag(m, i) \/ m[i] = ">" \/ EntityAt(m, i - 1) THEN <<>>
               ELSE IF EntityAt(m, i) THEN <<CharOf(m[i + 1])>> ELSE <<m[i]>>
Pieces(m) == [i \in DOMAIN m |-> Piece(m, i)]

LEMMA PiecesType ==
    ASSUME NEW m \in Seq(Token)
    PROVE  /\ Pieces(m) \in Seq(Seq(Token)) /\ Len(Pieces(m)) = Len(m)
           /\ \A i \in 1..Len(m) : Pieces(m)[i] = Piece(m, i)
           /\ Says(m) = FlattenSeq(Pieces(m))
<1>1. Len(m) \in Nat /\ DOMAIN m = 1..Len(m)
  BY LenProperties
<1>2. ASSUME NEW i \in 1..Len(m)
      PROVE  Piece(m, i) \in Seq(Token)
  <2>1. m[i] \in Token
    BY ElementOfSeq
  <2>2. EntityAt(m, i) => CharOf(m[i + 1]) \in Token
    BY Characters DEF EntityAt
  <2> QED
    BY <2>1, <2>2 DEF Piece
<1>3. Pieces(m) = [i \in 1..Len(m) |-> Piece(m, i)]
  BY <1>1 DEF Pieces
<1>4. Pieces(m) \in Seq(Seq(Token)) /\ Len(Pieces(m)) = Len(m)
  BY <1>1, <1>2, <1>3
<1>5. Says(m) = FlattenSeq(Pieces(m))
  BY DEF Says, Pieces, Piece
<1> QED
  BY <1>3, <1>4, <1>5

(* A well-formed message read to i: f[i] is what it has said. *)
Reading(m, f) ==
    /\ m \in Seq(Token) /\ WellFormed(m)
    /\ IsFlattening(f, Token, Pieces(m))

LEMMA ReadingSteps ==
    ASSUME NEW m, NEW f, Reading(m, f)
    PROVE  /\ f \in [0..Len(m) -> Seq(Token)] /\ f[0] = <<>> /\ f[Len(m)] = Says(m)
           /\ \A i \in 1..Len(m) :
                /\ Piece(m, i) = <<>> \/ \E c \in Token : Piece(m, i) = <<c>>
                /\ Piece(m, i) = <<>> => f[i] = f[i - 1]
                /\ \A c \in Token : Piece(m, i) = <<c>> => f[i] = Append(f[i - 1], c)
<1>1. m \in Seq(Token) /\ Len(Pieces(m)) = Len(m) /\ Says(m) = FlattenSeq(Pieces(m))
      /\ \A i \in 1..Len(m) : Pieces(m)[i] = Piece(m, i)
  BY PiecesType DEF Reading
<1>2. /\ f \in [0..Len(m) -> Seq(Token)] /\ f[0] = <<>> /\ f[Len(m)] = Says(m)
      /\ \A i \in 1..Len(m) : f[i] = f[i - 1] \o Piece(m, i)
  BY <1>1 DEF Reading, IsFlattening
<1>3. ASSUME NEW i \in 1..Len(m)
      PROVE  /\ Piece(m, i) = <<>> \/ \E c \in Token : Piece(m, i) = <<c>>
             /\ Piece(m, i) = <<>> => f[i] = f[i - 1]
             /\ \A c \in Token : Piece(m, i) = <<c>> => f[i] = Append(f[i - 1], c)
  <2>1. f[i - 1] \in Seq(Token)
    <3>1. i - 1 \in 0..Len(m)
      BY <1>1, LenProperties
    <3> QED
      BY <1>2, <3>1
  <2>2. m[i] \in Token /\ (EntityAt(m, i) => CharOf(m[i + 1]) \in Token)
    BY <1>1, ElementOfSeq, Characters DEF EntityAt
  <2>3. Piece(m, i) = <<>> \/ \E c \in Token : Piece(m, i) = <<c>>
    BY <2>2 DEF Piece
  <2>4. Piece(m, i) = <<>> => f[i] = f[i - 1]
    BY <1>2, <2>1, ConcatEmptySeq
  <2>5. ASSUME NEW c \in Token, Piece(m, i) = <<c>>
        PROVE  f[i] = Append(f[i - 1], c)
    <3>1. f[i] = f[i - 1] \o <<c>>
      BY <1>2, <2>5
    <3> QED
      BY <2>1, <3>1, AppendIsConcat
  <2> QED
    BY <2>3, <2>4, <2>5
<1> QED
  BY <1>2, <1>3

(* An ampersand that is read: its entity is still to come. *)
Opens(m, i) == EntityAt(m, i) /\ ~InTag(m, i)

(* After i tokens the passes over what the scan has left give what they give *)
(* of what has been said; between an ampersand and the rest of its entity,   *)
(* what they will give of it.                                                *)
InAccord(m, f, i) ==
    IF Opens(m, i)
    THEN /\ ScanOut(m, i) = Append(ScanOut(m, i - 1), "&")
         /\ ScanOut(m, i - 1) \in Seq(Token)
         /\ Unescape(f[i]) = Append(Unescape(ScanOut(m, i - 1)), CharOf(m[i + 1]))
    ELSE Unescape(f[i]) = Unescape(ScanOut(m, i))

LEMMA AccordGoesOn ==
    ASSUME NEW m, NEW f, Reading(m, f), NEW k \in 1..Len(m), InAccord(m, f, k - 1)
    PROVE  InAccord(m, f, k)
<1> DEFINE i == k - 1
           t == m[k]
           out == ScanOut(m, i)
<1>0. m \in Seq(Token) /\ WellFormed(m)
  BY DEF Reading
<1>1. /\ Len(m) \in Nat /\ DOMAIN m = 1..Len(m) /\ k \in Nat /\ i \in 0..Len(m) /\ i + 1 = k
      /\ k \in 0..Len(m)
  BY <1>0, LenProperties
<1>2. t \in Token /\ out \in Seq(Token)
  BY <1>0, <1>1, ElementOfSeq, ScanStarts
<1>3. /\ InTag(m, k) <=> t = "<" \/ (t # ">" /\ InTag(m, i))
      /\ ScanOut(m, k) = IF t \in {"<", ">"} \/ InTag(m, i) THEN out ELSE Append(out, t)
  <2>1. ScanIn(m, i) <=> InTag(m, i)
    BY <1>0, <1>1, TagsAgree
  <2> QED
    BY <1>0, <2>1, InTagGoesOn, ScanGoesOn
<1>4. /\ Piece(m, k) = <<>> => f[k] = f[i]
      /\ \A c \in Token : Piece(m, k) = <<c>> => f[k] = Append(f[i], c)
      /\ f[i] \in Seq(Token)
  <2>1. /\ f \in [0..Len(m) -> Seq(Token)]
        /\ Piece(m, k) = <<>> => f[k] = f[k - 1]
        /\ \A c \in Token : Piece(m, k) = <<c>> => f[k] = Append(f[k - 1], c)
    BY ReadingSteps
  <2>2. f[i] \in Seq(Token)
    BY <1>1, <2>1
  <2> QED
    BY <2>1, <2>2
<1>5. EntityAt(m, k) => t = "&"
  BY DEF EntityAt
<1>6. EntityAt(m, i) => t \in EntityName
  BY <1>1 DEF EntityAt
<1>7. t \in EntityName => t \notin {"<", ">", "&"}
  BY DEF EntityName
<1>8. InAccord(m, f, i)
  OBVIOUS
<1> HIDE DEF i, t, out
<1>9. CASE t \in {"<", ">"} \/ InTag(m, i)
  <2>1. Piece(m, k) = <<>>
    <3>1. InTag(m, k) \/ m[k] = ">" \/ EntityAt(m, k - 1)
      BY <1>3, <1>9 DEF t
    <3> QED
      BY <3>1 DEF Piece
  <2>2. ~Opens(m, i)
    BY <1>6, <1>7, <1>9 DEF Opens
  <2>3. ~Opens(m, k)
    <3>1. t = "&" => InTag(m, k)
      BY <1>3, <1>9
    <3> QED
      BY <1>5, <3>1 DEF Opens
  <2> QED
    BY <1>3, <1>4, <1>8, <1>9, <2>1, <2>2, <2>3 DEF InAccord, out
<1>10. CASE t \notin {"<", ">"} /\ ~InTag(m, i) /\ EntityAt(m, i)
  <2>1. Piece(m, k) = <<>>
    <3>1. InTag(m, k) \/ m[k] = ">" \/ EntityAt(m, k - 1)
      BY <1>10 DEF i
    <3> QED
      BY <3>1 DEF Piece
  <2>2. Opens(m, i) /\ ~Opens(m, k)
    BY <1>5, <1>6, <1>7, <1>10 DEF Opens
  <2> DEFINE before == ScanOut(m, i - 1)
  <2>3. /\ out = Append(before, "&") /\ before \in Seq(Token)
        /\ Unescape(f[i]) = Append(Unescape(before), CharOf(t))
    BY <1>1, <1>8, <2>2 DEF InAccord, out, t
  <2>4. ScanOut(m, k) = Append(Append(before, "&"), t)
    BY <1>3, <1>10, <2>3
  <2> HIDE DEF before
  <2>5. Unescape(ScanOut(m, k)) = Unescape(f[i])
    BY <1>6, <1>10, <2>3, <2>4, UnescapeDecodes
  <2> QED
    BY <1>4, <2>1, <2>2, <2>5 DEF InAccord
<1>11. CASE t \notin {"<", ">"} /\ ~InTag(m, i) /\ ~EntityAt(m, i)
  <2>1. ~InTag(m, k) /\ ScanOut(m, k) = Append(out, t) /\ Unescape(f[i]) = Unescape(out)
    BY <1>3, <1>8, <1>11 DEF InAccord, Opens, out
  <2>2. CASE t = "&"
    <3>1. EntityAt(m, k)
      BY <1>0, <1>1, <2>2 DEF WellFormed, t
    <3>2. CharOf(m[k + 1]) \in Token
      BY <3>1, Characters DEF EntityAt
    <3>3. Piece(m, k) = <<CharOf(m[k + 1])>>
      BY <1>11, <2>1, <3>1 DEF Piece, i, t
    <3>4. f[k] = Append(f[i], CharOf(m[k + 1]))
      BY <1>4, <3>2, <3>3
    <3>5. Opens(m, k)
      BY <2>1, <3>1 DEF Opens
    <3>6. CharOf(m[k + 1]) \notin EntityName
      BY <3>1, Characters DEF EntityAt
    <3>7. Unescape(f[k]) = Append(Unescape(out), CharOf(m[k + 1]))
      BY <1>4, <2>1, <3>2, <3>4, <3>6, UnescapeLeaves
    <3> QED
      BY <1>2, <2>1, <2>2, <3>5, <3>7 DEF InAccord, i, out
  <2>3. CASE t # "&"
    <3>1. ~EntityAt(m, k) /\ ~Opens(m, k)
      BY <1>5, <2>3 DEF Opens
    <3>2. Piece(m, k) = <<t>>
      BY <1>11, <2>1, <3>1 DEF Piece, i, t
    <3>3. f[k] = Append(f[i], t)
      BY <1>2, <1>4, <3>2
    <3>4. Unescape(f[k]) = Grown(Unescape(f[i]), t)
      BY <1>2, <1>4, <3>3, UnescapeGrows
    <3>5. Unescape(ScanOut(m, k)) = Grown(Unescape(out), t)
      BY <1>2, <2>1, UnescapeGrows
    <3> QED
      BY <2>1, <3>1, <3>4, <3>5 DEF InAccord
  <2> QED
    BY <2>2, <2>3
<1> QED
  BY <1>9, <1>10, <1>11

(* strip_ssml agrees with the reading of every message. *)
LEMMA StripSsmlFaithful == \A m \in Seq(Token) : Faithful(m)
<1> SUFFICES ASSUME NEW m \in Seq(Token), WellFormed(m)
             PROVE  /\ StripSsml(m) = Unescape(Says(m))
                    /\ SpellsNone(Says(m)) => StripSsml(m) = Says(m)
  BY DEF Faithful, SpellsNone
<1>1. PICK f : IsFlattening(f, Token, Pieces(m))
  BY PiecesType, FlattenSteps
<1>2. Reading(m, f)
  BY <1>1 DEF Reading
<1>3. Len(m) \in Nat
  BY LenProperties
<1> DEFINE T == {i \in Nat : i <= Len(m) => InAccord(m, f, i)}
<1>4. 0 \in T
  <2>1. ~Opens(m, 0)
    BY <1>3 DEF Opens, EntityAt
  <2> QED
    BY <1>2, <2>1, ReadingSteps, ScanStarts, UnescapeNothing DEF InAccord
<1>5. ASSUME NEW i \in Nat, i \in T
      PROVE  i + 1 \in T
  <2>1. SUFFICES ASSUME i + 1 <= Len(m) PROVE InAccord(m, f, i + 1)
    OBVIOUS
  <2>2. i + 1 \in 1..Len(m) /\ (i + 1) - 1 = i /\ i <= Len(m)
    BY <1>3, <2>1
  <2>3. InAccord(m, f, (i + 1) - 1)
    BY <1>5, <2>2
  <2> QED
    BY <1>2, <2>2, <2>3, AccordGoesOn
<1>6. Nat \subseteq T
  <2> HIDE DEF T
  <2> QED
    BY <1>4, <1>5, NatInduct
<1>7. InAccord(m, f, Len(m))
  BY <1>3, <1>6
<1>8. ~Opens(m, Len(m))
  BY <1>3 DEF Opens, EntityAt
<1>9. StripSsml(m) = Unescape(Says(m))
  BY <1>2, <1>7, <1>8, ReadingSteps, ScanStarts DEF InAccord, StripSsml
<1>10. Says(m) \in Seq(Token)
  <2>1. f \in [0..Len(m) -> Seq(Token)] /\ f[Len(m)] = Says(m)
    BY <1>2, ReadingSteps
  <2>2. Len(m) \in 0..Len(m)
    BY <1>3
  <2> QED
    BY <2>1, <2>2
<1> QED
  BY <1>9, <1>10, UnescapeKeeps

-----------------------------------------------------------------------------
(* strip_ssml hands the engine what the message says, for every message:     *)
(* nothing of its tags, every entity as its character, and all else as it    *)
(* stands; of a text so read that itself spells an entity, what one more     *)
(* decoding makes of it.                                                     *)
THEOREM SpdSpokenIsWritten == Spec => []SpokenIsWritten
<1>1. \A text \in Stripped : text.said = TRUE
  <2>1. \A m \in Message : Faithful(m)
    BY StripSsmlFaithful, MessageAssumption
  <2>2. ASSUME NEW m \in Message PROVE Faithful(m) = TRUE
    <3>1. Faithful(m) \in BOOLEAN
      BY DEF Faithful
    <3> QED
      BY <2>1, <3>1
  <2>3. ASSUME NEW text \in Stripped PROVE text.said = TRUE
    <3>1. PICK m \in Message :
            text = [blank |-> ToSet(StripSsml(m)) \subseteq {" "}, said |-> Faithful(m)]
      BY DEF Stripped
    <3> QED
      BY <2>2, <3>1
  <2> QED
    BY <2>3
<1>2. Init => said = TRUE
  BY DEF Init
<1>3. said = TRUE /\ [Next]_vars => (said = TRUE)'
  <2> SUFFICES ASSUME said = TRUE, [Next]_vars PROVE said' = TRUE
    OBVIOUS
  <2>1. CASE Prepare
    BY <1>1, <2>1 DEF Prepare
  <2>2. CASE Tells
    BY <2>2, Told DEF history
  <2>3. CASE Next /\ ~Prepare /\ ~Tells
    BY <2>3 DEF Next, SpeakStep, CallbackStep, EngineStep, Set, Stop, Close, Speak, CheckStop,
                Finish, Play, CbEnter, CbReturn, EngineSends, EngineSays, Returns, BridgeLost,
                history
  <2>4. CASE UNCHANGED vars
    BY <2>4 DEF vars, history
  <2> QED
    BY <2>1, <2>2, <2>3, <2>4
<1>4. said = TRUE => SpokenIsWritten
  BY DEF SpokenIsWritten
<1> QED
  BY <1>2, <1>3, <1>4, PTL DEF Spec
=============================================================================
