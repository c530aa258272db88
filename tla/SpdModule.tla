----------------------------- MODULE SpdModule -----------------------------
(***************************************************************************)
(* The speech-dispatcher output module (src/spd/sd_eloquence.c): one       *)
(* thread runs module_speak_sync, the main thread may call module_stop or  *)
(* module_pause at any moment of it, and the shim's callback thread calls  *)
(* eci_callback.  The three share g_stop and nothing else: every access of *)
(* it and every report is a step of its own.                               *)
(*                                                                         *)
(* speech-dispatcher and the engine behind the shim are external: settings *)
(* are sent between messages; the engine says all text it has been given   *)
(* and may keep the rest of an aborted text; once the bridge is lost the   *)
(* module's handle is dead and every call does nothing, but an event that  *)
(* was sent before is still delivered.                                     *)
(***************************************************************************)
EXTENDS Integers, Sequences, SequencesExt

CONSTANTS
    Command,    \* the settings sent: var, val, and what atoi makes of val
    Message,    \* the messages sent, sequences of Token
    InitVoice   \* EloquenceDefaultVoice

(* What strip_ssml tells apart in a message: the marks of a tag, the       *)
(* ampersand, what follows it in an entity, a blank, anything else.        *)
EntityName == {"amp;", "lt;", "gt;", "quot;", "apos;"}
CharOf(name) == CASE name = "amp;" -> "&" [] name = "lt;" -> "<" [] name = "gt;" -> ">"
                  [] name = "quot;" -> "\"" [] name = "apos;" -> "'"
Token == EntityName \cup {"<", ">", "&", "'", "\"", " ", "a"}

ASSUME MessageAssumption == Message \subseteq Seq(Token)
ASSUME VoiceAssumption == InitVoice \in 0..7
(* atoi gives a number for every word, 0 for one that spells none. *)
ASSUME CommandAssumption == \A c \in Command : c.atoi \in Int

VARIABLES
    g_eci,      \* is there an instance?
    g_stop,
    settings,   \* g_current_voice, g_eci_speed, g_eci_pitch, g_eci_volume
    speak,      \* where module_speak_sync is
    cb,         \* where eci_callback is
    buffer,     \* whose audio it has: of this message, "new", or "old"
    report,     \* what speech-dispatcher was told of this message
    alive,      \* engine: the bridge and the instance exist
    input,      \* engine: text it has not said, "new" of this message or "old"
    voice,      \* engine: its eight voices; it speaks with the first
    stopped,    \* history: a stop or pause of this message, "in_time" for its
                \* last test of g_stop or "late"
    cut,        \* history: some of this message will not be heard
    late,       \* history: buffers played after their own message
    said        \* history: was the engine given what the message says?

callback == <<cb, buffer>>
engine == <<alive, input, voice>>
history == <<stopped, cut, late, said>>
vars == <<g_eci, g_stop, settings, speak, callback, report, engine, history>>

-----------------------------------------------------------------------------
(* The conversions of module_set. *)

ClampLow(val, lo, hi) == IF val < lo THEN lo ELSE val
Clamp(val, lo, hi) == IF val < lo THEN lo ELSE IF val > hi THEN hi ELSE val
(* C's division truncates towards zero. *)
Half(n) == IF n < 0 THEN -((-n) \div 2) ELSE n \div 2

VoiceNumber == [MALE1 |-> 0, MALE2 |-> 3, MALE3 |-> 4, FEMALE1 |-> 1, FEMALE2 |-> 5,
                FEMALE3 |-> 6, CHILD_MALE |-> 2, CHILD_FEMALE |-> 2]
(* An unknown voice type is MALE1. *)
SpdVoiceToEci(type) == IF type \in DOMAIN VoiceNumber THEN VoiceNumber[type] ELSE 0

voice_names == [Reed |-> 0, Shelley |-> 1, Bobby |-> 2, Rocko |-> 3,
                Glen |-> 4, Sandy |-> 5, Grandma |-> 6, Grandpa |-> 7]
(* By name, else by number, which an unknown name is too. *)
SynthesisVoice(c, now) == IF c.val \in DOMAIN voice_names THEN voice_names[c.val]
                          ELSE IF c.atoi \in 0..7 THEN c.atoi ELSE now

Converted(s, c) ==
    CASE c.var = "rate" -> [s EXCEPT !.speed = Clamp(50 + c.atoi * 2, 0, 250)]
      [] c.var = "pitch" -> [s EXCEPT !.pitch = Clamp(50 + Half(c.atoi), 0, 100)]
      [] c.var = "volume" -> [s EXCEPT !.volume = Clamp(Half(c.atoi + 100), 0, 100)]
      [] c.var = "voice" -> [s EXCEPT !.voice = SpdVoiceToEci(c.val)]
      [] c.var = "synthesis_voice" -> [s EXCEPT !.voice = SynthesisVoice(c, @)]
      [] OTHER -> s

(* strip_ssml drops what stands from a < to the next >, ... *)
Outside == [in_tag |-> FALSE, out |-> <<>>]
ScannedNoReset(before, t) ==
    IF t = "<" THEN [before EXCEPT !.in_tag = TRUE]
    ELSE IF before.in_tag THEN before ELSE [before EXCEPT !.out = Append(@, t)]
Scanned(before, t) ==
    CASE t = "<" -> [before EXCEPT !.in_tag = TRUE]
      [] t = ">" -> [before EXCEPT !.in_tag = FALSE]
      [] OTHER -> IF before.in_tag THEN before ELSE [before EXCEPT !.out = Append(@, t)]
Scan(m) ==
    LET scan[s \in Seq(Token)] == IF s = <<>> THEN Outside ELSE Scanned(scan[Front(s)], Last(s))
    IN  scan[m]
StripTags(m) == Scan(m).out
(* ... then decodes one entity after the other, each wherever it is found  *)
(* and searching from the start again.                                     *)
Decoded(out, t, name) ==
    IF t = name /\ out # <<>> /\ Last(out) = "&"
    THEN Append(Front(out), CharOf(name)) ELSE Append(out, t)
Decode(s, name) ==
    LET decode[u \in Seq(Token)] ==
          IF u = <<>> THEN <<>> ELSE Decoded(decode[Front(u)], Last(u), name)
    IN  decode[s]
Unescape(s) == Decode(Decode(Decode(Decode(Decode(s, "amp;"), "lt;"), "gt;"), "quot;"), "apos;")
StripSsml(m) == Unescape(StripTags(m))

(* What an SSML message says: its tags say nothing, and every entity of it *)
(* is one character, never part of another entity.                         *)
InTag(m, i) == \E j \in 1..i : m[j] = "<" /\ \A k \in j..i : m[k] # ">"
EntityAt(m, i) == i \in 1..(Len(m) - 1) /\ m[i] = "&" /\ m[i + 1] \in EntityName
WellFormed(m) ==
    \A i \in DOMAIN m : /\ m[i] = "<" => ~InTag(m, i - 1)
                        /\ m[i] = ">" => InTag(m, i - 1)
                        /\ m[i] = "&" => EntityAt(m, i)
Says(m) ==
    FlattenSeq([i \in DOMAIN m |->
        IF InTag(m, i) \/ m[i] = ">" \/ EntityAt(m, i - 1) THEN <<>>
        ELSE IF EntityAt(m, i) THEN <<CharOf(m[i + 1])>> ELSE <<m[i]>>])

(* strip_ssml against one reading of the message: the passes over it give  *)
(* what the passes over the reading give.  Where the reading itself spells *)
(* an entity (an escaped ampersand before "lt;") that is decoded, once too *)
(* often; where it spells none, it is what is given.  A message that is    *)
(* not well-formed says nothing certain.                                   *)
Faithful(m) ==
    WellFormed(m) =>
        /\ StripSsml(m) = Unescape(Says(m))
        /\ (\A i \in DOMAIN Says(m) : ~EntityAt(Says(m), i)) => StripSsml(m) = Says(m)

(* What module_speak_sync can meet after strip_ssml, over all messages. *)
Stripped == {[blank |-> ToSet(StripSsml(m)) \subseteq {" "}, said |-> Faithful(m)] : m \in Message}

-----------------------------------------------------------------------------
(* The engine, as the shim's calls reach it. *)

(* eciCopyVoice(v, 0), then eciSetVoiceParam on voice 0. *)
CopyVoice(vs, v) == [vs EXCEPT ![0] = vs[v]]
SetVoiceParams(vs, s) ==
    [vs EXCEPT ![0] = [@ EXCEPT !.speed = s.speed, !.pitch = s.pitch, !.volume = s.volume]]
ApplyParamsFirst(vs, s) == CopyVoice(SetVoiceParams(vs, s), s.voice)
Apply(vs, s) == SetVoiceParams(CopyVoice(vs, s.voice), s)

Preset == [v \in 0..7 |-> [preset |-> v, speed |-> 50, pitch |-> 65, volume |-> 90]]
Defaults == [voice |-> InitVoice, speed |-> 50, pitch |-> 65, volume |-> 90]

(* After module_init with the configuration's defaults. *)
Init ==
    /\ g_eci = TRUE /\ g_stop = FALSE
    /\ settings = Defaults
    /\ speak = "idle" /\ cb = "idle" /\ buffer = "none"
    /\ report = <<>>
    /\ alive = TRUE /\ input = <<>>
    /\ voice = Apply(Preset, Defaults)
    /\ stopped = "no" /\ cut = FALSE /\ late = 0 /\ said = TRUE

-----------------------------------------------------------------------------
(* module_set *)
Set(c) ==
    /\ speak = "idle"
    /\ settings' = Converted(settings, c)
    /\ UNCHANGED <<g_eci, g_stop, speak, callback, report, engine, history>>

(* module_stop and module_pause: a flag, and no call into the engine, whose *)
(* lock eciSynchronize holds.  It is late once the message's report is      *)
(* decided.                                                                 *)
Decided == speak \in {"event_stop", "event_end", "speak_error"}
Stop ==
    /\ g_stop' = TRUE
    /\ stopped' = IF speak = "idle" \/ stopped = "in_time" THEN stopped
                  ELSE IF Decided THEN "late" ELSE "in_time"
    /\ UNCHANGED <<g_eci, settings, speak, callback, report, engine, cut, late, said>>

(* module_close *)
Close ==
    /\ speak = "idle" /\ g_eci
    /\ g_eci' = FALSE
    /\ alive' = FALSE /\ input' = <<>>
    /\ UNCHANGED <<g_stop, settings, speak, callback, report, voice, history>>

-----------------------------------------------------------------------------
(* module_speak_sync *)

Aged(owner) == IF owner = "new" THEN "old" ELSE owner
Speak ==
    /\ speak = "idle"
    /\ g_stop' = FALSE
    /\ speak' = "speak_ok" /\ report' = <<>>
    /\ input' = [i \in DOMAIN input |-> "old"] /\ buffer' = Aged(buffer)
    /\ stopped' = "no" /\ cut' = FALSE
    /\ UNCHANGED <<g_eci, settings, cb, alive, voice, late, said>>

Reports(event, next) ==
    /\ report' = Append(report, event)
    /\ speak' = next
    /\ UNCHANGED <<g_eci, g_stop, settings, callback, engine, history>>

SpeakOk == speak = "speak_ok" /\ Reports("ok", IF g_eci THEN "prepare" ELSE "speak_error")
SpeakError == speak = "speak_error" /\ Reports("error", "idle")
EventStop == speak = "event_stop" /\ Reports("stop", "idle")
EventEnd == speak = "event_end" /\ Reports("end", "idle")
(* ... then eciSynthesize and eciSynchronize. *)
EventBegin == speak = "event_begin" /\ Reports("begin", "sync")

PrepareNoClear ==
    /\ speak = "prepare"
    /\ voice' = IF alive THEN Apply(voice, settings) ELSE voice
    /\ \/ speak' = "event_end" /\ UNCHANGED <<input, cut, said>>
       \/ /\ \E text \in Stripped : ~text.blank /\ said' = text.said
          /\ input' = IF alive THEN Append(input, "new") ELSE input
          /\ cut' = ~alive
          /\ speak' = "check"
    /\ UNCHANGED <<g_eci, g_stop, settings, callback, report, alive, stopped, late>>
(* eciClearInput, the voice and its parameters; then, unless the stripped   *)
(* text is blank, or strip_ssml finds no memory, eciAddText.  A message     *)
(* with nothing to say ends, and g_stop is not looked at.                   *)
Prepare ==
    /\ speak = "prepare"
    /\ voice' = IF alive THEN Apply(voice, settings) ELSE voice
    /\ \/ speak' = "event_end" /\ input' = <<>> /\ UNCHANGED <<cut, said>>
       \/ /\ \E text \in Stripped : ~text.blank /\ said' = text.said
          /\ input' = IF alive THEN <<"new">> ELSE <<>>
          /\ cut' = ~alive
          /\ speak' = "check"
    /\ UNCHANGED <<g_eci, g_stop, settings, callback, report, alive, stopped, late>>

(* A stop that came by now: the text stays in the engine. *)
CheckStop ==
    /\ speak = "check"
    /\ speak' = IF g_stop THEN "event_stop" ELSE "event_begin"
    /\ UNCHANGED <<g_eci, g_stop, settings, callback, report, engine, history>>

FinishEnd ==
    /\ speak = "finish"
    /\ speak' = "event_end"
    /\ UNCHANGED <<g_eci, g_stop, settings, callback, report, engine, history>>
(* eciSynchronize has returned. *)
Finish ==
    /\ speak = "finish"
    /\ speak' = IF g_stop THEN "event_stop" ELSE "event_end"
    /\ UNCHANGED <<g_eci, g_stop, settings, callback, report, engine, history>>

-----------------------------------------------------------------------------
(* eci_callback, in the callback thread. *)

CbEnterNoTest ==
    /\ cb = "event"
    /\ cb' = "play"
    /\ UNCHANGED <<g_eci, g_stop, settings, speak, buffer, report, engine, history>>
(* A buffer has come: g_stop is read, ... *)
CbEnter ==
    /\ cb = "event"
    /\ cb' = IF g_stop THEN "return" ELSE "play"
    /\ cut' = (cut \/ (g_stop /\ buffer = "new"))
    /\ UNCHANGED <<g_eci, g_stop, settings, speak, buffer, report, engine, stopped, late, said>>

(* ... the audio goes to speech-dispatcher, ... *)
Play ==
    /\ cb = "play"
    /\ cb' = "return"
    /\ late' = IF buffer = "old" \/ speak = "idle" THEN late + 1 ELSE late
    /\ UNCHANGED <<g_eci, g_stop, settings, speak, buffer, report, engine, stopped, cut, said>>

CbReturnProcessed ==
    /\ cb = "return"
    /\ cb' = "idle" /\ buffer' = "none"
    /\ UNCHANGED <<g_eci, g_stop, settings, speak, report, engine, history>>
(* ... and g_stop is read again: eciDataAbort ends the synthesis, and the   *)
(* engine may keep what it has not said.  The answer to a lost bridge goes  *)
(* nowhere.                                                                 *)
CbReturn ==
    /\ cb = "return"
    /\ cb' = "idle" /\ buffer' = "none"
    /\ IF g_stop /\ alive
       THEN speak' = "finish" /\ cut' = TRUE /\ input' \in {input, <<>>}
       ELSE UNCHANGED <<speak, cut, input>>
    /\ UNCHANGED <<g_eci, g_stop, settings, report, alive, voice, stopped, late, said>>

-----------------------------------------------------------------------------
(* The engine inside eciSynchronize: it sends a buffer of the text it is at *)
(* and waits for the answer, ...                                            *)
EngineSends ==
    /\ speak = "sync" /\ cb = "idle" /\ alive /\ input # <<>>
    /\ cb' = "event" /\ buffer' = Head(input)
    /\ UNCHANGED <<g_eci, g_stop, settings, speak, report, engine, history>>

(* ... or is through with that text, and with the last eciSynchronize       *)
(* returns; a dead handle makes it return at once.                          *)
EngineSays ==
    /\ speak = "sync" /\ cb = "idle" /\ alive /\ input # <<>>
    /\ input' = Tail(input)
    /\ speak' = IF Len(input) = 1 THEN "finish" ELSE "sync"
    /\ UNCHANGED <<g_eci, g_stop, settings, callback, report, alive, voice, history>>

Returns ==
    /\ speak = "sync" /\ ~alive
    /\ speak' = "finish"
    /\ UNCHANGED <<g_eci, g_stop, settings, callback, report, engine, history>>

(* The bridge goes away, with whatever the instance was doing; an event it  *)
(* has sent stays on the channel.                                           *)
BridgeLost ==
    /\ alive
    /\ alive' = FALSE /\ input' = <<>>
    /\ cut' = (cut \/ "new" \in ToSet(input))
    /\ UNCHANGED <<g_eci, g_stop, settings, speak, callback, report, voice, stopped, late, said>>

-----------------------------------------------------------------------------
Tells == SpeakOk \/ SpeakError \/ EventBegin \/ EventStop \/ EventEnd
SpeakStep == Tells \/ Prepare \/ CheckStop \/ Finish
CallbackStep == CbEnter \/ Play \/ CbReturn
EngineStep == EngineSends \/ EngineSays \/ Returns

Next ==
    \/ \E c \in Command : Set(c)
    \/ Stop \/ Close \/ Speak
    \/ SpeakStep \/ CallbackStep \/ EngineStep
    \/ BridgeLost

Spec == Init /\ [][Next]_vars

(* The threads run and the engine works, but nothing says how long a text  *)
(* is: it may go on producing buffers.                                     *)
FairSpec == Spec /\ WF_vars(SpeakStep) /\ WF_vars(CallbackStep) /\ WF_vars(EngineStep)

-----------------------------------------------------------------------------
(* The type invariant; the settings are in the engine's ranges. *)
SettingsType == [voice : 0..7, speed : 0..250, pitch : 0..100, volume : 0..100]
TypeOK ==
    /\ g_eci \in BOOLEAN /\ g_stop \in BOOLEAN /\ alive \in BOOLEAN
    /\ settings \in SettingsType
    /\ speak \in {"idle", "speak_ok", "speak_error", "prepare", "check", "event_begin",
                  "sync", "finish", "event_stop", "event_end"}
    /\ cb \in {"idle", "event", "play", "return"} /\ buffer \in {"none", "old", "new"}
    /\ report \in Seq({"ok", "error", "begin", "stop", "end"})
    /\ input \in Seq({"old", "new"})
    /\ voice \in [0..7 -> [preset : 0..7, speed : 0..250, pitch : 0..100, volume : 0..100]]
    /\ stopped \in {"no", "in_time", "late"} /\ cut \in BOOLEAN
    /\ late \in Nat
    /\ said \in BOOLEAN

(* For every well-formed message the six passes of strip_ssml agree with    *)
(* one reading of it: the engine is given exactly what the message says, or *)
(* where that itself spells an entity, what it says decoded once more, and  *)
(* nothing else.                                                            *)
SpokenIsWritten == speak = "sync" => said

(* "Clear any leftover state from a previous aborted synthesis": whatever   *)
(* was stopped or kept before, the audio played during a message is its     *)
(* own, save for the one buffer that was on its way when the bridge was     *)
(* lost: nobody waits for that one, and eci_callback may play it after its  *)
(* message, or during the next.                                             *)
NoLeftover == late <= 1 /\ (late # 0 => ~alive)

(* Once a stop has come after module_speak_sync began, no further buffer    *)
(* is sent to speech-dispatcher than one already past the test of g_stop.   *)
StopSilences == [][cb # "play" /\ cb' = "play" => stopped = "no"]_vars

(* speech-dispatcher is told the truth of a message it heard the beginning  *)
(* of.  "end" means that no stop came before the last test of g_stop (one   *)
(* between that test and the report is not seen) and that all of it was     *)
(* said, unless the bridge was lost, which nobody reports; "stop" means     *)
(* that a stop of this very message came.                                   *)
EndMeansAll ==
    /\ speak = "idle" /\ report = <<"ok", "begin", "end">> =>
         stopped # "in_time" /\ (cut => ~alive)
    /\ "stop" \in ToSet(report) => stopped = "in_time"

(* What the engine says, it says with the settings in force: the copy of a *)
(* voice does not undo speed, pitch or volume.                             *)
SettingsApplied ==
    speak = "sync" /\ alive =>
        \A p \in {"speed", "pitch", "volume"} : voice[0][p] = settings[p]

(* "It maps speech-dispatcher parameters (rate, pitch, volume, voice type) *)
(* to ECI equivalents" (README.md); MALE1 is Reed, preset 0.               *)
VoiceSelected ==
    speak = "sync" /\ alive => voice[0].preset = settings.voice

(* A stopped message comes to its end, even if the engine would go on with *)
(* it for ever: "The callback checks g_stop and returns eciDataAbort,      *)
(* which makes eciSynchronize() return promptly" (module_stop).            *)
StopEndsSpeech == (stopped # "no" /\ speak # "idle") ~> speak = "idle"
=============================================================================
