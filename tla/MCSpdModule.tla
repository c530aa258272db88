---------------------------- MODULE MCSpdModule ----------------------------
(* Settings at and beyond the ends of speech-dispatcher's ranges, voices by *)
(* type, by name, by number and unknown, and every message of up to four    *)
(* tokens.                                                                  *)
EXTENDS SpdModule

Number(var, n) == [var |-> var, val |-> "number", atoi |-> n]
Word(var, w) == [var |-> var, val |-> w, atoi |-> 0]
Commands == {Number("rate", -100), Number("rate", 101), Number("pitch", -101),
             Number("volume", 0), Number("synthesis_voice", 8), Number("synthesis_voice", 7),
             Word("voice", "MALE1"), Word("voice", "FEMALE1"), Word("synthesis_voice", "Shelley"),
             Word("synthesis_voice", "Nobody"), Word("language", "en")}
Messages == BoundedSeq({"<", ">", "&", "amp;", "lt;", " ", "a"}, 4)

(* Two voices are enough for a copy to go wrong. *)
Voices == {Word("voice", "MALE1"), Word("voice", "FEMALE1")}
OneWord == {<<"a">>}
=============================================================================
