\* Two voices, chosen in turn.
SPECIFICATION Spec
CONSTANTS
    Command <- Voices
    Message <- OneWord
    InitVoice = 0
INVARIANT VoiceSelected
