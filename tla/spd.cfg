\* Stops at any moment, leftover text, a lost bridge, messages of all forms.
SPECIFICATION FairSpec
CONSTANTS
    Command <- Commands
    Message <- Messages
    InitVoice = 0
INVARIANTS
    TypeOK
    SpokenIsWritten
    NoLeftover
    EndMeansAll
    SettingsApplied
PROPERTIES
    StopSilences
    StopEndsSpeech
