\* Every function, with strings at and over the limits and an engine of the older API.
SPECIFICATION Spec
CONSTANTS
    StrLen = {0, 30, 4096, 65536, 65537, 4194304}
    Missing = {"eciUpdateDictA", "eciDictLookupA", "eciGetAvailableLanguages"}
INVARIANTS
    TypeOK
    ArgumentsArrive
    OutParamsInPlace
    SuccessIsReal
