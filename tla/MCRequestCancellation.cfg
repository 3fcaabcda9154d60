CONSTANTS
    r1 = r1
    r2 = r2
    r3 = r3
    k1 = k1
    None = None
    Request <- MCRequest
    Key <- MCKey
    KeyOf <- MCKeyOf
    Decompiles <- MCDecompiles
    Checks = 1
SPECIFICATION Spec
INVARIANTS
    TypeOK
    OneLiveRequestPerKey
    SupersededOnlyByNewer
    RegistryMatchesGuards
    DecompiledAnswerUncancelled
PROPERTIES
    ClosedTokenUntouched
    SupersededDecompileEnds
CHECK_DEADLOCK FALSE
