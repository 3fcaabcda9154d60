SPECIFICATION FairSpec
CONSTANTS
    gradle = gradle  pom = pom
    Gradle = Gradle  Maven = Maven
    File = {gradle, pom}
    Tool = {Gradle, Maven}
    NameOf <- MCNameOf
    Registry <- MCRegistry
    Markers <- MCMarkers
    Watched <- MCWatched
    Registered = {gradle, pom}
    None = None
    MaxChanges = 4
    MaxOpens = 1
INVARIANTS TypeOK RelevantChangesImported StatusTruthful WorkHasTimer
PROPERTIES ModelMovesForward ReloadsEnd
CHECK_DEADLOCK FALSE
