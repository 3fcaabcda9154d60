SPECIFICATION Spec
CONSTANTS
    f = f  g = g  m = m  root = root  main = main
    Uri = {f, g}
    Text = {t1}
    Classless = {}
    Unreadable = {}
    Absent = Absent
    Model = {m}
    NoModel = NoModel
    Covers <- MCCovers
    Bucket = {root, main}
    ContextOf <- MCContextOf
    Polling = FALSE
    MaxWrites = 2
    MaxRebuilds = 2
    MaxErrors = 1
INVARIANTS TypeOK NamedChangesShown RescannedChangesShown
CHECK_DEADLOCK FALSE
