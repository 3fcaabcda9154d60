SPECIFICATION FairSpec
CONSTANTS
    f = f  g = g  m = m  root = root  main = main
    Uri = {f}
    Text = {t1, t2, t3}
    Classless = {t2}
    Unreadable = {t3}
    Absent = Absent
    Model = {m}
    NoModel = NoModel
    Covers <- MCCovers
    Bucket = {root, main}
    ContextOf <- MCContextOf
    Polling = TRUE
    MaxWrites = 2
    MaxRebuilds = 2
    MaxErrors = 0
INVARIANT NamedChangesShown
PROPERTY BatchesEnd
CHECK_DEADLOCK FALSE
