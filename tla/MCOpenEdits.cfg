SPECIFICATION FairSpec
CONSTANTS
    d = d  n = n  m = m  root = root  main = main  disk = disk
    Uri = {d}
    Text = {disk, edit, last}
    Disk <- MCDisk
    Absent = Absent
    None = None
    Model = {m}
    NoModel = NoModel
    Bucket = {root, main}
    ContextOf <- MCContextOf
    Handle = {h1, h2, h3, h4, h5, h6, h7, h8, h9}
    Task = {t1, t2}
    Prompt = TRUE
    MaxVersion = 3
    MaxSaves = 0
    MaxCloses = 0
    MaxJobs = 0
    MaxRequests = 0
    MaxRebuilds = 0
INVARIANT KeptEditsShown
PROPERTY LastEditShown
CHECK_DEADLOCK FALSE
