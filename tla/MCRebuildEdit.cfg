SPECIFICATION Spec
CONSTANTS
    d = d  n = n  m = m  root = root  main = main  disk = disk
    Uri = {d}
    Text = {disk, edit}
    Disk <- MCDisk
    Absent = Absent
    None = None
    Model = {m}
    NoModel = NoModel
    Bucket = {root, main}
    ContextOf <- MCContextOf
    Handle = {h1, h2, h3, h4, h5, h6, h7, h8}
    Task = {t1}
    Prompt = TRUE
    MaxVersion = 1
    MaxSaves = 0
    MaxCloses = 0
    MaxJobs = 0
    MaxRequests = 0
    MaxRebuilds = 1
INVARIANT OpenTextShown
CHECK_DEADLOCK FALSE
