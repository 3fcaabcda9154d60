SPECIFICATION Spec
CONSTANTS
    d = d  n = n  m = m  root = root  main = main  disk = disk
    Uri <- MCUri
    Text = {disk, edit}
    Disk <- MCDisk
    Absent = Absent
    None = None
    Model = {m}
    NoModel = NoModel
    Bucket = {root, main}
    ContextOf <- MCContextOf
    Handle = {h1, h2, h3, h4, h5, h6, h7, h8, h9}
    Task = {t1, t2}
    Prompt = FALSE
    MaxVersion = 1
    MaxSaves = 1
    MaxCloses = 1
    MaxJobs = 1
    MaxRequests = 1
    MaxRebuilds = 1
INVARIANTS TypeOK SerialWritersShowOpenText ClosedTextShown
SYMMETRY Tasks
CONSTRAINT Smaller
CHECK_DEADLOCK FALSE
