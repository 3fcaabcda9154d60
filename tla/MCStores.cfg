SPECIFICATION StoresSpec
CONSTANTS
    f = f  g = g  j = j  a = a  ab = ab  x = x  p = p
    Class <- MCClass
    Batch <- MCBatch
    Origin = {f, g, j}
    Jar = {j}
    None = None
    Vacant = Vacant
    Process = {p1, p2}
    Schema <- MCSchema
    OldSchema = 1
    Path = {j1, j2}
    Content = {c1, c2}
    MaxRewrites = 1
    MaxCrashes = 1
    MaxJars = 2
    Bytes = {b1, b2}
    Request = {r1, r2}
    Absent = Absent
    Partial = Partial
    MaxRebuilds = 2
    MaxRequests = 3
    MaxFaults = 1
SYMMETRY Sym
CHECK_DEADLOCK FALSE
INVARIANTS StoresTypeOK BucketConsistent ArtifactsSound DecompiledSourceShown
PROPERTY ImplementsContents
