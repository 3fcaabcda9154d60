SPECIFICATION Spec
CONSTANTS
    f = f  g = g  m = m  n = n  r = r
    Module = {m, n}
    SourceRoot = {r}
    NoRoot = NoRoot
    NoJdk = NoJdk
    Jdk = jdk
    Model <- MCModel
    Class <- MCClass
    Origin = {f, g}
    Texts <- MCTexts
    ContextOf <- MCContextOf
    ArchiveNames <- MCArchiveNames
    Reader = {r1, r2}
    None = None
    MaxChanges = 2
    MaxSnapshots = 2
    MaxIndexes = 2
INVARIANTS TypeOK CurrentScopesAreFresh UndisturbedRequestsSeeIndex
CHECK_DEADLOCK FALSE
SYMMETRY Sym
