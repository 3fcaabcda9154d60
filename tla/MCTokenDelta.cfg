SPECIFICATION CachesSpec
CONSTANTS
    long = long
    short = short
    Text <- MCText
    TokensOf <- MCTokensOf
    Worker = {w1, w2}
    None = None
    MaxEvents = 3
    MaxRequests = 3
SYMMETRY Sym
INVARIANT ClientTokens
CHECK_DEADLOCK FALSE
