SPECIFICATION Spec
CONSTANTS
    o = o
    a = a
    b = b
    user = user
    pre = pre
    n1 = n1
    n2 = n2
    s = s
    x = x
    Missing = Missing
    Origin = o
    Salted = s
    Foreign = x
    Contracts <- MCContracts
    Native <- MCNative
    Plain <- MCPlain
    Precompiled <- MCPrecompiled
    Created <- MCCreated
    Balances <- MCBalances
    Slots <- MCSlots
    Values <- MCValues
    CallCreateDepth = 2
    Requests <- MCRequests
CHECK_DEADLOCK FALSE
INVARIANTS MapsIndexed CallsReported OpsNested PrestateTrue StaticChangesNothing HistogramsExact
PROPERTIES RevertRestores
