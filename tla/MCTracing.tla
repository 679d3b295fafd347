----------------------------- MODULE MCTracing ------------------------------
(* Two contracts, one of them with native methods, and a plain account.    *)
EXTENDS Tracing

CONSTANTS o, a, b, user, pre, n1, n2, s, x

MCContracts == {a, b}
MCNative == {b}
MCPlain == {user}
MCPrecompiled == {pre}
MCCreated == <<n1, n2>>
MCBalances == [c \in Accounts |-> IF c \in {o, a, b} THEN 1 ELSE 0]
MCSlots == [c \in Accounts |-> IF c \in {a, b} THEN 1 ELSE 0]
MCValues == {2}

MCCalls == {<<"CALL", a>>, <<"CALL", user>>, <<"CALL", pre>>}
MCCreates == {<<"CREATE", n1>>}

MCRequest(t, max, clauses, ops, to, amounts, ids) ==
    [tracer |-> t, maxSteps |-> max, clauses |-> clauses,
     ops |-> {"OP", "STOP"} \cup ops, to |-> to, amounts |-> amounts,
     ids |-> ids]

MCCounting(t, max) ==
    MCRequest(t, max, MCCalls, {"CALL", "REVERT"}, {b, user}, {0}, {"none"})

MCRequests == {
    MCRequest("call", 7, MCCalls \cup MCCreates,
        {"CALL", "REVERT", "CREATE", "RETURN", "SELFDESTRUCT"},
        {b, user, pre}, {0}, {"none"}),
    MCRequest("call", 9, MCCalls, {"CALL", "REVERT"}, {b}, {0}, {"none"}),
    MCRequest("evmdis", 8, MCCalls, {"CALL", "CREATE"}, {b, user}, {0}, {"none"}),
    MCRequest("evmdis", 9, MCCalls, {"STATICCALL"}, {b}, {0}, {"none"}),
    MCRequest("prestate", 7, MCCalls \cup MCCreates,
        {"CALL", "DELEGATECALL", "SSTORE", "SLOAD", "CREATE", "CREATE2"},
        {b}, {0}, {"none"}),
    MCRequest("prestate", 6, MCCalls,
        {"CALL", "BALANCE", "REVERT", "CREATE2", "SELFDESTRUCT"},
        {b, o}, {0, 1, 2}, {"none"}),
    MCRequest("noop", 8, MCCalls, {"CALL", "REVERT", "SSTORE"},
        {b}, {0, 1}, {"none"}),
    MCRequest("noop", 7, MCCalls \cup MCCreates,
        {"CALL", "LOG", "CREATE", "CREATE2", "RETURN", "SELFDESTRUCT"},
        {b}, {0, 1}, {"none"}),
    MCRequest("noop", 9, MCCalls, {"STATICCALL", "DELEGATECALL", "SSTORE"},
        {b}, {0}, {"none"}),
    MCCounting("opcount", 6), MCCounting("unigram", 7),
    MCCounting("bigram", 8), MCCounting("trigram", 8),
    MCRequest("4byte", 5, MCCalls, {"CALL", "CALLCODE"}, {b, pre}, {0},
        {"none", "id"})
 }
=============================================================================
