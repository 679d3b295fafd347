--------------------------- MODULE PrestateTracer ---------------------------
(***************************************************************************)
(* The tracer that collects the accounts and slots a clause needs to be    *)
(* run again elsewhere (prestate_tracer.js).  The tracer object is         *)
(*                                                                         *)
(*   prestate  the accounts recorded so far, null before the first step    *)
(*             (no step leaves it empty, so the empty function stands for  *)
(*             null)                                                       *)
(*   thrown    an exception left step or result: CaptureState makes no     *)
(*             further call, and the trace has no result                   *)
(*                                                                         *)
(* The tracer reads the state as it is when the operation is reported,     *)
(* before it is executed.                                                  *)
(***************************************************************************)
EXTENDS StateDB, Integers

CONSTANTS
    World,          \* the committed state below the clause
    toContract,     \* the address computed for CREATE
    toContract2     \* the address computed for CREATE2

Init == [prestate |-> EmptyMap, thrown |-> FALSE]

(* No slot was read yet. *)
Unread == Missing

(* The account as it stands.  GetNonce of this state always answers 0. *)
Account(db, a) ==
    [balance |-> GetBalance(db, World, a), nonce |-> 0,
     code |-> GetCode(db, World, a), storage |-> Unread]

lookupAccount(p, a, db) ==
    IF a \in DOMAIN p THEN p
    ELSE [x \in DOMAIN p \cup {a} |-> IF x = a THEN Account(db, a) ELSE p[x]]

\* Mutant: a slot is read again at every access.
lookupStorage_Again(t, a, db) ==
    IF a \notin DOMAIN t.prestate THEN [t EXCEPT !.thrown = TRUE]
    ELSE [t EXCEPT !.prestate[a].storage = GetState(db, World, a)]

(* An account that was never looked up is undefined: reading its storage   *)
(* throws.                                                                 *)
lookupStorage(t, a, db) ==
    IF a \notin DOMAIN t.prestate THEN [t EXCEPT !.thrown = TRUE]
    ELSE IF t.prestate[a].storage # Unread THEN t
    ELSE [t EXCEPT !.prestate[a].storage = GetState(db, World, a)]

step(t, log, db) ==
    LET started == [t EXCEPT !.prestate =
                        IF @ = EmptyMap THEN lookupAccount(@, log.address, db)
                        ELSE @]
        looked(a) == [started EXCEPT !.prestate = lookupAccount(@, a, db)]
    IN  CASE log.op \in {"BALANCE", "CALL", "CALLCODE", "DELEGATECALL",
                         "STATICCALL"} -> looked(log.to)
          [] log.op = "CREATE"  -> looked(toContract)
          [] log.op = "CREATE2" -> looked(toContract2)
          [] log.op \in {"SSTORE", "SLOAD"} ->
                lookupStorage(started, log.address, db)
          [] OTHER -> started

fault(t, log) == t

(* The value of the clause is moved back to its sender, and the account a  *)
(* clause created is dropped.  Without any step there is no prestate to    *)
(* add the sender to.                                                      *)
result(t, ctx, db) ==
    LET p == lookupAccount(t.prestate, ctx.from, db)
        q == [p EXCEPT ![ctx.to].balance = @ - ctx.value]
        r == [q EXCEPT ![ctx.from].balance = p[ctx.from].balance + ctx.value,
                       ![ctx.from].nonce = @ - 1]
        kept == IF ctx.type = "CREATE" THEN DOMAIN r \ {ctx.to} ELSE DOMAIN r
    IN  IF t.prestate = EmptyMap \/ ctx.to \notin DOMAIN p
        THEN [t EXCEPT !.thrown = TRUE]
        ELSE [t EXCEPT !.prestate = [a \in kept |-> r[a]]]
=============================================================================
