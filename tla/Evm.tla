-------------------------------- MODULE Evm ---------------------------------
(***************************************************************************)
(* One clause run by the virtual machine with a tracer attached (vm,       *)
(* runtime).  Which code a contract holds is left open: in every frame any *)
(* operation the interpreter accepts may come next.  What is kept is what  *)
(* each operation does to the frames and to the state, and which calls the *)
(* interpreter makes to the tracer, with what, and in which order.         *)
(*                                                                         *)
(*   db         the state of the clause                                    *)
(*   frames     the calls being run, outermost first                       *)
(*   creations  contractCreationCount                                      *)
(*   captured   the calls to the tracer of the last step                   *)
(*   clause     the clause, as CaptureStart gets it                        *)
(*   status     ready, running, or how the clause ended                    *)
(*   entered    how many frames were ever entered                          *)
(*   steps      how many operations were begun, to bound a run             *)
(*   worlds     for each open frame, the state it was entered in: kept to  *)
(*              judge by, the machine never reads it                       *)
(*                                                                         *)
(* The stack of a frame is reduced to its top: 1 after a call or a create  *)
(* that succeeded, 0 after one that failed and in a new frame.  "OP" is an *)
(* operation without effect on any of this that leaves the top in place.   *)
(***************************************************************************)
EXTENDS StateDB

CONSTANTS
    Origin,          \* the account that sends the clause
    Contracts,       \* accounts with code
    Native,          \* the contracts among them with native methods
    Plain,           \* accounts without code
    Precompiled,     \* the precompiled contracts
    Created,         \* a sequence: the addresses NewContractAddress gives
    Salted,          \* the address CREATE2 computes
    Foreign,         \* what toContract computes: nobody's address
    Balances,        \* the tokens of the accounts before the clause
    Slots,           \* their storage slots before the clause
    Values,          \* what SSTORE stores
    CallCreateDepth  \* params.CallCreateDepth

Accounts == {Origin, Salted, Foreign} \cup Contracts \cup Plain
                \cup Precompiled \cup {Created[i] : i \in DOMAIN Created}

ASSUME EvmAssumption ==
    /\ Native \subseteq Contracts
    /\ Balances \in [Accounts -> Nat]
    /\ CallCreateDepth \in Nat \ {0}
    /\ Len(Created) > 0

(* The committed state the clause starts from. *)
World == [k \in {AccountKey(a) : a \in Accounts}
              \cup {CodeKey(a) : a \in Accounts}
              \cup {StorageKey(a) : a \in Accounts} |->
            CASE k[1] = "account" ->
                    [balance |-> Balances[k[2]], master |-> Missing,
                     codeHash |-> k[2] \in Contracts]
              [] k[1] = "code"    -> k[2] \in Contracts
              [] k[1] = "storage" -> Slots[k[2]]]

NoId == "none"      \* call data shorter than a method id

CallOps   == {"CALL", "CALLCODE", "DELEGATECALL", "STATICCALL"}
CreateOps == {"CREATE", "CREATE2"}

VARIABLES db, frames, creations, captured, clause, status, entered, steps, worlds

evmVars == <<db, frames, creations, captured, clause, status, entered, steps,
             worlds>>

cur == frames[Len(frames)]

(* An operation that takes arguments is not the first of its frame. *)
Can(op) ==
    /\ status = "running"
    /\ cur.fresh => op \in {"OP", "STOP"}

(* The log object the tracer reads: to is the account the operation names, *)
(* id the head of its call data.                                           *)
Log(op, to, id) ==
    [op |-> op, to |-> to, id |-> id, error |-> FALSE, depth |-> Len(frames),
     address |-> cur.address, top |-> cur.top, at |-> steps + 1]

Step(log)  == [cb |-> "step", log |-> log]
Fault(log) == [cb |-> "fault", log |-> [log EXCEPT !.error = TRUE]]

(* CaptureState by the interpreter, before the operation is executed. *)
Captured(events) ==
    /\ captured' = events
    /\ steps' = steps + 1
    /\ UNCHANGED clause

(* The current frame goes on with top on its stack. *)
Continue(top, called) ==
    [frames EXCEPT ![Len(frames)] =
        [@ EXCEPT !.fresh = FALSE, !.called = called, !.top = top]]

Frame(type, address, readOnly) ==
    [type |-> type, address |-> address, readOnly |-> readOnly,
     snapshot |-> SnapshotId(db), uid |-> entered + 1,
     fresh |-> TRUE, called |-> FALSE, top |-> 0]

(* A new contract has its creator as master, and an event says so. *)
OnCreateContract(d, addr, caller) == AddLog(SetMaster(d, World, addr, caller), addr)

-----------------------------------------------------------------------------
(***************************************************************************)
(* The outermost call or create: PrepareClause, Call and Create at depth 0.*)
(***************************************************************************)
Starts(type, to, n, id) ==
    /\ status = "ready"
    /\ clause' = [type |-> type, to |-> to, value |-> n, id |-> id]
    /\ captured' = << >>
    /\ UNCHANGED steps

CanTransfer(n) == GetBalance(db, World, Origin) >= n

BeginRefused(type, to, n, id) ==
    /\ Starts(type, to, n, id)
    /\ ~CanTransfer(n)
    /\ status' = "fault"
    /\ UNCHANGED <<db, frames, creations, entered>>

BeginCall(to, n, id) ==
    /\ Starts("CALL", to, n, id)
    /\ CanTransfer(n)
    /\ GetCode(db, World, to)
    /\ db' = Transfer(Snapshot(db), World, Origin, to, n)
    /\ frames' = <<Frame("CALL", to, FALSE)>>
    /\ entered' = 1
    /\ status' = "running"
    /\ UNCHANGED creations

(* Nothing to step through: a plain account, or a precompiled contract,    *)
(* which may fail.  A clause never reaches a native method directly.       *)
BeginAway(to, n, id, ok) ==
    LET sent == Transfer(Snapshot(db), World, Origin, to, n)
    IN  /\ Starts("CALL", to, n, id)
        /\ CanTransfer(n)
        /\ ~GetCode(db, World, to)
        /\ ~ok => to \in Precompiled
        /\ db' = IF ok THEN sent ELSE RevertToSnapshot(sent, SnapshotId(db))
        /\ status' = IF ok THEN "ok" ELSE "fault"
        /\ UNCHANGED <<frames, creations, entered>>

(* With init code (code) the new contract is run, without it has no code. *)
BeginCreate(n, id, code) ==
    LET addr == Created[1]
        made == Transfer(OnCreateContract(Snapshot(db), addr, Origin), World,
                         Origin, addr, n)
    IN  /\ Starts("CREATE", addr, n, id)
        /\ CanTransfer(n)
        /\ ~GetCodeHash(db, World, addr)
        /\ creations' = creations + 1
        /\ db' = IF code THEN made ELSE SetCode(made, World, addr, FALSE)
        /\ frames' = IF code THEN <<Frame("CREATE", addr, FALSE)>> ELSE frames
        /\ entered' = IF code THEN 1 ELSE 0
        /\ status' = IF code THEN "running" ELSE "ok"

(***************************************************************************)
(* Operations that stay in the frame.  A read only frame refuses the ones  *)
(* that write: they fail before they are executed.                         *)
(***************************************************************************)
Stays(op, to) ==
    /\ Can(op)
    /\ Captured(<<Step(Log(op, to, NoId))>>)
    /\ frames' = Continue(cur.top, FALSE)
    /\ UNCHANGED <<creations, status, entered>>

Plainly == Stays("OP", Foreign) /\ UNCHANGED db

SLoad == Stays("SLOAD", Foreign) /\ UNCHANGED db

Balance(a) == Stays("BALANCE", a) /\ UNCHANGED db

SStore(v) ==
    /\ Stays("SSTORE", Foreign)
    /\ ~cur.readOnly
    /\ db' = SetState(db, cur.address, v)

Emit ==
    /\ Stays("LOG", Foreign)
    /\ ~cur.readOnly
    /\ db' = AddLog(db, cur.address)

-----------------------------------------------------------------------------
(***************************************************************************)
(* Calls: opCall and its siblings with Call, CallCode, DelegateCall and    *)
(* StaticCall.  A call is refused when it is too deep or sends tokens the  *)
(* caller lacks; then no snapshot is taken.                                *)
(***************************************************************************)
CanCall(op, n) ==
    /\ Can(op)
    /\ op \in CallOps
    /\ op \notin {"CALL", "CALLCODE"} => n = 0
    /\ cur.readOnly /\ op = "CALL" => n = 0

Refused(n) ==
    \/ Len(frames) > CallCreateDepth
    \/ GetBalance(db, World, cur.address) < n

(* Only CALL moves tokens: CALLCODE would move them to the caller. *)
Sent(op, to, n) ==
    LET saved == Snapshot(db)
    IN  IF op = "CALL" THEN Transfer(saved, World, cur.address, to, n) ELSE saved

(* Who called the current frame.  A delegate call keeps the caller. *)
CallerAddress ==
    LET own == CHOOSE i \in 1..Len(frames) :
                   /\ frames[i].type # "DELEGATECALL"
                   /\ \A j \in (i + 1)..Len(frames) : frames[j].type = "DELEGATECALL"
    IN  IF own = 1 THEN Origin ELSE frames[own - 1].address

(* A call of a contract to a native method of its own is answered without  *)
(* the interpreter (InterceptContractCall).                                *)
Intercepted(op, to) ==
    /\ to \in Native
    /\ cur.address = to
    /\ op = "DELEGATECALL" => CallerAddress = to

(* The caller: what it finds on its stack is known when the call returns. *)
Calls(op, to, id, top) ==
    /\ Captured(<<Step(Log(op, to, id))>>)
    /\ frames' = Continue(top, to \notin Precompiled)
    /\ UNCHANGED <<creations, status, entered>>

CallRefused(op, to, n, id) ==
    /\ CanCall(op, n)
    /\ Refused(n)
    /\ Calls(op, to, id, 0)
    /\ UNCHANGED db

(* The callee has no code to step through: a plain account, a precompiled  *)
(* contract or a native method.  The last two may fail.                    *)
CallAway(op, to, n, id, ok) ==
    /\ CanCall(op, n)
    /\ ~Refused(n)
    /\ GetCode(db, World, to) => Intercepted(op, to) /\ n = 0
    /\ ~ok => to \in Precompiled \/ Intercepted(op, to)
    /\ Calls(op, to, id, IF ok THEN 1 ELSE 0)
    /\ db' = IF ok THEN Sent(op, to, n)
             ELSE RevertToSnapshot(Sent(op, to, n), SnapshotId(db))

\* Mutant: a call made by a static call may write again.
ReadOnly_Static(op) == op = "STATICCALL"

(* A static call makes the interpreter read only until it returns. *)
ReadOnly(op) == cur.readOnly \/ op = "STATICCALL"

CallInto(op, to, n, id) ==
    /\ CanCall(op, n)
    /\ ~Refused(n)
    /\ GetCode(db, World, to)
    /\ Captured(<<Step(Log(op, to, id))>>)
    /\ frames' = Append(Continue(0, TRUE),
            Frame(op, IF op \in {"CALL", "STATICCALL"} THEN to ELSE cur.address,
                  ReadOnly(op)))
    /\ entered' = entered + 1
    /\ db' = Sent(op, to, n)
    /\ UNCHANGED <<creations, status>>

(***************************************************************************)
(* Creates: opCreate and opCreate2 with create.  The address is fixed, and *)
(* the count of creations grows, before the check for a collision.         *)
(***************************************************************************)
NewAddress(op) == IF op = "CREATE2" THEN Salted ELSE Created[creations + 1]

CanCreate(op) ==
    /\ Can(op)
    /\ ~cur.readOnly
    /\ op = "CREATE" => creations < Len(Created)

Endowed(addr, n) ==
    Transfer(OnCreateContract(Snapshot(db), addr, cur.address), World,
             cur.address, addr, n)

CreateRefused(op, n) ==
    LET refused == Refused(n)
    IN  /\ CanCreate(op)
        /\ refused \/ GetCodeHash(db, World, NewAddress(op))
        /\ Captured(<<Step(Log(op, Foreign, NoId))>>)
        /\ frames' = Continue(0, TRUE)
        /\ creations' = IF refused THEN creations ELSE creations + 1
        /\ UNCHANGED <<db, status, entered>>

CreateInto(op, n) ==
    LET addr == NewAddress(op)
    IN  /\ CanCreate(op)
        /\ ~Refused(n)
        /\ ~GetCodeHash(db, World, addr)
        /\ Captured(<<Step(Log(op, Foreign, NoId))>>)
        /\ frames' = Append(Continue(0, TRUE), Frame(op, addr, FALSE))
        /\ entered' = entered + 1
        /\ creations' = creations + 1
        /\ db' = Endowed(addr, n)
        /\ UNCHANGED status

(* Without init code there is nothing to run, and the account has no code. *)
CreateEmpty(op, n) ==
    LET addr == NewAddress(op)
    IN  /\ CanCreate(op)
        /\ ~Refused(n)
        /\ ~GetCodeHash(db, World, addr)
        /\ Captured(<<Step(Log(op, Foreign, NoId))>>)
        /\ frames' = Continue(1, TRUE)
        /\ creations' = creations + 1
        /\ db' = SetCode(Endowed(addr, n), World, addr, FALSE)
        /\ UNCHANGED <<status, entered>>

-----------------------------------------------------------------------------
(***************************************************************************)
(* The end of a frame.  after is the state when its run returned; a frame  *)
(* that failed is undone to its snapshot.  The caller finds the result on  *)
(* its stack.                                                              *)
(***************************************************************************)
Leave(how, after) ==
    LET rest == SubSeq(frames, 1, Len(frames) - 1)
    IN  /\ db' = IF how = "ok" THEN after
                 ELSE RevertToSnapshot(after, cur.snapshot)
        /\ frames' = IF rest = << >> THEN rest
                     ELSE [rest EXCEPT ![Len(rest)].top =
                                IF how = "ok" THEN 1 ELSE 0]
        /\ status' = IF rest = << >> THEN how ELSE status
        /\ UNCHANGED <<creations, entered>>

(* The run of a new contract returned its code: it is stored, unless it is *)
(* too large or the gas does not pay for it.                               *)
Installs(how, after, code) ==
    IF cur.type \in CreateOps /\ how = "ok"
    THEN Leave(how, SetCode(after, World, cur.address, code))
    ELSE Leave(how, after)

Halt(op, how) ==
    /\ Can(op)
    /\ how # "ok" => cur.type \in CreateOps /\ op = "RETURN"
    /\ Captured(<<Step(Log(op, Foreign, NoId))>>)
    /\ Installs(how, db, op = "RETURN")

SelfDestruct(to) ==
    LET n    == GetBalance(db, World, cur.address)
        paid == IF n = 0 THEN db
                ELSE AddTransfer(
                        SetBalance(db, World, to, GetBalance(db, World, to) + n),
                        <<cur.address, to, n>>)
    IN  /\ Can("SELFDESTRUCT")
        /\ ~cur.readOnly
        /\ Captured(<<Step(Log("SELFDESTRUCT", to, NoId))>>)
        /\ Installs("ok", Suicide(paid, World, cur.address), FALSE)

(* REVERT is executed without error, and reported as a fault afterwards. *)
Revert ==
    LET log == Log("REVERT", Foreign, NoId)
    IN  /\ Can("REVERT")
        /\ Captured(<<Step(log), Fault(log)>>)
        /\ Leave("execution reverted", db)

(* Refused before it is executed (no such operation, too few arguments,    *)
(* read only, out of gas): the one report carries the error.  The first    *)
(* operation of a frame finds no arguments on the stack.                   *)
FailBefore(op, to, id) ==
    /\ status = "running"
    /\ cur.fresh => to = Foreign /\ id = NoId
    /\ Captured(<<[Fault(Log(op, to, id)) EXCEPT !.cb = "step"]>>)
    /\ Leave("fault", db)

(* Failed while it was executed: a second report carries the error. *)
FailAfter ==
    LET log == Log("OP", Foreign, NoId)
    IN  /\ Can("OP")
        /\ ~cur.fresh
        /\ Captured(<<Step(log), Fault(log)>>)
        /\ Leave("fault", db)

-----------------------------------------------------------------------------
EvmInit ==
    /\ db = NewDB
    /\ frames = << >>
    /\ creations = 0
    /\ captured = << >>
    /\ clause = [type |-> "CALL", to |-> Foreign, value |-> 0, id |-> NoId]
    /\ status = "ready"
    /\ entered = 0
    /\ steps = 0
    /\ worlds = << >>

(***************************************************************************)
(* The steps of a run, drawn from a menu: the clauses it starts from, each *)
(* a type and an account, the operations it uses (ops), the accounts they  *)
(* name (to), the tokens sent (amounts) and the heads of call data (ids).  *)
(***************************************************************************)
InFrame(menu) ==
    \/ Plainly \/ FailAfter
    \/ "SLOAD" \in menu.ops /\ SLoad
    \/ "LOG" \in menu.ops /\ Emit
    \/ "REVERT" \in menu.ops /\ Revert
    \/ "SSTORE" \in menu.ops /\ \E v \in Values : SStore(v)
    \/ "BALANCE" \in menu.ops /\ \E a \in menu.to : Balance(a)
    \/ "SELFDESTRUCT" \in menu.ops /\ \E a \in menu.to : SelfDestruct(a)
    \/ \E op \in {"STOP", "RETURN"} \cap menu.ops, how \in {"ok", "unstored"} :
            Halt(op, how)
    \/ \E op \in {"OP", "SSTORE", "CREATE"} \cap menu.ops :
            FailBefore(op, Foreign, NoId)

Calling(menu) ==
    \E op \in CallOps \cap menu.ops, to \in menu.to, id \in menu.ids :
        \/ FailBefore(op, to, id)
        \/ \E n \in menu.amounts :
            \/ CallRefused(op, to, n, id)
            \/ CallInto(op, to, n, id)
            \/ \E ok \in BOOLEAN : CallAway(op, to, n, id, ok)

Creating(menu) ==
    \E op \in CreateOps \cap menu.ops, n \in menu.amounts :
        CreateRefused(op, n) \/ CreateInto(op, n) \/ CreateEmpty(op, n)

Beginning(menu) ==
    \E c \in menu.clauses, n \in menu.amounts, id \in menu.ids :
        \/ BeginRefused(c[1], c[2], n, id)
        \/ c[1] = "CALL" /\ BeginCall(c[2], n, id)
        \/ c[1] = "CALL" /\ \E ok \in BOOLEAN : BeginAway(c[2], n, id, ok)
        \/ c[1] = "CREATE" /\ \E code \in BOOLEAN : BeginCreate(n, id, code)

(* All that a clause can change, as it stands. *)
Visible == [state |-> [k \in DOMAIN World |-> Get(db.state, World, k)],
            logs  |-> GetLogs(db)]

(* A frame is entered in the state its call was made in, before the tokens *)
(* of the call are sent.                                                   *)
WorldsAfter ==
    IF Len(frames') > Len(frames) THEN Append(worlds, Visible)
    ELSE SubSeq(worlds, 1, Len(frames'))

EvmNext(menu) ==
    /\ \/ Beginning(menu)
       \/ InFrame(menu)
       \/ Calling(menu)
       \/ Creating(menu)
    /\ worlds' = WorldsAfter

EvmSpec(Menus) == EvmInit /\ [][\E menu \in Menus : EvmNext(menu)]_evmVars

-----------------------------------------------------------------------------
(***************************************************************************)
(* A frame that fails leaves nothing behind: accounts, code, storage,      *)
(* events and transfers are what they were when its snapshot was taken,    *)
(* whatever it and the frames below it did, and whichever of those failed  *)
(* or succeeded (RevertToSnapshot over the two stacked maps).              *)
(***************************************************************************)
RevertRestores ==
    [][Len(frames') < Len(frames) =>
        LET how == IF Len(frames) = 1 THEN status'
                   ELSE IF frames'[Len(frames')].top = 1 THEN "ok" ELSE "fault"
        IN  how # "ok" => Visible' = worlds[Len(frames)]]_evmVars

(***************************************************************************)
(* However frames are entered, left and undone, in both maps of the state  *)
(* the revisions of a key are exactly the levels that hold it (Put and Pop *)
(* of stackedmap): Get answers the newest value that was not undone.       *)
(***************************************************************************)
MapsIndexed == Indexed(db.state) /\ Indexed(db.repo)

(***************************************************************************)
(* While a static call runs, at any depth below it, the state it began     *)
(* with cannot be changed (enforceRestrictions and readOnly).              *)
(***************************************************************************)
StaticChangesNothing ==
    \A i \in DOMAIN worlds :
        frames[i].type = "STATICCALL" => Visible = worlds[i]
=============================================================================
