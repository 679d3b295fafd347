------------------------------ MODULE StateDB -------------------------------
(***************************************************************************)
(* The state as the virtual machine sees it (runtime/statedb over state).  *)
(* It is two maps with save points that must move together:                *)
(*                                                                         *)
(*   state  accounts, code and storage (State.sm)                          *)
(*   repo   what a clause leaves besides: events, transfers, the suicide   *)
(*          flags, and the revision of state taken by each Snapshot        *)
(*                                                                         *)
(* An account is a record of its balance, its master and whether it has a  *)
(* code hash; its energy, a field of the same record, is left out.  It has *)
(* one storage slot.                                                       *)
(***************************************************************************)
EXTENDS StackedMap

CONSTANT Missing    \* what repo answers for a key that was never put

ASSUME MissingAssumption == Missing \notin Nat

AccountKey(a) == <<"account", a>>
CodeKey(a)    == <<"code", a>>
StorageKey(a) == <<"storage", a>>
SuicideKey(a) == <<"suicide", a>>
StateRevKey   == <<"stateRev", Missing>>
EventKey      == <<"event", Missing>>
TransferKey   == <<"transfer", Missing>>

NewDB == [state |-> New, repo |-> New]

(* world is the committed state, a function of the state's keys *)
getAccount(db, world, a) == Get(db.state, world, AccountKey(a))
GetBalance(db, world, a) == getAccount(db, world, a).balance
GetCodeHash(db, world, a) == getAccount(db, world, a).codeHash
GetCode(db, world, a)    == Get(db.state, world, CodeKey(a))
GetState(db, world, a)   == Get(db.state, world, StorageKey(a))

updateAccount(db, a, acc) == [db EXCEPT !.state = Put(@, AccountKey(a), acc)]

SetBalance(db, world, a, n) ==
    updateAccount(db, a, [getAccount(db, world, a) EXCEPT !.balance = n])

SetMaster(db, world, a, m) ==
    updateAccount(db, a, [getAccount(db, world, a) EXCEPT !.master = m])

SetCode(db, world, a, code) ==
    LET put == [db EXCEPT !.state = Put(@, CodeKey(a), code)]
    IN  updateAccount(put, a, [getAccount(put, world, a) EXCEPT !.codeHash = code])

SetState(db, a, v) == [db EXCEPT !.state = Put(@, StorageKey(a), v)]

AddLog(db, event)         == [db EXCEPT !.repo = Put(@, EventKey, event)]
AddTransfer(db, transfer) == [db EXCEPT !.repo = Put(@, TransferKey, transfer)]

emptyAccount == [balance |-> 0, master |-> Missing, codeHash |-> FALSE]

Exist(db, world, a) == getAccount(db, world, a) # emptyAccount

(* Delete empties the account and its code; the storage slots stay. *)
Suicide(db, world, a) ==
    IF ~Exist(db, world, a) THEN db
    ELSE LET deleted == updateAccount(
                [db EXCEPT !.state = Put(@, CodeKey(a), FALSE)], a, emptyAccount)
         IN  [deleted EXCEPT !.repo = Put(@, SuicideKey(a), TRUE)]

(* The move of tokens that the runtime hands to the machine. *)
Transfer(db, world, from, to, n) ==
    IF n = 0 THEN db
    ELSE LET sub == SetBalance(db, world, from, GetBalance(db, world, from) - n)
             add == SetBalance(sub, world, to, GetBalance(sub, world, to) + n)
         IN  AddTransfer(add, <<from, to, n>>)

\* Mutant: the revision is put on the level that Snapshot pushes.
Snapshot_RevAbove(db) ==
    [state |-> Push(db.state),
     repo  |-> Put(Push(db.repo), StateRevKey, PushDepth(db.state))]

(* The revision of state is put below the level that Snapshot pushes, so   *)
(* that popping to the snapshot uncovers it.                               *)
Snapshot(db) ==
    [state |-> Push(db.state),
     repo  |-> Push(Put(db.repo, StateRevKey, PushDepth(db.state)))]

SnapshotId(db) == PushDepth(db.repo)

RevertToSnapshot(db, rev) ==
    LET repo == PopTo(db.repo, rev)
        srev == Get(repo, [k \in {StateRevKey} |-> Missing], StateRevKey)
    IN  [state |-> IF srev = Missing THEN db.state ELSE PopTo(db.state, srev),
         repo  |-> repo]

GetLogs(db) ==
    LET j == Journal(db.repo)
        logs[n \in 0..Len(j)] ==
            IF n = 0 THEN << >>
            ELSE IF j[n][1] \in {EventKey, TransferKey}
            THEN Append(logs[n - 1], j[n]) ELSE logs[n - 1]
    IN  logs[Len(j)]
=============================================================================
