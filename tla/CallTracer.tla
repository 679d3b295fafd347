----------------------------- MODULE CallTracer -----------------------------
(***************************************************************************)
(* The tracer that reports the calls of a clause as a tree                 *)
(* (call_tracer.js).  The tracer object is                                 *)
(*                                                                         *)
(*   callstack  the calls the tracer takes to be open, the clause first    *)
(*   descended  a call was opened and none of its operations seen yet      *)
(*                                                                         *)
(* A call is reduced to its type, whether its gas and its output are known,*)
(* its error, the calls below it, and whether it still carries the fields  *)
(* that only serve to complete it (working: gasIn, gasCost, outOff and     *)
(* outLen).                                                                *)
(***************************************************************************)
EXTENDS Naturals, Sequences

CONSTANT isPrecompiled    \* the set of the precompiled contracts

NoError == "undefined"

Call(type) ==
    [type |-> type, gas |-> FALSE, output |-> FALSE, error |-> NoError,
     calls |-> << >>, working |-> TRUE]

Init == [callstack |-> <<[Call("undefined") EXCEPT !.working = FALSE]>>,
         descended |-> FALSE]

(* The record of a call is added below the call that made it. *)
Inject(stack, call) ==
    [stack EXCEPT ![Len(stack)].calls = Append(@, call)]

\* Mutant: the fault that follows a REVERT is handled like any other.
fault_Twice(t, log) ==
    LET stack == t.callstack
        left  == SubSeq(stack, 1, Len(stack) - 1)
        call  == [stack[Len(stack)] EXCEPT !.error = "fault", !.working = FALSE]
    IN  [t EXCEPT !.callstack =
            IF left # << >> THEN Inject(left, call) ELSE <<call>>]

(* A call that reverted is left for the next operation to close. *)
fault(t, log) ==
    LET stack == t.callstack
        left  == SubSeq(stack, 1, Len(stack) - 1)
        call  == [stack[Len(stack)] EXCEPT !.error = "fault", !.working = FALSE]
    IN  IF stack[Len(stack)].error # NoError THEN t
        ELSE [t EXCEPT !.callstack =
                IF left # << >> THEN Inject(left, call) ELSE <<call>>]

Open(t, call) ==
    [callstack |-> Append(t.callstack, call), descended |-> TRUE]

(* The topmost call has returned: its result is on the caller's stack. *)
Close(stack, log) ==
    LET call == stack[Len(stack)]
    IN  Inject(SubSeq(stack, 1, Len(stack) - 1),
               [call EXCEPT
                    !.output  = log.top # 0,
                    !.error   = IF log.top = 0 /\ @ = NoError
                                THEN "internal failure" ELSE @,
                    !.working = FALSE])

(* An operation that is neither a call, a create nor a self destruction. *)
Passed(t, log) ==
    LET stack == t.callstack
        met   == IF t.descended /\ log.depth >= Len(stack)
                 THEN [stack EXCEPT ![Len(stack)].gas = TRUE] ELSE stack
    IN  [callstack |->
            IF log.op = "REVERT"
            THEN [met EXCEPT ![Len(met)].error = "execution reverted"]
            ELSE IF log.depth = Len(met) - 1 THEN Close(met, log) ELSE met,
         descended |-> FALSE]

step(t, log) ==
    CASE log.error -> fault(t, log)
      [] ~log.error /\ log.op \in {"CREATE", "CREATE2"} -> Open(t, Call(log.op))
      [] ~log.error /\ log.op = "SELFDESTRUCT" ->
            [t EXCEPT !.callstack = Inject(@, Call(log.op))]
      [] /\ ~log.error
         /\ log.op \in {"CALL", "CALLCODE", "DELEGATECALL", "STATICCALL"} ->
            IF log.to \in isPrecompiled THEN t ELSE Open(t, Call(log.op))
      [] OTHER -> Passed(t, log)

(* Only the fields meant for the reader are kept, at every depth. *)
RECURSIVE finalize(_)
finalize(call) ==
    [type |-> call.type, gas |-> call.gas, output |-> call.output,
     error |-> call.error,
     calls |-> [i \in DOMAIN call.calls |-> finalize(call.calls[i])]]

(* The outermost call, from the context of the clause.  Its own error      *)
(* comes before that of the context.                                       *)
result(t, ctx) ==
    LET root  == t.callstack[1]
        error == IF root.error # NoError THEN root.error ELSE ctx.error
    IN  finalize([type |-> ctx.type, gas |-> TRUE,
                  output |-> error \in {NoError, "execution reverted"} /\ ctx.output,
                  error |-> error, calls |-> root.calls])
=============================================================================
