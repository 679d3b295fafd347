---------------------------- MODULE EvmdisTracer ----------------------------
(***************************************************************************)
(* The tracer that lists operations for a disassembler (evmdis_tracer.js): *)
(* those of a callee are listed below the operation that called it.        *)
(*                                                                         *)
(* An operation record is shared: the list it belongs to and, when it is a *)
(* call, the stack refer to the same object.  So the records are numbered  *)
(* and kept in nodes, in the order made, each with the number of the       *)
(* record whose list it is on (0 for the outermost list); the stack holds  *)
(* numbers.  Record n is in position n, with the outermost frame apart in  *)
(* root.                                                                   *)
(***************************************************************************)
EXTENDS Naturals, Sequences

Frame == [error |-> FALSE, returned |-> FALSE]

Init == [nodes |-> << >>, stack |-> <<0>>, root |-> Frame]

(* The operations on the list of frame f, oldest first. *)
Ops(t, f) == {n \in DOMAIN t.nodes : t.nodes[n].list = f}

(* How many values an operation leaves: npushes. *)
npushes(op) ==
    IF op \in {"SLOAD", "BALANCE", "CREATE", "CALL", "CALLCODE"} THEN 1 ELSE 0

(* Mark frame f, the record of a call or the outermost frame. *)
Marked(t, f, field) ==
    IF f = 0 THEN [t EXCEPT !.root = [@ EXCEPT ![field] = TRUE]]
    ELSE [t EXCEPT !.nodes[f] = [@ EXCEPT ![field] = TRUE]]

(* The operation before this one on the list: what it left is read now. *)
Completed(t, f) ==
    IF Ops(t, f) = {} THEN t
    ELSE LET prev == CHOOSE n \in Ops(t, f) : \A m \in Ops(t, f) : m <= n
         IN  [t EXCEPT !.nodes[prev].result = @ + npushes(t.nodes[prev].op)]

Recorded(t, log) ==
    LET frame == t.stack[Len(t.stack)]
        done  == Completed(t, frame)
        ended == IF log.op \in {"RETURN", "STOP", "SUICIDE"}
                 THEN Marked(done, frame, "returned") ELSE done
        n     == Len(t.nodes) + 1
    IN  [ended EXCEPT
            !.nodes = Append(@, [op |-> log.op, depth |-> log.depth,
                                 result |-> 0, list |-> frame, at |-> log.at,
                                 error |-> FALSE, returned |-> FALSE]),
            !.stack = IF log.op \in {"CALL", "CALLCODE", "DELEGATECALL",
                                     "STATICCALL"}
                      THEN Append(@, n) ELSE @]

\* Mutant: the calls that returned stay on the stack.
step_KeepsStack(t, log) ==
    IF log.error THEN Marked(t, t.stack[Len(t.stack)], "error")
    ELSE IF log.depth = Len(t.stack) THEN Recorded(t, log)
    ELSE t

(* An operation at another depth than expected only sets the stack right. *)
step(t, log) ==
    IF log.error THEN Marked(t, t.stack[Len(t.stack)], "error")
    ELSE IF log.depth = Len(t.stack) THEN Recorded(t, log)
    ELSE [t EXCEPT !.stack =
            SubSeq(@, 1, IF log.depth < Len(@) THEN log.depth ELSE Len(@))]

fault(t, log) == t

result(t) == t.nodes
=============================================================================
