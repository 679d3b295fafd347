---------------------------- MODULE OpcodeTracers ---------------------------
(***************************************************************************)
(* The tracers that count: operations (opcount_tracer.js), operations by   *)
(* kind, pairs and triples of them (unigram, bigram and trigram tracers),  *)
(* and the method ids of calls (4byte_tracer.js), and the one that does    *)
(* nothing (noop_tracer.js).  A histogram of the code, an object from keys *)
(* to counters, is a bag.                                                  *)
(***************************************************************************)
EXTENDS Naturals, Sequences, Bags

CONSTANTS
    isPrecompiled,    \* the set of the precompiled contracts
    NoId              \* stands for call data of less than four bytes

(* A counter is created at its first use. *)
Count(hist, key) == hist (+) SetToBag({key})

None == ""    \* no last operation

-----------------------------------------------------------------------------
noopInit == EmptyBag

noopStep(t, log) == t

noopResult(t) == EmptyBag

opcountInit == 0

opcountStep(count, log) == count + 1

opcountResult(count) == count

-----------------------------------------------------------------------------
unigramInit == [hist |-> EmptyBag, nops |-> 0]

unigramStep(t, log) ==
    [hist |-> Count(t.hist, log.op), nops |-> t.nops + 1]

(* Undefined, which is no histogram, when nothing was counted. *)
unigramResult(t) == IF t.nops > 0 THEN t.hist ELSE EmptyBag

-----------------------------------------------------------------------------
(* A pair is counted when both operations ran at the same depth. *)
bigramInit == [hist |-> EmptyBag, lastOp |-> None, lastDepth |-> 0]

\* Mutant: the operations of caller and callee are paired.
bigramStep_AnyDepth(t, log) ==
    [hist |-> IF t.lastOp # None
              THEN Count(t.hist, <<t.lastOp, log.op>>) ELSE t.hist,
     lastOp |-> log.op, lastDepth |-> log.depth]

bigramStep(t, log) ==
    [hist |-> IF log.depth = t.lastDepth
              THEN Count(t.hist, <<t.lastOp, log.op>>) ELSE t.hist,
     lastOp |-> log.op, lastDepth |-> log.depth]

bigramResult(t) == t.hist

-----------------------------------------------------------------------------
(* The first operation at a new depth is forgotten, with all before it. *)
trigramInit ==
    [hist |-> EmptyBag, lastOps |-> <<None, None>>, lastDepth |-> 0]

trigramStep(t, log) ==
    IF log.depth # t.lastDepth
    THEN [t EXCEPT !.lastOps = <<None, None>>, !.lastDepth = log.depth]
    ELSE [t EXCEPT !.hist = Count(@, <<t.lastOps[1], t.lastOps[2], log.op>>),
                   !.lastOps = <<@[2], log.op>>]

trigramResult(t) == t.hist

-----------------------------------------------------------------------------
(* Is this an operation with call data?  (callType) *)
callType(op) == op \in {"CALL", "CALLCODE", "DELEGATECALL", "STATICCALL"}

(* store: an id stands for the first four bytes and the length after them. *)
store(ids, id) == IF id = NoId THEN ids ELSE Count(ids, id)

fourByteInit == EmptyBag

fourByteStep(ids, log) ==
    IF callType(log.op) /\ log.to \notin isPrecompiled
    THEN store(ids, log.id) ELSE ids

fourByteResult(ids, ctx) == store(ids, ctx.id)
=============================================================================
