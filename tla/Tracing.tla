------------------------------ MODULE Tracing -------------------------------
(***************************************************************************)
(* A clause traced for the debug API: the machine of Evm with one of the   *)
(* tracers attached, as debug.go attaches the tracer a request names.      *)
(*                                                                         *)
(*   request  names the tracer                                             *)
(*   object   the tracer object                                            *)
(*   report   what GetResult returns once the clause has ended             *)
(*   truth    what really ran, kept beside the tracer to judge it by:      *)
(*            tree     the open calls, each with the calls made below it   *)
(*            history  the operations reported, with the frame each ran in *)
(*                     and the frame it entered (0 for none)               *)
(*            clean    nothing happened that the tracer is known to get    *)
(*                     wrong                                               *)
(*            Only what the attached tracer is judged by is kept.          *)
(***************************************************************************)
EXTENDS Evm, FiniteSets

CONSTANTS
    Requests    \* a request is a tracer, what the clause draws its steps from
                \* (a menu of Evm) and how many steps it takes at most

VARIABLES request, object, report, truth

vars == <<evmVars, request, object, report, truth>>

tracer == request.tracer

Calltracer     == INSTANCE CallTracer WITH isPrecompiled <- Precompiled
Evmdistracer   == INSTANCE EvmdisTracer
Prestatetracer == INSTANCE PrestateTracer
                    WITH toContract <- Foreign, toContract2 <- Salted
Opcodetracers  == INSTANCE OpcodeTracers WITH isPrecompiled <- Precompiled

NoReport == "none"

Counting == {"opcount", "unigram", "bigram", "trigram", "4byte"}

Fresh(name) ==
    CASE name = "call"     -> Calltracer!Init
      [] name = "evmdis"   -> Evmdistracer!Init
      [] name = "prestate" -> Prestatetracer!Init
      [] name = "noop"     -> Opcodetracers!noopInit
      [] name = "opcount"  -> Opcodetracers!opcountInit
      [] name = "unigram"  -> Opcodetracers!unigramInit
      [] name = "bigram"   -> Opcodetracers!bigramInit
      [] name = "trigram"  -> Opcodetracers!trigramInit
      [] name = "4byte"    -> Opcodetracers!fourByteInit

(* CaptureState *)
Stepped(t, log) ==
    CASE tracer = "call"     -> Calltracer!step(t, log)
      [] tracer = "evmdis"   -> Evmdistracer!step(t, log)
      [] tracer = "prestate" ->
            IF t.thrown THEN t ELSE Prestatetracer!step(t, log, db)
      [] tracer = "noop"     -> Opcodetracers!noopStep(t, log)
      [] tracer = "opcount"  -> Opcodetracers!opcountStep(t, log)
      [] tracer = "unigram"  -> Opcodetracers!unigramStep(t, log)
      [] tracer = "bigram"   -> Opcodetracers!bigramStep(t, log)
      [] tracer = "trigram"  -> Opcodetracers!trigramStep(t, log)
      [] tracer = "4byte"    -> Opcodetracers!fourByteStep(t, log)

(* CaptureFault: the counting tracers and the prestate tracer ignore it. *)
Faulted(t, log) ==
    CASE tracer = "call"   -> Calltracer!fault(t, log)
      [] tracer = "evmdis" -> Evmdistracer!fault(t, log)
      [] OTHER             -> t

(* The calls of one step, in order: one, or a report and then its fault. *)
Observed(t, events) ==
    IF events = << >> THEN t
    ELSE LET first == IF events[1].cb = "step" THEN Stepped(t, events[1].log)
                      ELSE Faulted(t, events[1].log)
         IN  IF Len(events) = 1 THEN first ELSE Faulted(first, events[2].log)

(* CaptureStart and CaptureEnd gather the context of the clause. *)
Context(how) ==
    [type |-> clause'.type, from |-> Origin, to |-> clause'.to,
     value |-> clause'.value, id |-> clause'.id,
     error |-> CASE how = "ok" -> Calltracer!NoError
                 [] how = "execution reverted" -> how
                 [] OTHER -> "fault",
     output |-> how \in {"ok", "execution reverted"}]

(* GetResult *)
Result(t, ctx) ==
    CASE tracer = "call"     -> Calltracer!result(t, ctx)
      [] tracer = "evmdis"   -> Evmdistracer!result(t)
      [] tracer = "prestate" ->
            IF t.thrown THEN t ELSE Prestatetracer!result(t, ctx, db')
      [] tracer = "noop"     -> Opcodetracers!noopResult(t)
      [] tracer = "opcount"  -> Opcodetracers!opcountResult(t)
      [] tracer = "unigram"  -> Opcodetracers!unigramResult(t)
      [] tracer = "bigram"   -> Opcodetracers!bigramResult(t)
      [] tracer = "trigram"  -> Opcodetracers!trigramResult(t)
      [] tracer = "4byte"    -> Opcodetracers!fourByteResult(t, ctx)

-----------------------------------------------------------------------------
(***************************************************************************)
(* What really ran.                                                        *)
(***************************************************************************)
Over == status \notin {"ready", "running"}

Made(type) == [type |-> type, gas |-> FALSE, output |-> FALSE,
               error |-> Calltracer!NoError, calls |-> << >>]

Under(tree, call) == [tree EXCEPT ![Len(tree)].calls = Append(@, call)]

Ended(call, how) ==
    [call EXCEPT !.output = how = "ok",
                 !.error  = CASE how = "ok"       -> Calltracer!NoError
                              [] how = "unstored" -> "internal failure"
                              [] OTHER            -> how]

(* The clause itself: a revert gives it data to return, and a contract     *)
(* that could not be stored is an error like any other.                    *)
EndedClause(call, how) ==
    [call EXCEPT !.output = Context(how).output, !.error = Context(how).error]

(* How the frame that the step ended has ended. *)
How(log) ==
    CASE Len(frames) = 1 -> status'
      [] Len(frames) > 1 /\ log.op = "REVERT" /\ ~log.error ->
            "execution reverted"
      [] /\ Len(frames) > 1
         /\ log.op # "REVERT" \/ log.error ->
            IF captured'[Len(captured')].log.error THEN "fault"
            ELSE IF frames'[Len(frames')].top = 1 THEN "ok" ELSE "unstored"

TreeAfter(tree, log) ==
    LET ran   == IF log.error THEN tree ELSE [tree EXCEPT ![Len(tree)].gas = TRUE]
        noted == IF log.op = "SELFDESTRUCT" /\ ~log.error
                 THEN Under(ran, Made(log.op)) ELSE ran
        last  == noted[Len(noted)]
    IN  CASE Len(frames') > Len(frames) -> Append(ran, Made(log.op))
          [] Len(frames') < Len(frames) ->
                IF Len(noted) = 1 THEN <<EndedClause(last, status')>>
                ELSE Under(SubSeq(noted, 1, Len(noted) - 1), Ended(last, How(log)))
          [] Len(frames') = Len(frames) ->
                IF log.op \in CallOps \cup CreateOps /\ log.to \notin Precompiled
                THEN Under(ran, Ended(Made(log.op),
                        IF frames'[Len(frames')].top = 1 THEN "ok" ELSE "unstored"))
                ELSE ran

(* The call tracer takes the operation after a call to see the call        *)
(* return, unless that operation is handled before it looks.  The prestate *)
(* tracer does not look up who is paid by a self destruction.              *)
StaysClean(log) ==
    CASE tracer = "call" ->
            cur.called => /\ ~log.error
                          /\ log.op \notin CallOps \cup CreateOps
                                            \cup {"SELFDESTRUCT", "REVERT"}
      [] tracer = "prestate" -> log.op # "SELFDESTRUCT"
      [] OTHER -> TRUE

(* The step that was just taken, for the history. *)
Happened(log) ==
    [op |-> log.op, uid |-> cur.uid, to |-> log.to, id |-> log.id,
     callee |-> IF entered' > entered THEN entered' ELSE 0]

TruthAfter ==
    IF captured' = << >>
    THEN LET root == [Made(clause'.type) EXCEPT !.gas = TRUE]
         IN  [truth EXCEPT !.tree =
                IF tracer # "call" THEN @
                ELSE IF status' = "running" THEN <<root>>
                ELSE <<EndedClause(root, status')>>]
    ELSE LET log == captured'[1].log
         IN  [tree    |-> IF tracer = "call" THEN TreeAfter(truth.tree, log)
                          ELSE truth.tree,
              history |-> IF tracer \in Counting \cup {"evmdis"}
                          THEN Append(truth.history, Happened(log))
                          ELSE truth.history,
              clean   |-> truth.clean /\ StaysClean(log)]

-----------------------------------------------------------------------------
Init ==
    /\ EvmInit
    /\ request \in Requests
    /\ object = Fresh(tracer)
    /\ report = NoReport
    /\ truth = [tree |-> << >>, history |-> << >>, clean |-> TRUE]

(* Every frame that is open keeps a step to end with. *)
WithinBounds == steps' + Len(frames') <= request.maxSteps

Watch ==
    /\ WithinBounds
    /\ object' = Observed(object, captured')
    /\ report' = IF Over' THEN Result(object', Context(status')) ELSE report
    /\ truth' = TruthAfter
    /\ UNCHANGED request

Next == EvmNext(request) /\ Watch

Spec == Init /\ [][Next]_vars

-----------------------------------------------------------------------------
(***************************************************************************)
(* The call tracer keeps the entry of the clause on its stack whatever     *)
(* happens, and its report is the tree of the calls really made, with the  *)
(* error of each, provided that no call is followed at once by a call, a   *)
(* create, a self destruction, a revert or an operation that is refused.   *)
(***************************************************************************)
CallsReported ==
    tracer = "call" =>
        /\ Len(object.callstack) >= 1
        /\ Over /\ truth.clean => report = truth.tree[1]

(***************************************************************************)
(* An operation that the disassembly tracer lists below a call was run by  *)
(* the very frame that this call entered, and the outermost list holds     *)
(* operations of the clause itself: dropping stack entries by depth never  *)
(* mixes up two callees.  Each list is in the order of execution.          *)
(***************************************************************************)
OpsNested ==
    tracer = "evmdis" =>
        LET nodes == object.nodes
            ran(n) == truth.history[nodes[n].at]
        IN  /\ \A n \in DOMAIN nodes :
                /\ ran(n).op = nodes[n].op
                /\ ran(n).uid = IF nodes[n].list = 0 THEN 1
                                ELSE ran(nodes[n].list).callee
            /\ \A m, n \in DOMAIN nodes : m < n => nodes[m].at < nodes[n].at

(***************************************************************************)
(* A prestate the tracer returns is the state before the clause: the slots *)
(* always, and the balance and code of every account that existed then,    *)
(* provided that nothing was destroyed and that a failed clause sent no    *)
(* tokens.                                                                 *)
(***************************************************************************)
PrestateTrue ==
    tracer = "prestate" /\ Over /\ ~report.thrown =>
        \A c \in DOMAIN report.prestate :
            LET r == report.prestate[c]
            IN  /\ r.storage # Missing => r.storage = World[StorageKey(c)]
                /\ /\ truth.clean
                   /\ status = "ok" \/ clause.value = 0
                   /\ c \notin {Salted, Foreign} \cup {Created[i] : i \in DOMAIN Created}
                   => r.balance = Balances[c] /\ r.code = (c \in Contracts)

(* How often each key occurs in the steps of S. *)
Tally(S, key(_)) ==
    [k \in {key(i) : i \in S} |-> Cardinality({i \in S : key(i) = k})]

(***************************************************************************)
(* The counting tracers agree with what ran.  Pairs and triples are of     *)
(* operations that followed each other in one frame with nothing run in    *)
(* between, although the tracers compare only depths; a triple has lost    *)
(* the first operation after each change of frame.  The method ids are     *)
(* those of the calls reported, refused ones included, and of the clause.  *)
(***************************************************************************)
HistogramsExact ==
    LET h == truth.history
        all == DOMAIN h
        inRow == {i \in all \ {1} : h[i].uid = h[i - 1].uid}
        row(i, m) == i > m /\ \A j \in 0..m : h[i - j].uid = h[i].uid
        back(i, m) == IF row(i, m + 1) THEN h[i - m].op ELSE ""
        withId == {i \in all : /\ h[i].op \in CallOps
                               /\ h[i].to \notin Precompiled
                               /\ h[i].id # NoId}
        outer == IF clause.id = NoId THEN {} ELSE {0}
    IN  CASE tracer = "opcount" -> object = Len(h)
          [] tracer = "unigram" -> object.hist = Tally(all, LAMBDA i : h[i].op)
          [] tracer = "bigram"  ->
                object.hist = Tally(inRow, LAMBDA i : <<h[i - 1].op, h[i].op>>)
          [] tracer = "trigram" ->
                object.hist = Tally(inRow, LAMBDA i :
                                        <<back(i, 2), back(i, 1), h[i].op>>)
          [] tracer = "4byte"   -> Over =>
                report = Tally(withId \cup outer, LAMBDA i :
                                        IF i = 0 THEN clause.id ELSE h[i].id)
          [] OTHER -> TRUE
=============================================================================
