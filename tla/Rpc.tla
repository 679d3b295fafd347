-------------------------------- MODULE Rpc ---------------------------------
(***************************************************************************)
(* Calls to a peer (p2psrv/rpc/rpc.go): callers that wait with a timeout,  *)
(* the loop that reads the peer's messages and hands results to them, and  *)
(* a peer that may answer late, twice, wrongly or not at all.  Calls are   *)
(* numbered in the order they are made; an id is drawn at random for each, *)
(* so that a later call may get the id of an earlier one.                  *)
(***************************************************************************)
EXTENDS Naturals, Sequences

CONSTANTS
  Callers,
  Ids,         \* what prepareCall draws from; 0 is for Notify
  MaxCalls,    \* bound: calls made
  MaxAnswers   \* bound: answers to a call

ASSUME RpcAssumption == MaxCalls \in Nat /\ MaxAnswers \in Nat /\ Ids \subseteq Nat \ {0}

VARIABLES
  calls,     \* calls made so far
  call,      \* call[c]: the last call of c, 0 for none
  drawn,     \* drawn[k]: the id of call k, 0 before it is made
  stage,     \* stage[c]: "idle", "prepared", "waiting", "returned"
  outcome,   \* outcome[c]: "none", "ok", "failed"
  pendings,  \* pendings[i]: the call whose listener waits for id i, 0 for none
  errCh,     \* errCh[k]: what is in the channel of call k
  result,    \* result[k]: the call to which the answer decoded into the result of k was given
  answers,   \* answers[k]: answers the peer may still give to call k
  wire,      \* from the peer
  serve,     \* the loop: <<"reading">> or <<"delivering", call of the listener, message>>
  done       \* doneCh is closed

rpcVars == <<calls, call, drawn, stage, outcome, pendings, errCh, result, answers, wire, serve, done>>

Calls == 1..MaxCalls

\* An answer: to which call, and what its listener finds.
Msgs == [to : Calls, body : {"sound", "undecodable", "wrong code"}]

RpcInit ==
  /\ calls = 0
  /\ call = [c \in Callers |-> 0] /\ stage = [c \in Callers |-> "idle"] /\ outcome = [c \in Callers |-> "none"]
  /\ drawn = [k \in Calls |-> 0] /\ pendings = [i \in Ids |-> 0]
  /\ errCh = [k \in Calls |-> <<>>] /\ result = [k \in Calls |-> 0] /\ answers = [k \in Calls |-> 0]
  /\ wire = <<>> /\ serve = <<"reading">> /\ done = FALSE

-----------------------------------------------------------------------------
(* Call *)

\* Draws until the id has no listener.
prepareCall(c, i) ==
  /\ stage[c] = "idle" /\ calls < MaxCalls
  /\ pendings[i] = 0
  /\ calls' = calls + 1
  /\ call' = [call EXCEPT ![c] = calls']
  /\ drawn' = [drawn EXCEPT ![calls'] = i]
  /\ pendings' = [pendings EXCEPT ![i] = calls']
  /\ stage' = [stage EXCEPT ![c] = "prepared"]
  /\ outcome' = [outcome EXCEPT ![c] = "none"]
  /\ UNCHANGED <<errCh, result, answers, wire, serve, done>>

\* p2p.Send
Send(c) ==
  /\ stage[c] = "prepared"
  /\ \/ /\ ~done
        /\ stage' = [stage EXCEPT ![c] = "waiting"]
        /\ answers' = [answers EXCEPT ![call[c]] = MaxAnswers]
        /\ UNCHANGED outcome
     \/ /\ stage' = [stage EXCEPT ![c] = "returned"]
        /\ outcome' = [outcome EXCEPT ![c] = "failed"]
        /\ UNCHANGED answers
  /\ UNCHANGED <<calls, call, drawn, pendings, errCh, result, wire, serve, done>>

\* Mutant: a caller waits for the answer or the end of the connection only.
TimeOut_Never(c) ==
  /\ stage[c] = "waiting" /\ done
  /\ stage' = [stage EXCEPT ![c] = "returned"]
  /\ outcome' = [outcome EXCEPT ![c] = "failed"]
  /\ UNCHANGED <<calls, call, drawn, pendings, errCh, result, answers, wire, serve, done>>

\* ctx.Done or doneCh
TimeOut(c) ==
  /\ stage[c] = "waiting"
  /\ stage' = [stage EXCEPT ![c] = "returned"]
  /\ outcome' = [outcome EXCEPT ![c] = "failed"]
  /\ UNCHANGED <<calls, call, drawn, pendings, errCh, result, answers, wire, serve, done>>

Receive(c) ==
  /\ stage[c] = "waiting" /\ errCh[call[c]] # <<>>
  /\ stage' = [stage EXCEPT ![c] = "returned"]
  /\ outcome' = [outcome EXCEPT ![c] = IF Head(errCh[call[c]]) THEN "ok" ELSE "failed"]
  /\ errCh' = [errCh EXCEPT ![call[c]] = Tail(@)]
  /\ UNCHANGED <<calls, call, drawn, pendings, result, answers, wire, serve, done>>

\* Mutant: the listener of a call that was not answered stays.
finalizeCall_Answered(c) ==
  /\ stage[c] = "returned"
  /\ pendings' = IF outcome[c] = "ok" THEN [pendings EXCEPT ![drawn[call[c]]] = 0] ELSE pendings
  /\ stage' = [stage EXCEPT ![c] = "idle"]
  /\ UNCHANGED <<calls, call, drawn, outcome, errCh, result, answers, wire, serve, done>>

\* Whosever listener the id has by now.
finalizeCall(c) ==
  /\ stage[c] = "returned"
  /\ pendings' = [pendings EXCEPT ![drawn[call[c]]] = 0]
  /\ stage' = [stage EXCEPT ![c] = "idle"]
  /\ UNCHANGED <<calls, call, drawn, outcome, errCh, result, answers, wire, serve, done>>

-----------------------------------------------------------------------------
(* The peer and the loop that reads from it *)

PeerAnswers(m) ==
  /\ answers[m.to] > 0
  /\ answers' = [answers EXCEPT ![m.to] = @ - 1]
  /\ wire' = Append(wire, m)
  /\ UNCHANGED <<calls, call, drawn, stage, outcome, pendings, errCh, result, serve, done>>

\* The listener is taken out under the lock; a wrong code ends the connection.
handleResult ==
  LET m == Head(wire)
      i == drawn[m.to]
      k == pendings[i]
  IN  /\ serve = <<"reading">> /\ ~done /\ wire # <<>>
      /\ wire' = Tail(wire)
      /\ pendings' = [pendings EXCEPT ![i] = 0]
      /\ \/ k = 0 /\ UNCHANGED <<serve, done>>
         \/ k # 0 /\ m.body # "wrong code" /\ serve' = <<"delivering", k, m>> /\ UNCHANGED done
         \/ k # 0 /\ m.body = "wrong code" /\ done' = TRUE /\ UNCHANGED serve
      /\ UNCHANGED <<calls, call, drawn, stage, outcome, errCh, result, answers>>

\* Mutant: the answer goes to whoever called last.
onResult_Last ==
  LET m == serve[3]
  IN  /\ serve # <<"reading">> /\ Len(errCh[calls]) < 1
      /\ errCh' = [errCh EXCEPT ![calls] = Append(@, m.body = "sound")]
      /\ result' = IF m.body = "sound" THEN [result EXCEPT ![calls] = m.to] ELSE result
      /\ serve' = <<"reading">>
      /\ done' = (done \/ m.body # "sound")
      /\ UNCHANGED <<calls, call, drawn, stage, outcome, pendings, answers, wire>>

\* The answer is decoded into the result of the listener's call, even if the caller has
\* given up, and the channel has room for one; a failure to decode ends the connection.
onResult ==
  LET k == serve[2]
      m == serve[3]
  IN  /\ serve # <<"reading">> /\ Len(errCh[k]) < 1
      /\ errCh' = [errCh EXCEPT ![k] = Append(@, m.body = "sound")]
      /\ result' = IF m.body = "sound" THEN [result EXCEPT ![k] = m.to] ELSE result
      /\ serve' = <<"reading">>
      /\ done' = (done \/ m.body # "sound")
      /\ UNCHANGED <<calls, call, drawn, stage, outcome, pendings, answers, wire>>

\* ReadMsg fails.
Disconnect ==
  /\ serve = <<"reading">> /\ ~done
  /\ done' = TRUE
  /\ UNCHANGED <<calls, call, drawn, stage, outcome, pendings, errCh, result, answers, wire, serve>>

RpcNext ==
  \/ \E c \in Callers :
       (\E i \in Ids : prepareCall(c, i)) \/ Send(c) \/ TimeOut(c) \/ Receive(c) \/ finalizeCall(c)
  \/ \E m \in Msgs : PeerAnswers(m)
  \/ handleResult \/ onResult \/ Disconnect

RpcSpec == RpcInit /\ [][RpcNext]_rpcVars

\* Callers and the loop go on, and the timer fires.
RpcFairSpec ==
  /\ RpcSpec
  /\ \A c \in Callers : WF_rpcVars(Send(c)) /\ WF_rpcVars(TimeOut(c)) /\ WF_rpcVars(Receive(c)) /\ WF_rpcVars(finalizeCall(c))
  /\ WF_rpcVars(handleResult) /\ WF_rpcVars(onResult)

-----------------------------------------------------------------------------
RpcTypeOK ==
  /\ calls \in 0..MaxCalls
  /\ \A i \in Ids : pendings[i] \in 0..calls
  /\ \A k \in Calls : Len(errCh[k]) <= 1 /\ answers[k] \in 0..MaxAnswers /\ drawn[k] \in Ids \cup {0}
  /\ \A c \in Callers : (stage[c] # "idle" => call[c] \in 1..calls) /\ outcome[c] \in {"none", "ok", "failed"}

\* A listener belongs to a call under way: nothing is left in pendings, however calls
\* end and whenever answers come.  The other way round, a call that waits has its
\* listener, unless its answer has come, the connection is ending, or another call drew
\* the same id: finalizeCall and handleResult remove nobody else's listener.  And the
\* state keeps its type.
PendingsExact ==
  /\ RpcTypeOK
  /\ \A i \in Ids : pendings[i] # 0 =>
       \E c \in Callers : call[c] = pendings[i] /\ stage[c] # "idle" /\ drawn[call[c]] = i
  /\ \A c \in Callers : stage[c] = "waiting" =>
       LET k == call[c]
       IN  \/ pendings[drawn[k]] = k
           \/ errCh[k] # <<>> \/ (serve # <<"reading">> /\ serve[2] = k) \/ done
           \/ \E j \in 1..calls : j # k /\ drawn[j] = drawn[k]

\* A call that succeeds has the answer to its own request, or to an earlier one that was
\* sent with the same id: never to a later request, nor to one with another id, whenever
\* answers come and callers give up.  So it is its own unless its id was drawn before.
OwnAnswer ==
  \A c \in Callers : outcome[c] = "ok" =>
    LET k == call[c]
    IN  result[k] \in 1..k /\ drawn[result[k]] = drawn[k]

\* Every call returns, whatever the peer does, and handing over a result never stops
\* the loop that serves the connection, though nobody may be waiting any more.
CallReturns ==
  /\ \A c \in Callers : stage[c] # "idle" ~> stage[c] = "idle"
  /\ serve # <<"reading">> ~> serve = <<"reading">>
=============================================================================
