---------------------------- MODULE ProviderRequest ----------------------------
(***************************************************************************)
(* What a provider is sent: transformMessages of                           *)
(* packages/ai/src/providers/transform-messages.ts, applied to the context *)
(* the agent loop has when it asks the model. The second pass repairs what *)
(* failed runs have left in the transcript: it drops their responses and   *)
(* answers the calls that nobody answered. The first pass, which rewrites  *)
(* the blocks inside one message, is left out. The loops are recursive     *)
(* functions, since folds are beyond the provers.                          *)
(***************************************************************************)
EXTENDS Agent, FiniteSets

\* The result made up for a call that has none.
NoResult(call) ==
  [role |-> "noResult", run |-> call.run, turn |-> call.turn, call |-> call.call]
CallsOf(response) == [i \in 1..response.calls |-> ToolResult(response.run, response.turn, i)]
Failed(m) == m.stop \in {"error", "aborted"}

\* The request so far, the calls of the last response that made any, and the
\* results seen since.
Nothing == [request |-> <<>>, pendingToolCalls |-> <<>>, existing |-> {}]

\* The calls still unanswered get their made-up results, in the order of the calls.
IsOrphaned_All(s, call) == TRUE
IsOrphaned(s, call) == call \notin s.existing
Flushed(s) ==
  LET pushed[n \in 0..Len(s.pendingToolCalls)] ==
        IF n = 0 THEN s.request
        ELSE IF IsOrphaned(s, s.pendingToolCalls[n])
               THEN Append(pushed[n - 1], NoResult(s.pendingToolCalls[n])) ELSE pushed[n - 1]
  IN [Nothing EXCEPT !.request = pushed[Len(s.pendingToolCalls)]]

\* One turn of the second pass, by the role of the message.
WithResponse(s, m) ==
  IF Failed(m) THEN Flushed(s)
  ELSE [request |-> Append(Flushed(s).request, m), pendingToolCalls |-> CallsOf(m), existing |-> {}]
WithResult(s, m) == [s EXCEPT !.request = Append(@, m), !.existing = @ \cup {m}]
WithUser(s, m) == [Nothing EXCEPT !.request = Append(Flushed(s).request, m)]

With(s, m) ==
  CASE m.role = "assistant"  -> WithResponse(s, m)
    [] m.role = "toolResult" -> WithResult(s, m)
    [] m.role = "user"       -> WithUser(s, m)

transformMessages(context) ==
  LET pass[n \in 0..Len(context)] ==
        IF n = 0 THEN Nothing ELSE With(pass[n - 1], context[n])
  IN pass[Len(context)].request

-----------------------------------------------------------------------------

IsResult(m) == m.role \in {"toolResult", "noResult"}
Answers(m, response) == IsResult(m) /\ m.run = response.run /\ m.turn = response.turn

\* Where the results that directly follow position i end.
EndOfResults(request, i) ==
  CHOOSE k \in i..Len(request) :
    /\ \A j \in (i + 1)..k : IsResult(request[j])
    /\ k < Len(request) => ~IsResult(request[k + 1])
Following(request, i) == (i + 1)..EndOfResults(request, i)
Given(request, i, call) ==
  {k \in DOMAIN request : Answers(request[k], request[i]) /\ request[k].call = call}

IsResponse(m) == m.role = "assistant"
OnlyFinished(request) ==
  \A i \in DOMAIN request : IsResponse(request[i]) => request[i].stop = "ok"
ResultsFollow(request) ==
  \A k \in DOMAIN request : IsResult(request[k]) =>
    \E i \in 1..(k - 1) :
      IsResponse(request[i]) /\ k \in Following(request, i) /\ Answers(request[k], request[i])
AnsweredOnce(request) ==
  \A i \in DOMAIN request : IsResponse(request[i]) =>
    \A call \in 1..request[i].calls :
      \/ Cardinality(Given(request, i, call)) = 1
      \/ Given(request, i, call) = {} /\ EndOfResults(request, i) = Len(request)
WellFormed(request) == OnlyFinished(request) /\ ResultsFollow(request) /\ AnsweredOnce(request)

\* Whatever became of the runs before (throws between two results, aborts in
\* mid-response, retries, prompts and steering in between), a request has no failed
\* response, each result directly follows the response that made the call, and
\* each call has exactly one result, which is made up only if there is no other.
\* The calls of the very last response are excepted: the pass does not look
\* back at the end, and a run that threw between two results may be retried
\* from the first of them.
RequestIsWellFormed ==
  \A r \in Runs : AtRequest(r) => WellFormed(transformMessages(local[r].context))
=============================================================================
