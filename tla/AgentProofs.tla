----------------------------- MODULE AgentProofs -----------------------------
(***************************************************************************)
(* What is proved about the Agent and the requests it sends, for any       *)
(* number of runs, messages, turns and tool calls and any modes:           *)
(*   - the type invariant;                                                 *)
(*   - without prompts from agent_end listeners, the run registry: one     *)
(*     live run at most, and isStreaming, runningPrompt and                *)
(*     abortController agree with it;                                      *)
(*   - the Agent implements the turn protocol, and pendingToolCalls is     *)
(*     exactly the calls under way;                                        *)
(*   - results of sequential tool calls enter the transcript in order;     *)
(*   - no user message is lost, doubled or overtaken on its way from the   *)
(*     queues to the transcript;                                           *)
(*   - a follow-up never lands inside a tool turn;                         *)
(*   - agent_end reports exactly what the run added to the transcript;     *)
(*   - a request is well formed whatever the runs before have left in the  *)
(*     transcript.                                                         *)
(*                                                                         *)
(* The last has two halves, at the end of the module. The first is about   *)
(* transformMessages alone: what it makes of a context in which a result   *)
(* stands behind its response with only results of the same response       *)
(* between (Grammar). The second shows that every context is of this kind  *)
(* when a run makes a request.                                             *)
(***************************************************************************)
EXTENDS ProviderRequest, SequenceTheorems, FiniteSetTheorems, NaturalsInduction,
        WellFoundedInduction, TLAPS

USE DEF NoRun

-----------------------------------------------------------------------------
(* Facts about the data.                                                   *)

LEMMA MessageTypes ==
  /\ UserMessages \subseteq Messages
  /\ AssistantMessages \subseteq Messages
  /\ ToolResults \subseteq Messages
  BY DEF Messages

LEMMA AssistantType ==
  ASSUME NEW r \in Runs, NEW t \in Nat, NEW n \in 0..MaxCalls, NEW stop \in StopReasons
  PROVE  Assistant(r, t, n, stop) \in AssistantMessages
  BY DEF Assistant, AssistantMessages

LEMMA SubseqTypes ==
  ASSUME NEW S, NEW T, S \subseteq T, NEW s \in Seq(S)
  PROVE  s \in Seq(T)
  OBVIOUS

LEMMA SingletonSeq ==
  ASSUME NEW S, NEW x \in S
  PROVE  <<x>> \in Seq(S)
  OBVIOUS

LEMMA LocalsType ==
  ASSUME TypeOK, NEW r \in Runs
  PROVE  /\ local[r] \in Locals
         /\ local[r].context \in Seq(Messages)
         /\ local[r].newMessages \in Seq(Messages)
         /\ local[r].pending \in Seq(UserMessages)
         /\ local[r].hasMore \in BOOLEAN
         /\ local[r].turn \in Nat
         /\ local[r].toolTurns \in 0..MaxToolTurns
         /\ local[r].calls \in [1..MaxCalls -> CallStates]
         /\ local[r].results \in Seq(ToolResults)
         /\ local[r].skipPoll \in BOOLEAN
<1>1. local[r] \in Locals
  BY DEF TypeOK
<1> QED
  BY <1>1 DEF Locals

LEMMA SetLocalType ==
  ASSUME TypeOK, NEW r \in Runs, NEW v \in Locals, SetLocal(r, v)
  PROVE  local' \in [Runs -> Locals]
  BY DEF TypeOK, SetLocal

LEMMA GotoType ==
  ASSUME TypeOK, NEW r \in Runs, NEW p \in Places, Goto(r, p)
  PROVE  pc' \in [Runs -> Places]
  BY DEF TypeOK, Goto

LEMMA DequeuedType ==
  ASSUME NEW queue \in Seq(UserMessages), NEW mode
  PROVE  /\ Dequeued(queue, mode) \in Seq(UserMessages)
         /\ Remaining(queue, mode) \in Seq(UserMessages)
  BY DEF Dequeued, Remaining

LEMMA NextIdType ==
  ASSUME TypeOK, CanSubmit, NEW kind \in {"prompt", "steer", "followUp", "append"},
         submitted' = Append(submitted, kind)
  PROVE  /\ User(NextId) \in UserMessages
         /\ submitted' \in Seq({"prompt", "steer", "followUp", "append"})
         /\ Len(submitted') <= MaxMessages
  BY BoundsAssumption DEF TypeOK, CanSubmit, NextId, User, UserMessages, Ids

-----------------------------------------------------------------------------
(* Type correctness, one lemma per group of actions.                       *)

LEMMA LocalsAtType ==
  ASSUME NEW transcript \in Seq(Messages), NEW prompts \in Seq(UserMessages),
         NEW mode \in {"sequential", "parallel"}, NEW skip \in BOOLEAN
  PROVE  LocalsAt(transcript, prompts, mode, skip) \in Locals
<1>1. prompts \in Seq(Messages) /\ transcript \o prompts \in Seq(Messages) /\ Len(transcript) \in Nat
  BY SubseqTypes, MessageTypes
<1>2. NoCalls \in [1..MaxCalls -> CallStates]
  BY DEF NoCalls, CallStates
<1>3. <<>> \in Seq(ToolResults) /\ 0 \in 0..MaxToolTurns
  BY BoundsAssumption
<1> QED
  BY <1>1, <1>2, <1>3 DEF LocalsAt, Locals

LEMMA InitType == Init => TypeOK
<1> SUFFICES ASSUME Init PROVE TypeOK
  OBVIOUS
<1>1. NoLocals \in Locals
  <2>1. <<>> \in Seq(Messages) /\ <<>> \in Seq(UserMessages)
    OBVIOUS
  <2> QED
    BY <2>1, LocalsAtType DEF NoLocals
<1>2. messages \in Seq(Messages) /\ steeringQueue \in Seq(UserMessages)
      /\ followUpQueue \in Seq(UserMessages)
  BY DEF Init
<1>3. submitted \in Seq({"prompt", "steer", "followUp", "append"}) /\ Len(submitted) <= MaxMessages
  BY BoundsAssumption DEF Init
<1>4. pc \in [Runs -> Places]
  BY DEF Init, Places
<1>5. reported \in [Runs -> Seq(Messages)]
  BY DEF Init
<1> QED
  BY <1>1, <1>2, <1>3, <1>4, <1>5 DEF Init, TypeOK

LEMMA StartRunType ==
  ASSUME TypeOK, NEW r \in Runs, NEW prompts \in Seq(UserMessages), NEW skip \in BOOLEAN,
         StartRun(r, prompts, skip)
  PROVE  /\ runningPrompt' \in Runs \cup {NoRun}
         /\ abortController' \in Runs \cup {NoRun}
         /\ isStreaming' \in BOOLEAN
         /\ streamMessage' \in AssistantMessages \cup {NoMessage}
         /\ error' \in BOOLEAN
         /\ pc' \in [Runs -> Places]
         /\ local' \in [Runs -> Locals]
         /\ UNCHANGED <<messages, pendingToolCalls, aborted, discarded, reported>>
<1>1. PICK mode \in ToolModes :
        local' = [local EXCEPT ![r] = LocalsAt(messages, prompts, mode, skip)]
  BY DEF StartRun
<1>2. LocalsAt(messages, prompts, mode, skip) \in Locals
  BY LocalsAtType, ModesAssumption DEF TypeOK
<1>3. local' \in [Runs -> Locals]
  BY <1>1, <1>2 DEF TypeOK
<1>4. pc' \in [Runs -> Places]
  BY DEF StartRun, TypeOK, Places, Live, Looping
<1> QED
  BY <1>3, <1>4 DEF StartRun

LEMMA HostStepType == ASSUME TypeOK, HostStep PROVE TypeOK'
<1>1. ASSUME NEW r \in Runs, Prompt(r) PROVE TypeOK'
  <2>1. User(NextId) \in UserMessages
        /\ submitted' \in Seq({"prompt", "steer", "followUp", "append"})
        /\ Len(submitted') <= MaxMessages
    BY <1>1, NextIdType DEF Prompt
  <2>2. <<User(NextId)>> \in Seq(UserMessages)
    BY <2>1, SingletonSeq
  <2>3. StartRun(r, <<User(NextId)>>, FALSE)
    BY <1>1 DEF Prompt
  <2> QED
    BY <1>1, <2>1, <2>2, <2>3, StartRunType DEF TypeOK, Prompt, queueVars
<1>2. ASSUME NEW r \in Runs, ContinueSteering(r) PROVE TypeOK'
  <2>1. PICK mode \in QueueModes :
          /\ StartRun(r, Dequeued(steeringQueue, mode), TRUE)
          /\ steeringQueue' = Remaining(steeringQueue, mode)
    BY <1>2 DEF ContinueSteering
  <2>2. Dequeued(steeringQueue, mode) \in Seq(UserMessages)
        /\ Remaining(steeringQueue, mode) \in Seq(UserMessages)
    BY DequeuedType DEF TypeOK
  <2> QED
    BY <1>2, <2>1, <2>2, StartRunType DEF TypeOK, ContinueSteering
<1>3. ASSUME NEW r \in Runs, ContinueFollowUp(r) PROVE TypeOK'
  <2>1. PICK mode \in QueueModes :
          /\ StartRun(r, Dequeued(followUpQueue, mode), FALSE)
          /\ followUpQueue' = Remaining(followUpQueue, mode)
    BY <1>3 DEF ContinueFollowUp
  <2>2. Dequeued(followUpQueue, mode) \in Seq(UserMessages)
        /\ Remaining(followUpQueue, mode) \in Seq(UserMessages)
    BY DequeuedType DEF TypeOK
  <2> QED
    BY <1>3, <2>1, <2>2, StartRunType DEF TypeOK, ContinueFollowUp
<1>4. ASSUME NEW r \in Runs, ContinueContext(r) PROVE TypeOK'
  <2>1. <<>> \in Seq(UserMessages)
    OBVIOUS
  <2> QED
    BY <1>4, <2>1, StartRunType DEF TypeOK, ContinueContext, queueVars
<1>5. CASE Steer
  <2>1. User(NextId) \in UserMessages
        /\ submitted' \in Seq({"prompt", "steer", "followUp", "append"})
        /\ Len(submitted') <= MaxMessages
    BY <1>5, NextIdType DEF Steer
  <2> QED
    BY <1>5, <2>1 DEF TypeOK, Steer, agentVars, runVars
<1>6. CASE FollowUp
  <2>1. User(NextId) \in UserMessages
        /\ submitted' \in Seq({"prompt", "steer", "followUp", "append"})
        /\ Len(submitted') <= MaxMessages
    BY <1>6, NextIdType DEF FollowUp
  <2> QED
    BY <1>6, <2>1 DEF TypeOK, FollowUp, agentVars, runVars
<1>7. CASE Abort
  BY <1>7 DEF TypeOK, Abort, agentVars, queueVars, history
<1>8. IdsIn(steeringQueue) \subseteq Ids /\ IdsIn(followUpQueue) \subseteq Ids
  BY DEF IdsIn, UserMessages, User
<1>9. CASE ClearSteeringQueue
  BY <1>8, <1>9 DEF TypeOK, ClearSteeringQueue, agentVars, runVars
<1>10. CASE ClearFollowUpQueue
  BY <1>8, <1>10 DEF TypeOK, ClearFollowUpQueue, agentVars, runVars
<1>11. CASE Reset
  <2>1. 1..Len(submitted) \subseteq Ids
    BY BoundsAssumption DEF TypeOK, Ids
  <2>2. <<>> \in Seq(Messages) /\ <<>> \in Seq(UserMessages)
    OBVIOUS
  <2> QED
    BY <1>11, <2>1, <2>2 DEF TypeOK, Reset, runVars
<1>12. CASE AppendMessage
  <2>1. User(NextId) \in UserMessages
        /\ submitted' \in Seq({"prompt", "steer", "followUp", "append"})
        /\ Len(submitted') <= MaxMessages
    BY <1>12, NextIdType DEF AppendMessage
  <2>2. User(NextId) \in Messages
    BY <2>1, MessageTypes
  <2> QED
    BY <1>12, <2>1, <2>2 DEF TypeOK, AppendMessage, queueVars, runVars
<1>13. CASE DropFailedResponse
  <2>1. messages' \in Seq(Messages)
    BY <1>13 DEF TypeOK, DropFailedResponse, LastIsAssistant
  <2> QED
    BY <1>13, <2>1 DEF TypeOK, DropFailedResponse, queueVars, runVars, history
<1> QED
  BY <1>1, <1>2, <1>3, <1>4, <1>5, <1>6, <1>7, <1>9, <1>10, <1>11, <1>12, <1>13 DEF HostStep

LEMMA HeadTailType ==
  ASSUME NEW S, NEW s \in Seq(S), s # <<>>
  PROVE  Head(s) \in S /\ Tail(s) \in Seq(S)
  OBVIOUS

LEMMA AppendType ==
  ASSUME NEW S, NEW s \in Seq(S), NEW x \in S
  PROVE  Append(s, x) \in Seq(S)
  OBVIOUS

\* What every step of a run but its last two leaves alone.
LEMMA KeptType ==
  ASSUME TypeOK, UnchangedExceptRun
  PROVE  /\ abortController' \in Runs \cup {NoRun}
         /\ runningPrompt' \in Runs \cup {NoRun}
         /\ aborted' \subseteq Runs
         /\ submitted' \in Seq({"prompt", "steer", "followUp", "append"})
         /\ Len(submitted') <= MaxMessages
         /\ discarded' \subseteq Ids
         /\ reported' \in [Runs -> Seq(Messages)]
  BY DEF TypeOK, UnchangedExceptRun, history

LEMMA AnnounceType ==
  ASSUME TypeOK, NEW r \in Runs, AnnouncePrompt(r) PROVE TypeOK'
<1>1. Head(local[r].pending) \in UserMessages /\ Tail(local[r].pending) \in Seq(UserMessages)
  BY LocalsType, HeadTailType DEF AnnouncePrompt
<1>2. messages' \in Seq(Messages)
  BY <1>1, MessageTypes, AppendType DEF AnnouncePrompt, TypeOK
<1>3. [local[r] EXCEPT !.pending = Tail(@)] \in Locals
  BY <1>1, LocalsType DEF Locals
<1>4. local' \in [Runs -> Locals]
  BY <1>3, SetLocalType DEF AnnouncePrompt
<1> QED
  BY <1>2, <1>4, KeptType DEF AnnouncePrompt, TypeOK, queueVars

LEMMA PollSteeringType ==
  ASSUME TypeOK, NEW r \in Runs, PollSteering(r) PROVE TypeOK'
<1>1. PICK mode \in QueueModes :
       LET polled == IF local[r].skipPoll THEN <<>> ELSE Dequeued(steeringQueue, mode) IN
       /\ steeringQueue' = IF local[r].skipPoll THEN steeringQueue
                                                ELSE Remaining(steeringQueue, mode)
       /\ SetLocal(r, [local[r] EXCEPT !.pending = polled, !.skipPoll = FALSE])
       /\ Goto(r, IF local[r].hasMore \/ polled # <<>> THEN "turn" ELSE "followUp")
  BY DEF PollSteering
<1> DEFINE polled == IF local[r].skipPoll THEN <<>> ELSE Dequeued(steeringQueue, mode)
<1>2. polled \in Seq(UserMessages) /\ steeringQueue' \in Seq(UserMessages)
  BY <1>1, DequeuedType DEF TypeOK
<1>3. [local[r] EXCEPT !.pending = polled, !.skipPoll = FALSE] \in Locals
  BY <1>2, LocalsType DEF Locals
<1>4. local' \in [Runs -> Locals]
  BY <1>1, <1>3, SetLocalType
<1>5. pc' \in [Runs -> Places]
  <2>1. (IF local[r].hasMore \/ polled # <<>> THEN "turn" ELSE "followUp") \in Places
    BY DEF Places, Live, Looping
  <2> QED
    BY <1>1, <2>1, GotoType
<1> QED
  BY <1>2, <1>4, <1>5, KeptType DEF PollSteering, TypeOK, agentVars

LEMMA InjectType ==
  ASSUME TypeOK, NEW r \in Runs, InjectPending(r) PROVE TypeOK'
<1>1. Head(local[r].pending) \in UserMessages /\ Tail(local[r].pending) \in Seq(UserMessages)
  BY LocalsType, HeadTailType DEF InjectPending
<1>2. Head(local[r].pending) \in Messages
  BY <1>1, MessageTypes
<1>3. messages' \in Seq(Messages)
  BY <1>2, AppendType DEF InjectPending, TypeOK
<1>4. /\ Append(local[r].context, Head(local[r].pending)) \in Seq(Messages)
      /\ Append(local[r].newMessages, Head(local[r].pending)) \in Seq(Messages)
  BY <1>2, LocalsType, AppendType
<1>5. [local[r] EXCEPT !.context = Append(@, Head(local[r].pending)),
                       !.newMessages = Append(@, Head(local[r].pending)),
                       !.pending = Tail(@)] \in Locals
  BY <1>1, <1>4, LocalsType DEF Locals
<1>6. local' \in [Runs -> Locals]
  BY <1>5, SetLocalType DEF InjectPending
<1> QED
  BY <1>3, <1>6, KeptType DEF InjectPending, TypeOK, queueVars

LEMMA StreamStartType ==
  ASSUME TypeOK, NEW r \in Runs, StreamStart(r) PROVE TypeOK'
<1>1. Partial(r, local[r].turn + 1) \in AssistantMessages
  BY LocalsType, BoundsAssumption DEF Partial, Assistant, AssistantMessages, StopReasons
<1>2. Append(local[r].context, Partial(r, local[r].turn + 1)) \in Seq(Messages)
  BY <1>1, LocalsType, MessageTypes, AppendType
<1>3. [local[r] EXCEPT !.context = Append(@, Partial(r, local[r].turn + 1))] \in Locals
  BY <1>2, LocalsType DEF Locals
<1>4. local' \in [Runs -> Locals]
  BY <1>3, SetLocalType DEF StreamStart
<1>5. pc' \in [Runs -> Places]
  BY GotoType DEF StreamStart, Places, Live, Looping
<1> QED
  BY <1>1, <1>4, <1>5, KeptType DEF StreamStart, TypeOK, queueVars

LEMMA FinishedType ==
  ASSUME TypeOK, NEW r \in Runs, NEW m \in Messages
  PROVE  Finished(r, m) \in Seq(Messages)
<1>1. local[r].context \in Seq(Messages)
  BY LocalsType
<1>2. CASE pc[r] = "streaming"
  <2> DEFINE c == local[r].context
  <2>1. CASE c = <<>>
    <3>1. [c EXCEPT ![Len(c)] = m] = c
      BY <1>1, <2>1
    <3> QED
      BY <1>1, <1>2, <3>1 DEF Finished
  <2>2. CASE c # <<>>
    <3>1. Len(c) \in 1..Len(c)
      BY <1>1, <2>2
    <3>2. [c EXCEPT ![Len(c)] = m] \in Seq(Messages)
      BY <1>1, <3>1, ExceptSeq
    <3> QED
      BY <1>2, <3>2 DEF Finished
  <2> QED
    BY <2>1, <2>2
<1>3. CASE pc[r] # "streaming"
  BY <1>1, <1>3, AppendType DEF Finished
<1> QED
  BY <1>2, <1>3

LEMMA StreamEndType ==
  ASSUME TypeOK, NEW r \in Runs, StreamEnd(r) PROVE TypeOK'
<1>1. PICK stop \in Endings(r), n \in 0..MaxCalls :
       LET message == Assistant(r, local[r].turn + 1, n, stop) IN
       /\ n > 0 => local[r].toolTurns < MaxToolTurns
       /\ messages' = Append(messages, message)
       /\ SetLocal(r, [local[r] EXCEPT
            !.context = Finished(r, message),
            !.newMessages = Append(@, message),
            !.turn = @ + 1,
            !.toolTurns = IF n > 0 THEN @ + 1 ELSE @,
            !.hasMore = (n > 0),
            !.calls = [i \in 1..MaxCalls |-> IF stop = "ok" /\ i <= n THEN "todo" ELSE "none"],
            !.results = <<>>])
       /\ Goto(r, IF stop = "ok" THEN "tools" ELSE "failedTurn")
  BY DEF StreamEnd
<1> DEFINE message == Assistant(r, local[r].turn + 1, n, stop)
           calls == [i \in 1..MaxCalls |-> IF stop = "ok" /\ i <= n THEN "todo" ELSE "none"]
           tt == IF n > 0 THEN local[r].toolTurns + 1 ELSE local[r].toolTurns
           l == local[r]
<1>2. message \in Messages
  <2>1. stop \in StopReasons
    BY ModesAssumption DEF Endings, StopReasons
  <2>2. local[r].turn + 1 \in Nat
    BY LocalsType
  <2> QED
    BY <2>1, <2>2, AssistantType, MessageTypes
<1> HIDE DEF message
<1>3. Append(l.newMessages, message) \in Seq(Messages) /\ Append(messages, message) \in Seq(Messages)
  BY <1>2, LocalsType, AppendType DEF TypeOK
<1>4. Finished(r, message) \in Seq(Messages)
  BY <1>2, FinishedType
<1>5. calls \in [1..MaxCalls -> CallStates]
  BY DEF CallStates
<1> HIDE DEF calls
<1>6. tt \in 0..MaxToolTurns /\ l.turn + 1 \in Nat /\ (n > 0) \in BOOLEAN
  BY <1>1, LocalsType, BoundsAssumption
<1>7. <<>> \in Seq(ToolResults)
  OBVIOUS
<1>8. l \in Locals
  BY LocalsType
<1>9. [l EXCEPT !.context = Finished(r, message),
                !.newMessages = Append(@, message),
                !.turn = @ + 1,
                !.toolTurns = tt,
                !.hasMore = (n > 0),
                !.calls = calls,
                !.results = <<>>] \in Locals
  <2> HIDE DEF tt, l
  <2> QED
    BY <1>3, <1>4, <1>5, <1>6, <1>7, <1>8 DEF Locals
<1>10. local' \in [Runs -> Locals]
  BY <1>1, <1>9, SetLocalType DEF message, calls
<1>11. pc' \in [Runs -> Places]
  <2>1. (IF stop = "ok" THEN "tools" ELSE "failedTurn") \in Places
    BY DEF Places, Live, Looping
  <2> QED
    BY <1>1, <2>1, GotoType
<1>12. messages' \in Seq(Messages)
  BY <1>1, <1>3 DEF message
<1> QED
  BY <1>10, <1>11, <1>12, KeptType DEF StreamEnd, TypeOK, queueVars

LEMMA FailedTurnEndType ==
  ASSUME TypeOK, NEW r \in Runs, FailedTurnEnd(r) PROVE TypeOK'
<1>1. pc' \in [Runs -> Places]
  BY GotoType DEF FailedTurnEnd, Places, Live, Looping
<1> QED
  BY <1>1, KeptType DEF FailedTurnEnd, TypeOK, queueVars

LEMMA SetCallType ==
  ASSUME TypeOK, NEW r \in Runs, NEW i \in 1..MaxCalls, NEW state \in CallStates
  PROVE  SetCall(r, i, state) \in Locals
<1>1. [local[r].calls EXCEPT ![i] = state] \in [1..MaxCalls -> CallStates]
  BY LocalsType
<1>2. SetCall(r, i, state) = [local[r] EXCEPT !.calls = [local[r].calls EXCEPT ![i] = state]]
  BY DEF SetCall
<1> QED
  BY <1>1, <1>2, LocalsType DEF Locals

LEMMA EmitOutcomeType ==
  ASSUME TypeOK, NEW r \in Runs, NEW i \in 1..MaxCalls, EmitOutcome(r, i) PROVE TypeOK'
<1> DEFINE result == ToolResult(r, local[r].turn, i)
<1>1. result \in ToolResults
  BY LocalsType DEF ToolResult, ToolResults
<1> HIDE DEF result
<1>2. messages' \in Seq(Messages)
  BY <1>1, MessageTypes, AppendType DEF EmitOutcome, TypeOK, result
<1>3. SetCall(r, i, "ended") \in Locals
  BY SetCallType DEF CallStates
<1>4. SetCall(r, i, "ended").results \in Seq(ToolResults)
  BY <1>3 DEF Locals
<1>5. Append(SetCall(r, i, "ended").results, result) \in Seq(ToolResults)
  BY <1>1, <1>4, AppendType
<1>6. [SetCall(r, i, "ended") EXCEPT !.results = Append(@, result)] \in Locals
  BY <1>3, <1>5 DEF Locals
<1>7. local' \in [Runs -> Locals]
  BY <1>6, SetLocalType DEF EmitOutcome, result
<1> QED
  BY <1>2, <1>7, KeptType DEF EmitOutcome, TypeOK, queueVars

LEMMA ToolStepsType ==
  ASSUME TypeOK, NEW r \in Runs, NEW i \in 1..MaxCalls,
         ToolStart(r, i) \/ ToolRefused(r, i) \/ ToolPrepared(r, i) \/ Finalize(r, i)
         \/ ToolSettles(r, i)
  PROVE  TypeOK'
<1>1. CASE ToolStart(r, i)
  <2>1. local' \in [Runs -> Locals]
    BY <1>1, SetCallType, SetLocalType DEF ToolStart, CallStates
  <2>2. CallId(r, i) \in CallIds
    BY LocalsType DEF CallId, CallIds
  <2> QED
    BY <1>1, <2>1, <2>2, KeptType DEF ToolStart, TypeOK, queueVars
<1>2. CASE ToolRefused(r, i)
  BY <1>2, EmitOutcomeType DEF ToolRefused
<1>3. CASE ToolPrepared(r, i)
  <2>1. (IF local[r].mode = "sequential" THEN "running" ELSE "ready") \in CallStates
    BY DEF CallStates
  <2>2. local' \in [Runs -> Locals]
    BY <1>3, <2>1, SetCallType, SetLocalType DEF ToolPrepared
  <2> QED
    BY <1>3, <2>2, KeptType DEF ToolPrepared, TypeOK, queueVars, agentVars
<1>4. CASE Finalize(r, i)
  BY <1>4, EmitOutcomeType DEF Finalize
<1>5. CASE ToolSettles(r, i)
  <2>1. local' \in [Runs -> Locals]
    BY <1>5, SetCallType, SetLocalType DEF ToolSettles, CallStates
  <2> QED
    BY <1>5, <2>1, KeptType DEF ToolSettles, TypeOK, queueVars, agentVars
<1> QED
  BY <1>1, <1>2, <1>3, <1>4, <1>5

LEMMA LaunchType ==
  ASSUME TypeOK, NEW r \in Runs, Launch(r) PROVE TypeOK'
<1> DEFINE calls == [i \in 1..MaxCalls |-> IF CallState(r, i) = "ready" THEN "running" ELSE CallState(r, i)]
<1>1. calls \in [1..MaxCalls -> CallStates]
  BY LocalsType DEF CallState, CallStates
<1> HIDE DEF calls
<1>2. [local[r] EXCEPT !.calls = calls] \in Locals
  BY <1>1, LocalsType DEF Locals
<1>3. local' \in [Runs -> Locals]
  BY <1>2, SetLocalType DEF Launch, calls
<1> QED
  BY <1>3, KeptType DEF Launch, TypeOK, queueVars, agentVars

LEMMA TurnEndType ==
  ASSUME TypeOK, NEW r \in Runs, TurnEnd(r) PROVE TypeOK'
<1>1. local[r].results \in Seq(Messages)
  BY LocalsType, SubseqTypes, MessageTypes
<1>2. /\ local[r].context \o local[r].results \in Seq(Messages)
      /\ local[r].newMessages \o local[r].results \in Seq(Messages)
  BY <1>1, LocalsType
<1>3. [local[r] EXCEPT !.context = @ \o local[r].results,
                       !.newMessages = @ \o local[r].results] \in Locals
  BY <1>2, LocalsType DEF Locals
<1>4. local' \in [Runs -> Locals]
  BY <1>3, SetLocalType DEF TurnEnd
<1>5. pc' \in [Runs -> Places]
  BY GotoType DEF TurnEnd, Places, Live, Looping
<1> QED
  BY <1>4, <1>5, KeptType DEF TurnEnd, TypeOK, queueVars, agentVars

LEMMA PollFollowUpType ==
  ASSUME TypeOK, NEW r \in Runs, PollFollowUp(r) PROVE TypeOK'
<1>1. PICK mode \in QueueModes :
       /\ followUpQueue' = Remaining(followUpQueue, mode)
       /\ SetLocal(r, [local[r] EXCEPT !.pending = Dequeued(followUpQueue, mode)])
  BY DEF PollFollowUp
<1>2. Dequeued(followUpQueue, mode) \in Seq(UserMessages) /\ followUpQueue' \in Seq(UserMessages)
  BY <1>1, DequeuedType DEF TypeOK
<1>3. [local[r] EXCEPT !.pending = Dequeued(followUpQueue, mode)] \in Locals
  BY <1>2, LocalsType DEF Locals
<1>4. local' \in [Runs -> Locals]
  BY <1>1, <1>3, SetLocalType
<1>5. pc' \in [Runs -> Places]
  <2>1. (IF followUpQueue = <<>> THEN "ending" ELSE "turn") \in Places
    BY DEF Places, Live, Looping
  <2> QED
    BY <2>1, GotoType DEF PollFollowUp
<1> QED
  BY <1>2, <1>4, <1>5, KeptType DEF PollFollowUp, TypeOK, agentVars

LEMMA EndingType ==
  ASSUME TypeOK, NEW r \in Runs, AgentEnd(r) \/ Unwind(r) \/ RunThrows(r) PROVE TypeOK'
<1>1. CASE AgentEnd(r)
  <2>1. pc' \in [Runs -> Places]
    BY <1>1, GotoType DEF AgentEnd, Places, Live
  <2>2. reported' \in [Runs -> Seq(Messages)]
    BY <1>1, LocalsType DEF AgentEnd, TypeOK
  <2> QED
    BY <1>1, <2>1, <2>2 DEF AgentEnd, TypeOK, queueVars
<1>2. ASSUME Finally(r) PROVE pc' \in [Runs -> Places]
  BY <1>2, GotoType DEF Finally, Places
<1>3. CASE Unwind(r)
  BY <1>2, <1>3 DEF Unwind, Finally, TypeOK, queueVars, history
<1>4. CASE RunThrows(r)
  <2> DEFINE stop == IF abortController \in aborted THEN "aborted" ELSE "error"
  <2>1. Failure(r, stop) \in Messages
    BY BoundsAssumption, MessageTypes DEF Failure, Assistant, AssistantMessages, StopReasons
  <2>2. messages' = Append(messages, Failure(r, stop)) /\ reported' = [reported EXCEPT ![r] = <<Failure(r, stop)>>]
    BY <1>4 DEF RunThrows
  <2> HIDE DEF stop
  <2>3. messages' \in Seq(Messages)
    BY <2>1, <2>2, AppendType DEF TypeOK
  <2>4. reported' \in [Runs -> Seq(Messages)]
    <3>1. <<Failure(r, stop)>> \in Seq(Messages)
      BY <2>1, SingletonSeq
    <3> QED
      BY <2>2, <3>1 DEF TypeOK
  <2> QED
    BY <1>2, <1>4, <2>3, <2>4 DEF RunThrows, Finally, TypeOK, queueVars
<1> QED
  BY <1>1, <1>3, <1>4

\* Type correctness: every variable keeps its type, whatever the host does and
\* whatever throws.
THEOREM AgentTypeOK == Spec => []TypeOK
<1>1. ASSUME TypeOK, [Next]_vars PROVE TypeOK'
  <2>1. CASE HostStep
    BY <1>1, <2>1, HostStepType
  <2>2. ASSUME NEW r \in Runs, LoopStep(r) PROVE TypeOK'
    BY <1>1, <2>2, AnnounceType, PollSteeringType, InjectType, StreamStartType, StreamEndType,
       FailedTurnEndType, ToolStepsType, LaunchType, TurnEndType, PollFollowUpType, EndingType
       DEF LoopStep
  <2>3. ASSUME NEW r \in Runs, ToolStep(r) PROVE TypeOK'
    BY <1>1, <2>3, ToolStepsType DEF ToolStep
  <2>4. CASE UNCHANGED vars
    BY <1>1, <2>4 DEF vars, TypeOK
  <2> QED
    BY <1>1, <2>1, <2>2, <2>3, <2>4 DEF Next
<1> QED
  BY <1>1, InitType, PTL DEF Spec

-----------------------------------------------------------------------------
(* The run registry.                                                       *)

\* What a step does to the registry, all other state aside.
Starts(r) ==
  /\ NewRun(r) /\ CanStart
  /\ isStreaming' = TRUE /\ runningPrompt' = r /\ abortController' = r
  /\ pc' = [pc EXCEPT ![r] = "opening"]
Moves(r) ==
  /\ pc[r] \in Looping
  /\ \E p \in Looping : pc' = [pc EXCEPT ![r] = p]
  /\ UNCHANGED <<isStreaming, runningPrompt, abortController>>
EndsLoop(r) ==
  /\ pc[r] \in Looping
  /\ isStreaming' = FALSE
  /\ pc' = [pc EXCEPT ![r] = "unwinding"]
  /\ UNCHANGED <<runningPrompt, abortController>>
Finishes(r) ==
  /\ pc[r] \in Live
  /\ isStreaming' = FALSE /\ runningPrompt' = NoRun /\ abortController' = NoRun
  /\ pc' = [pc EXCEPT ![r] = "done"]
StaysIdle ==
  /\ runningPrompt = NoRun
  /\ isStreaming' = FALSE
  /\ UNCHANGED <<runningPrompt, abortController, pc>>

LEMMA RegistrySteps ==
  ASSUME [Next]_vars
  PROVE  \/ \E r \in Runs : Starts(r) \/ Moves(r) \/ EndsLoop(r) \/ Finishes(r)
         \/ StaysIdle
         \/ UNCHANGED <<isStreaming, runningPrompt, abortController, pc>>
<1> DEFINE Goal == \/ \E r \in Runs : Starts(r) \/ Moves(r) \/ EndsLoop(r) \/ Finishes(r)
                   \/ StaysIdle
                   \/ UNCHANGED <<isStreaming, runningPrompt, abortController, pc>>
<1>1. CASE HostStep
  <2>1. ASSUME NEW r \in Runs,
               Prompt(r) \/ ContinueSteering(r) \/ ContinueFollowUp(r) \/ ContinueContext(r)
        PROVE  Starts(r)
    BY <2>1 DEF Prompt, ContinueSteering, ContinueFollowUp, ContinueContext, StartRun, Starts
  <2>2. CASE Steer \/ FollowUp \/ Abort \/ ClearSteeringQueue \/ ClearFollowUpQueue
             \/ AppendMessage \/ DropFailedResponse
    BY <2>2 DEF Steer, FollowUp, Abort, ClearSteeringQueue, ClearFollowUpQueue, AppendMessage,
                DropFailedResponse, agentVars, runVars
  <2>3. CASE Reset
    BY <2>3 DEF Reset, Idle, runVars, StaysIdle
  <2> QED
    BY <1>1, <2>1, <2>2, <2>3 DEF HostStep
<1>2. ASSUME NEW r \in Runs, LoopStep(r) PROVE Goal
  <2>1. ASSUME AnnouncePrompt(r) \/ InjectPending(r) PROVE Goal
    BY <2>1 DEF AnnouncePrompt, InjectPending, UnchangedExceptRun
  <2>2. ASSUME PollSteering(r) PROVE Moves(r)
    <3>1. PICK p \in {"turn", "followUp"} : Goto(r, p)
      BY <2>2 DEF PollSteering
    <3> QED
      BY <2>2, <3>1 DEF PollSteering, Moves, Goto, Looping, UnchangedExceptRun, agentVars
  <2>3. ASSUME StreamStart(r) PROVE Moves(r)
    BY <2>3 DEF StreamStart, AtRequest, Moves, Goto, Looping, UnchangedExceptRun
  <2>4. ASSUME StreamEnd(r) PROVE Moves(r)
    <3>1. PICK p \in {"tools", "failedTurn"} : Goto(r, p)
      BY <2>4 DEF StreamEnd
    <3> QED
      BY <2>4, <3>1 DEF StreamEnd, AtRequest, Moves, Goto, Looping, UnchangedExceptRun
  <2>5. ASSUME FailedTurnEnd(r) \/ TurnEnd(r) PROVE Moves(r)
    BY <2>5 DEF FailedTurnEnd, TurnEnd, Executing, Moves, Goto, Looping, UnchangedExceptRun, agentVars
  <2>6. ASSUME PollFollowUp(r) PROVE Moves(r)
    BY <2>6 DEF PollFollowUp, Moves, Goto, Looping, UnchangedExceptRun, agentVars
  <2>7. ASSUME NEW i \in 1..MaxCalls,
               ToolStart(r, i) \/ ToolRefused(r, i) \/ ToolPrepared(r, i) \/ Finalize(r, i)
        PROVE  Goal
    BY <2>7 DEF ToolStart, ToolRefused, ToolPrepared, Finalize, EmitOutcome, UnchangedExceptRun,
                agentVars
  <2>8. ASSUME Launch(r) PROVE Goal
    BY <2>8 DEF Launch, UnchangedExceptRun, agentVars
  <2>9. ASSUME AgentEnd(r) PROVE EndsLoop(r)
    BY <2>9 DEF AgentEnd, EndsLoop, Goto, Looping
  <2>10. ASSUME Unwind(r) PROVE Finishes(r)
    BY <2>10 DEF Unwind, Finally, Finishes, Goto, Live
  <2>11. ASSUME RunThrows(r) PROVE Finishes(r)
    BY <2>11 DEF RunThrows, AtRequest, Awaited, Executing, Finally, Finishes, Goto, Live, Looping
  <2> QED
    BY <1>2, <2>1, <2>2, <2>3, <2>4, <2>5, <2>6, <2>7, <2>8, <2>9, <2>10, <2>11 DEF LoopStep
<1>3. ASSUME NEW r \in Runs, ToolStep(r) PROVE Goal
  BY <1>3 DEF ToolStep, ToolSettles, UnchangedExceptRun, agentVars
<1>4. CASE UNCHANGED vars
  BY <1>4 DEF vars
<1> QED
  BY <1>1, <1>2, <1>3, <1>4 DEF Next

LEMMA RegistryStep ==
  ASSUME ~Reentrant, TypeOK, RunRegistry, [Next]_vars
  PROVE  RunRegistry'
<1>0. pc \in [Runs -> Places] /\ NoRun \notin Runs
  BY DEF TypeOK, Runs
<1>1. ASSUME NEW r \in Runs, Starts(r) PROVE RunRegistry'
  <2>1. \A s \in Runs : pc[s] \notin Live
    BY <1>1, <1>0 DEF Starts, CanStart, RunRegistry
  <2>2. \A s \in Runs : pc'[s] = IF s = r THEN "opening" ELSE pc[s]
    BY <1>1, <1>0 DEF Starts
  <2> QED
    BY <1>1, <2>1, <2>2 DEF Starts, RunRegistry, Live, Looping
<1>2. ASSUME NEW r \in Runs, Moves(r) PROVE RunRegistry'
  <2>1. PICK p \in Looping : pc' = [pc EXCEPT ![r] = p]
    BY <1>2 DEF Moves
  <2>2. \A s \in Runs : pc'[s] = IF s = r THEN p ELSE pc[s]
    BY <2>1, <1>0
  <2>3. p \in Live /\ pc[r] \in Live
    BY <1>2 DEF Moves, Live
  <2> QED
    BY <1>2, <2>2, <2>3 DEF Moves, RunRegistry
<1>3. ASSUME NEW r \in Runs, EndsLoop(r) PROVE RunRegistry'
  <2>1. \A s \in Runs : pc'[s] = IF s = r THEN "unwinding" ELSE pc[s]
    BY <1>3, <1>0 DEF EndsLoop
  <2>2. pc[r] \in Live /\ "unwinding" \in Live /\ "unwinding" \notin Looping
    BY <1>3 DEF EndsLoop, Live, Looping
  <2>3. \A s \in Runs : pc'[s] \notin Looping
    BY <2>1, <2>2 DEF RunRegistry, Live
  <2> QED
    BY <1>3, <2>1, <2>2, <2>3 DEF EndsLoop, RunRegistry
<1>4. ASSUME NEW r \in Runs, Finishes(r) PROVE RunRegistry'
  <2>1. \A s \in Runs : pc'[s] = IF s = r THEN "done" ELSE pc[s]
    BY <1>4, <1>0 DEF Finishes
  <2>2. \A s \in Runs : pc'[s] \notin Live
    BY <1>4, <2>1 DEF Finishes, RunRegistry, Live, Looping
  <2> QED
    BY <1>4, <2>2 DEF Finishes, RunRegistry, Live
<1>5. CASE StaysIdle
  BY <1>5, <1>0 DEF StaysIdle, RunRegistry, Live
<1>6. CASE UNCHANGED <<isStreaming, runningPrompt, abortController, pc>>
  BY <1>6 DEF RunRegistry
<1> QED
  BY <1>1, <1>2, <1>3, <1>4, <1>5, <1>6, RegistrySteps

LEMMA RegistryInit == Init => RunRegistry
  BY DEF Init, RunRegistry, Live, Looping

\* As long as no agent_end listener prompts, at every moment at most one run is
\* alive, and isStreaming, waitForIdle() and abort() speak of that run.
THEOREM RegistryConsistent == ASSUME ~Reentrant PROVE Spec => []RunRegistry
<1>1. RunRegistry /\ TypeOK /\ [Next]_vars => RunRegistry'
  BY RegistryStep
<1> QED
  BY <1>1, RegistryInit, AgentTypeOK, PTL DEF Spec

\* prompt() and continue() never start a second loop next to a first one.
THEOREM RunsDoNotOverlap == ASSUME ~Reentrant PROVE Spec => []OneRunAtATime
<1>1. RunRegistry => OneRunAtATime
  BY DEF RunRegistry, OneRunAtATime, Live
<1> QED
  BY <1>1, RegistryConsistent, PTL

-----------------------------------------------------------------------------
(***************************************************************************)
(* The turn protocol. At most one run is alive (RegistryConsistent), so    *)
(* what is owed to the last response is what that one run has not          *)
(* answered yet.                                                           *)
(***************************************************************************)

(* The owed results, element by element.                                   *)

\* Call j of run r is still to be answered.
Waits(r, j) == pc[r] = "tools" /\ local[r].calls[j] \notin {"none", "ended"}

LEMMA OwedMembers ==
  \A x : x \in OwedResults <=>
    \E r \in Runs, j \in 1..MaxCalls : Waits(r, j) /\ x = ToolResult(r, local[r].turn, j)
  BY DEF OwedResults, Waits, Executing, CallState

LEMMA OwedMembersNext ==
  \A x : x \in OwedResults' <=>
    \E r \in Runs, j \in 1..MaxCalls : Waits(r, j)' /\ x = ToolResult(r, local'[r].turn, j)
  BY DEF OwedResults, Waits, Executing, CallState, ToolResult

LEMMA OwedIdle ==
  ASSUME \A r \in Runs : pc[r] # "tools"
  PROVE  OwedResults = {}
  BY OwedMembers DEF Waits

LEMMA OwedIdleNext ==
  ASSUME \A r \in Runs : pc'[r] # "tools"
  PROVE  OwedResults' = {}
  BY OwedMembersNext DEF Waits

\* Next to a live run no other run waits for anything, before or after a step
\* of that run.
LEMMA OwedByOne ==
  ASSUME RunRegistry, NEW r \in Runs, pc[r] \in Live,
         \A s \in Runs \ {r} : pc'[s] = pc[s]
  PROVE  /\ \A s \in Runs \ {r} : pc[s] # "tools" /\ pc'[s] # "tools"
         /\ \A x : x \in OwedResults <=>
              \E j \in 1..MaxCalls : Waits(r, j) /\ x = ToolResult(r, local[r].turn, j)
         /\ \A x : x \in OwedResults' <=>
              \E j \in 1..MaxCalls : Waits(r, j)' /\ x = ToolResult(r, local'[r].turn, j)
<1>1. \A s \in Runs \ {r} : pc[s] # "tools" /\ pc'[s] # "tools"
  BY DEF RunRegistry, Live, Looping
<1>2. \A s \in Runs \ {r}, j \in 1..MaxCalls : ~Waits(s, j) /\ ~Waits(s, j)'
  BY <1>1 DEF Waits
<1>3. \A x : x \in OwedResults <=>
        \E j \in 1..MaxCalls : Waits(r, j) /\ x = ToolResult(r, local[r].turn, j)
  BY <1>2, OwedMembers
<1>4. \A x : x \in OwedResults' <=>
        \E j \in 1..MaxCalls : Waits(r, j)' /\ x = ToolResult(r, local'[r].turn, j)
  BY <1>2, OwedMembersNext
<1> QED
  BY <1>1, <1>3, <1>4

\* A step of a live run that is not executing tools, before or after.
LEMMA NothingOwed ==
  ASSUME RunRegistry, NEW r \in Runs, pc[r] \in Live, pc[r] # "tools", pc'[r] # "tools",
         \A s \in Runs \ {r} : pc'[s] = pc[s]
  PROVE  OwedResults = {} /\ OwedResults' = {}
<1>1. \A s \in Runs : pc[s] # "tools" /\ pc'[s] # "tools"
  BY OwedByOne
<1> QED
  BY <1>1, OwedIdle, OwedIdleNext

\* A step that leaves every run where it is and every call as answered as before.
LEMMA SameOwed ==
  ASSUME pc' = pc,
         \A r \in Runs : local'[r].turn = local[r].turn,
         \A r \in Runs, j \in 1..MaxCalls : Waits(r, j)' <=> Waits(r, j)
  PROVE  OwedResults' = OwedResults
<1>1. \A x : x \in OwedResults' <=> x \in OwedResults
  BY OwedMembers, OwedMembersNext
<1> QED
  BY <1>1

LEMMA LastOfAppend ==
  ASSUME NEW S, NEW s \in Seq(S), NEW x \in S
  PROVE  /\ Len(s) + 1 \in DOMAIN Append(s, x)
         /\ Append(s, x)[Len(s) + 1] = x
  OBVIOUS

\* The places of the other runs after a step that moves run r.
LEMMA OthersStay ==
  ASSUME TypeOK, NEW r \in Runs, NEW p, pc' = [pc EXCEPT ![r] = p]
  PROVE  pc'[r] = p /\ \A s \in Runs \ {r} : pc'[s] = pc[s]
  BY DEF TypeOK

-----------------------------------------------------------------------------
(* The steps of the host.                                                  *)

StepOrStutter == Turns!Next \/ UNCHANGED <<messages, OwedResults>>

LEMMA NobodyLives ==
  ASSUME RunRegistry, runningPrompt = NoRun
  PROVE  \A r \in Runs : pc[r] # "tools"
  BY DEF RunRegistry, Live, Looping, Runs

LEMMA HostFollows ==
  ASSUME TypeOK, RunRegistry, HostStep
  PROVE  StepOrStutter
<1>1. ASSUME NEW r \in Runs,
             Prompt(r) \/ ContinueSteering(r) \/ ContinueFollowUp(r) \/ ContinueContext(r)
      PROVE  StepOrStutter
  <2>1. ~isStreaming /\ pc' = [pc EXCEPT ![r] = "opening"] /\ messages' = messages
    BY <1>1 DEF Prompt, ContinueSteering, ContinueFollowUp, ContinueContext, StartRun, CanStart
  <2>2. \A s \in Runs : pc[s] # "tools"
    BY <2>1 DEF RunRegistry, Looping
  <2>3. \A s \in Runs : pc'[s] # "tools"
    BY <2>1, <2>2, OthersStay
  <2> QED
    BY <2>1, <2>2, <2>3, OwedIdle, OwedIdleNext DEF StepOrStutter
<1>2. CASE Steer \/ FollowUp \/ Abort \/ ClearSteeringQueue \/ ClearFollowUpQueue
  <2>1. UNCHANGED <<messages, pc, local>>
    BY <1>2 DEF Steer, FollowUp, Abort, ClearSteeringQueue, ClearFollowUpQueue, agentVars, runVars
  <2>2. OwedResults' = OwedResults
    BY <2>1, SameOwed DEF Waits
  <2> QED
    BY <2>1, <2>2 DEF StepOrStutter
<1>3. CASE Reset \/ AppendMessage \/ DropFailedResponse
  <2>1. runningPrompt = NoRun /\ UNCHANGED <<pc, local>>
    BY <1>3 DEF Reset, AppendMessage, DropFailedResponse, Idle, runVars
  <2>2. OwedResults = {} /\ OwedResults' = {}
    BY <2>1, NobodyLives, OwedIdle, OwedIdleNext
  <2>3. ASSUME Reset PROVE Turns!CutBack
    <3>1. messages' = SubSeq(messages, 1, 0) /\ 0 \in 0..Len(messages)
      BY <2>3 DEF Reset, TypeOK
    <3> QED
      BY <2>2, <3>1 DEF Turns!CutBack
  <2>4. ASSUME DropFailedResponse PROVE Turns!CutBack
    <3>1. /\ messages' = SubSeq(messages, 1, Len(messages) - 1)
          /\ Len(messages) - 1 \in 0..Len(messages)
      BY <2>4 DEF DropFailedResponse, LastIsAssistant, TypeOK
    <3> QED
      BY <2>2, <3>1 DEF Turns!CutBack
  <2>5. ASSUME AppendMessage PROVE Turns!Say
    <3>1. messages' = Append(messages, User(NextId)) /\ User(NextId) \in Messages
      BY <2>5, NextIdType, MessageTypes DEF AppendMessage, CanSubmit
    <3>2. /\ Len(messages) + 1 \in DOMAIN messages'
          /\ messages'[Len(messages) + 1] = User(NextId)
      BY <3>1, LastOfAppend DEF TypeOK
    <3> QED
      BY <2>2, <3>1, <3>2 DEF Turns!Say, User
  <2> QED
    BY <1>3, <2>3, <2>4, <2>5 DEF StepOrStutter, Turns!Next
<1> QED
  BY <1>1, <1>2, <1>3 DEF HostStep

-----------------------------------------------------------------------------
(* The steps of a run outside tool execution.                              *)

LEMMA SpeakFollows ==
  ASSUME TypeOK, RunRegistry, NEW r \in Runs, AnnouncePrompt(r) \/ InjectPending(r)
  PROVE  Turns!Say
<1>1. pc[r] \in {"opening", "turn"} /\ pc' = pc
  BY DEF AnnouncePrompt, InjectPending
<1>2. OwedResults = {} /\ OwedResults' = {}
  BY <1>1, NothingOwed DEF Live, Looping
<1> DEFINE m == Head(local[r].pending)
<1>3. messages' = Append(messages, m)
  BY DEF AnnouncePrompt, InjectPending
<1>4. m \in UserMessages
  BY LocalsType DEF AnnouncePrompt, InjectPending
<1>5. Len(messages) + 1 \in DOMAIN messages' /\ messages'[Len(messages) + 1] = m
  BY <1>3, <1>4, MessageTypes, LastOfAppend DEF TypeOK
<1>6. m.role = "user"
  BY <1>4 DEF UserMessages, User
<1> QED
  BY <1>2, <1>3, <1>5, <1>6 DEF Turns!Say

LEMMA QuietFollows ==
  ASSUME TypeOK, RunRegistry, NEW r \in Runs,
         \/ PollSteering(r) \/ StreamStart(r) \/ FailedTurnEnd(r)
         \/ PollFollowUp(r) \/ AgentEnd(r) \/ Unwind(r)
  PROVE  UNCHANGED <<messages, OwedResults>>
<1>1. PICK p \in {"turn", "followUp", "streaming", "ending", "unwinding", "done"} :
        pc' = [pc EXCEPT ![r] = p]
  BY DEF PollSteering, StreamStart, FailedTurnEnd, PollFollowUp, AgentEnd, Unwind, Finally, Goto
<1>2. pc[r] \in Live /\ pc[r] # "tools" /\ messages' = messages
  BY DEF PollSteering, StreamStart, AtRequest, FailedTurnEnd, PollFollowUp, AgentEnd, Unwind,
         Live, Looping, agentVars
<1>3. pc'[r] # "tools" /\ \A s \in Runs \ {r} : pc'[s] = pc[s]
  BY <1>1, OthersStay
<1> QED
  BY <1>2, <1>3, NothingOwed

\* The calls of a response are what is owed after it.
LEMMA RespondFollows ==
  ASSUME TypeOK, RunRegistry, NEW r \in Runs, StreamEnd(r)
  PROVE  Turns!Respond
<1> PICK stop \in Endings(r), n \in 0..MaxCalls :
      LET message == Assistant(r, local[r].turn + 1, n, stop) IN
      /\ messages' = Append(messages, message)
      /\ SetLocal(r, [local[r] EXCEPT
           !.context = Finished(r, message),
           !.newMessages = Append(@, message),
           !.turn = @ + 1,
           !.toolTurns = IF n > 0 THEN @ + 1 ELSE @,
           !.hasMore = (n > 0),
           !.calls = [i \in 1..MaxCalls |-> IF stop = "ok" /\ i <= n THEN "todo" ELSE "none"],
           !.results = <<>>])
      /\ Goto(r, IF stop = "ok" THEN "tools" ELSE "failedTurn")
  BY DEF StreamEnd
<1> DEFINE m == Assistant(r, local[r].turn + 1, n, stop)
<1>1. pc[r] \in Live /\ pc[r] # "tools"
  BY DEF StreamEnd, AtRequest, Live, Looping
<1>2. pc'[r] = (IF stop = "ok" THEN "tools" ELSE "failedTurn")
      /\ \A s \in Runs \ {r} : pc'[s] = pc[s]
  BY OthersStay DEF Goto
<1>3. /\ local'[r].turn = local[r].turn + 1
      /\ \A i \in 1..MaxCalls :
           local'[r].calls[i] = IF stop = "ok" /\ i <= n THEN "todo" ELSE "none"
  BY LocalsType DEF SetLocal, TypeOK, Locals
<1>4. \A j \in 1..MaxCalls : Waits(r, j)' <=> stop = "ok" /\ j <= n
  BY <1>2, <1>3 DEF Waits
<1>5. OwedResults = {}
  <2>1. \A s \in Runs : pc[s] # "tools"
    BY <1>1, <1>2, OwedByOne
  <2> QED
    BY <2>1, OwedIdle
<1>6. OwedResults' = Turns!Asked(m)
  <2>1. \A x : x \in OwedResults' <=>
          \E j \in 1..MaxCalls : Waits(r, j)' /\ x = ToolResult(r, local'[r].turn, j)
    BY <1>1, <1>2, OwedByOne
  <2>2. \A x : x \in OwedResults' <=>
          \E j \in 1..n : stop = "ok" /\ x = ToolResult(r, local[r].turn + 1, j)
    BY <2>1, <1>3, <1>4, BoundsAssumption
  <2>3. \A x : x \in Turns!Asked(m) <=>
          \E j \in 1..n : stop = "ok" /\ x = ToolResult(r, local[r].turn + 1, j)
    BY DEF Turns!Asked, Assistant, ToolResult
  <2> QED
    BY <2>2, <2>3
<1>7. /\ messages' = Append(messages, m)
      /\ Len(messages) + 1 \in DOMAIN messages'
      /\ messages'[Len(messages) + 1] = m
  <2>1. stop \in StopReasons
    BY ModesAssumption DEF Endings, StopReasons
  <2>2. m \in AssistantMessages
    <3>1. local[r].turn + 1 \in Nat
      BY LocalsType
    <3> QED
      BY <2>1, <3>1, AssistantType
  <2>3. m \in Messages
    BY <2>2, MessageTypes
  <2> QED
    BY <2>3, LastOfAppend DEF TypeOK
<1>8. m.role = "assistant"
  BY DEF Assistant
<1> QED
  BY <1>5, <1>6, <1>7, <1>8 DEF Turns!Respond

-----------------------------------------------------------------------------
(* The steps of a tool call.                                               *)

LEMMA SetCallFacts ==
  ASSUME TypeOK, NEW r \in Runs, NEW i \in 1..MaxCalls, NEW state, SetLocal(r, SetCall(r, i, state))
  PROVE  /\ \A s \in Runs : local'[s].turn = local[s].turn
         /\ \A s \in Runs, j \in 1..MaxCalls :
              local'[s].calls[j] = IF s = r /\ j = i THEN state ELSE local[s].calls[j]
  BY LocalsType DEF SetLocal, SetCall, TypeOK, Locals

LEMMA ProgressFollows ==
  ASSUME TypeOK, RunRegistry, NEW r \in Runs, NEW i \in 1..MaxCalls,
         ToolStart(r, i) \/ ToolPrepared(r, i) \/ ToolSettles(r, i)
  PROVE  UNCHANGED <<messages, OwedResults>>
<1>1. PICK state \in {"started", "running", "ready", "settled"} : SetLocal(r, SetCall(r, i, state))
  BY DEF ToolStart, ToolPrepared, ToolSettles
<1>2. pc' = pc /\ messages' = messages /\ local[r].calls[i] \notin {"none", "ended"}
  BY DEF ToolStart, ToolPrepared, ToolSettles, CallState, agentVars
<1>3. \A s \in Runs, j \in 1..MaxCalls : Waits(s, j)' <=> Waits(s, j)
  BY <1>1, <1>2, SetCallFacts DEF Waits
<1>4. \A s \in Runs : local'[s].turn = local[s].turn
  BY <1>1, SetCallFacts
<1> QED
  BY <1>2, <1>3, <1>4, SameOwed

LEMMA LaunchFollows ==
  ASSUME TypeOK, RunRegistry, NEW r \in Runs, Launch(r)
  PROVE  UNCHANGED <<messages, OwedResults>>
<1>1. pc' = pc /\ messages' = messages
  BY DEF Launch, agentVars
<1>2. /\ \A s \in Runs : local'[s].turn = local[s].turn
      /\ \A s \in Runs, j \in 1..MaxCalls :
           local'[s].calls[j] =
             IF s = r /\ local[r].calls[j] = "ready" THEN "running" ELSE local[s].calls[j]
  BY LocalsType DEF Launch, SetLocal, CallState, TypeOK, Locals
<1>3. \A s \in Runs, j \in 1..MaxCalls : Waits(s, j)' <=> Waits(s, j)
  BY <1>1, <1>2 DEF Waits
<1> QED
  BY <1>1, <1>2, <1>3, SameOwed

\* An outcome answers one of the calls that wait.
LEMMA AnswerFollows ==
  ASSUME TypeOK, RunRegistry, NEW r \in Runs, NEW i \in 1..MaxCalls,
         ToolRefused(r, i) \/ Finalize(r, i)
  PROVE  Turns!Answer
<1> DEFINE result == ToolResult(r, local[r].turn, i)
<1>1. /\ pc[r] = "tools" /\ local[r].calls[i] \notin {"none", "ended"}
      /\ pc' = pc /\ messages' = Append(messages, result)
      /\ SetLocal(r, [SetCall(r, i, "ended") EXCEPT !.results = Append(@, result)])
  BY DEF ToolRefused, Finalize, Awaited, Executing, CallState, EmitOutcome
<1>2. /\ local'[r].turn = local[r].turn
      /\ \A j \in 1..MaxCalls :
           local'[r].calls[j] = IF j = i THEN "ended" ELSE local[r].calls[j]
  BY <1>1, LocalsType DEF SetLocal, SetCall, TypeOK, Locals
<1>3. /\ \A x : x \in OwedResults <=>
           \E j \in 1..MaxCalls : Waits(r, j) /\ x = ToolResult(r, local[r].turn, j)
      /\ \A x : x \in OwedResults' <=>
           \E j \in 1..MaxCalls : Waits(r, j)' /\ x = ToolResult(r, local'[r].turn, j)
  BY <1>1, OwedByOne DEF Live, Looping
<1>4. \A j \in 1..MaxCalls : Waits(r, j)' <=> Waits(r, j) /\ j # i
  BY <1>1, <1>2 DEF Waits
<1>5. \A j \in 1..MaxCalls : ToolResult(r, local[r].turn, j) = result => j = i
  BY DEF ToolResult
<1>6. OwedResults' = OwedResults \ {result}
  BY <1>2, <1>3, <1>4, <1>5
<1>7. result \in OwedResults
  BY <1>1, <1>3 DEF Waits
<1> QED
  BY <1>1, <1>6, <1>7 DEF Turns!Answer

LEMMA TurnEndFollows ==
  ASSUME TypeOK, RunRegistry, NEW r \in Runs, TurnEnd(r)
  PROVE  UNCHANGED <<messages, OwedResults>>
<1>1. /\ pc[r] = "tools" /\ messages' = messages /\ pc' = [pc EXCEPT ![r] = "polling"]
      /\ \A j \in 1..MaxCalls : ~Waits(r, j)
  BY DEF TurnEnd, Executing, CallState, Goto, Waits, agentVars
<1>2. pc'[r] = "polling" /\ \A s \in Runs \ {r} : pc'[s] = pc[s]
  BY <1>1, OthersStay
<1>3. /\ \A x : x \in OwedResults <=>
           \E j \in 1..MaxCalls : Waits(r, j) /\ x = ToolResult(r, local[r].turn, j)
      /\ \A x : x \in OwedResults' <=>
           \E j \in 1..MaxCalls : Waits(r, j)' /\ x = ToolResult(r, local'[r].turn, j)
  BY <1>1, <1>2, OwedByOne DEF Live, Looping
<1>4. OwedResults = {} /\ OwedResults' = {}
  BY <1>1, <1>2, <1>3 DEF Waits
<1> QED
  BY <1>1, <1>4

\* A run that throws writes off what it still owes.
LEMMA FailFollows ==
  ASSUME TypeOK, RunRegistry, NEW r \in Runs, RunThrows(r)
  PROVE  Turns!Fail
<1> DEFINE m == Failure(r, IF abortController \in aborted THEN "aborted" ELSE "error")
<1>1. pc[r] \in Live /\ pc' = [pc EXCEPT ![r] = "done"] /\ messages' = Append(messages, m)
  BY DEF RunThrows, AtRequest, Awaited, Executing, Finally, Goto, Live, Looping
<1>2. pc'[r] = "done" /\ \A s \in Runs \ {r} : pc'[s] = pc[s]
  BY <1>1, OthersStay
<1>3. OwedResults' = {}
  <2>1. \A s \in Runs : pc'[s] # "tools"
    BY <1>1, <1>2, OwedByOne
  <2> QED
    BY <2>1, OwedIdleNext
<1>4. m \in Messages /\ m.role = "assistant" /\ m.stop # "ok"
  <2>1. ASSUME NEW stop \in {"error", "aborted"}
        PROVE  LET n == Failure(r, stop) IN
               n \in Messages /\ n.role = "assistant" /\ n.stop # "ok"
    <3>1. stop \in StopReasons /\ 0 \in 0..MaxCalls
      BY BoundsAssumption DEF StopReasons
    <3>2. Assistant(r, 0, 0, stop) \in AssistantMessages
      BY <3>1, AssistantType
    <3> QED
      BY <3>2, MessageTypes DEF Failure, Assistant
  <2> QED
    BY <2>1
<1>5. Len(messages) + 1 \in DOMAIN messages' /\ messages'[Len(messages) + 1] = m
  BY <1>1, <1>4, LastOfAppend DEF TypeOK
<1> QED
  BY <1>1, <1>3, <1>4, <1>5 DEF Turns!Fail

-----------------------------------------------------------------------------

LEMMA ProtocolInit == Init => Turns!Init
<1> SUFFICES ASSUME Init PROVE Turns!Init
  OBVIOUS
<1>1. \A r \in Runs : pc[r] # "tools"
  BY DEF Init
<1> QED
  BY <1>1, OwedIdle DEF Init, Turns!Init

LEMMA ProtocolStep ==
  ASSUME TypeOK, RunRegistry, [Next]_vars
  PROVE  StepOrStutter
<1>1. CASE HostStep
  BY <1>1, HostFollows
<1>2. ASSUME NEW r \in Runs, LoopStep(r) PROVE StepOrStutter
  <2>1. ASSUME AnnouncePrompt(r) \/ InjectPending(r) PROVE Turns!Say
    BY <2>1, SpeakFollows
  <2>2. ASSUME \/ PollSteering(r) \/ StreamStart(r) \/ FailedTurnEnd(r)
               \/ PollFollowUp(r) \/ AgentEnd(r) \/ Unwind(r)
        PROVE  UNCHANGED <<messages, OwedResults>>
    BY <2>2, QuietFollows
  <2>3. ASSUME NEW i \in 1..MaxCalls, ToolStart(r, i) \/ ToolPrepared(r, i)
        PROVE  UNCHANGED <<messages, OwedResults>>
    BY <2>3, ProgressFollows
  <2>4. ASSUME NEW i \in 1..MaxCalls, ToolRefused(r, i) \/ Finalize(r, i)
        PROVE  Turns!Answer
    BY <2>4, AnswerFollows
  <2>5. ASSUME Launch(r) \/ TurnEnd(r) PROVE UNCHANGED <<messages, OwedResults>>
    BY <2>5, LaunchFollows, TurnEndFollows
  <2>6. ASSUME StreamEnd(r) PROVE Turns!Respond
    BY <2>6, RespondFollows
  <2>7. ASSUME RunThrows(r) PROVE Turns!Fail
    BY <2>7, FailFollows
  <2> QED
    BY <1>2, <2>1, <2>2, <2>3, <2>4, <2>5, <2>6, <2>7 DEF LoopStep, StepOrStutter, Turns!Next
<1>3. ASSUME NEW r \in Runs, ToolStep(r) PROVE StepOrStutter
  BY <1>3, ProgressFollows DEF ToolStep, StepOrStutter
<1>4. CASE UNCHANGED vars
  <2>1. UNCHANGED <<messages, pc, local>>
    BY <1>4 DEF vars
  <2> QED
    BY <2>1, SameOwed DEF StepOrStutter, Waits
<1> QED
  BY <1>1, <1>2, <1>3, <1>4 DEF Next

\* The transcript is a conversation a provider accepts: no prompt, steering or
\* follow-up message and no response ever gets between a tool call and its
\* result, and no call is answered twice, whatever throws or is aborted.
THEOREM AgentFollowsTurnProtocol == ASSUME ~Reentrant PROVE Spec => FollowsTurnProtocol
<1>1. TypeOK /\ RunRegistry /\ [Next]_vars => [Turns!Next]_(Turns!protocol)
  BY ProtocolStep DEF StepOrStutter, Turns!protocol
<1> QED
  BY <1>1, ProtocolInit, AgentTypeOK, RegistryConsistent, PTL
     DEF Spec, FollowsTurnProtocol, Turns!Spec

-----------------------------------------------------------------------------
(* The pending tool calls, element by element.                             *)

\* Call j of run r is announced and has no result yet.
Busy(r, j) ==
  pc[r] = "tools" /\ local[r].calls[j] \in {"started", "ready", "running", "settled"}

LEMMA PendingMembers ==
  PendingToolCallsExact <=>
    \A x : x \in pendingToolCalls <=>
      \E r \in Runs, j \in 1..MaxCalls : Busy(r, j) /\ x = <<r, local[r].turn, j>>
  BY DEF PendingToolCallsExact, Busy, Executing, CallState, CallId

LEMMA PendingMembersNext ==
  PendingToolCallsExact' <=>
    \A x : x \in pendingToolCalls' <=>
      \E r \in Runs, j \in 1..MaxCalls : Busy(r, j)' /\ x = <<r, local'[r].turn, j>>
  BY DEF PendingToolCallsExact, Busy, Executing, CallState, CallId

\* While no run executes tools, nothing is pending.
LEMMA NothingPending ==
  ASSUME PendingToolCallsExact, \A r \in Runs : pc[r] # "tools"
  PROVE  pendingToolCalls = {}
  BY PendingMembers DEF Busy

LEMMA NothingPendingNext ==
  ASSUME pendingToolCalls' = {}, \A r \in Runs, j \in 1..MaxCalls : ~Busy(r, j)'
  PROVE  PendingToolCallsExact'
  BY PendingMembersNext

LEMMA SamePending ==
  ASSUME PendingToolCallsExact, pendingToolCalls' = pendingToolCalls,
         \A r \in Runs : local'[r].turn = local[r].turn,
         \A r \in Runs, j \in 1..MaxCalls : Busy(r, j)' <=> Busy(r, j)
  PROVE  PendingToolCallsExact'
  BY PendingMembers, PendingMembersNext

LEMMA HostPending ==
  ASSUME TypeOK, RunRegistry, PendingToolCallsExact, HostStep
  PROVE  PendingToolCallsExact'
<1>1. ASSUME NEW r \in Runs,
             Prompt(r) \/ ContinueSteering(r) \/ ContinueFollowUp(r) \/ ContinueContext(r)
      PROVE  PendingToolCallsExact'
  <2>1. ~isStreaming /\ pc' = [pc EXCEPT ![r] = "opening"] /\ pendingToolCalls' = pendingToolCalls
    BY <1>1 DEF Prompt, ContinueSteering, ContinueFollowUp, ContinueContext, StartRun, CanStart
  <2>2. \A s \in Runs : pc[s] # "tools"
    BY <2>1 DEF RunRegistry, Looping
  <2>3. \A s \in Runs : pc'[s] # "tools"
    BY <2>1, <2>2, OthersStay
  <2> QED
    BY <2>1, <2>2, <2>3, NothingPending, NothingPendingNext DEF Busy
<1>2. CASE Reset
  <2>1. \A r \in Runs : pc'[r] # "tools"
    BY <1>2, NobodyLives DEF Reset, Idle, runVars
  <2> QED
    BY <1>2, <2>1, NothingPendingNext DEF Reset, Busy
<1>3. CASE \/ Steer \/ FollowUp \/ Abort \/ ClearSteeringQueue \/ ClearFollowUpQueue
           \/ AppendMessage \/ DropFailedResponse
  <2>1. UNCHANGED <<pendingToolCalls, pc, local>>
    BY <1>3 DEF Steer, FollowUp, Abort, ClearSteeringQueue, ClearFollowUpQueue, AppendMessage,
                DropFailedResponse, agentVars, runVars
  <2> QED
    BY <2>1, SamePending DEF Busy
<1> QED
  BY <1>1, <1>2, <1>3 DEF HostStep

\* A step of a live run outside tool execution leaves nothing pending.
LEMMA QuietPending ==
  ASSUME RunRegistry, PendingToolCallsExact, NEW r \in Runs, pc[r] \in Live, pc[r] # "tools",
         \A s \in Runs \ {r} : pc'[s] = pc[s],
         \A j \in 1..MaxCalls : ~Busy(r, j)',
         pendingToolCalls' = pendingToolCalls \/ pendingToolCalls' = {}
  PROVE  PendingToolCallsExact'
<1>1. \A s \in Runs \ {r} : pc[s] # "tools" /\ pc'[s] # "tools"
  BY OwedByOne
<1>2. pendingToolCalls' = {}
  BY <1>1, NothingPending
<1> QED
  BY <1>1, <1>2, NothingPendingNext DEF Busy

LEMMA MovePending ==
  ASSUME TypeOK, RunRegistry, PendingToolCallsExact, NEW r \in Runs,
         \/ AnnouncePrompt(r) \/ InjectPending(r) \/ PollSteering(r) \/ StreamStart(r)
         \/ StreamEnd(r) \/ FailedTurnEnd(r) \/ PollFollowUp(r) \/ AgentEnd(r) \/ Unwind(r)
  PROVE  PendingToolCallsExact'
<1>1. CASE AnnouncePrompt(r) \/ InjectPending(r)
  BY <1>1, QuietPending DEF AnnouncePrompt, InjectPending, Busy, Live, Looping
<1>2. CASE \/ PollSteering(r) \/ StreamStart(r) \/ FailedTurnEnd(r)
           \/ PollFollowUp(r) \/ AgentEnd(r) \/ Unwind(r)
  <2>1. PICK p \in {"turn", "followUp", "streaming", "ending", "unwinding", "done"} :
          pc' = [pc EXCEPT ![r] = p]
    BY <1>2 DEF PollSteering, StreamStart, FailedTurnEnd, PollFollowUp, AgentEnd, Unwind, Finally,
                Goto
  <2>2. /\ pc[r] \in Live /\ pc[r] # "tools"
        /\ pendingToolCalls' = pendingToolCalls \/ pendingToolCalls' = {}
    BY <1>2 DEF PollSteering, StreamStart, AtRequest, FailedTurnEnd, PollFollowUp, AgentEnd, Unwind,
                Finally, Live, Looping, agentVars
  <2>3. pc'[r] # "tools" /\ \A s \in Runs \ {r} : pc'[s] = pc[s]
    BY <2>1, OthersStay
  <2> QED
    BY <2>2, <2>3, QuietPending DEF Busy
<1>3. CASE StreamEnd(r)
  <2>1. PICK stop \in Endings(r), n \in 0..MaxCalls :
          /\ SetLocal(r, [local[r] EXCEPT
               !.context = Finished(r, Assistant(r, local[r].turn + 1, n, stop)),
               !.newMessages = Append(@, Assistant(r, local[r].turn + 1, n, stop)),
               !.turn = @ + 1,
               !.toolTurns = IF n > 0 THEN @ + 1 ELSE @,
               !.hasMore = (n > 0),
               !.calls = [i \in 1..MaxCalls |-> IF stop = "ok" /\ i <= n THEN "todo" ELSE "none"],
               !.results = <<>>])
          /\ Goto(r, IF stop = "ok" THEN "tools" ELSE "failedTurn")
    BY <1>3 DEF StreamEnd
  <2>2. \A i \in 1..MaxCalls : local'[r].calls[i] \in {"todo", "none"}
    BY <2>1, LocalsType DEF SetLocal, TypeOK, Locals
  <2>3. pc[r] \in Live /\ pc[r] # "tools" /\ pendingToolCalls' = pendingToolCalls
    BY <1>3 DEF StreamEnd, AtRequest, Live, Looping
  <2>4. \A s \in Runs \ {r} : pc'[s] = pc[s]
    BY <2>1, OthersStay DEF Goto
  <2> QED
    BY <2>2, <2>3, <2>4, QuietPending DEF Busy
<1> QED
  BY <1>1, <1>2, <1>3

\* A step of a tool call that is neither its announcement nor its result.
LEMMA ProgressPending ==
  ASSUME TypeOK, PendingToolCallsExact, NEW r \in Runs,
         \/ Launch(r)
         \/ \E i \in 1..MaxCalls : ToolPrepared(r, i) \/ ToolSettles(r, i)
  PROVE  PendingToolCallsExact'
<1>1. CASE Launch(r)
  <2>1. pc' = pc /\ pendingToolCalls' = pendingToolCalls
    BY <1>1 DEF Launch, agentVars
  <2>2. /\ \A s \in Runs : local'[s].turn = local[s].turn
        /\ \A s \in Runs, j \in 1..MaxCalls :
             local'[s].calls[j] =
               IF s = r /\ local[r].calls[j] = "ready" THEN "running" ELSE local[s].calls[j]
    BY <1>1, LocalsType DEF Launch, SetLocal, CallState, TypeOK, Locals
  <2>3. \A s \in Runs, j \in 1..MaxCalls : Busy(s, j)' <=> Busy(s, j)
    BY <2>1, <2>2 DEF Busy
  <2> QED
    BY <2>1, <2>2, <2>3, SamePending
<1>2. ASSUME NEW i \in 1..MaxCalls, ToolPrepared(r, i) \/ ToolSettles(r, i)
      PROVE  PendingToolCallsExact'
  <2>1. PICK state \in {"running", "ready", "settled"} : SetLocal(r, SetCall(r, i, state))
    BY <1>2 DEF ToolPrepared, ToolSettles
  <2>2. /\ pc' = pc /\ pendingToolCalls' = pendingToolCalls
        /\ local[r].calls[i] \in {"started", "running"}
    BY <1>2 DEF ToolPrepared, ToolSettles, CallState, agentVars
  <2>3. \A s \in Runs, j \in 1..MaxCalls : Busy(s, j)' <=> Busy(s, j)
    BY <2>1, <2>2, SetCallFacts DEF Busy
  <2>4. \A s \in Runs : local'[s].turn = local[s].turn
    BY <2>1, SetCallFacts
  <2> QED
    BY <2>2, <2>3, <2>4, SamePending
<1> QED
  BY <1>1, <1>2

\* The announcement of a call and its result.
LEMMA CallPending ==
  ASSUME TypeOK, PendingToolCallsExact, NEW r \in Runs, NEW i \in 1..MaxCalls,
         ToolStart(r, i) \/ ToolRefused(r, i) \/ Finalize(r, i)
  PROVE  PendingToolCallsExact'
<1> DEFINE id == <<r, local[r].turn, i>>
<1>1. pc[r] = "tools" /\ pc' = pc
  BY DEF ToolStart, ToolRefused, Finalize, Awaited, Executing, EmitOutcome
<1>2. CASE ToolStart(r, i)
  <2>1. /\ pendingToolCalls' = pendingToolCalls \cup {id}
        /\ SetLocal(r, SetCall(r, i, "started"))
    BY <1>2 DEF ToolStart, CallId
  <2>2. /\ \A s \in Runs : local'[s].turn = local[s].turn
        /\ \A s \in Runs, j \in 1..MaxCalls : Busy(s, j)' <=> Busy(s, j) \/ (s = r /\ j = i)
    BY <1>1, <2>1, SetCallFacts DEF Busy
  <2>3. \A x : x \in pendingToolCalls <=>
          \E s \in Runs, j \in 1..MaxCalls : Busy(s, j) /\ x = <<s, local[s].turn, j>>
    BY PendingMembers
  <2>4. \A x : x \in pendingToolCalls' <=>
          \E s \in Runs, j \in 1..MaxCalls : Busy(s, j)' /\ x = <<s, local'[s].turn, j>>
    BY <2>1, <2>2, <2>3
  <2> QED
    BY <2>4, PendingMembersNext
<1>3. CASE ToolRefused(r, i) \/ Finalize(r, i)
  <2> DEFINE result == ToolResult(r, local[r].turn, i)
  <2>1. /\ pendingToolCalls' = pendingToolCalls \ {id}
        /\ SetLocal(r, [SetCall(r, i, "ended") EXCEPT !.results = Append(@, result)])
    BY <1>3 DEF ToolRefused, Finalize, EmitOutcome, CallId
  <2>2. /\ \A s \in Runs : local'[s].turn = local[s].turn
        /\ \A s \in Runs, j \in 1..MaxCalls :
             local'[s].calls[j] = IF s = r /\ j = i THEN "ended" ELSE local[s].calls[j]
    BY <2>1, LocalsType DEF SetLocal, SetCall, TypeOK, Locals
  <2>3. \A s \in Runs, j \in 1..MaxCalls : Busy(s, j)' <=> Busy(s, j) /\ ~(s = r /\ j = i)
    BY <1>1, <2>2 DEF Busy
  <2>4. \A x : x \in pendingToolCalls <=>
          \E s \in Runs, j \in 1..MaxCalls : Busy(s, j) /\ x = <<s, local[s].turn, j>>
    BY PendingMembers
  <2>5. \A s \in Runs, j \in 1..MaxCalls : <<s, local[s].turn, j>> = id <=> s = r /\ j = i
    OBVIOUS
  <2>6. \A x : x \in pendingToolCalls' <=>
          \E s \in Runs, j \in 1..MaxCalls : Busy(s, j)' /\ x = <<s, local'[s].turn, j>>
    <3> HIDE DEF id
    <3> QED
      BY <2>1, <2>2, <2>3, <2>4, <2>5
  <2> QED
    BY <2>6, PendingMembersNext
<1> QED
  BY <1>2, <1>3

\* The end of a turn has no call left; a run that throws clears what it leaves.
LEMMA LeavingPending ==
  ASSUME TypeOK, RunRegistry, PendingToolCallsExact, NEW r \in Runs, TurnEnd(r) \/ RunThrows(r)
  PROVE  PendingToolCallsExact'
<1>1. PICK p \in {"polling", "done"} : pc' = [pc EXCEPT ![r] = p]
  BY DEF TurnEnd, RunThrows, Finally, Goto
<1>2. pc'[r] # "tools" /\ \A s \in Runs \ {r} : pc'[s] = pc[s]
  BY <1>1, OthersStay
<1>3. pc[r] \in Live
  BY DEF TurnEnd, RunThrows, AtRequest, Awaited, Executing, Live, Looping
<1>4. \A s \in Runs \ {r} : pc[s] # "tools" /\ pc'[s] # "tools"
  BY <1>2, <1>3, OwedByOne
<1>5. pendingToolCalls' = {}
  <2>1. CASE TurnEnd(r)
    <3>1. \A j \in 1..MaxCalls : local[r].calls[j] \in {"none", "ended"}
      BY <2>1 DEF TurnEnd, CallState
    <3>2. \A s \in Runs, j \in 1..MaxCalls : ~Busy(s, j)
      BY <3>1, <1>4 DEF Busy
    <3> QED
      BY <2>1, <3>2, PendingMembers DEF TurnEnd, agentVars
  <2>2. CASE RunThrows(r)
    BY <2>2 DEF RunThrows, Finally
  <2> QED
    BY <2>1, <2>2
<1> QED
  BY <1>2, <1>4, <1>5, NothingPendingNext DEF Busy

LEMMA PendingStep ==
  ASSUME TypeOK, RunRegistry, PendingToolCallsExact, [Next]_vars
  PROVE  PendingToolCallsExact'
<1>1. CASE HostStep
  BY <1>1, HostPending
<1>2. ASSUME NEW r \in Runs, LoopStep(r) PROVE PendingToolCallsExact'
  BY <1>2, MovePending, ProgressPending, CallPending, LeavingPending DEF LoopStep
<1>3. ASSUME NEW r \in Runs, ToolStep(r) PROVE PendingToolCallsExact'
  BY <1>3, ProgressPending DEF ToolStep
<1>4. CASE UNCHANGED vars
  <2>1. UNCHANGED <<pendingToolCalls, pc, local>>
    BY <1>4 DEF vars
  <2> QED
    BY <2>1, SamePending DEF Busy
<1> QED
  BY <1>1, <1>2, <1>3, <1>4 DEF Next

\* The calls shown as pending are the announced, unanswered calls of the live run:
\* whatever is refused, settles late or throws, none is shown for good and none
\* is hidden.
THEOREM PendingToolCallsAreExact == ASSUME ~Reentrant PROVE Spec => []PendingToolCallsExact
<1>1. Init => PendingToolCallsExact
  BY PendingMembers DEF Init, Busy
<1>2. TypeOK /\ RunRegistry /\ PendingToolCallsExact /\ [Next]_vars => PendingToolCallsExact'
  BY PendingStep
<1> QED
  BY <1>1, <1>2, AgentTypeOK, RegistryConsistent, PTL DEF Spec

-----------------------------------------------------------------------------
(***************************************************************************)
(* What becomes of each message.                                           *)
(***************************************************************************)

(* What each step of a run does to its local variables.                    *)

\* A step that changes the variables of run r only.
LEMMA LocalFacts ==
  ASSUME TypeOK, NEW r \in Runs, NEW v, SetLocal(r, v)
  PROVE  local'[r] = v /\ \A s \in Runs \ {r} : local'[s] = local[s]
  BY DEF SetLocal, TypeOK

\* The variables a step of the transcript or of a queue leaves alone.
SameCalls(l, m) ==
  /\ l.turn = m.turn /\ l.mode = m.mode /\ l.base = m.base
  /\ l.calls = m.calls /\ l.results = m.results

\* The steps of a run that touch neither its calls nor its results.
LEMMA AnnounceLocal ==
  ASSUME TypeOK, NEW r \in Runs, AnnouncePrompt(r)
  PROVE  /\ \A s \in Runs \ {r} : local'[s] = local[s]
         /\ SameCalls(local'[r], local[r])
         /\ local'[r].pending = Tail(local[r].pending)
         /\ local'[r].hasMore = local[r].hasMore
         /\ local'[r].newMessages = local[r].newMessages
         /\ local'[r].context = local[r].context
<1> DEFINE p == Tail(local[r].pending)
<1>1. SetLocal(r, [local[r] EXCEPT !.pending = p])
  BY DEF AnnouncePrompt
<1> HIDE DEF p
<1>2. local[r] \in Locals
  BY LocalsType
<1>3. local'[r] = [local[r] EXCEPT !.pending = p] /\ \A s \in Runs \ {r} : local'[s] = local[s]
  BY <1>1, LocalFacts, Zenon
<1>4. /\ SameCalls(local'[r], local[r]) /\ local'[r].pending = p
      /\ local'[r].hasMore = local[r].hasMore
      /\ local'[r].newMessages = local[r].newMessages
      /\ local'[r].context = local[r].context
  BY <1>2, <1>3 DEF Locals, SameCalls
<1> QED
  BY <1>3, <1>4 DEF p

LEMMA InjectLocal ==
  ASSUME TypeOK, NEW r \in Runs, InjectPending(r)
  PROVE  /\ \A s \in Runs \ {r} : local'[s] = local[s]
         /\ SameCalls(local'[r], local[r])
         /\ local'[r].pending = Tail(local[r].pending)
         /\ local'[r].hasMore = local[r].hasMore
         /\ local'[r].newMessages = Append(local[r].newMessages, Head(local[r].pending))
         /\ local'[r].context = Append(local[r].context, Head(local[r].pending))
<1> DEFINE c == Append(local[r].context, Head(local[r].pending))
           n == Append(local[r].newMessages, Head(local[r].pending))
           p == Tail(local[r].pending)
<1>1. SetLocal(r, [local[r] EXCEPT !.context = c, !.newMessages = n, !.pending = p])
  BY DEF InjectPending
<1> HIDE DEF c, n, p
<1>2. local[r] \in Locals
  BY LocalsType
<1>3. /\ local'[r] = [local[r] EXCEPT !.context = c, !.newMessages = n, !.pending = p]
      /\ \A s \in Runs \ {r} : local'[s] = local[s]
  BY <1>1, LocalFacts, Zenon
<1>4. /\ SameCalls(local'[r], local[r]) /\ local'[r].pending = p
      /\ local'[r].hasMore = local[r].hasMore
      /\ local'[r].newMessages = n /\ local'[r].context = c
  BY <1>2, <1>3 DEF Locals, SameCalls
<1> QED
  BY <1>3, <1>4 DEF c, n, p

LEMMA PollSteeringLocal ==
  ASSUME TypeOK, NEW r \in Runs, NEW q,
         SetLocal(r, [local[r] EXCEPT !.pending = q, !.skipPoll = FALSE])
  PROVE  /\ \A s \in Runs \ {r} : local'[s] = local[s]
         /\ SameCalls(local'[r], local[r])
         /\ local'[r].newMessages = local[r].newMessages
         /\ local'[r].hasMore = local[r].hasMore
         /\ local'[r].pending = q
         /\ local'[r].context = local[r].context
<1>1. local[r] \in Locals
  BY LocalsType
<1>2. /\ local'[r] = [local[r] EXCEPT !.pending = q, !.skipPoll = FALSE]
      /\ \A s \in Runs \ {r} : local'[s] = local[s]
  BY LocalFacts, Zenon
<1> QED
  BY <1>1, <1>2 DEF Locals, SameCalls

LEMMA PollFollowUpLocal ==
  ASSUME TypeOK, NEW r \in Runs, NEW q, SetLocal(r, [local[r] EXCEPT !.pending = q])
  PROVE  /\ \A s \in Runs \ {r} : local'[s] = local[s]
         /\ SameCalls(local'[r], local[r])
         /\ local'[r].newMessages = local[r].newMessages
         /\ local'[r].hasMore = local[r].hasMore
         /\ local'[r].pending = q
         /\ local'[r].context = local[r].context
<1>1. local[r] \in Locals
  BY LocalsType
<1>2. /\ local'[r] = [local[r] EXCEPT !.pending = q]
      /\ \A s \in Runs \ {r} : local'[s] = local[s]
  BY LocalFacts, Zenon
<1> QED
  BY <1>1, <1>2 DEF Locals, SameCalls

LEMMA QuietLocal ==
  ASSUME TypeOK, NEW r \in Runs,
         \/ StreamStart(r) \/ FailedTurnEnd(r) \/ AgentEnd(r) \/ Unwind(r) \/ RunThrows(r)
  PROVE  /\ \A s \in Runs \ {r} : local'[s] = local[s]
         /\ SameCalls(local'[r], local[r])
         /\ local'[r].newMessages = local[r].newMessages
         /\ local'[r].hasMore = local[r].hasMore
         /\ local'[r].pending = local[r].pending
         /\ ~StreamStart(r) => local'[r].context = local[r].context
<1>1. CASE StreamStart(r)
  <2>1. PICK c : SetLocal(r, [local[r] EXCEPT !.context = c])
    BY <1>1 DEF StreamStart
  <2>2. local[r] \in Locals
    BY LocalsType
  <2>3. /\ local'[r] = [local[r] EXCEPT !.context = c]
        /\ \A s \in Runs \ {r} : local'[s] = local[s]
    BY <2>1, LocalFacts, Zenon
  <2> QED
    BY <1>1, <2>2, <2>3 DEF Locals, SameCalls
<1>2. CASE FailedTurnEnd(r) \/ AgentEnd(r) \/ Unwind(r) \/ RunThrows(r)
  BY <1>2 DEF FailedTurnEnd, AgentEnd, Unwind, RunThrows, SameCalls
<1> QED
  BY <1>1, <1>2

LEMMA TurnEndLocal ==
  ASSUME TypeOK, NEW r \in Runs, TurnEnd(r)
  PROVE  /\ \A s \in Runs \ {r} : local'[s] = local[s]
         /\ SameCalls(local'[r], local[r])
         /\ local'[r].newMessages = local[r].newMessages \o local[r].results
         /\ local'[r].hasMore = local[r].hasMore
         /\ local'[r].pending = local[r].pending
         /\ local'[r].context = local[r].context \o local[r].results
<1> DEFINE c == local[r].context \o local[r].results
           n == local[r].newMessages \o local[r].results
<1>1. SetLocal(r, [local[r] EXCEPT !.context = c, !.newMessages = n])
  BY DEF TurnEnd
<1> HIDE DEF c, n
<1>2. local[r] \in Locals
  BY LocalsType
<1>3. /\ local'[r] = [local[r] EXCEPT !.context = c, !.newMessages = n]
      /\ \A s \in Runs \ {r} : local'[s] = local[s]
  BY <1>1, LocalFacts, Zenon
<1>4. /\ SameCalls(local'[r], local[r]) /\ local'[r].newMessages = n
      /\ local'[r].hasMore = local[r].hasMore
      /\ local'[r].pending = local[r].pending
      /\ local'[r].context = c
  BY <1>2, <1>3 DEF Locals, SameCalls
<1> QED
  BY <1>3, <1>4 DEF c, n

\* The end of a response.
Responds(r, stop, n) ==
  LET message == Assistant(r, local[r].turn + 1, n, stop) IN
  /\ message \in Messages
  /\ messages' = Append(messages, message)
  /\ pc' = [pc EXCEPT ![r] = IF stop = "ok" THEN "tools" ELSE "failedTurn"]
  /\ \A s \in Runs \ {r} : local'[s] = local[s]
  /\ local'[r].turn = local[r].turn + 1
  /\ local'[r].mode = local[r].mode
  /\ local'[r].base = local[r].base
  /\ local'[r].results = <<>>
  /\ local'[r].pending = local[r].pending
  /\ local'[r].newMessages = Append(local[r].newMessages, message)
  /\ local'[r].context = Finished(r, message)
  /\ local'[r].hasMore = (n > 0)
  /\ \A i \in 1..MaxCalls :
       local'[r].calls[i] = IF stop = "ok" /\ i <= n THEN "todo" ELSE "none"

LEMMA StreamEndLocal ==
  ASSUME TypeOK, NEW r \in Runs, StreamEnd(r)
  PROVE  \E stop \in StopReasons \ {"partial"}, n \in 0..MaxCalls : Responds(r, stop, n)
<1>1. PICK stop \in Endings(r), n \in 0..MaxCalls :
       LET message == Assistant(r, local[r].turn + 1, n, stop) IN
       /\ messages' = Append(messages, message)
       /\ SetLocal(r, [local[r] EXCEPT
            !.context = Finished(r, message),
            !.newMessages = Append(@, message),
            !.turn = @ + 1,
            !.toolTurns = IF n > 0 THEN @ + 1 ELSE @,
            !.hasMore = (n > 0),
            !.calls = [i \in 1..MaxCalls |-> IF stop = "ok" /\ i <= n THEN "todo" ELSE "none"],
            !.results = <<>>])
       /\ Goto(r, IF stop = "ok" THEN "tools" ELSE "failedTurn")
  BY DEF StreamEnd
<1>2. stop \in StopReasons /\ stop # "partial"
  BY ModesAssumption DEF Endings, StopReasons
<1> DEFINE m == Assistant(r, local[r].turn + 1, n, stop)
           f == Finished(r, m)
           w == Append(local[r].newMessages, m)
           t == local[r].turn + 1
           u == IF n > 0 THEN local[r].toolTurns + 1 ELSE local[r].toolTurns
           h == n > 0
           c == [i \in 1..MaxCalls |-> IF stop = "ok" /\ i <= n THEN "todo" ELSE "none"]
<1>3. local[r] \in Locals /\ t \in Nat
  BY LocalsType
<1>4. m \in Messages
  BY <1>2, <1>3, AssistantType, MessageTypes
<1>5. SetLocal(r, [local[r] EXCEPT !.context = f, !.newMessages = w, !.turn = t, !.toolTurns = u,
                                   !.hasMore = h, !.calls = c, !.results = <<>>])
  BY <1>1
<1>6. \A i \in 1..MaxCalls : c[i] = IF stop = "ok" /\ i <= n THEN "todo" ELSE "none"
  OBVIOUS
<1>7. /\ local'[r].turn = t
      /\ local'[r].mode = local[r].mode
      /\ local'[r].base = local[r].base
      /\ local'[r].results = <<>>
      /\ local'[r].pending = local[r].pending
      /\ local'[r].newMessages = w
      /\ local'[r].context = f
      /\ local'[r].hasMore = h
      /\ local'[r].calls = c
      /\ \A s \in Runs \ {r} : local'[s] = local[s]
  <2> HIDE DEF m, f, w, t, u, h, c
  <2>1. /\ local'[r] = [local[r] EXCEPT !.context = f, !.newMessages = w, !.turn = t,
                            !.toolTurns = u, !.hasMore = h, !.calls = c, !.results = <<>>]
        /\ \A s \in Runs \ {r} : local'[s] = local[s]
    BY <1>5, LocalFacts, Zenon
  <2> QED
    BY <1>3, <2>1 DEF Locals
<1>8. Responds(r, stop, n)
  BY <1>1, <1>4, <1>6, <1>7 DEF Responds, Goto
<1> QED
  BY <1>2, <1>8

\* A call moves to another state.
CallMoves(r, i, state) ==
  /\ \A s \in Runs \ {r} : local'[s] = local[s]
  /\ local'[r].turn = local[r].turn
  /\ local'[r].mode = local[r].mode
  /\ local'[r].base = local[r].base
  /\ local'[r].pending = local[r].pending
  /\ local'[r].newMessages = local[r].newMessages
  /\ local'[r].context = local[r].context
  /\ local'[r].hasMore = local[r].hasMore
  /\ \A j \in 1..MaxCalls : local'[r].calls[j] = IF j = i THEN state ELSE local[r].calls[j]

LEMMA CallLocal ==
  ASSUME TypeOK, NEW r \in Runs, NEW i \in 1..MaxCalls, NEW state, SetLocal(r, SetCall(r, i, state))
  PROVE  CallMoves(r, i, state) /\ local'[r].results = local[r].results
<1> DEFINE c == [local[r].calls EXCEPT ![i] = state]
<1>1. local[r] \in Locals /\ local[r].calls \in [1..MaxCalls -> CallStates]
  BY LocalsType
<1>2. SetLocal(r, [local[r] EXCEPT !.calls = c])
  BY DEF SetCall
<1>3. \A j \in 1..MaxCalls : c[j] = IF j = i THEN state ELSE local[r].calls[j]
  BY <1>1
<1> HIDE DEF c
<1>4. local'[r] = [local[r] EXCEPT !.calls = c] /\ \A s \in Runs \ {r} : local'[s] = local[s]
  BY <1>2, LocalFacts, Zenon
<1> QED
  BY <1>1, <1>3, <1>4 DEF CallMoves, Locals

LEMMA OutcomeLocal ==
  ASSUME TypeOK, NEW r \in Runs, NEW i \in 1..MaxCalls, EmitOutcome(r, i)
  PROVE  LET result == ToolResult(r, local[r].turn, i) IN
         /\ CallMoves(r, i, "ended")
         /\ local'[r].results = Append(local[r].results, result)
         /\ messages' = Append(messages, result)
         /\ result \in ToolResults /\ result \in Messages
<1> DEFINE result == ToolResult(r, local[r].turn, i)
           c == [local[r].calls EXCEPT ![i] = "ended"]
           v == [local[r] EXCEPT !.calls = c]
<1>1. local[r] \in Locals /\ local[r].calls \in [1..MaxCalls -> CallStates]
  BY LocalsType
<1>2. SetLocal(r, [v EXCEPT !.results = Append(v.results, result)])
  BY DEF EmitOutcome, SetCall
<1>3. result \in ToolResults /\ result \in Messages
  BY LocalsType, MessageTypes DEF ToolResult, ToolResults
<1>4. messages' = Append(messages, result)
  BY DEF EmitOutcome
<1>5. \A j \in 1..MaxCalls : c[j] = IF j = i THEN "ended" ELSE local[r].calls[j]
  BY <1>1
<1>6. c \in [1..MaxCalls -> CallStates]
  BY <1>1 DEF CallStates
<1> HIDE DEF result, c
<1>7. /\ v \in Locals /\ v.calls = c /\ v.results = local[r].results
      /\ v.turn = local[r].turn /\ v.mode = local[r].mode /\ v.base = local[r].base
      /\ v.pending = local[r].pending /\ v.newMessages = local[r].newMessages
      /\ v.hasMore = local[r].hasMore /\ v.context = local[r].context
  BY <1>1, <1>6 DEF Locals
<1> DEFINE q == Append(v.results, result)
<1>8. q = Append(local[r].results, result)
  BY <1>7
<1> HIDE DEF v, q
<1>9. local'[r] = [v EXCEPT !.results = q] /\ \A s \in Runs \ {r} : local'[s] = local[s]
  BY <1>2, LocalFacts, Zenon DEF q
<1>10. CallMoves(r, i, "ended") /\ local'[r].results = q
  BY <1>5, <1>7, <1>9 DEF CallMoves, Locals
<1> QED
  BY <1>3, <1>4, <1>8, <1>10 DEF result

LEMMA LaunchLocal ==
  ASSUME TypeOK, NEW r \in Runs, Launch(r)
  PROVE  /\ \A s \in Runs \ {r} : local'[s] = local[s]
         /\ local'[r].turn = local[r].turn
         /\ local'[r].mode = local[r].mode
         /\ local'[r].base = local[r].base
         /\ local'[r].results = local[r].results
         /\ local'[r].pending = local[r].pending
         /\ local'[r].newMessages = local[r].newMessages
         /\ local'[r].hasMore = local[r].hasMore
         /\ local'[r].context = local[r].context
         /\ \A j \in 1..MaxCalls :
              local'[r].calls[j] =
                IF local[r].calls[j] = "ready" THEN "running" ELSE local[r].calls[j]
<1> DEFINE c == [i \in 1..MaxCalls |->
                   IF CallState(r, i) = "ready" THEN "running" ELSE CallState(r, i)]
<1>1. local[r] \in Locals
  BY LocalsType
<1>2. SetLocal(r, [local[r] EXCEPT !.calls = c])
  BY DEF Launch
<1>3. \A j \in 1..MaxCalls :
        c[j] = IF local[r].calls[j] = "ready" THEN "running" ELSE local[r].calls[j]
  BY DEF CallState
<1> HIDE DEF c
<1>4. local'[r] = [local[r] EXCEPT !.calls = c] /\ \A s \in Runs \ {r} : local'[s] = local[s]
  BY <1>2, LocalFacts, Zenon
<1> QED
  BY <1>1, <1>3, <1>4 DEF Locals

-----------------------------------------------------------------------------
(* The order of tool results.                                              *)

\* A result in the transcript is one of a turn its run has reached, and the call
\* it answers counts as answered while that turn lasts.
ResultsKnown ==
  \A k \in 1..Len(messages) :
    messages[k].role = "toolResult" =>
      LET r == messages[k].run IN
      /\ pc[r] # "unused"
      /\ messages[k].turn <= local[r].turn
      /\ messages[k].turn = local[r].turn /\ pc[r] = "tools" =>
           local[r].calls[messages[k].call] = "ended"

\* In sequential mode a call that was started has only answered ones before it.
CallsInOrder ==
  \A r \in Runs :
    local[r].mode = "sequential" /\ pc[r] = "tools" =>
      \A i, j \in 1..MaxCalls :
        i < j /\ local[r].calls[j] \notin {"none", "todo"} => local[r].calls[i] = "ended"

ResultsInv == ResultsKnown /\ CallsInOrder /\ SequentialOrder

LEMMA MessageRoles ==
  ASSUME NEW m \in Messages
  PROVE  /\ m.role \in {"user", "assistant", "toolResult"}
         /\ m.role = "toolResult" =>
              m.run \in Runs /\ m.turn \in Nat /\ m.call \in 1..MaxCalls
         /\ m.role = "user" => m \in UserMessages /\ m.id \in Ids /\ m = User(m.id)
  BY DEF Messages, UserMessages, User, AssistantMessages, ToolResults

LEMMA Transcript ==
  ASSUME TypeOK
  PROVE  /\ messages \in Seq(Messages) /\ Len(messages) \in Nat
         /\ DOMAIN messages = 1..Len(messages)
         /\ \A k \in 1..Len(messages) : messages[k] \in Messages
  BY DEF TypeOK

LEMMA TranscriptNext ==
  ASSUME TypeOK'
  PROVE  /\ messages' \in Seq(Messages) /\ Len(messages') \in Nat
         /\ DOMAIN messages' = 1..Len(messages')
         /\ \A k \in 1..Len(messages') : messages'[k] \in Messages
  BY DEF TypeOK

\* A step that adds no result and takes no run back.
NoNewResult ==
  \A k \in 1..Len(messages') :
    messages'[k].role = "toolResult" => k \in 1..Len(messages) /\ messages[k] = messages'[k]
Advances(r) ==
  pc[r] # "unused" =>
    /\ pc'[r] # "unused"
    /\ local'[r].mode = local[r].mode
    /\ \/ local'[r].turn = local[r].turn + 1
       \/ /\ local'[r].turn = local[r].turn
          /\ pc'[r] = "tools" =>
               pc[r] = "tools" /\ \A j \in 1..MaxCalls :
                 local[r].calls[j] = "ended" => local'[r].calls[j] = "ended"

LEMMA ResultsKept ==
  ASSUME TypeOK, TypeOK', ResultsInv, NoNewResult, \A r \in Runs : Advances(r), CallsInOrder'
  PROVE  ResultsInv'
<1>1. ASSUME NEW k \in 1..Len(messages'), messages'[k].role = "toolResult"
      PROVE  /\ k \in 1..Len(messages) /\ messages[k] = messages'[k]
             /\ messages'[k].run \in Runs /\ messages'[k].turn \in Nat
             /\ messages'[k].call \in 1..MaxCalls
             /\ pc[messages[k].run] # "unused"
             /\ messages[k].turn <= local[messages[k].run].turn
  <2>1. k \in 1..Len(messages) /\ messages[k] = messages'[k]
    BY <1>1 DEF NoNewResult
  <2>2. messages'[k] \in Messages
    BY DEF TypeOK
  <2> QED
    BY <1>1, <2>1, <2>2, MessageRoles DEF ResultsInv, ResultsKnown
<1>2. ResultsKnown'
  <2> SUFFICES ASSUME NEW k \in 1..Len(messages'), messages'[k].role = "toolResult"
               PROVE  LET r == messages'[k].run IN
                      /\ pc'[r] # "unused"
                      /\ messages'[k].turn <= local'[r].turn
                      /\ messages'[k].turn = local'[r].turn /\ pc'[r] = "tools" =>
                           local'[r].calls[messages'[k].call] = "ended"
    BY DEF ResultsKnown
  <2> DEFINE r == messages'[k].run
             c == messages'[k].call
             t == messages'[k].turn
  <2>1. r \in Runs /\ c \in 1..MaxCalls /\ t \in Nat /\ Advances(r) /\ local[r].turn \in Nat
    BY <1>1, LocalsType
  <2>2. /\ pc[r] # "unused" /\ t <= local[r].turn
        /\ t = local[r].turn /\ pc[r] = "tools" => local[r].calls[c] = "ended"
    BY <1>1 DEF ResultsInv, ResultsKnown
  <2> HIDE DEF r, c, t
  <2>3. /\ pc'[r] # "unused" /\ t <= local'[r].turn
        /\ t = local'[r].turn /\ pc'[r] = "tools" => local'[r].calls[c] = "ended"
    BY <2>1, <2>2 DEF Advances
  <2> QED
    BY <2>3 DEF r, c, t
<1>3. SequentialOrder'
  <2> SUFFICES ASSUME NEW r \in Runs, local'[r].mode = "sequential",
                      NEW i \in DOMAIN messages', NEW j \in DOMAIN messages', i < j,
                      messages'[i].role = "toolResult", messages'[j].role = "toolResult",
                      messages'[i].run = r, messages'[j].run = r,
                      messages'[i].turn = messages'[j].turn
               PROVE  messages'[i].call < messages'[j].call
    BY DEF SequentialOrder, InOrder
  <2>1. i \in 1..Len(messages') /\ j \in 1..Len(messages')
    BY TranscriptNext
  <2>2. /\ i \in DOMAIN messages /\ messages[i] = messages'[i]
        /\ j \in DOMAIN messages /\ messages[j] = messages'[j]
        /\ pc[r] # "unused"
    BY <1>1, <2>1, Transcript
  <2>3. local[r].mode = "sequential"
    BY <2>2 DEF Advances
  <2> QED
    BY <2>2, <2>3 DEF ResultsInv, SequentialOrder, InOrder
<1> QED
  BY <1>2, <1>3 DEF ResultsInv

\* What a step does to the transcript, tool results aside.
LEMMA SaidNoResult ==
  ASSUME TypeOK, NEW m \in Messages, m.role # "toolResult", messages' = Append(messages, m)
  PROVE  NoNewResult
<1>1. /\ Len(messages') = Len(messages) + 1
      /\ \A k \in 1..Len(messages) : messages'[k] = messages[k]
      /\ messages'[Len(messages) + 1] = m
      /\ Len(messages) \in Nat
  BY DEF TypeOK
<1> QED
  BY <1>1 DEF NoNewResult

LEMMA CutNoResult ==
  ASSUME TypeOK, NEW k \in 0..Len(messages), messages' = SubSeq(messages, 1, k)
  PROVE  NoNewResult
  BY DEF TypeOK, NoNewResult

LEMMA SameNoResult == messages' = messages => NoNewResult
  BY DEF NoNewResult

\* A step that changes no call and puts no run into tool execution.
LEMMA OrderUntouched ==
  ASSUME CallsInOrder,
         \A r \in Runs : pc'[r] = "tools" =>
           /\ pc[r] = "tools"
           /\ local'[r].mode = local[r].mode
           /\ local'[r].calls = local[r].calls
  PROVE  CallsInOrder'
  BY DEF CallsInOrder

LEMMA StillAdvances ==
  ASSUME NEW r \in Runs, pc'[r] = pc[r], local'[r] = local[r]
  PROVE  Advances(r)
  BY DEF Advances

\* What the methods of the host that start no run do to the transcript.
LEMMA HostTranscript ==
  ASSUME TypeOK,
         \/ Steer \/ FollowUp \/ Abort \/ ClearSteeringQueue \/ ClearFollowUpQueue
         \/ Reset \/ AppendMessage \/ DropFailedResponse
  PROVE  /\ UNCHANGED <<pc, local>>
         /\ \/ messages' = messages
            \/ /\ runningPrompt = NoRun
               /\ \/ \E k \in 0..Len(messages) : messages' = SubSeq(messages, 1, k)
                  \/ \E m \in Messages : messages' = Append(messages, m) /\ m.role = "user"
<1>1. UNCHANGED <<pc, local>>
  BY DEF Steer, FollowUp, Abort, ClearSteeringQueue, ClearFollowUpQueue, Reset,
         AppendMessage, DropFailedResponse, runVars
<1>2. CASE Steer \/ FollowUp \/ Abort \/ ClearSteeringQueue \/ ClearFollowUpQueue
  BY <1>1, <1>2 DEF Steer, FollowUp, Abort, ClearSteeringQueue, ClearFollowUpQueue, agentVars
<1>3. CASE Reset
  <2>1. messages' = SubSeq(messages, 1, 0) /\ 0 \in 0..Len(messages)
    BY <1>3 DEF Reset, TypeOK
  <2> QED
    BY <1>1, <1>3, <2>1 DEF Reset, Idle
<1>4. CASE DropFailedResponse
  <2>1. /\ messages' = SubSeq(messages, 1, Len(messages) - 1)
        /\ Len(messages) - 1 \in 0..Len(messages)
    BY <1>4 DEF DropFailedResponse, LastIsAssistant, TypeOK
  <2> QED
    BY <1>1, <1>4, <2>1 DEF DropFailedResponse, Idle
<1>5. CASE AppendMessage
  <2>1. messages' = Append(messages, User(NextId)) /\ User(NextId) \in Messages
    BY <1>5, NextIdType, MessageTypes DEF AppendMessage, CanSubmit
  <2>2. User(NextId).role = "user"
    BY DEF User
  <2> QED
    BY <1>1, <1>5, <2>1, <2>2 DEF AppendMessage, Idle
<1> QED
  BY <1>2, <1>3, <1>4, <1>5

LEMMA HostResults ==
  ASSUME TypeOK, TypeOK', ResultsInv, HostStep
  PROVE  ResultsInv'
<1>1. ASSUME NEW r \in Runs,
             Prompt(r) \/ ContinueSteering(r) \/ ContinueFollowUp(r) \/ ContinueContext(r)
      PROVE  ResultsInv'
  <2>1. /\ pc[r] = "unused" /\ pc' = [pc EXCEPT ![r] = "opening"]
        /\ messages' = messages
        /\ \E v : local' = [local EXCEPT ![r] = v]
    BY <1>1 DEF Prompt, ContinueSteering, ContinueFollowUp, ContinueContext, StartRun, NewRun
  <2>2. \A s \in Runs \ {r} : pc'[s] = pc[s] /\ local'[s] = local[s]
    BY <2>1 DEF TypeOK
  <2>3. pc'[r] = "opening"
    BY <2>1 DEF TypeOK
  <2>4. \A s \in Runs : Advances(s)
    BY <2>1, <2>2, StillAdvances DEF Advances
  <2>5. CallsInOrder'
    BY <2>2, <2>3, OrderUntouched DEF ResultsInv
  <2> QED
    BY <2>1, <2>4, <2>5, SameNoResult, ResultsKept
<1>2. CASE \/ Steer \/ FollowUp \/ Abort \/ ClearSteeringQueue \/ ClearFollowUpQueue
           \/ Reset \/ AppendMessage \/ DropFailedResponse
  <2>1. UNCHANGED <<pc, local>>
    BY <1>2, HostTranscript
  <2>2. NoNewResult
    BY <1>2, HostTranscript, SameNoResult, CutNoResult, SaidNoResult
  <2>3. \A s \in Runs : Advances(s)
    BY <2>1, StillAdvances
  <2>4. CallsInOrder'
    BY <2>1, OrderUntouched DEF ResultsInv
  <2> QED
    BY <2>2, <2>3, <2>4, ResultsKept
<1> QED
  BY <1>1, <1>2 DEF HostStep

\* The steps of a run outside tool execution, and the end of a turn: where they
\* lead, and what they add to the transcript.
LEMMA MovePlaces ==
  ASSUME TypeOK, NEW r \in Runs,
         \/ AnnouncePrompt(r) \/ InjectPending(r) \/ PollSteering(r) \/ StreamStart(r)
         \/ FailedTurnEnd(r) \/ TurnEnd(r) \/ PollFollowUp(r) \/ AgentEnd(r) \/ Unwind(r)
         \/ RunThrows(r)
  PROVE  /\ pc[r] \in Live /\ pc'[r] \notin {"unused", "tools"}
         /\ \A s \in Runs \ {r} : pc'[s] = pc[s] /\ local'[s] = local[s]
         /\ local'[r].turn = local[r].turn /\ local'[r].mode = local[r].mode
<1>1. PICK p \in {"opening", "turn", "followUp", "streaming", "ending", "polling", "unwinding", "done"} :
        pc' = [pc EXCEPT ![r] = p] /\ pc[r] \in Live
  <2>1. CASE AnnouncePrompt(r) \/ InjectPending(r)
    <3>1. pc' = [pc EXCEPT ![r] = pc[r]] /\ pc[r] \in {"opening", "turn"}
      BY <2>1 DEF AnnouncePrompt, InjectPending, TypeOK
    <3> QED
      BY <3>1 DEF Live, Looping
  <2>2. CASE ~(AnnouncePrompt(r) \/ InjectPending(r))
    BY <2>2 DEF PollSteering, StreamStart, FailedTurnEnd, TurnEnd, PollFollowUp, AgentEnd, Unwind,
                RunThrows, Finally, Goto, AtRequest, Awaited, Executing, Live, Looping
  <2> QED
    BY <2>1, <2>2
<1>2. pc'[r] = p /\ p # "tools" /\ p # "unused" /\ \A s \in Runs \ {r} : pc'[s] = pc[s]
  BY <1>1, OthersStay
<1>3. /\ \A s \in Runs \ {r} : local'[s] = local[s]
      /\ local'[r].turn = local[r].turn
      /\ local'[r].mode = local[r].mode
  <2>1. CASE PollSteering(r)
    <3>1. PICK q : SetLocal(r, [local[r] EXCEPT !.pending = q, !.skipPoll = FALSE])
      BY <2>1 DEF PollSteering
    <3> QED
      BY <3>1, PollSteeringLocal DEF SameCalls
  <2>2. CASE PollFollowUp(r)
    <3>1. PICK q : SetLocal(r, [local[r] EXCEPT !.pending = q])
      BY <2>2 DEF PollFollowUp
    <3> QED
      BY <3>1, PollFollowUpLocal DEF SameCalls
  <2>3. CASE ~PollSteering(r) /\ ~PollFollowUp(r)
    BY <2>3, AnnounceLocal, InjectLocal, QuietLocal, TurnEndLocal DEF SameCalls
  <2> QED
    BY <2>1, <2>2, <2>3
<1> QED
  BY <1>1, <1>2, <1>3

LEMMA MoveTranscript ==
  ASSUME TypeOK, NEW r \in Runs,
         \/ AnnouncePrompt(r) \/ InjectPending(r) \/ PollSteering(r) \/ StreamStart(r)
         \/ FailedTurnEnd(r) \/ TurnEnd(r) \/ PollFollowUp(r) \/ AgentEnd(r) \/ Unwind(r)
         \/ RunThrows(r)
  PROVE  \/ messages' = messages
         \/ \E m \in Messages :
              /\ messages' = Append(messages, m)
              /\ m.role = "user" \/ (m.role = "assistant" /\ m.stop \in {"error", "aborted"})
<1>1. CASE AnnouncePrompt(r) \/ InjectPending(r)
  <2> DEFINE m == Head(local[r].pending)
  <2>1. m \in UserMessages /\ messages' = Append(messages, m)
    BY <1>1, LocalsType DEF AnnouncePrompt, InjectPending
  <2>2. m \in Messages /\ m.role = "user"
    BY <2>1 DEF Messages, UserMessages, User
  <2> QED
    BY <2>1, <2>2
<1>2. CASE RunThrows(r)
  <2> DEFINE stop == IF abortController \in aborted THEN "aborted" ELSE "error"
             m == Failure(r, stop)
  <2>1. messages' = Append(messages, m)
    BY <1>2 DEF RunThrows
  <2>2. stop \in {"error", "aborted"}
    OBVIOUS
  <2> HIDE DEF stop
  <2>3. m.role = "assistant" /\ m.stop = stop
    BY DEF Failure, Assistant
  <2>4. m \in Messages
    BY <2>2, BoundsAssumption, MessageTypes DEF Failure, Assistant, AssistantMessages, StopReasons
  <2> QED
    BY <2>1, <2>2, <2>3, <2>4
<1>3. CASE ~(AnnouncePrompt(r) \/ InjectPending(r) \/ RunThrows(r))
  BY <1>3 DEF PollSteering, StreamStart, FailedTurnEnd, TurnEnd, PollFollowUp, AgentEnd, Unwind,
              agentVars
<1> QED
  BY <1>1, <1>2, <1>3

LEMMA MoveResults ==
  ASSUME TypeOK, TypeOK', ResultsInv, NEW r \in Runs,
         \/ AnnouncePrompt(r) \/ InjectPending(r) \/ PollSteering(r) \/ StreamStart(r)
         \/ FailedTurnEnd(r) \/ TurnEnd(r) \/ PollFollowUp(r) \/ AgentEnd(r) \/ Unwind(r)
         \/ RunThrows(r)
  PROVE  ResultsInv'
<1>1. /\ pc[r] # "unused" /\ pc'[r] \notin {"unused", "tools"}
      /\ \A s \in Runs \ {r} : pc'[s] = pc[s] /\ local'[s] = local[s]
      /\ local'[r].turn = local[r].turn /\ local'[r].mode = local[r].mode
  BY MovePlaces DEF Live, Looping
<1>2. \A s \in Runs : Advances(s)
  BY <1>1 DEF Advances
<1>3. CallsInOrder'
  BY <1>1, OrderUntouched DEF ResultsInv
<1>4. NoNewResult
  BY MoveTranscript, SaidNoResult, SameNoResult
<1> QED
  BY <1>2, <1>3, <1>4, ResultsKept

LEMMA StreamEndResults ==
  ASSUME TypeOK, TypeOK', ResultsInv, NEW r \in Runs, StreamEnd(r)
  PROVE  ResultsInv'
<1>1. PICK stop \in StopReasons, n \in 0..MaxCalls : Responds(r, stop, n)
  BY StreamEndLocal
<1> DEFINE m == Assistant(r, local[r].turn + 1, n, stop)
<1>2. pc'[r] \in {"tools", "failedTurn"} /\ \A s \in Runs \ {r} : pc'[s] = pc[s]
  BY <1>1, OthersStay DEF Responds
<1>3. \A s \in Runs : Advances(s)
  BY <1>1, <1>2 DEF Advances, Responds
<1>4. CallsInOrder'
  BY <1>1, <1>2 DEF CallsInOrder, ResultsInv, Responds
<1>5. m.role # "toolResult"
  BY DEF Assistant
<1>6. NoNewResult
  BY <1>1, <1>5, SaidNoResult DEF Responds
<1> QED
  BY <1>3, <1>4, <1>6, ResultsKept

\* A call moves on without a result: only the next one in order is ever started.
LEMMA ProgressResults ==
  ASSUME TypeOK, TypeOK', ResultsInv, NEW r \in Runs,
         \/ Launch(r)
         \/ \E i \in 1..MaxCalls : ToolStart(r, i) \/ ToolPrepared(r, i) \/ ToolSettles(r, i)
  PROVE  ResultsInv'
<1>1. pc' = pc /\ messages' = messages
  BY DEF Launch, ToolStart, ToolPrepared, ToolSettles, agentVars
<1>2. /\ \A s \in Runs \ {r} : local'[s] = local[s]
      /\ local'[r].turn = local[r].turn
      /\ local'[r].mode = local[r].mode
      /\ \A j \in 1..MaxCalls : local[r].calls[j] = "ended" => local'[r].calls[j] = "ended"
      /\ local[r].mode = "sequential" /\ pc[r] = "tools" =>
           \A j \in 1..MaxCalls : local'[r].calls[j] \notin {"none", "todo"} =>
             \/ local[r].calls[j] \notin {"none", "todo"}
             \/ \A i \in 1..(j - 1) : local[r].calls[i] = "ended"
  <2>1. CASE Launch(r)
    BY <2>1, LaunchLocal
  <2>2. ASSUME NEW i \in 1..MaxCalls, ToolStart(r, i) \/ ToolPrepared(r, i) \/ ToolSettles(r, i)
        PROVE  <1>2
    <3>1. PICK state \in {"started", "running", "ready", "settled"} :
            SetLocal(r, SetCall(r, i, state))
      BY <2>2 DEF ToolStart, ToolPrepared, ToolSettles
    <3>2. CallMoves(r, i, state)
      BY <3>1, CallLocal
    <3>3. /\ local[r].calls[i] # "ended"
          /\ \/ local[r].calls[i] \notin {"none", "todo"}
             \/ local[r].mode = "sequential" => \A h \in 1..(i - 1) : local[r].calls[h] = "ended"
      BY <2>2 DEF ToolStart, ToolPrepared, ToolSettles, CallState, BeforeNext
    <3> QED
      BY <3>2, <3>3 DEF CallMoves
  <2> QED
    BY <2>1, <2>2
<1>3. \A s \in Runs : Advances(s)
  BY <1>1, <1>2 DEF Advances
<1>4. CallsInOrder'
  <2> SUFFICES ASSUME NEW s \in Runs, local'[s].mode = "sequential", pc'[s] = "tools",
                      NEW i \in 1..MaxCalls, NEW j \in 1..MaxCalls, i < j,
                      local'[s].calls[j] \notin {"none", "todo"}
               PROVE  local'[s].calls[i] = "ended"
    BY DEF CallsInOrder
  <2>1. CASE s # r
    BY <1>1, <1>2, <2>1 DEF ResultsInv, CallsInOrder
  <2>2. CASE s = r
    <3>1. i \in 1..(j - 1)
      BY BoundsAssumption
    <3>2. local[r].calls[i] = "ended"
      BY <1>1, <1>2, <2>2, <3>1 DEF ResultsInv, CallsInOrder
    <3> QED
      BY <1>2, <2>2, <3>2
  <2> QED
    BY <2>1, <2>2
<1> QED
  BY <1>1, <1>3, <1>4, SameNoResult, ResultsKept

\* A call gets its result: in sequential mode it is the first that has none.
LEMMA OutcomeResults ==
  ASSUME TypeOK, TypeOK', ResultsInv, NEW r \in Runs, NEW i \in 1..MaxCalls,
         ToolRefused(r, i) \/ Finalize(r, i)
  PROVE  ResultsInv'
<1> DEFINE t == local[r].turn
           result == ToolResult(r, t, i)
<1>1. /\ EmitOutcome(r, i) /\ pc[r] = "tools" /\ pc' = pc
      /\ local[r].calls[i] \in {"started", "settled"}
  BY DEF ToolRefused, Finalize, Awaited, Executing, CallState, EmitOutcome
<1>2. CallMoves(r, i, "ended") /\ messages' = Append(messages, result)
  BY <1>1, OutcomeLocal
<1>3. /\ Len(messages) \in Nat /\ Len(messages') = Len(messages) + 1
      /\ \A k \in 1..Len(messages) : messages'[k] = messages[k]
      /\ messages'[Len(messages) + 1] = result
  BY <1>2, Transcript
<1>4. result.role = "toolResult" /\ result.run = r /\ result.turn = t /\ result.call = i
  BY DEF ToolResult
<1>5. t \in Nat
  BY LocalsType
<1> HIDE DEF t, result
<1>6. local'[r].turn = local[r].turn /\ local'[r].mode = local[r].mode
  BY <1>2 DEF CallMoves
<1>7. ASSUME NEW k \in 1..Len(messages), messages[k].role = "toolResult"
      PROVE  messages[k].run \in Runs /\ messages[k].turn \in Nat /\ messages[k].call \in 1..MaxCalls
  BY <1>7, Transcript, MessageRoles
<1>8. ResultsKnown'
  <2> SUFFICES ASSUME NEW k \in 1..Len(messages'), messages'[k].role = "toolResult"
               PROVE  LET s == messages'[k].run IN
                      /\ pc'[s] # "unused"
                      /\ messages'[k].turn <= local'[s].turn
                      /\ messages'[k].turn = local'[s].turn /\ pc'[s] = "tools" =>
                           local'[s].calls[messages'[k].call] = "ended"
    BY DEF ResultsKnown
  <2>1. CASE k \in 1..Len(messages)
    <3> DEFINE s == messages[k].run
               c == messages[k].call
    <3>1. messages'[k] = messages[k]
      BY <1>3, <2>1
    <3>2. s \in Runs /\ c \in 1..MaxCalls
      BY <1>7, <2>1, <3>1
    <3>3. /\ pc[s] # "unused" /\ messages[k].turn <= local[s].turn
          /\ messages[k].turn = local[s].turn /\ pc[s] = "tools" => local[s].calls[c] = "ended"
      BY <2>1, <3>1 DEF ResultsInv, ResultsKnown
    <3> HIDE DEF s, c
    <3>4. /\ pc'[s] # "unused" /\ messages[k].turn <= local'[s].turn
          /\ messages[k].turn = local'[s].turn /\ pc'[s] = "tools" => local'[s].calls[c] = "ended"
      BY <1>1, <1>2, <1>6, <3>2, <3>3 DEF CallMoves
    <3> QED
      BY <3>1, <3>4 DEF s, c
  <2>2. CASE k = Len(messages) + 1
    <3>1. t = local'[r].turn
      BY <1>6 DEF t
    <3> QED
      BY <1>1, <1>2, <1>3, <1>4, <1>5, <2>2, <3>1 DEF CallMoves
  <2> QED
    BY <1>3, <2>1, <2>2
<1>9. CallsInOrder'
  BY <1>1, <1>2, <1>6 DEF ResultsInv, CallsInOrder, CallMoves
<1>10. SequentialOrder'
  <2> SUFFICES ASSUME NEW s \in Runs, local'[s].mode = "sequential",
                      NEW h \in DOMAIN messages', NEW j \in DOMAIN messages', h < j,
                      messages'[h].role = "toolResult", messages'[j].role = "toolResult",
                      messages'[h].run = s, messages'[j].run = s,
                      messages'[h].turn = messages'[j].turn
               PROVE  messages'[h].call < messages'[j].call
    BY DEF SequentialOrder, InOrder
  <2>1. h \in 1..Len(messages) /\ messages'[h] = messages[h] /\ j \in 1..(Len(messages) + 1)
    BY <1>3, TranscriptNext
  <2>2. local[s].mode = "sequential"
    BY <1>2 DEF CallMoves
  <2>3. CASE j \in 1..Len(messages)
    BY <1>3, <2>1, <2>2, <2>3, Transcript DEF ResultsInv, SequentialOrder, InOrder
  <2>4. CASE j = Len(messages) + 1
    <3> DEFINE c == messages[h].call
    <3>1. s = r /\ messages[h].turn = local[r].turn /\ messages[h].run = r
          /\ messages[h].role = "toolResult"
      BY <1>3, <1>4, <2>1, <2>4 DEF t
    <3>2. c \in 1..MaxCalls /\ local[r].calls[c] = "ended"
      BY <1>1, <1>7, <2>1, <3>1 DEF ResultsInv, ResultsKnown
    <3> HIDE DEF c
    <3>3. ~(i < c)
      BY <1>1, <2>2, <3>1, <3>2 DEF ResultsInv, CallsInOrder
    <3>4. c # i
      BY <1>1, <3>2
    <3>5. c < i
      BY <3>2, <3>3, <3>4, BoundsAssumption
    <3> QED
      BY <1>3, <1>4, <2>1, <2>4, <3>5 DEF c
  <2> QED
    BY <2>1, <2>3, <2>4
<1> QED
  BY <1>8, <1>9, <1>10 DEF ResultsInv

LEMMA ResultsStep ==
  ASSUME TypeOK, TypeOK', ResultsInv, [Next]_vars
  PROVE  ResultsInv'
<1>1. CASE HostStep
  BY <1>1, HostResults
<1>2. ASSUME NEW r \in Runs, LoopStep(r) \/ ToolStep(r)
      PROVE  ResultsInv'
  <2>1. CASE \/ AnnouncePrompt(r) \/ InjectPending(r) \/ PollSteering(r) \/ StreamStart(r)
             \/ FailedTurnEnd(r) \/ TurnEnd(r) \/ PollFollowUp(r) \/ AgentEnd(r) \/ Unwind(r)
             \/ RunThrows(r)
    BY <2>1, MoveResults
  <2>2. CASE StreamEnd(r)
    BY <2>2, StreamEndResults
  <2>3. CASE \/ Launch(r)
             \/ \E i \in 1..MaxCalls : ToolStart(r, i) \/ ToolPrepared(r, i) \/ ToolSettles(r, i)
    BY <2>3, ProgressResults
  <2>4. ASSUME NEW i \in 1..MaxCalls, ToolRefused(r, i) \/ Finalize(r, i)
        PROVE  ResultsInv'
    BY <2>4, OutcomeResults
  <2> QED
    BY <1>2, <2>1, <2>2, <2>3, <2>4 DEF LoopStep, ToolStep
<1>3. CASE UNCHANGED vars
  BY <1>3 DEF vars, ResultsInv, ResultsKnown, CallsInOrder, SequentialOrder, InOrder
<1> QED
  BY <1>1, <1>2, <1>3 DEF Next

\* Executed one at a time, the calls of a response are answered in their order:
\* each call starts only once every call before it has its result, and a result
\* is written when its call ends, however many runs, turns and calls there are
\* and whatever is refused, aborted or thrown.
THEOREM SequentialResultsInOrder == Spec => []SequentialOrder
<1>1. Init => ResultsInv
  BY DEF Init, ResultsInv, ResultsKnown, CallsInOrder, SequentialOrder, InOrder
<1>2. TypeOK /\ TypeOK' /\ ResultsInv /\ [Next]_vars => ResultsInv'
  BY ResultsStep
<1>3. ResultsInv => SequentialOrder
  BY DEF ResultsInv
<1> QED
  BY <1>1, <1>2, <1>3, AgentTypeOK, PTL DEF Spec

-----------------------------------------------------------------------------
(* The way of a user message: from a queue to the prompts or pending       *)
(* messages of the live run, and from there to the transcript. The facts   *)
(* below are about the five sequences it passes through: the kinds of the  *)
(* messages submitted so far, the transcript (said), the messages a run    *)
(* has taken and not yet announced (next) and the two queues.              *)

\* A user message m stands ahead of a user message n of its kind.
Earlier(kinds, m, n) ==
  m.role = "user" /\ n.role = "user" /\ kinds[m.id] = kinds[n.id] => m.id < n.id
InLine(kinds, s) == \A i, j \in 1..Len(s) : i < j => Earlier(kinds, s[i], s[j])
Ahead(kinds, s, t) == \A i \in 1..Len(s), j \in 1..Len(t) : Earlier(kinds, s[i], t[j])
Known(kinds, s) == \A i \in 1..Len(s) : s[i].role = "user" => s[i].id \in 1..Len(kinds)
OfKind(kinds, s, k) == \A i \in 1..Len(s) : kinds[s[i].id] = k
Has(s, id) == \E i \in 1..Len(s) : s[i] = User(id)

\* Nobody is overtaken by a message of its kind, and nobody is lost.
Flow(kinds, dropped, said, next, steer, follow) ==
  /\ Known(kinds, said) /\ Known(kinds, next) /\ Known(kinds, steer) /\ Known(kinds, follow)
  /\ OfKind(kinds, steer, "steer") /\ OfKind(kinds, follow, "followUp")
  /\ InLine(kinds, said) /\ InLine(kinds, next) /\ InLine(kinds, steer) /\ InLine(kinds, follow)
  /\ Ahead(kinds, said, next) /\ Ahead(kinds, said, steer) /\ Ahead(kinds, said, follow)
  /\ Ahead(kinds, next, steer) /\ Ahead(kinds, next, follow)
  /\ \A id \in 1..Len(kinds) :
       id \in dropped \/ Has(said, id) \/ Has(next, id) \/ Has(steer, id) \/ Has(follow, id)

Kinds == {"prompt", "steer", "followUp", "append"}
FlowTypes(kinds, said, next, steer, follow) ==
  /\ kinds \in Seq(Kinds) /\ said \in Seq(Messages)
  /\ next \in Seq(UserMessages) /\ steer \in Seq(UserMessages) /\ follow \in Seq(UserMessages)

LEMMA UserFacts ==
  ASSUME NEW m \in UserMessages
  PROVE  m.role = "user" /\ m.id \in Nat /\ m = User(m.id)
  BY BoundsAssumption DEF UserMessages, User, Ids

LEMMA UserElements ==
  ASSUME NEW s \in Seq(UserMessages), NEW i \in 1..Len(s)
  PROVE  s[i].role = "user" /\ s[i].id \in Nat /\ s[i] = User(s[i].id)
<1>1. s[i] \in UserMessages
  OBVIOUS
<1> QED
  BY <1>1, UserFacts

LEMMA AppendFacts ==
  ASSUME NEW S, NEW s \in Seq(S), NEW m \in S
  PROVE  /\ Append(s, m) \in Seq(S) /\ Len(s) \in Nat
         /\ Len(Append(s, m)) = Len(s) + 1
         /\ \A i \in 1..Len(s) : Append(s, m)[i] = s[i]
         /\ Append(s, m)[Len(s) + 1] = m
  OBVIOUS

LEMMA TailFacts ==
  ASSUME NEW S, NEW s \in Seq(S), s # <<>>
  PROVE  /\ Tail(s) \in Seq(S) /\ Len(s) \in Nat /\ Len(s) > 0
         /\ Len(Tail(s)) = Len(s) - 1
         /\ \A i \in 1..(Len(s) - 1) : Tail(s)[i] = s[i + 1]
         /\ Head(s) = s[1] /\ s[1] \in S
  OBVIOUS

\* What dequeue takes and what it leaves make up the queue.
LEMMA DequeueFacts ==
  ASSUME NEW q \in Seq(UserMessages), NEW mode
  PROVE  LET d == Dequeued(q, mode)
             rest == Remaining(q, mode) IN
         /\ d \in Seq(UserMessages) /\ rest \in Seq(UserMessages)
         /\ Len(d) \in Nat /\ Len(rest) \in Nat /\ Len(d) + Len(rest) = Len(q)
         /\ \A i \in 1..Len(d) : d[i] = q[i]
         /\ \A i \in 1..Len(rest) : rest[i] = q[Len(d) + i]
         /\ d = <<>> <=> q = <<>>
<1>1. CASE q = <<>>
  BY <1>1 DEF Dequeued, Remaining
<1>2. CASE q # <<>> /\ mode = "all"
  BY <1>2 DEF Dequeued, Remaining
<1>3. CASE q # <<>> /\ mode # "all"
  <2>1. Dequeued(q, mode) = <<q[1]>> /\ Remaining(q, mode) = Tail(q)
    BY <1>3 DEF Dequeued, Remaining
  <2>2. <<q[1]>> \in Seq(UserMessages) /\ Len(<<q[1]>>) = 1 /\ <<q[1]>>[1] = q[1]
    BY <1>3
  <2> QED
    BY <1>3, <2>1, <2>2, TailFacts
<1> QED
  BY <1>1, <1>2, <1>3

\* A run takes what dequeue gives it.
LEMMA TakesFromQueue ==
  ASSUME NEW kinds, NEW q \in Seq(UserMessages), NEW mode, NEW k,
         Known(kinds, q), OfKind(kinds, q, k), InLine(kinds, q)
  PROVE  LET d == Dequeued(q, mode)
             rest == Remaining(q, mode) IN
         /\ Known(kinds, d) /\ Known(kinds, rest)
         /\ OfKind(kinds, d, k) /\ OfKind(kinds, rest, k)
         /\ InLine(kinds, d) /\ InLine(kinds, rest) /\ Ahead(kinds, d, rest)
         /\ \A s : Ahead(kinds, s, q) => Ahead(kinds, s, d) /\ Ahead(kinds, s, rest)
         /\ \A id : Has(q, id) => Has(d, id) \/ Has(rest, id)
<1> DEFINE d == Dequeued(q, mode)
           rest == Remaining(q, mode)
<1>1. /\ Len(d) \in Nat /\ Len(rest) \in Nat /\ Len(d) + Len(rest) = Len(q)
      /\ \A i \in 1..Len(d) : d[i] = q[i] /\ i \in 1..Len(q)
      /\ \A i \in 1..Len(rest) : rest[i] = q[Len(d) + i] /\ Len(d) + i \in 1..Len(q)
  BY DequeueFacts
<1> HIDE DEF d, rest
<1>2. Known(kinds, d) /\ Known(kinds, rest)
  BY <1>1 DEF Known
<1>3. OfKind(kinds, d, k) /\ OfKind(kinds, rest, k)
  BY <1>1 DEF OfKind
<1>4. InLine(kinds, d)
  BY <1>1 DEF InLine
<1>5. InLine(kinds, rest)
  <2> SUFFICES ASSUME NEW i \in 1..Len(rest), NEW j \in 1..Len(rest), i < j
               PROVE  Earlier(kinds, rest[i], rest[j])
    BY DEF InLine
  <2>1. Len(d) + i < Len(d) + j
    BY <1>1
  <2> QED
    BY <1>1, <2>1 DEF InLine
<1>6. Ahead(kinds, d, rest)
  <2> SUFFICES ASSUME NEW i \in 1..Len(d), NEW j \in 1..Len(rest)
               PROVE  Earlier(kinds, d[i], rest[j])
    BY DEF Ahead
  <2>1. i < Len(d) + j
    BY <1>1
  <2> QED
    BY <1>1, <2>1 DEF InLine
<1>7. \A s : Ahead(kinds, s, q) => Ahead(kinds, s, d) /\ Ahead(kinds, s, rest)
  BY <1>1 DEF Ahead
<1>8. ASSUME NEW id, Has(q, id) PROVE Has(d, id) \/ Has(rest, id)
  <2>1. PICK i \in 1..Len(q) : q[i] = User(id)
    BY <1>8 DEF Has
  <2>2. CASE i \in 1..Len(d)
    BY <1>1, <2>1, <2>2 DEF Has
  <2>3. CASE i \notin 1..Len(d)
    <3>1. i - Len(d) \in 1..Len(rest) /\ Len(d) + (i - Len(d)) = i
      BY <1>1, <2>3
    <3> QED
      BY <1>1, <2>1, <3>1 DEF Has
  <2> QED
    BY <2>2, <2>3
<1> QED
  BY <1>2, <1>3, <1>4, <1>5, <1>6, <1>7, <1>8 DEF d, rest

\* Two queues of different kinds never stand in each other's way.
LEMMA KindsApart ==
  ASSUME NEW kinds, NEW s, NEW t, NEW k, NEW l, k # l, OfKind(kinds, s, k), OfKind(kinds, t, l)
  PROVE  Ahead(kinds, s, t)
  BY DEF Ahead, OfKind, Earlier

LEMMA PollsSteering ==
  ASSUME NEW kinds, NEW dropped, NEW said, NEW steer, NEW follow, NEW mode,
         FlowTypes(kinds, said, <<>>, steer, follow),
         Flow(kinds, dropped, said, <<>>, steer, follow)
  PROVE  Flow(kinds, dropped, said, Dequeued(steer, mode), Remaining(steer, mode), follow)
<1> DEFINE d == Dequeued(steer, mode)
           rest == Remaining(steer, mode)
<1>1. steer \in Seq(UserMessages)
  BY DEF FlowTypes
<1>2. /\ Known(kinds, d) /\ Known(kinds, rest)
      /\ OfKind(kinds, d, "steer") /\ OfKind(kinds, rest, "steer")
      /\ InLine(kinds, d) /\ InLine(kinds, rest) /\ Ahead(kinds, d, rest)
      /\ \A s : Ahead(kinds, s, steer) => Ahead(kinds, s, d) /\ Ahead(kinds, s, rest)
      /\ \A id : Has(steer, id) => Has(d, id) \/ Has(rest, id)
  BY <1>1, TakesFromQueue DEF Flow
<1>3. \A id : ~Has(<<>>, id)
  BY DEF Has
<1> HIDE DEF d, rest
<1>4. Ahead(kinds, d, follow)
  BY <1>2, KindsApart DEF Flow
<1>5. Flow(kinds, dropped, said, d, rest, follow)
  BY <1>2, <1>3, <1>4 DEF Flow
<1> QED
  BY <1>5 DEF d, rest

LEMMA PollsFollowUp ==
  ASSUME NEW kinds, NEW dropped, NEW said, NEW steer, NEW follow, NEW mode,
         FlowTypes(kinds, said, <<>>, steer, follow),
         Flow(kinds, dropped, said, <<>>, steer, follow)
  PROVE  Flow(kinds, dropped, said, Dequeued(follow, mode), steer, Remaining(follow, mode))
<1> DEFINE d == Dequeued(follow, mode)
           rest == Remaining(follow, mode)
<1>1. follow \in Seq(UserMessages)
  BY DEF FlowTypes
<1>2. /\ Known(kinds, d) /\ Known(kinds, rest)
      /\ OfKind(kinds, d, "followUp") /\ OfKind(kinds, rest, "followUp")
      /\ InLine(kinds, d) /\ InLine(kinds, rest) /\ Ahead(kinds, d, rest)
      /\ \A s : Ahead(kinds, s, follow) => Ahead(kinds, s, d) /\ Ahead(kinds, s, rest)
      /\ \A id : Has(follow, id) => Has(d, id) \/ Has(rest, id)
  BY <1>1, TakesFromQueue DEF Flow
<1>3. \A id : ~Has(<<>>, id)
  BY DEF Has
<1> HIDE DEF d, rest
<1>4. Ahead(kinds, d, steer)
  BY <1>2, KindsApart DEF Flow
<1>5. Flow(kinds, dropped, said, d, steer, rest)
  BY <1>2, <1>3, <1>4 DEF Flow
<1> QED
  BY <1>5 DEF d, rest

LEMMA Says ==
  ASSUME NEW kinds, NEW dropped, NEW said, NEW next, NEW steer, NEW follow, NEW m \in Messages,
         m.role # "user",
         FlowTypes(kinds, said, next, steer, follow),
         Flow(kinds, dropped, said, next, steer, follow)
  PROVE  Flow(kinds, dropped, Append(said, m), next, steer, follow)
<1> DEFINE s == Append(said, m)
<1>1. /\ Len(said) \in Nat /\ Len(s) = Len(said) + 1 /\ s[Len(said) + 1] = m
      /\ \A i \in 1..Len(said) : s[i] = said[i]
  BY AppendFacts DEF FlowTypes
<1> HIDE DEF s
<1>2. \A i \in 1..Len(s) : s[i] = m \/ (i \in 1..Len(said) /\ s[i] = said[i])
  BY <1>1
<1>3. Known(kinds, s)
  BY <1>2 DEF Flow, Known
<1>4. InLine(kinds, s)
  <2> SUFFICES ASSUME NEW i \in 1..Len(s), NEW j \in 1..Len(s), i < j
               PROVE  Earlier(kinds, s[i], s[j])
    BY DEF InLine
  <2>1. CASE s[i] = m \/ s[j] = m
    BY <2>1 DEF Earlier
  <2>2. CASE s[i] # m /\ s[j] # m
    BY <1>2, <2>2 DEF Flow, InLine
  <2> QED
    BY <2>1, <2>2
<1>5. ASSUME NEW t, Ahead(kinds, said, t) PROVE Ahead(kinds, s, t)
  <2> SUFFICES ASSUME NEW i \in 1..Len(s), NEW j \in 1..Len(t)
               PROVE  Earlier(kinds, s[i], t[j])
    BY DEF Ahead
  <2>1. CASE s[i] = m
    BY <2>1 DEF Earlier
  <2>2. CASE s[i] # m
    BY <1>2, <1>5, <2>2 DEF Ahead
  <2> QED
    BY <2>1, <2>2
<1>6. \A id : Has(said, id) => Has(s, id)
  BY <1>1 DEF Has
<1>7. Flow(kinds, dropped, s, next, steer, follow)
  BY <1>3, <1>4, <1>5, <1>6 DEF Flow
<1> QED
  BY <1>7 DEF s

\* The first message a run has taken enters the transcript.
LEMMA Announces ==
  ASSUME NEW kinds, NEW dropped, NEW said, NEW next, NEW steer, NEW follow, next # <<>>,
         FlowTypes(kinds, said, next, steer, follow),
         Flow(kinds, dropped, said, next, steer, follow)
  PROVE  Flow(kinds, dropped, Append(said, Head(next)), Tail(next), steer, follow)
<1> DEFINE s == Append(said, Head(next))
           t == Tail(next)
<1>1. /\ Len(next) \in Nat /\ Len(next) > 0 /\ Len(t) = Len(next) - 1
      /\ \A i \in 1..(Len(next) - 1) : t[i] = next[i + 1]
      /\ Head(next) = next[1] /\ next[1] \in UserMessages
  BY TailFacts DEF FlowTypes
<1>2. /\ Len(said) \in Nat /\ Len(s) = Len(said) + 1 /\ s[Len(said) + 1] = next[1]
      /\ \A i \in 1..Len(said) : s[i] = said[i]
  BY <1>1, AppendFacts DEF FlowTypes, Messages
<1> HIDE DEF s, t
<1>3. Known(kinds, s) /\ Known(kinds, t)
  <2>1. Known(kinds, s)
    <3> SUFFICES ASSUME NEW i \in 1..Len(s), s[i].role = "user" PROVE s[i].id \in 1..Len(kinds)
      BY DEF Known
    <3>1. CASE i \in 1..Len(said)
      BY <1>2, <3>1 DEF Flow, Known
    <3>2. CASE i = Len(said) + 1
      BY <1>1, <1>2, <3>2 DEF Flow, Known
    <3> QED
      BY <1>2, <3>1, <3>2
  <2>2. Known(kinds, t)
    BY <1>1 DEF Flow, Known
  <2> QED
    BY <2>1, <2>2
<1>4. InLine(kinds, s)
  <2> SUFFICES ASSUME NEW i \in 1..Len(s), NEW j \in 1..Len(s), i < j
               PROVE  Earlier(kinds, s[i], s[j])
    BY DEF InLine
  <2>1. i \in 1..Len(said) /\ (j \in 1..Len(said) \/ j = Len(said) + 1)
    BY <1>2
  <2> QED
    BY <1>1, <1>2, <2>1 DEF Flow, InLine, Ahead
<1>5. InLine(kinds, t)
  BY <1>1 DEF Flow, InLine
<1>6. Ahead(kinds, s, t)
  <2> SUFFICES ASSUME NEW i \in 1..Len(s), NEW j \in 1..Len(t)
               PROVE  Earlier(kinds, s[i], t[j])
    BY DEF Ahead
  <2>1. t[j] = next[j + 1] /\ j + 1 \in 1..Len(next) /\ 1 < j + 1
    BY <1>1
  <2>2. CASE i \in 1..Len(said)
    BY <1>2, <2>1, <2>2 DEF Flow, Ahead
  <2>3. CASE i = Len(said) + 1
    BY <1>1, <1>2, <2>1, <2>3 DEF Flow, InLine
  <2> QED
    BY <1>2, <2>2, <2>3
<1>7. ASSUME NEW q, Ahead(kinds, said, q), Ahead(kinds, next, q)
      PROVE  Ahead(kinds, s, q) /\ Ahead(kinds, t, q)
  <2>1. Ahead(kinds, t, q)
    BY <1>1, <1>7 DEF Ahead
  <2>2. ASSUME NEW i \in 1..Len(s), NEW j \in 1..Len(q)
        PROVE  Earlier(kinds, s[i], q[j])
    <3>1. CASE i \in 1..Len(said)
      BY <1>2, <1>7, <3>1 DEF Ahead
    <3>2. CASE i = Len(said) + 1
      BY <1>1, <1>2, <1>7, <3>2 DEF Ahead
    <3> QED
      BY <1>2, <3>1, <3>2
  <2> QED
    BY <2>1, <2>2 DEF Ahead
<1>8. ASSUME NEW id, Has(said, id) \/ Has(next, id)
      PROVE  Has(s, id) \/ Has(t, id)
  <2>1. CASE Has(said, id)
    BY <1>2, <2>1 DEF Has
  <2>2. CASE Has(next, id)
    <3>1. PICK i \in 1..Len(next) : next[i] = User(id)
      BY <2>2 DEF Has
    <3>2. CASE i = 1
      BY <1>2, <3>1, <3>2 DEF Has
    <3>3. CASE i # 1
      <4>1. i - 1 \in 1..Len(t) /\ t[i - 1] = next[i]
        BY <1>1, <3>3
      <4> QED
        BY <3>1, <4>1 DEF Has
    <3> QED
      BY <3>2, <3>3
  <2> QED
    BY <1>8, <2>1, <2>2
<1>9. Flow(kinds, dropped, s, t, steer, follow)
  BY <1>3, <1>4, <1>5, <1>6, <1>7, <1>8 DEF Flow
<1> QED
  BY <1>9 DEF s, t

LEMMA FrontFacts ==
  ASSUME NEW S, NEW s \in Seq(S), s # <<>>
  PROVE  /\ Len(s) \in Nat /\ Len(s) > 0
         /\ Len(SubSeq(s, 1, Len(s) - 1)) = Len(s) - 1
         /\ \A i \in 1..(Len(s) - 1) : SubSeq(s, 1, Len(s) - 1)[i] = s[i]
<1>1. Len(s) \in Nat /\ Len(s) > 0
  OBVIOUS
<1>2. PICK n \in Nat : n = Len(s) - 1
  BY <1>1
<1>3. \A i \in 1..n : i \in Nat /\ s[i] \in S
  BY <1>1, <1>2
<1>4. /\ Len(SubSeq(s, 1, n)) = IF 1 <= n THEN n - 1 + 1 ELSE 0
      /\ \A i \in 1..(n - 1 + 1) : SubSeq(s, 1, n)[i] = s[1 + i - 1]
  BY <1>3, SubSeqProperties
<1>5. n - 1 + 1 = n /\ (~(1 <= n) => n = 0)
  OBVIOUS
<1>6. \A i \in 1..n : 1 + i - 1 = i
  OBVIOUS
<1>7. Len(SubSeq(s, 1, n)) = n /\ \A i \in 1..n : SubSeq(s, 1, n)[i] = s[i]
  BY <1>4, <1>5, <1>6
<1> QED
  BY <1>1, <1>2, <1>7

\* The last message, which no host submitted, is taken off the transcript.
LEMMA Cuts ==
  ASSUME NEW kinds, NEW dropped, NEW said, NEW next, NEW steer, NEW follow,
         said # <<>>, said[Len(said)].role # "user",
         FlowTypes(kinds, said, next, steer, follow),
         Flow(kinds, dropped, said, next, steer, follow)
  PROVE  Flow(kinds, dropped, SubSeq(said, 1, Len(said) - 1), next, steer, follow)
<1> DEFINE s == SubSeq(said, 1, Len(said) - 1)
<1>1. /\ Len(said) \in Nat /\ Len(said) > 0 /\ Len(s) = Len(said) - 1
      /\ \A i \in 1..(Len(said) - 1) : s[i] = said[i]
  BY FrontFacts DEF FlowTypes
<1> HIDE DEF s
<1>2. Known(kinds, s) /\ InLine(kinds, s)
  BY <1>1 DEF Flow, Known, InLine
<1>3. \A t : Ahead(kinds, said, t) => Ahead(kinds, s, t)
  BY <1>1 DEF Ahead
<1>4. \A id : User(id).role = "user"
  BY DEF User
<1>5. ASSUME NEW id, Has(said, id) PROVE Has(s, id)
  <2>1. PICK i \in 1..Len(said) : said[i] = User(id)
    BY <1>5 DEF Has
  <2>2. i # Len(said)
    BY <1>4, <2>1
  <2>3. i \in 1..(Len(said) - 1)
    BY <1>1, <2>2
  <2> QED
    BY <1>1, <2>1, <2>3 DEF Has
<1>6. Flow(kinds, dropped, s, next, steer, follow)
  BY <1>2, <1>3, <1>5 DEF Flow
<1> QED
  BY <1>6 DEF s

LEMMA EmptyLine ==
  ASSUME NEW kinds
  PROVE  /\ Known(kinds, <<>>) /\ InLine(kinds, <<>>)
         /\ \A k : OfKind(kinds, <<>>, k)
         /\ \A s : Ahead(kinds, s, <<>>) /\ Ahead(kinds, <<>>, s)
         /\ \A id : ~Has(<<>>, id)
  BY DEF Known, InLine, OfKind, Ahead, Has

LEMMA ClearsSteering ==
  ASSUME NEW kinds, NEW dropped, NEW said, NEW next, NEW steer, NEW follow,
         FlowTypes(kinds, said, next, steer, follow),
         Flow(kinds, dropped, said, next, steer, follow)
  PROVE  Flow(kinds, dropped \cup IdsIn(steer), said, next, <<>>, follow)
<1>1. ASSUME NEW id, Has(steer, id) PROVE id \in IdsIn(steer)
  <2>1. PICK i \in 1..Len(steer) : steer[i] = User(id)
    BY <1>1 DEF Has
  <2>2. i \in DOMAIN steer /\ steer[i] \in UserMessages /\ User(id).id = id
    BY <2>1 DEF FlowTypes, User
  <2> QED
    BY <2>1, <2>2 DEF IdsIn
<1> QED
  BY <1>1, EmptyLine DEF Flow

LEMMA ClearsFollowUp ==
  ASSUME NEW kinds, NEW dropped, NEW said, NEW next, NEW steer, NEW follow,
         FlowTypes(kinds, said, next, steer, follow),
         Flow(kinds, dropped, said, next, steer, follow)
  PROVE  Flow(kinds, dropped \cup IdsIn(follow), said, next, steer, <<>>)
<1>1. ASSUME NEW id, Has(follow, id) PROVE id \in IdsIn(follow)
  <2>1. PICK i \in 1..Len(follow) : follow[i] = User(id)
    BY <1>1 DEF Has
  <2>2. i \in DOMAIN follow /\ follow[i] \in UserMessages /\ User(id).id = id
    BY <2>1 DEF FlowTypes, User
  <2> QED
    BY <2>1, <2>2 DEF IdsIn
<1> QED
  BY <1>1, EmptyLine DEF Flow

LEMMA Wipes ==
  ASSUME NEW kinds
  PROVE  Flow(kinds, 1..Len(kinds), <<>>, <<>>, <<>>, <<>>)
  BY EmptyLine DEF Flow

\* A submission changes nothing between the messages submitted before it.
LEMMA Grows ==
  ASSUME NEW kinds \in Seq(Kinds), NEW k \in Kinds
  PROVE  LET more == Append(kinds, k) IN
         /\ \A s : Known(kinds, s) => Known(more, s)
         /\ \A s : Known(kinds, s) /\ InLine(kinds, s) => InLine(more, s)
         /\ \A s, t : Known(kinds, s) /\ Known(kinds, t) /\ Ahead(kinds, s, t) => Ahead(more, s, t)
         /\ \A l : \A s \in Seq(UserMessages) :
              Known(kinds, s) /\ OfKind(kinds, s, l) => OfKind(more, s, l)
<1> DEFINE more == Append(kinds, k)
<1>1. /\ Len(kinds) \in Nat /\ Len(more) = Len(kinds) + 1
      /\ \A i \in 1..Len(kinds) : more[i] = kinds[i]
  BY AppendFacts
<1> HIDE DEF more
<1>2. ASSUME NEW m, NEW n, m.role = "user" => m.id \in 1..Len(kinds),
             n.role = "user" => n.id \in 1..Len(kinds), Earlier(kinds, m, n)
      PROVE  Earlier(more, m, n)
  BY <1>1, <1>2 DEF Earlier
<1>3. \A s : Known(kinds, s) => Known(more, s)
  BY <1>1 DEF Known
<1>4. ASSUME NEW s, Known(kinds, s), InLine(kinds, s) PROVE InLine(more, s)
  BY <1>2, <1>4 DEF Known, InLine
<1>5. ASSUME NEW s, NEW t, Known(kinds, s), Known(kinds, t), Ahead(kinds, s, t)
      PROVE  Ahead(more, s, t)
  BY <1>2, <1>5 DEF Known, Ahead
<1>6. ASSUME NEW s \in Seq(UserMessages), NEW l, Known(kinds, s), OfKind(kinds, s, l)
      PROVE  OfKind(more, s, l)
  <2>1. \A i \in 1..Len(s) : s[i].id \in 1..Len(kinds)
    BY <1>6, UserElements DEF Known
  <2> QED
    BY <1>1, <1>6, <2>1 DEF OfKind
<1> QED
  BY <1>3, <1>4, <1>5, <1>6 DEF more

\* A new message at the end of a line has everybody else ahead of it.
LEMMA Joins ==
  ASSUME NEW kinds \in Seq(Kinds), NEW k \in Kinds, NEW t \in Seq(Messages),
         User(Len(kinds) + 1) \in Messages, Known(kinds, t), InLine(kinds, t)
  PROVE  LET more == Append(kinds, k)
             n == User(Len(kinds) + 1)
             u == Append(t, n) IN
         /\ Known(more, u) /\ InLine(more, u)
         /\ \A s : Known(kinds, s) /\ Ahead(kinds, s, t) => Ahead(more, s, u)
         /\ OfKind(kinds, t, k) /\ t \in Seq(UserMessages) => OfKind(more, u, k)
         /\ \A id : Has(t, id) => Has(u, id)
         /\ Has(u, Len(kinds) + 1)
<1> DEFINE more == Append(kinds, k)
           n == User(Len(kinds) + 1)
           u == Append(t, n)
<1>1. /\ Len(kinds) \in Nat /\ Len(more) = Len(kinds) + 1
      /\ \A i \in 1..Len(kinds) : more[i] = kinds[i]
      /\ more[Len(kinds) + 1] = k
  BY AppendFacts
<1>2. /\ Len(t) \in Nat /\ Len(u) = Len(t) + 1 /\ u[Len(t) + 1] = n
      /\ \A i \in 1..Len(t) : u[i] = t[i]
  BY AppendFacts
<1>3. n.role = "user" /\ n.id = Len(kinds) + 1 /\ n = User(Len(kinds) + 1)
  BY DEF User
<1> HIDE DEF more, n, u
<1>4. Known(more, t) /\ InLine(more, t)
  BY Grows DEF more
<1>5. \A i \in 1..Len(u) : (i \in 1..Len(t) /\ u[i] = t[i]) \/ (i = Len(t) + 1 /\ u[i] = n)
  BY <1>2
<1>6. Known(more, u)
  BY <1>1, <1>3, <1>4, <1>5 DEF Known
<1>7. ASSUME NEW m, m.role = "user" => m.id \in 1..Len(kinds)
      PROVE  Earlier(more, m, n)
  BY <1>1, <1>3, <1>7 DEF Earlier
<1>8. InLine(more, u)
  <2> SUFFICES ASSUME NEW i \in 1..Len(u), NEW j \in 1..Len(u), i < j
               PROVE  Earlier(more, u[i], u[j])
    BY DEF InLine
  <2>1. i \in 1..Len(t) /\ u[i] = t[i]
    BY <1>2
  <2>2. CASE j \in 1..Len(t) /\ u[j] = t[j]
    BY <1>4, <2>1, <2>2 DEF InLine
  <2>3. CASE u[j] = n
    BY <1>7, <2>1, <2>3 DEF Known
  <2> QED
    BY <1>5, <2>2, <2>3
<1>9. ASSUME NEW s, Known(kinds, s), Ahead(kinds, s, t) PROVE Ahead(more, s, u)
  <2> SUFFICES ASSUME NEW i \in 1..Len(s), NEW j \in 1..Len(u)
               PROVE  Earlier(more, s[i], u[j])
    BY DEF Ahead
  <2>1. Ahead(more, s, t)
    BY <1>9, Grows DEF more
  <2>2. CASE j \in 1..Len(t) /\ u[j] = t[j]
    BY <2>1, <2>2 DEF Ahead
  <2>3. CASE u[j] = n
    BY <1>7, <1>9, <2>3 DEF Known
  <2> QED
    BY <1>5, <2>2, <2>3
<1>10. ASSUME OfKind(kinds, t, k), t \in Seq(UserMessages) PROVE OfKind(more, u, k)
  <2>1. OfKind(more, t, k)
    BY <1>10, Grows DEF more
  <2> QED
    BY <1>1, <1>3, <1>5, <2>1 DEF OfKind
<1>11. (\A id : Has(t, id) => Has(u, id)) /\ Has(u, Len(kinds) + 1)
  <2>1. Len(t) + 1 \in 1..Len(u)
    BY <1>2
  <2> QED
    BY <1>2, <1>3, <2>1 DEF Has
<1> QED
  BY <1>6, <1>8, <1>9, <1>10, <1>11 DEF more, n, u

\* The host submits a message: a prompt or an appended one while no run is
\* live, a steering or follow-up message at any time.
LEMMA Submits ==
  ASSUME NEW kinds, NEW dropped, NEW said, NEW next, NEW steer, NEW follow,
         User(Len(kinds) + 1) \in UserMessages,
         FlowTypes(kinds, said, next, steer, follow),
         Flow(kinds, dropped, said, next, steer, follow)
  PROVE  LET n == User(Len(kinds) + 1) IN
         /\ Flow(Append(kinds, "steer"), dropped, said, next, Append(steer, n), follow)
         /\ Flow(Append(kinds, "followUp"), dropped, said, next, steer, Append(follow, n))
         /\ next = <<>> =>
              /\ Flow(Append(kinds, "prompt"), dropped, said, <<n>>, steer, follow)
              /\ Flow(Append(kinds, "append"), dropped, Append(said, n), next, steer, follow)
<1> DEFINE n == User(Len(kinds) + 1)
<1>1. /\ kinds \in Seq(Kinds) /\ n \in Messages /\ Len(kinds) \in Nat
      /\ said \in Seq(Messages) /\ next \in Seq(Messages)
      /\ steer \in Seq(Messages) /\ follow \in Seq(Messages)
      /\ next \in Seq(UserMessages) /\ steer \in Seq(UserMessages) /\ follow \in Seq(UserMessages)
  BY SubseqTypes, MessageTypes DEF FlowTypes
<1>2. \A k \in Kinds :
        /\ Len(Append(kinds, k)) = Len(kinds) + 1
        /\ \A id \in 1..(Len(kinds) + 1) : id \in 1..Len(kinds) \/ id = Len(kinds) + 1
  BY <1>1, AppendFacts
<1>3. {"steer", "followUp", "prompt", "append"} \subseteq Kinds
  BY DEF Kinds
<1>4. \A k \in Kinds :
        LET more == Append(kinds, k) IN
        /\ Known(more, said) /\ Known(more, next) /\ Known(more, steer) /\ Known(more, follow)
        /\ InLine(more, said) /\ InLine(more, next) /\ InLine(more, steer) /\ InLine(more, follow)
        /\ OfKind(more, steer, "steer") /\ OfKind(more, follow, "followUp")
        /\ Ahead(more, said, next) /\ Ahead(more, said, steer) /\ Ahead(more, said, follow)
        /\ Ahead(more, next, steer) /\ Ahead(more, next, follow)
  BY <1>1, Grows DEF Flow
<1>5. Flow(Append(kinds, "steer"), dropped, said, next, Append(steer, n), follow)
  <2> DEFINE more == Append(kinds, "steer")
             u == Append(steer, n)
  <2>1. /\ Known(more, u) /\ InLine(more, u) /\ OfKind(more, u, "steer")
        /\ Ahead(more, said, u) /\ Ahead(more, next, u)
        /\ \A id : Has(steer, id) => Has(u, id)
        /\ Has(u, Len(kinds) + 1)
    BY <1>1, <1>3, Joins DEF Flow
  <2>2. /\ \A id \in 1..Len(more) : id \in 1..Len(kinds) \/ id = Len(kinds) + 1
        /\ Known(more, said) /\ Known(more, next) /\ Known(more, follow)
        /\ InLine(more, said) /\ InLine(more, next) /\ InLine(more, follow)
        /\ OfKind(more, follow, "followUp")
        /\ Ahead(more, said, next) /\ Ahead(more, said, follow) /\ Ahead(more, next, follow)
    BY <1>2, <1>3, <1>4
  <2> HIDE DEF more, u
  <2>3. Flow(more, dropped, said, next, u, follow)
    BY <2>1, <2>2 DEF Flow
  <2> QED
    BY <2>3 DEF more, u
<1>6. Flow(Append(kinds, "followUp"), dropped, said, next, steer, Append(follow, n))
  <2> DEFINE more == Append(kinds, "followUp")
             u == Append(follow, n)
  <2>1. /\ Known(more, u) /\ InLine(more, u) /\ OfKind(more, u, "followUp")
        /\ Ahead(more, said, u) /\ Ahead(more, next, u)
        /\ \A id : Has(follow, id) => Has(u, id)
        /\ Has(u, Len(kinds) + 1)
    BY <1>1, <1>3, Joins DEF Flow
  <2>2. /\ \A id \in 1..Len(more) : id \in 1..Len(kinds) \/ id = Len(kinds) + 1
        /\ Known(more, said) /\ Known(more, next) /\ Known(more, steer)
        /\ InLine(more, said) /\ InLine(more, next) /\ InLine(more, steer)
        /\ OfKind(more, steer, "steer")
        /\ Ahead(more, said, next) /\ Ahead(more, said, steer) /\ Ahead(more, next, steer)
    BY <1>2, <1>3, <1>4
  <2> HIDE DEF more, u
  <2>3. Flow(more, dropped, said, next, steer, u)
    BY <2>1, <2>2 DEF Flow
  <2> QED
    BY <2>3 DEF more, u
<1>7. ASSUME next = <<>>
      PROVE  Flow(Append(kinds, "append"), dropped, Append(said, n), next, steer, follow)
  <2> DEFINE more == Append(kinds, "append")
             u == Append(said, n)
  <2>1. /\ Known(more, u) /\ InLine(more, u)
        /\ \A id : Has(said, id) => Has(u, id)
        /\ Has(u, Len(kinds) + 1)
        /\ more[Len(kinds) + 1] = "append"
        /\ Len(said) \in Nat /\ Len(u) = Len(said) + 1 /\ u[Len(said) + 1] = n
        /\ \A i \in 1..Len(said) : u[i] = said[i]
    BY <1>1, <1>3, Joins, AppendFacts DEF Flow
  <2>2. /\ \A id \in 1..Len(more) : id \in 1..Len(kinds) \/ id = Len(kinds) + 1
        /\ Known(more, next) /\ Known(more, steer) /\ Known(more, follow)
        /\ InLine(more, next) /\ InLine(more, steer) /\ InLine(more, follow)
        /\ OfKind(more, steer, "steer") /\ OfKind(more, follow, "followUp")
        /\ Ahead(more, said, steer) /\ Ahead(more, said, follow)
        /\ Ahead(more, next, steer) /\ Ahead(more, next, follow)
    BY <1>2, <1>3, <1>4
  <2>3. n.id = Len(kinds) + 1
    BY DEF User
  <2> HIDE DEF more, u, n
  <2>4. ASSUME NEW q, NEW l, l # "append", Ahead(more, said, q), OfKind(more, q, l)
        PROVE  Ahead(more, u, q)
    <3> SUFFICES ASSUME NEW i \in 1..Len(u), NEW j \in 1..Len(q)
                 PROVE  Earlier(more, u[i], q[j])
      BY DEF Ahead
    <3>1. CASE i \in 1..Len(said)
      BY <2>1, <2>4, <3>1 DEF Ahead
    <3>2. CASE i = Len(said) + 1
      BY <2>1, <2>3, <2>4, <3>2 DEF Earlier, OfKind
    <3> QED
      BY <2>1, <3>1, <3>2
  <2>5. Ahead(more, u, steer) /\ Ahead(more, u, follow) /\ Ahead(more, u, next)
    BY <1>7, <2>2, <2>4, EmptyLine
  <2>6. Flow(more, dropped, u, next, steer, follow)
    BY <2>1, <2>2, <2>5 DEF Flow
  <2> QED
    BY <2>6 DEF more, u, n
<1>8. ASSUME next = <<>>
      PROVE  Flow(Append(kinds, "prompt"), dropped, said, <<n>>, steer, follow)
  <2> DEFINE more == Append(kinds, "prompt")
             u == Append(next, n)
  <2>1. u = <<n>>
    BY <1>8
  <2>2. /\ Known(more, u) /\ InLine(more, u) /\ Ahead(more, said, u) /\ OfKind(more, u, "prompt")
        /\ Has(u, Len(kinds) + 1)
    <3>1. OfKind(kinds, next, "prompt")
      BY <1>8, EmptyLine
    <3> QED
      BY <1>1, <1>3, <3>1, Joins DEF Flow
  <2>3. /\ \A id \in 1..Len(more) : id \in 1..Len(kinds) \/ id = Len(kinds) + 1
        /\ Known(more, said) /\ Known(more, steer) /\ Known(more, follow)
        /\ InLine(more, said) /\ InLine(more, steer) /\ InLine(more, follow)
        /\ OfKind(more, steer, "steer") /\ OfKind(more, follow, "followUp")
        /\ Ahead(more, said, steer) /\ Ahead(more, said, follow)
    BY <1>2, <1>3, <1>4
  <2> HIDE DEF more, u
  <2>4. Ahead(more, u, steer) /\ Ahead(more, u, follow)
    BY <2>2, <2>3, KindsApart
  <2>5. \A id : ~Has(next, id)
    BY <1>8, EmptyLine
  <2>6. Flow(more, dropped, said, u, steer, follow)
    BY <2>2, <2>3, <2>4, <2>5 DEF Flow
  <2> QED
    BY <2>1, <2>6 DEF more
<1> QED
  BY <1>5, <1>6, <1>7, <1>8 DEF n

-----------------------------------------------------------------------------
(* No user message is lost, doubled or overtaken.                          *)

\* What the live run has taken and not yet announced.
InFlight == IF runningPrompt = NoRun THEN <<>> ELSE local[runningPrompt].pending

FlowInv ==
  /\ \A r \in Runs : local[r].pending # <<>> => pc[r] \in {"opening", "turn"}
  /\ Flow(submitted, discarded, messages, InFlight, steeringQueue, followUpQueue)

LEMMA InFlightTypes ==
  ASSUME TypeOK
  PROVE  FlowTypes(submitted, messages, InFlight, steeringQueue, followUpQueue)
<1>1. InFlight \in Seq(UserMessages)
  <2>1. CASE runningPrompt = NoRun
    BY <2>1 DEF InFlight
  <2>2. CASE runningPrompt # NoRun
    <3>1. runningPrompt \in Runs
      BY <2>2 DEF TypeOK
    <3> QED
      BY <2>2, <3>1, LocalsType DEF InFlight
  <2> QED
    BY <2>1, <2>2
<1> QED
  BY <1>1 DEF TypeOK, FlowTypes, Kinds

LEMMA OfLiveRun ==
  ASSUME TypeOK, RunRegistry, NEW r \in Runs, pc[r] \in Live
  PROVE  runningPrompt = r /\ r # NoRun /\ InFlight = local[r].pending
<1>1. runningPrompt = r /\ r # NoRun
  BY BoundsAssumption DEF RunRegistry, Runs, NoRun
<1> QED
  BY <1>1 DEF InFlight

\* A run that starts has its prompts in flight.
LEMMA StartInFlight ==
  ASSUME TypeOK, ~Reentrant, FlowInv, NEW r \in Runs, NEW prompts, NEW skip,
         CanStart, StartRun(r, prompts, skip)
  PROVE  /\ InFlight = <<>> /\ InFlight' = prompts
         /\ \A s \in Runs : local'[s].pending # <<>> => pc'[s] \in {"opening", "turn"}
         /\ messages' = messages /\ discarded' = discarded
<1>1. runningPrompt = NoRun /\ runningPrompt' = r /\ r # NoRun
  BY BoundsAssumption DEF CanStart, StartRun, Runs, NoRun
<1>2. PICK mode \in ToolModes :
        local' = [local EXCEPT ![r] = LocalsAt(messages, prompts, mode, skip)]
  BY DEF StartRun
<1>3. LocalsAt(messages, prompts, mode, skip).pending = prompts
  BY DEF LocalsAt
<1> DEFINE v == LocalsAt(messages, prompts, mode, skip)
<1> HIDE DEF v
<1>4. SetLocal(r, v)
  BY <1>2 DEF v, SetLocal
<1>5. local'[r] = v /\ \A s \in Runs \ {r} : local'[s] = local[s]
  BY <1>4, LocalFacts, Zenon
<1>6. pc'[r] = "opening" /\ \A s \in Runs \ {r} : pc'[s] = pc[s]
  BY DEF StartRun, TypeOK
<1>7. local'[r].pending = prompts
  BY <1>3, <1>5 DEF v
<1> QED
  BY <1>1, <1>5, <1>6, <1>7 DEF InFlight, FlowInv, StartRun

LEMMA HostFlow ==
  ASSUME TypeOK, ~Reentrant, FlowInv, HostStep
  PROVE  FlowInv'
<1>1. FlowTypes(submitted, messages, InFlight, steeringQueue, followUpQueue)
  BY InFlightTypes
<1>2. ASSUME NEW r \in Runs, Prompt(r) PROVE FlowInv'
  <2> DEFINE n == User(Len(submitted) + 1)
  <2>1. n \in UserMessages /\ submitted' = Append(submitted, "prompt")
    BY <1>2, NextIdType DEF Prompt, NextId
  <2>2. /\ InFlight = <<>> /\ InFlight' = <<n>>
        /\ \A s \in Runs : local'[s].pending # <<>> => pc'[s] \in {"opening", "turn"}
        /\ messages' = messages /\ discarded' = discarded
    BY <1>2, StartInFlight DEF Prompt, NextId
  <2>3. Flow(Append(submitted, "prompt"), discarded, messages, <<n>>, steeringQueue, followUpQueue)
    BY <1>1, <2>1, <2>2, Submits DEF FlowInv
  <2> QED
    BY <1>2, <2>1, <2>2, <2>3 DEF FlowInv, Prompt, queueVars
<1>3. ASSUME NEW r \in Runs, ContinueSteering(r) PROVE FlowInv'
  <2>1. PICK mode \in QueueModes :
          /\ StartRun(r, Dequeued(steeringQueue, mode), TRUE)
          /\ steeringQueue' = Remaining(steeringQueue, mode)
    BY <1>3 DEF ContinueSteering
  <2>2. /\ InFlight = <<>> /\ InFlight' = Dequeued(steeringQueue, mode)
        /\ \A s \in Runs : local'[s].pending # <<>> => pc'[s] \in {"opening", "turn"}
        /\ messages' = messages /\ discarded' = discarded
    BY <1>3, <2>1, StartInFlight DEF ContinueSteering
  <2>3. Flow(submitted, discarded, messages, Dequeued(steeringQueue, mode),
             Remaining(steeringQueue, mode), followUpQueue)
    BY <1>1, <2>2, PollsSteering DEF FlowInv
  <2> QED
    BY <1>3, <2>1, <2>2, <2>3 DEF FlowInv, ContinueSteering
<1>4. ASSUME NEW r \in Runs, ContinueFollowUp(r) PROVE FlowInv'
  <2>1. PICK mode \in QueueModes :
          /\ StartRun(r, Dequeued(followUpQueue, mode), FALSE)
          /\ followUpQueue' = Remaining(followUpQueue, mode)
    BY <1>4 DEF ContinueFollowUp
  <2>2. /\ InFlight = <<>> /\ InFlight' = Dequeued(followUpQueue, mode)
        /\ \A s \in Runs : local'[s].pending # <<>> => pc'[s] \in {"opening", "turn"}
        /\ messages' = messages /\ discarded' = discarded
    BY <1>4, <2>1, StartInFlight DEF ContinueFollowUp
  <2>3. Flow(submitted, discarded, messages, Dequeued(followUpQueue, mode), steeringQueue,
             Remaining(followUpQueue, mode))
    BY <1>1, <2>2, PollsFollowUp DEF FlowInv
  <2> QED
    BY <1>4, <2>1, <2>2, <2>3 DEF FlowInv, ContinueFollowUp
<1>5. ASSUME NEW r \in Runs, ContinueContext(r) PROVE FlowInv'
  <2>1. /\ InFlight = <<>> /\ InFlight' = <<>>
        /\ \A s \in Runs : local'[s].pending # <<>> => pc'[s] \in {"opening", "turn"}
        /\ messages' = messages /\ discarded' = discarded
    BY <1>5, StartInFlight DEF ContinueContext
  <2> QED
    BY <1>5, <2>1 DEF FlowInv, ContinueContext, queueVars
<1>6. CASE \/ Steer \/ FollowUp \/ Abort \/ ClearSteeringQueue \/ ClearFollowUpQueue
           \/ Reset \/ AppendMessage \/ DropFailedResponse
  <2>1. /\ InFlight' = InFlight
        /\ \A s \in Runs : local'[s].pending # <<>> => pc'[s] \in {"opening", "turn"}
    BY <1>6 DEF Steer, FollowUp, Abort, ClearSteeringQueue, ClearFollowUpQueue, Reset,
                AppendMessage, DropFailedResponse, runVars, InFlight, FlowInv
  <2> DEFINE n == User(Len(submitted) + 1)
  <2>2. CASE Steer
    <3>1. n \in UserMessages
      BY <2>2, NextIdType DEF Steer, NextId
    <3>2. Flow(Append(submitted, "steer"), discarded, messages, InFlight,
               Append(steeringQueue, n), followUpQueue)
      BY <1>1, <3>1, Submits DEF FlowInv
    <3> QED
      BY <2>1, <2>2, <3>2 DEF FlowInv, Steer, NextId, agentVars
  <2>3. CASE FollowUp
    <3>1. n \in UserMessages
      BY <2>3, NextIdType DEF FollowUp, NextId
    <3>2. Flow(Append(submitted, "followUp"), discarded, messages, InFlight,
               steeringQueue, Append(followUpQueue, n))
      BY <1>1, <3>1, Submits DEF FlowInv
    <3> QED
      BY <2>1, <2>3, <3>2 DEF FlowInv, FollowUp, NextId, agentVars
  <2>4. CASE Abort
    BY <2>1, <2>4 DEF FlowInv, Abort, agentVars, queueVars, history
  <2>5. CASE ClearSteeringQueue
    BY <1>1, <2>1, <2>5, ClearsSteering DEF FlowInv, ClearSteeringQueue, agentVars
  <2>6. CASE ClearFollowUpQueue
    BY <1>1, <2>1, <2>6, ClearsFollowUp DEF FlowInv, ClearFollowUpQueue, agentVars
  <2>7. CASE Reset
    <3>1. InFlight' = <<>>
      BY <2>1, <2>7 DEF Reset, Idle, InFlight
    <3>2. Flow(submitted, 1..Len(submitted), <<>>, <<>>, <<>>, <<>>)
      BY Wipes
    <3> QED
      BY <2>1, <2>7, <3>1, <3>2 DEF FlowInv, Reset
  <2>8. CASE AppendMessage
    <3>1. n \in UserMessages
      BY <2>8, NextIdType DEF AppendMessage, NextId
    <3>2. InFlight = <<>>
      BY <2>8 DEF AppendMessage, Idle, InFlight
    <3>3. Flow(Append(submitted, "append"), discarded, Append(messages, n), InFlight,
               steeringQueue, followUpQueue)
      BY <1>1, <3>1, <3>2, Submits DEF FlowInv
    <3> QED
      BY <2>1, <2>8, <3>3 DEF FlowInv, AppendMessage, NextId, queueVars
  <2>9. CASE DropFailedResponse
    <3>1. /\ messages # <<>> /\ messages[Len(messages)].role # "user"
          /\ messages' = SubSeq(messages, 1, Len(messages) - 1)
      BY <2>9 DEF DropFailedResponse, LastIsAssistant, LastMessage
    <3>2. Flow(submitted, discarded, SubSeq(messages, 1, Len(messages) - 1), InFlight,
               steeringQueue, followUpQueue)
      BY <1>1, <3>1, Cuts DEF FlowInv
    <3> QED
      BY <2>1, <2>9, <3>1, <3>2 DEF FlowInv, DropFailedResponse, queueVars, history
  <2> QED
    BY <1>6, <2>2, <2>3, <2>4, <2>5, <2>6, <2>7, <2>8, <2>9
<1> QED
  BY <1>2, <1>3, <1>4, <1>5, <1>6 DEF HostStep

\* A step after which the live run still has its place.
LEMMA StepInFlight ==
  ASSUME TypeOK, RunRegistry, FlowInv, NEW r \in Runs, pc[r] \in Live, UnchangedExceptRun,
         \A s \in Runs \ {r} : local'[s] = local[s] /\ pc'[s] = pc[s],
         local'[r].pending # <<>> => pc'[r] \in {"opening", "turn"},
         Flow(submitted, discarded, messages', local'[r].pending, steeringQueue', followUpQueue')
  PROVE  FlowInv'
<1>1. InFlight' = local'[r].pending
  BY OfLiveRun DEF UnchangedExceptRun, InFlight
<1> QED
  BY <1>1 DEF FlowInv, UnchangedExceptRun, history

LEMMA AnnounceFlow ==
  ASSUME TypeOK, RunRegistry, FlowInv, NEW r \in Runs, AnnouncePrompt(r) \/ InjectPending(r)
  PROVE  FlowInv'
<1>1. /\ pc[r] \in {"opening", "turn"} /\ local[r].pending # <<>> /\ pc' = pc
      /\ messages' = Append(messages, Head(local[r].pending))
      /\ UNCHANGED queueVars /\ UnchangedExceptRun
  BY DEF AnnouncePrompt, InjectPending
<1>2. /\ \A s \in Runs \ {r} : local'[s] = local[s]
      /\ local'[r].pending = Tail(local[r].pending)
  BY AnnounceLocal, InjectLocal
<1>3. pc[r] \in Live
  BY <1>1 DEF Live, Looping
<1>4. Flow(submitted, discarded, Append(messages, Head(local[r].pending)),
           Tail(local[r].pending), steeringQueue, followUpQueue)
  BY <1>1, <1>3, OfLiveRun, InFlightTypes, Announces DEF FlowInv
<1> QED
  BY <1>1, <1>2, <1>3, <1>4, StepInFlight DEF queueVars

LEMMA PollFlow ==
  ASSUME TypeOK, RunRegistry, FlowInv, NEW r \in Runs, PollSteering(r) \/ PollFollowUp(r)
  PROVE  FlowInv'
<1>1. CASE PollSteering(r)
  <2>1. PICK mode \in QueueModes :
          LET polled == IF local[r].skipPoll THEN <<>> ELSE Dequeued(steeringQueue, mode) IN
          /\ steeringQueue' = IF local[r].skipPoll THEN steeringQueue
                                                   ELSE Remaining(steeringQueue, mode)
          /\ SetLocal(r, [local[r] EXCEPT !.pending = polled, !.skipPoll = FALSE])
          /\ Goto(r, IF local[r].hasMore \/ polled # <<>> THEN "turn" ELSE "followUp")
    BY <1>1 DEF PollSteering
  <2> DEFINE q == IF local[r].skipPoll THEN <<>> ELSE Dequeued(steeringQueue, mode)
  <2>2. /\ pc[r] \in {"opening", "polling"} /\ local[r].pending = <<>>
        /\ UNCHANGED <<messages, followUpQueue>> /\ UnchangedExceptRun
    BY <1>1 DEF PollSteering, FlowInv, agentVars
  <2>3. pc[r] \in Live
    BY <2>2 DEF Live, Looping
  <2>4. InFlight = <<>>
    BY <2>2, <2>3, OfLiveRun
  <2>5. Flow(submitted, discarded, messages, q, steeringQueue', followUpQueue)
    BY <2>1, <2>4, InFlightTypes, PollsSteering DEF FlowInv
  <2> HIDE DEF q
  <2>6. /\ \A s \in Runs \ {r} : local'[s] = local[s]
        /\ local'[r].pending = q
    <3>1. SetLocal(r, [local[r] EXCEPT !.pending = q, !.skipPoll = FALSE])
      BY <2>1 DEF q
    <3> QED
      BY <3>1, PollSteeringLocal
  <2>7. \A s \in Runs \ {r} : pc'[s] = pc[s]
    BY <2>1 DEF Goto, TypeOK
  <2>8. q # <<>> => pc'[r] = "turn"
    BY <2>1 DEF Goto, TypeOK, q
  <2> QED
    BY <2>2, <2>3, <2>5, <2>6, <2>7, <2>8, StepInFlight
<1>2. CASE PollFollowUp(r)
  <2>1. PICK mode \in QueueModes :
          /\ followUpQueue' = Remaining(followUpQueue, mode)
          /\ SetLocal(r, [local[r] EXCEPT !.pending = Dequeued(followUpQueue, mode)])
    BY <1>2 DEF PollFollowUp
  <2> DEFINE q == Dequeued(followUpQueue, mode)
  <2>2. /\ pc[r] = "followUp" /\ local[r].pending = <<>>
        /\ UNCHANGED <<messages, steeringQueue>> /\ UnchangedExceptRun
        /\ Goto(r, IF followUpQueue = <<>> THEN "ending" ELSE "turn")
    BY <1>2 DEF PollFollowUp, FlowInv, agentVars
  <2>3. pc[r] \in Live
    BY <2>2 DEF Live, Looping
  <2>4. InFlight = <<>>
    BY <2>2, <2>3, OfLiveRun
  <2>5. Flow(submitted, discarded, messages, q, steeringQueue, followUpQueue')
    BY <2>1, <2>4, InFlightTypes, PollsFollowUp DEF FlowInv
  <2>6. /\ \A s \in Runs \ {r} : local'[s] = local[s]
        /\ local'[r].pending = q
    BY <2>1, PollFollowUpLocal
  <2>7. \A s \in Runs \ {r} : pc'[s] = pc[s]
    BY <2>2 DEF Goto, TypeOK
  <2>8. q # <<>> => followUpQueue # <<>>
    BY DEF Dequeued
  <2>9. q # <<>> => pc'[r] = "turn"
    BY <2>2, <2>8 DEF Goto, TypeOK
  <2> QED
    BY <2>2, <2>3, <2>5, <2>6, <2>7, <2>9, StepInFlight
<1> QED
  BY <1>1, <1>2

\* The steps of a run that say nothing and take nothing.
LEMMA QuietFlow ==
  ASSUME TypeOK, RunRegistry, FlowInv, NEW r \in Runs,
         \/ StreamStart(r) \/ FailedTurnEnd(r) \/ TurnEnd(r) \/ AgentEnd(r) \/ Unwind(r)
         \/ Launch(r)
         \/ \E i \in 1..MaxCalls : ToolStart(r, i) \/ ToolPrepared(r, i) \/ ToolSettles(r, i)
  PROVE  FlowInv'
<1>1. /\ \A s \in Runs \ {r} : local'[s] = local[s]
      /\ local'[r].pending = local[r].pending
  <2>1. ASSUME NEW i \in 1..MaxCalls, ToolStart(r, i) \/ ToolPrepared(r, i) \/ ToolSettles(r, i)
        PROVE  <1>1
    <3>1. PICK state \in {"started", "running", "ready", "settled"} :
            SetLocal(r, SetCall(r, i, state))
      BY <2>1 DEF ToolStart, ToolPrepared, ToolSettles
    <3> QED
      BY <3>1, CallLocal DEF CallMoves
  <2> QED
    BY <2>1, QuietLocal, TurnEndLocal, LaunchLocal
<1>2. /\ UNCHANGED <<messages, steeringQueue, followUpQueue, submitted, discarded>>
      /\ \A s \in Runs \ {r} : pc'[s] = pc[s]
      /\ pc'[r] = pc[r] \/ local[r].pending = <<>>
  BY OthersStay DEF StreamStart, FailedTurnEnd, TurnEnd, AgentEnd, Unwind, Launch, ToolStart,
     ToolPrepared, ToolSettles, UnchangedExceptRun, Finally, agentVars, queueVars, history,
     AtRequest, Executing, FlowInv, Goto
<1>3. InFlight' = InFlight
  <2>1. CASE Unwind(r)
    <3>1. pc[r] \in Live /\ local[r].pending = <<>>
      BY <2>1 DEF Unwind, Live, FlowInv
    <3> QED
      BY <2>1, <3>1, OfLiveRun DEF Unwind, Finally, InFlight
  <2>2. CASE ~Unwind(r)
    <3>1. runningPrompt' = runningPrompt /\ runningPrompt \in Runs \cup {NoRun}
      BY <2>2 DEF StreamStart, FailedTurnEnd, TurnEnd, AgentEnd, Launch, ToolStart,
                  ToolPrepared, ToolSettles, UnchangedExceptRun, TypeOK
    <3> QED
      BY <1>1, <3>1 DEF InFlight
  <2> QED
    BY <2>1, <2>2
<1> QED
  BY <1>1, <1>2, <1>3 DEF FlowInv

\* The steps of a run that write a response, a result or a failure.
LEMMA SayFlow ==
  ASSUME TypeOK, RunRegistry, FlowInv, NEW r \in Runs,
         \/ StreamEnd(r) \/ RunThrows(r)
         \/ \E i \in 1..MaxCalls : ToolRefused(r, i) \/ Finalize(r, i)
  PROVE  FlowInv'
<1>1. pc[r] \in Live /\ local[r].pending = <<>>
  BY DEF StreamEnd, RunThrows, ToolRefused, Finalize, Awaited, AtRequest, Executing, FlowInv, Live,
         Looping
<1>2. InFlight = local[r].pending
  BY <1>1, OfLiveRun
<1>3. \A m \in Messages : m.role # "user" =>
        Flow(submitted, discarded, Append(messages, m), local[r].pending, steeringQueue, followUpQueue)
  BY <1>2, InFlightTypes, Says DEF FlowInv
<1>4. CASE StreamEnd(r)
  <2>1. PICK stop \in StopReasons, n \in 0..MaxCalls : Responds(r, stop, n)
    BY <1>4, StreamEndLocal
  <2>2. Assistant(r, local[r].turn + 1, n, stop).role # "user"
    BY DEF Assistant
  <2>3. UnchangedExceptRun /\ UNCHANGED queueVars
    BY <1>4 DEF StreamEnd
  <2>4. \A s \in Runs \ {r} : local'[s] = local[s] /\ pc'[s] = pc[s]
    BY <2>1, OthersStay DEF Responds
  <2>5. local'[r].pending = <<>>
    BY <1>1, <2>1 DEF Responds
  <2>6. Flow(submitted, discarded, messages', local'[r].pending, steeringQueue', followUpQueue')
    BY <1>3, <2>1, <2>2, <2>3 DEF Responds, queueVars
  <2> QED
    BY <1>1, <2>3, <2>4, <2>5, <2>6, StepInFlight
<1>5. ASSUME NEW i \in 1..MaxCalls, ToolRefused(r, i) \/ Finalize(r, i)
      PROVE  FlowInv'
  <2>1. EmitOutcome(r, i)
    BY <1>5 DEF ToolRefused, Finalize
  <2> DEFINE m == ToolResult(r, local[r].turn, i)
  <2>2. CallMoves(r, i, "ended") /\ messages' = Append(messages, m) /\ m \in Messages
    BY <2>1, OutcomeLocal
  <2>3. m.role # "user"
    BY DEF ToolResult
  <2>4. UnchangedExceptRun /\ UNCHANGED queueVars /\ pc' = pc
    BY <2>1 DEF EmitOutcome
  <2>5. local'[r].pending = <<>> /\ \A s \in Runs \ {r} : local'[s] = local[s]
    BY <1>1, <2>2 DEF CallMoves
  <2>6. Flow(submitted, discarded, messages', local'[r].pending, steeringQueue', followUpQueue')
    BY <1>1, <1>3, <2>2, <2>3, <2>4, <2>5 DEF queueVars
  <2> QED
    BY <1>1, <2>4, <2>5, <2>6, StepInFlight
<1>6. CASE RunThrows(r)
  <2> DEFINE m == Failure(r, IF abortController \in aborted THEN "aborted" ELSE "error")
  <2>1. messages' = Append(messages, m)
    BY <1>6 DEF RunThrows
  <2>2. m.role # "user"
    BY DEF Failure, Assistant
  <2>3. m \in Messages
    BY BoundsAssumption, MessageTypes
       DEF Failure, Assistant, AssistantMessages, StopReasons
  <2>4. Flow(submitted, discarded, messages', <<>>, steeringQueue, followUpQueue)
    BY <1>1, <1>3, <2>1, <2>2, <2>3
  <2>5. InFlight' = <<>> /\ local' = local /\ \A s \in Runs \ {r} : pc'[s] = pc[s]
    BY <1>6, OthersStay DEF RunThrows, Finally, InFlight, Goto
  <2> QED
    BY <1>1, <1>6, <2>4, <2>5 DEF FlowInv, RunThrows, queueVars
<1> QED
  BY <1>4, <1>5, <1>6

LEMMA FlowStep ==
  ASSUME TypeOK, RunRegistry, ~Reentrant, FlowInv, [Next]_vars
  PROVE  FlowInv'
<1>1. CASE HostStep
  BY <1>1, HostFlow
<1>2. ASSUME NEW r \in Runs, LoopStep(r) \/ ToolStep(r)
      PROVE  FlowInv'
  BY <1>2, AnnounceFlow, PollFlow, QuietFlow, SayFlow DEF LoopStep, ToolStep
<1>3. CASE UNCHANGED vars
  BY <1>3 DEF vars, FlowInv, InFlight
<1> QED
  BY <1>1, <1>2, <1>3 DEF Next

LEMMA FlowInit == Init => FlowInv
<1> SUFFICES ASSUME Init PROVE FlowInv
  OBVIOUS
<1>1. \A r \in Runs : local[r].pending = <<>>
  BY DEF Init, NoLocals, LocalsAt
<1>2. InFlight = <<>> /\ messages = <<>> /\ steeringQueue = <<>> /\ followUpQueue = <<>>
      /\ submitted = <<>>
  BY DEF Init, InFlight
<1>3. Flow(<<>>, discarded, <<>>, <<>>, <<>>, <<>>)
  <2>1. 1..Len(<<>>) = {}
    OBVIOUS
  <2> QED
    BY <2>1, EmptyLine DEF Flow
<1> QED
  BY <1>1, <1>2, <1>3 DEF FlowInv

LEMMA FlowAlways == ASSUME ~Reentrant PROVE Spec => [](TypeOK /\ RunRegistry /\ FlowInv)
<1>1. Init => FlowInv
  BY FlowInit
<1>2. TypeOK /\ RunRegistry /\ FlowInv /\ [Next]_vars => FlowInv'
  BY FlowStep
<1> QED
  BY <1>1, <1>2, AgentTypeOK, RegistryConsistent, PTL DEF Spec

\* Messages of one kind enter the transcript in the order in which the host
\* submitted them: a queue is taken from its front, what was taken is announced
\* before anything is taken again, and one run at most has taken something.
THEOREM NobodyOvertakes == ASSUME ~Reentrant PROVE Spec => []QueueOrder
<1>1. TypeOK /\ FlowInv => QueueOrder
  BY Transcript DEF FlowInv, Flow, InLine, Earlier, QueueOrder
<1> QED
  BY <1>1, FlowAlways, PTL

\* The places of a message, the pending messages being those of the live run.
LEMMA PlacesOf ==
  ASSUME TypeOK, RunRegistry, FlowInv, NEW m, NEW p
  PROVE  p \in Holds(m) <=>
           \/ \E i \in 1..Len(messages) : messages[i] = m /\ p = <<"transcript", i>>
           \/ \E i \in 1..Len(steeringQueue) : steeringQueue[i] = m /\ p = <<"steering", i>>
           \/ \E i \in 1..Len(followUpQueue) : followUpQueue[i] = m /\ p = <<"followUp", i>>
           \/ \E i \in 1..Len(InFlight) : InFlight[i] = m /\ p = <<"run", runningPrompt, i>>
<1>1. /\ DOMAIN messages = 1..Len(messages)
      /\ DOMAIN steeringQueue = 1..Len(steeringQueue)
      /\ DOMAIN followUpQueue = 1..Len(followUpQueue)
      /\ \A r \in Runs : DOMAIN local[r].pending = 1..Len(local[r].pending)
  <2>1. \A r \in Runs : local[r].pending \in Seq(UserMessages)
    BY LocalsType
  <2> QED
    BY <2>1 DEF TypeOK
<1>2. p \in {<<"transcript", i>> : i \in Occurrences(m, messages)} <=>
        \E i \in 1..Len(messages) : messages[i] = m /\ p = <<"transcript", i>>
  BY <1>1 DEF Occurrences
<1>3. p \in {<<"steering", i>> : i \in Occurrences(m, steeringQueue)} <=>
        \E i \in 1..Len(steeringQueue) : steeringQueue[i] = m /\ p = <<"steering", i>>
  BY <1>1 DEF Occurrences
<1>4. p \in {<<"followUp", i>> : i \in Occurrences(m, followUpQueue)} <=>
        \E i \in 1..Len(followUpQueue) : followUpQueue[i] = m /\ p = <<"followUp", i>>
  BY <1>1 DEF Occurrences
<1>5. p \in UNION {{<<"run", r, i>> : i \in Occurrences(m, local[r].pending)} : r \in Runs} <=>
        \E r \in Runs : \E i \in 1..Len(local[r].pending) :
          local[r].pending[i] = m /\ p = <<"run", r, i>>
  BY <1>1 DEF Occurrences
<1>6. \A r \in Runs : local[r].pending # <<>> =>
        r = runningPrompt /\ InFlight = local[r].pending
  BY OfLiveRun DEF FlowInv, Live, Looping
<1>7. InFlight # <<>> => runningPrompt \in Runs /\ InFlight = local[runningPrompt].pending
  BY DEF InFlight, TypeOK
<1>8. (\E r \in Runs : \E i \in 1..Len(local[r].pending) :
          local[r].pending[i] = m /\ p = <<"run", r, i>>)
      <=> \E i \in 1..Len(InFlight) : InFlight[i] = m /\ p = <<"run", runningPrompt, i>>
  <2>1. ASSUME NEW r \in Runs, NEW i \in 1..Len(local[r].pending),
               local[r].pending[i] = m, p = <<"run", r, i>>
        PROVE  \E j \in 1..Len(InFlight) : InFlight[j] = m /\ p = <<"run", runningPrompt, j>>
    <3>1. local[r].pending # <<>>
      BY <2>1
    <3> QED
      BY <1>6, <2>1, <3>1
  <2>2. ASSUME NEW i \in 1..Len(InFlight), InFlight[i] = m, p = <<"run", runningPrompt, i>>
        PROVE  \E r \in Runs : \E j \in 1..Len(local[r].pending) :
                 local[r].pending[j] = m /\ p = <<"run", r, j>>
    <3>1. InFlight # <<>>
      BY <2>2
    <3> QED
      BY <1>7, <2>2, <3>1
  <2> QED
    BY <2>1, <2>2
<1> QED
  BY <1>2, <1>3, <1>4, <1>5, <1>8 DEF Holds

\* No two lines hold the same message, and no line holds it twice.
LEMMA HeldOnce ==
  ASSUME NEW kinds, NEW id \in Nat
  PROVE  /\ \A s : InLine(kinds, s) => \A i, j \in 1..Len(s) :
              Len(s) \in Nat /\ s[i] = User(id) /\ s[j] = User(id) => i = j
         /\ \A s, t : Ahead(kinds, s, t) => \A i \in 1..Len(s), j \in 1..Len(t) :
              ~(s[i] = User(id) /\ t[j] = User(id))
<1>1. ~Earlier(kinds, User(id), User(id))
  BY DEF Earlier, User
<1>2. ASSUME NEW s, InLine(kinds, s), NEW i \in 1..Len(s), NEW j \in 1..Len(s),
             Len(s) \in Nat, s[i] = User(id), s[j] = User(id)
      PROVE  i = j
  <2>1. ~(i < j) /\ ~(j < i)
    BY <1>1, <1>2 DEF InLine
  <2> QED
    BY <1>2, <2>1
<1> QED
  BY <1>1, <1>2 DEF Ahead

\* However the host submits, clears, aborts, resets and continues, a message it
\* has not cleared is in exactly one place: dequeueing and taking are one step,
\* so are announcing and writing, a run leaves its loop only when it has announced
\* everything it took, and a second run cannot start before.
THEOREM NoMessageLostOrDoubled == ASSUME ~Reentrant PROVE Spec => []EachMessageOnce
<1>1. ASSUME TypeOK, RunRegistry, FlowInv PROVE EachMessageOnce
  <2> SUFFICES ASSUME NEW id \in 1..Len(submitted), id \notin discarded
               PROVE  \E place \in Holds(User(id)) : Holds(User(id)) = {place}
    BY DEF EachMessageOnce
  <2> DEFINE m == User(id)
             InTranscriptAt(p) == \E i \in 1..Len(messages) :
                                    messages[i] = m /\ p = <<"transcript", i>>
             InSteeringAt(p) == \E i \in 1..Len(steeringQueue) :
                                  steeringQueue[i] = m /\ p = <<"steering", i>>
             InFollowUpAt(p) == \E i \in 1..Len(followUpQueue) :
                                  followUpQueue[i] = m /\ p = <<"followUp", i>>
             InRunAt(p) == \E i \in 1..Len(InFlight) :
                             InFlight[i] = m /\ p = <<"run", runningPrompt, i>>
  <2>1. \A p : p \in Holds(m) <=>
          InTranscriptAt(p) \/ InSteeringAt(p) \/ InFollowUpAt(p) \/ InRunAt(p)
    BY <1>1, PlacesOf
  <2>2. id \in Nat /\ Flow(submitted, discarded, messages, InFlight, steeringQueue, followUpQueue)
    BY <1>1 DEF FlowInv
  <2>3. /\ Len(messages) \in Nat /\ Len(steeringQueue) \in Nat /\ Len(followUpQueue) \in Nat
        /\ Len(InFlight) \in Nat
    BY <1>1, InFlightTypes DEF FlowTypes
  <2>4. \E p : p \in Holds(m)
    <3>1. Has(messages, id) \/ Has(InFlight, id) \/ Has(steeringQueue, id) \/ Has(followUpQueue, id)
      BY <2>2 DEF Flow
    <3> QED
      BY <2>1, <3>1 DEF Has
  <2>5. Ahead(submitted, steeringQueue, followUpQueue)
    BY <2>2, KindsApart DEF Flow
  <2>6. ASSUME NEW p, NEW q, p \in Holds(m), q \in Holds(m) PROVE p = q
    <3>1. /\ InTranscriptAt(p) /\ InTranscriptAt(q) => p = q
          /\ InSteeringAt(p) /\ InSteeringAt(q) => p = q
          /\ InFollowUpAt(p) /\ InFollowUpAt(q) => p = q
          /\ InRunAt(p) /\ InRunAt(q) => p = q
      <4>1. /\ InLine(submitted, messages) /\ InLine(submitted, InFlight)
            /\ InLine(submitted, steeringQueue) /\ InLine(submitted, followUpQueue)
        BY <2>2 DEF Flow
      <4>2. InTranscriptAt(p) /\ InTranscriptAt(q) => p = q
        BY <2>2, <2>3, <4>1, HeldOnce
      <4>3. InSteeringAt(p) /\ InSteeringAt(q) => p = q
        BY <2>2, <2>3, <4>1, HeldOnce
      <4>4. InFollowUpAt(p) /\ InFollowUpAt(q) => p = q
        BY <2>2, <2>3, <4>1, HeldOnce
      <4>5. InRunAt(p) /\ InRunAt(q) => p = q
        BY <2>2, <2>3, <4>1, HeldOnce
      <4> QED
        BY <4>2, <4>3, <4>4, <4>5
    <3>2. \A s, t : Ahead(submitted, s, t) => ~(Has(s, id) /\ Has(t, id))
      BY <2>2, HeldOnce DEF Has
    <3>3. /\ ~(Has(messages, id) /\ Has(InFlight, id))
          /\ ~(Has(messages, id) /\ Has(steeringQueue, id))
          /\ ~(Has(messages, id) /\ Has(followUpQueue, id))
          /\ ~(Has(InFlight, id) /\ Has(steeringQueue, id))
          /\ ~(Has(InFlight, id) /\ Has(followUpQueue, id))
          /\ ~(Has(steeringQueue, id) /\ Has(followUpQueue, id))
      BY <2>2, <2>5, <3>2 DEF Flow
    <3>4. \A x : /\ InTranscriptAt(x) => Has(messages, id)
                 /\ InSteeringAt(x) => Has(steeringQueue, id)
                 /\ InFollowUpAt(x) => Has(followUpQueue, id)
                 /\ InRunAt(x) => Has(InFlight, id)
      BY DEF Has
    <3> HIDE DEF m, InTranscriptAt, InSteeringAt, InFollowUpAt, InRunAt
    <3> QED
      BY <2>1, <2>6, <3>1, <3>3, <3>4
  <2> QED
    BY <2>4, <2>6
<1> QED
  BY <1>1, FlowAlways, PTL

-----------------------------------------------------------------------------
(* What agent_end reports.                                                 *)

\* The transcript from the start of a run on, followed by the prompts it has not
\* announced yet, is what the run will report.
Reports(said, base, report, unsaid) ==
  /\ base <= Len(said)
  /\ base + Len(report) = Len(said) + Len(unsaid)
  /\ \A k \in 1..(Len(said) - base) : said[base + k] = report[k]
  /\ \A k \in 1..Len(unsaid) : unsaid[k] = report[Len(said) - base + k]

LEMMA ReportsAnnounced ==
  ASSUME NEW said \in Seq(Messages), NEW base \in Nat, NEW report \in Seq(Messages),
         NEW unsaid \in Seq(UserMessages), unsaid # <<>>, Reports(said, base, report, unsaid)
  PROVE  Reports(Append(said, Head(unsaid)), base, report, Tail(unsaid))
<1> DEFINE s == Append(said, Head(unsaid))
           u == Tail(unsaid)
<1>1. /\ Len(unsaid) \in Nat /\ Len(unsaid) > 0 /\ Len(u) = Len(unsaid) - 1
      /\ \A i \in 1..(Len(unsaid) - 1) : u[i] = unsaid[i + 1]
      /\ Head(unsaid) = unsaid[1] /\ unsaid[1] \in Messages
  BY TailFacts DEF Messages
<1>2. /\ Len(said) \in Nat /\ Len(s) = Len(said) + 1 /\ s[Len(said) + 1] = unsaid[1]
      /\ \A i \in 1..Len(said) : s[i] = said[i]
  BY <1>1, AppendFacts
<1> HIDE DEF s, u
<1>3. Len(report) \in Nat /\ base <= Len(said) /\ base + Len(report) = Len(said) + Len(unsaid)
  BY DEF Reports
<1> DEFINE n == Len(said)
           l == Len(unsaid)
<1>4. base <= Len(s) /\ base + Len(report) = Len(s) + Len(u)
  <2>1. n \in Nat /\ l \in Nat /\ Len(s) = n + 1 /\ Len(u) = l - 1
    BY <1>1, <1>2
  <2>2. base <= n /\ base + Len(report) = n + l
    BY <1>3
  <2> HIDE DEF n, l
  <2> QED
    BY <1>3, <2>1, <2>2
<1>5. ASSUME NEW k \in 1..(Len(s) - base) PROVE s[base + k] = report[k]
  <2>1. CASE k \in 1..(Len(said) - base)
    <3>1. base + k \in 1..Len(said)
      BY <1>2, <1>3, <2>1
    <3>2. said[base + k] = report[k]
      BY <2>1 DEF Reports
    <3> QED
      BY <1>2, <3>1, <3>2
  <2>2. CASE k = Len(said) - base + 1
    <3>1. base + k = Len(said) + 1 /\ 1 \in 1..Len(unsaid)
      BY <1>1, <1>2, <2>2
    <3>2. unsaid[1] = report[k]
      BY <2>2, <3>1 DEF Reports
    <3> QED
      BY <1>2, <3>1, <3>2
  <2>3. Len(s) - base = Len(said) - base + 1 /\ Len(said) - base \in Nat
    BY <1>2, <1>3
  <2>4. k \in 1..(Len(said) - base) \/ k = Len(said) - base + 1
    BY <2>3
  <2> QED
    BY <2>1, <2>2, <2>4
<1>6. ASSUME NEW k \in 1..Len(u) PROVE u[k] = report[Len(s) - base + k]
  <2>1. k + 1 \in 1..Len(unsaid) /\ Len(said) - base + (k + 1) = Len(s) - base + k
    BY <1>1, <1>2
  <2> QED
    BY <1>1, <2>1 DEF Reports
<1>7. Reports(s, base, report, u)
  BY <1>4, <1>5, <1>6 DEF Reports
<1> QED
  BY <1>7 DEF s, u

LEMMA ReportsSaid ==
  ASSUME NEW said \in Seq(Messages), NEW base \in Nat, NEW report \in Seq(Messages),
         NEW m \in Messages, Reports(said, base, report, <<>>)
  PROVE  Reports(Append(said, m), base, Append(report, m), <<>>)
<1> DEFINE s == Append(said, m)
           p == Append(report, m)
<1>1. /\ Len(said) \in Nat /\ Len(s) = Len(said) + 1 /\ s[Len(said) + 1] = m
      /\ \A i \in 1..Len(said) : s[i] = said[i]
      /\ Len(report) \in Nat /\ Len(p) = Len(report) + 1 /\ p[Len(report) + 1] = m
      /\ \A i \in 1..Len(report) : p[i] = report[i]
  BY AppendFacts
<1>2. base <= Len(said) /\ base + Len(report) = Len(said)
  BY <1>1 DEF Reports
<1> HIDE DEF s, p
<1>3. ASSUME NEW k \in 1..(Len(s) - base) PROVE s[base + k] = p[k]
  <2>1. CASE k \in 1..(Len(said) - base)
    <3>1. base + k \in 1..Len(said) /\ k \in 1..Len(report)
      BY <1>1, <1>2, <2>1
    <3>2. said[base + k] = report[k]
      BY <2>1 DEF Reports
    <3> QED
      BY <1>1, <3>1, <3>2
  <2>2. CASE k = Len(said) - base + 1
    <3>1. base + k = Len(said) + 1 /\ k = Len(report) + 1
      BY <1>1, <1>2, <2>2
    <3> QED
      BY <1>1, <3>1
  <2> QED
    BY <1>1, <1>2, <2>1, <2>2
<1>4. base <= Len(s) /\ base + Len(p) = Len(s) + Len(<<>>) /\ 1..Len(<<>>) = {}
  BY <1>1, <1>2
<1>5. Reports(s, base, p, <<>>)
  BY <1>3, <1>4 DEF Reports
<1> QED
  BY <1>5 DEF s, p

LEMMA ReportsAll ==
  ASSUME NEW said \in Seq(Messages), NEW base \in Nat, NEW report \in Seq(Messages),
         Reports(said, base, report, <<>>)
  PROVE  report = SubSeq(said, base + 1, Len(said))
<1>1. /\ Len(said) \in Nat /\ Len(report) \in Nat
      /\ base <= Len(said) /\ base + Len(report) = Len(said)
      /\ \A k \in 1..(Len(said) - base) : said[base + k] = report[k]
  BY DEF Reports
<1> DEFINE t == SubSeq(said, base + 1, Len(said))
<1>2. \A i \in (base + 1)..Len(said) : said[i] \in Messages
  BY <1>1
<1>3. /\ t \in Seq(Messages)
      /\ Len(t) = IF base + 1 <= Len(said) THEN Len(said) - (base + 1) + 1 ELSE 0
      /\ \A i \in 1..(Len(said) - (base + 1) + 1) : t[i] = said[base + 1 + i - 1]
  BY <1>1, <1>2, SubSeqProperties
<1> HIDE DEF t
<1>4. Len(t) = Len(report) /\ Len(said) - (base + 1) + 1 = Len(report)
  BY <1>1, <1>3
<1>5. \A i \in 1..Len(report) : base + 1 + i - 1 = base + i
  BY <1>1
<1>6. \A i \in 1..Len(report) : t[i] = report[i]
  BY <1>1, <1>3, <1>4, <1>5
<1>7. t = report
  BY <1>3, <1>4, <1>6, SeqEqual
<1> QED
  BY <1>7 DEF t

\* Results are reported behind what the run reports already.
LEMMA ReportOrder ==
  ASSUME NEW s \in Seq(Messages), NEW t \in Seq(Messages), NEW m \in Messages
  PROVE  /\ s \o t \in Seq(Messages)
         /\ s \o <<>> = s
         /\ s \o Append(t, m) = Append(s \o t, m)
  OBVIOUS

\* The prompts a run has still to announce, and what it would report next.
Unsaid(r) == IF pc[r] = "opening" THEN local[r].pending ELSE <<>>
ReportOf(r) ==
  IF pc[r] = "tools" THEN local[r].newMessages \o local[r].results ELSE local[r].newMessages
ReportInv ==
  \A r \in Runs : pc[r] \in Looping =>
    Reports(messages, local[r].base, ReportOf(r), Unsaid(r))

LEMMA ReportTypes ==
  ASSUME TypeOK, NEW r \in Runs
  PROVE  /\ messages \in Seq(Messages) /\ local[r].base \in Nat
         /\ local[r].newMessages \in Seq(Messages) /\ local[r].results \in Seq(Messages)
         /\ local[r].pending \in Seq(UserMessages)
         /\ ReportOf(r) \in Seq(Messages) /\ Unsaid(r) \in Seq(UserMessages)
<1>1. local[r].results \in Seq(Messages)
  BY LocalsType, SubseqTypes, MessageTypes
<1>2. local[r] \in Locals /\ local[r].newMessages \in Seq(Messages)
      /\ local[r].pending \in Seq(UserMessages)
  BY LocalsType
<1>3. local[r].base \in Nat
  BY <1>2 DEF Locals
<1>4. local[r].newMessages \o local[r].results \in Seq(Messages)
  BY <1>1, <1>2
<1> QED
  BY <1>1, <1>2, <1>3, <1>4 DEF ReportOf, Unsaid, TypeOK

\* The steps of the live run: no other run has anything to report.
LEMMA ReportByOne ==
  ASSUME TypeOK, RunRegistry, NEW r \in Runs, pc[r] \in Live,
         \A s \in Runs \ {r} : pc'[s] = pc[s],
         pc'[r] \in Looping => Reports(messages', local'[r].base, ReportOf(r)', Unsaid(r)')
  PROVE  ReportInv'
<1>1. \A s \in Runs \ {r} : pc'[s] \notin Looping
  BY DEF RunRegistry, Live
<1> QED
  BY <1>1 DEF ReportInv

LEMMA HostReport ==
  ASSUME TypeOK, RunRegistry, ~Reentrant, ReportInv, HostStep
  PROVE  ReportInv'
<1>1. ASSUME NEW r \in Runs, NEW prompts \in Seq(UserMessages), NEW skip,
             CanStart, StartRun(r, prompts, skip)
      PROVE  ReportInv'
  <2>1. PICK mode \in ToolModes :
          local' = [local EXCEPT ![r] = LocalsAt(messages, prompts, mode, skip)]
    BY <1>1 DEF StartRun
  <2> DEFINE v == LocalsAt(messages, prompts, mode, skip)
  <2>2. v.base = Len(messages) /\ v.newMessages = prompts /\ v.pending = prompts
    BY DEF LocalsAt
  <2> HIDE DEF v
  <2>3. SetLocal(r, v)
    BY <2>1 DEF v, SetLocal
  <2>4. local'[r] = v
    BY <2>3, LocalFacts, Zenon
  <2>5. messages' = messages /\ pc'[r] = "opening" /\ \A s \in Runs \ {r} : pc'[s] = pc[s]
    BY <1>1, OthersStay DEF StartRun
  <2>6. \A s \in Runs \ {r} : pc[s] \notin Looping
    BY <1>1 DEF CanStart, RunRegistry
  <2>7. Len(messages) \in Nat /\ Len(prompts) \in Nat /\ 1..(Len(messages) - Len(messages)) = {}
        /\ \A k \in 1..Len(prompts) : Len(messages) - Len(messages) + k = k
    BY <1>1 DEF TypeOK
  <2>8. Reports(messages, Len(messages), prompts, prompts)
    BY <2>7 DEF Reports
  <2>9. ReportOf(r)' = prompts /\ Unsaid(r)' = prompts
    BY <2>2, <2>4, <2>5 DEF ReportOf, Unsaid
  <2> QED
    BY <2>2, <2>4, <2>5, <2>6, <2>8, <2>9 DEF ReportInv
<1>2. ASSUME NEW r \in Runs,
             Prompt(r) \/ ContinueSteering(r) \/ ContinueFollowUp(r) \/ ContinueContext(r)
      PROVE  ReportInv'
  <2>1. CASE Prompt(r)
    <3>1. <<User(NextId)>> \in Seq(UserMessages)
      BY <2>1, NextIdType, SingletonSeq DEF Prompt
    <3> QED
      BY <1>1, <2>1, <3>1 DEF Prompt
  <2>2. CASE ContinueSteering(r) \/ ContinueFollowUp(r) \/ ContinueContext(r)
    <3>1. /\ <<>> \in Seq(UserMessages)
          /\ \A mode : Dequeued(steeringQueue, mode) \in Seq(UserMessages)
          /\ \A mode : Dequeued(followUpQueue, mode) \in Seq(UserMessages)
      BY DequeuedType DEF TypeOK
    <3> QED
      BY <1>1, <2>2, <3>1 DEF ContinueSteering, ContinueFollowUp, ContinueContext
  <2> QED
    BY <1>2, <2>1, <2>2
<1>3. CASE Steer \/ FollowUp \/ Abort \/ ClearSteeringQueue \/ ClearFollowUpQueue
  <2>1. UNCHANGED <<pc, local, messages>>
    BY <1>3 DEF Steer, FollowUp, Abort, ClearSteeringQueue, ClearFollowUpQueue, runVars, agentVars
  <2> QED
    BY <2>1 DEF ReportInv, ReportOf, Unsaid
<1>4. CASE Reset \/ AppendMessage \/ DropFailedResponse
  <2>1. pc' = pc /\ runningPrompt = NoRun
    BY <1>4 DEF Reset, AppendMessage, DropFailedResponse, runVars, Idle
  <2>2. \A s \in Runs : pc[s] \notin Looping
    BY <2>1, BoundsAssumption DEF RunRegistry, Live, Runs, NoRun
  <2> QED
    BY <2>1, <2>2 DEF ReportInv
<1> QED
  BY <1>2, <1>3, <1>4 DEF HostStep

\* The steps that say nothing.
LEMMA QuietReport ==
  ASSUME TypeOK, ReportInv, NEW r \in Runs,
         \/ StreamStart(r) \/ FailedTurnEnd(r) \/ AgentEnd(r) \/ Unwind(r) \/ Launch(r)
         \/ \E i \in 1..MaxCalls : ToolStart(r, i) \/ ToolPrepared(r, i) \/ ToolSettles(r, i)
  PROVE  ReportInv'
<1>1. /\ \A s \in Runs \ {r} : local'[s] = local[s]
      /\ local'[r].pending = local[r].pending /\ local'[r].base = local[r].base
      /\ local'[r].newMessages = local[r].newMessages /\ local'[r].results = local[r].results
  <2>1. ASSUME NEW i \in 1..MaxCalls, ToolStart(r, i) \/ ToolPrepared(r, i) \/ ToolSettles(r, i)
        PROVE  <1>1
    <3>1. PICK state \in {"started", "running", "ready", "settled"} :
            SetLocal(r, SetCall(r, i, state))
      BY <2>1 DEF ToolStart, ToolPrepared, ToolSettles
    <3> QED
      BY <3>1, CallLocal DEF CallMoves
  <2> QED
    BY <2>1, QuietLocal, LaunchLocal DEF SameCalls
<1>2. messages' = messages /\ \A s \in Runs \ {r} : pc'[s] = pc[s]
  BY OthersStay DEF StreamStart, FailedTurnEnd, AgentEnd, Unwind, Launch, ToolStart,
     ToolPrepared, ToolSettles, Finally, agentVars, Goto
<1>3. \/ pc'[r] = pc[r]
      \/ pc[r] \in {"turn", "failedTurn"} /\ pc'[r] \in {"streaming", "ending"}
      \/ pc'[r] \in {"unwinding", "done"}
  BY OthersStay DEF StreamStart, FailedTurnEnd, AgentEnd, Unwind, Launch, ToolStart,
     ToolPrepared, ToolSettles, Finally, AtRequest, Goto
<1>4. ASSUME NEW s \in Runs, pc'[s] \in Looping
      PROVE  Reports(messages', local'[s].base, ReportOf(s)', Unsaid(s)')
  <2>1. pc[s] \in Looping /\ ReportOf(s)' = ReportOf(s) /\ Unsaid(s)' = Unsaid(s)
        /\ local'[s].base = local[s].base
    BY <1>1, <1>2, <1>3, <1>4 DEF ReportOf, Unsaid, Looping
  <2> QED
    BY <1>2, <2>1 DEF ReportInv
<1> QED
  BY <1>4 DEF ReportInv

\* The steps of the live run that write a message or move the run to where its
\* report is read differently.
LEMMA SayReport ==
  ASSUME TypeOK, RunRegistry, ReportInv, NEW r \in Runs,
         \/ AnnouncePrompt(r) \/ InjectPending(r) \/ PollSteering(r) \/ PollFollowUp(r)
         \/ StreamEnd(r) \/ TurnEnd(r)
         \/ \E i \in 1..MaxCalls : ToolRefused(r, i) \/ Finalize(r, i)
  PROVE  ReportInv'
<1> DEFINE b == local[r].base
           n == local[r].newMessages
           q == local[r].results
           p == local[r].pending
<1>1. /\ messages \in Seq(Messages) /\ b \in Nat /\ n \in Seq(Messages) /\ q \in Seq(Messages)
      /\ p \in Seq(UserMessages)
  BY ReportTypes
<1>2. pc[r] \in Looping => Reports(messages, b, ReportOf(r), Unsaid(r))
  BY DEF ReportInv
<1>3. UserMessages \subseteq Messages
  BY MessageTypes
<1>4. CASE AnnouncePrompt(r)
  <2>1. /\ pc[r] = "opening" /\ pc' = pc /\ p # <<>>
        /\ messages' = Append(messages, Head(p))
    BY <1>4 DEF AnnouncePrompt
  <2>2. local'[r].base = b /\ local'[r].pending = Tail(p) /\ local'[r].newMessages = n
    BY <1>4, AnnounceLocal DEF SameCalls
  <2>3. Reports(messages, b, n, p)
    BY <1>2, <2>1 DEF Looping, ReportOf, Unsaid
  <2>4. Reports(Append(messages, Head(p)), b, n, Tail(p))
    BY <1>1, <2>1, <2>3, ReportsAnnounced
  <2>5. ReportOf(r)' = n /\ Unsaid(r)' = Tail(p)
    BY <2>1, <2>2 DEF ReportOf, Unsaid
  <2> QED
    BY <2>1, <2>2, <2>4, <2>5, ReportByOne DEF Looping, Live
<1>5. CASE InjectPending(r)
  <2>1. /\ pc[r] = "turn" /\ pc' = pc /\ p # <<>>
        /\ messages' = Append(messages, Head(p))
    BY <1>5 DEF InjectPending
  <2>2. local'[r].base = b /\ local'[r].newMessages = Append(n, Head(p))
    BY <1>5, InjectLocal DEF SameCalls
  <2>3. Reports(messages, b, n, <<>>) /\ Head(p) \in Messages
    BY <1>1, <1>2, <1>3, <2>1 DEF Looping, ReportOf, Unsaid
  <2>4. Reports(Append(messages, Head(p)), b, Append(n, Head(p)), <<>>)
    BY <1>1, <2>3, ReportsSaid
  <2>5. ReportOf(r)' = Append(n, Head(p)) /\ Unsaid(r)' = <<>>
    BY <2>1, <2>2 DEF ReportOf, Unsaid
  <2> QED
    BY <2>1, <2>2, <2>4, <2>5, ReportByOne DEF Looping, Live
<1>6. CASE PollSteering(r) \/ PollFollowUp(r)
  <2>1. /\ local'[r].base = b /\ local'[r].newMessages = n
        /\ \A s \in Runs \ {r} : local'[s] = local[s]
    <3>1. CASE PollSteering(r)
      <4>1. PICK d : SetLocal(r, [local[r] EXCEPT !.pending = d, !.skipPoll = FALSE])
        BY <3>1 DEF PollSteering
      <4> QED
        BY <4>1, PollSteeringLocal DEF SameCalls
    <3>2. CASE PollFollowUp(r)
      <4>1. PICK d : SetLocal(r, [local[r] EXCEPT !.pending = d])
        BY <3>2 DEF PollFollowUp
      <4> QED
        BY <4>1, PollFollowUpLocal DEF SameCalls
    <3> QED
      BY <1>6, <3>1, <3>2
  <2>2. /\ messages' = messages /\ pc[r] \in {"opening", "polling", "followUp"}
        /\ pc[r] = "opening" => p = <<>>
    BY <1>6 DEF PollSteering, PollFollowUp, agentVars
  <2>3. PICK place \in {"turn", "followUp", "ending"} : Goto(r, place)
    BY <1>6 DEF PollSteering, PollFollowUp
  <2>4. pc'[r] = place /\ \A s \in Runs \ {r} : pc'[s] = pc[s]
    BY <2>3, OthersStay DEF Goto
  <2>5. Reports(messages, b, n, <<>>)
    BY <1>2, <2>2 DEF Looping, ReportOf, Unsaid
  <2>6. ReportOf(r)' = n /\ Unsaid(r)' = <<>>
    BY <2>1, <2>4 DEF ReportOf, Unsaid
  <2> QED
    BY <2>1, <2>2, <2>4, <2>5, <2>6, ReportByOne DEF Looping, Live
<1>7. CASE StreamEnd(r)
  <2>1. PICK stop \in StopReasons, k \in 0..MaxCalls : Responds(r, stop, k)
    BY <1>7, StreamEndLocal
  <2> DEFINE m == Assistant(r, local[r].turn + 1, k, stop)
  <2>2. /\ m \in Messages /\ messages' = Append(messages, m) /\ local'[r].base = b
        /\ local'[r].newMessages = Append(n, m) /\ local'[r].results = <<>>
        /\ pc' = [pc EXCEPT ![r] = IF stop = "ok" THEN "tools" ELSE "failedTurn"]
    BY <2>1 DEF Responds
  <2>3. pc'[r] \in {"tools", "failedTurn"} /\ \A s \in Runs \ {r} : pc'[s] = pc[s]
    BY <2>2, OthersStay
  <2>4. pc[r] \in {"turn", "streaming"}
    BY <1>7 DEF StreamEnd, AtRequest
  <2>5. Reports(messages, b, n, <<>>)
    BY <1>2, <2>4 DEF Looping, ReportOf, Unsaid
  <2>6. Reports(Append(messages, m), b, Append(n, m), <<>>)
    BY <1>1, <2>2, <2>5, ReportsSaid
  <2>7. Append(n, m) \o <<>> = Append(n, m)
    BY <1>1, <2>2, ReportOrder, AppendFacts
  <2> HIDE DEF m, n
  <2>8. ReportOf(r)' = Append(n, m) /\ Unsaid(r)' = <<>>
    BY <2>2, <2>3, <2>7 DEF ReportOf, Unsaid
  <2> QED
    BY <2>2, <2>3, <2>4, <2>6, <2>8, ReportByOne DEF Looping, Live
<1>8. CASE TurnEnd(r)
  <2>1. messages' = messages /\ pc[r] = "tools" /\ Goto(r, "polling")
    BY <1>8 DEF TurnEnd, Executing, agentVars
  <2>2. local'[r].base = b /\ local'[r].newMessages = n \o q
    BY <1>8, TurnEndLocal DEF SameCalls
  <2>3. pc'[r] = "polling" /\ \A s \in Runs \ {r} : pc'[s] = pc[s]
    BY <2>1, OthersStay DEF Goto
  <2>4. Reports(messages, b, n \o q, <<>>)
    BY <1>2, <2>1 DEF Looping, ReportOf, Unsaid
  <2>5. ReportOf(r)' = n \o q /\ Unsaid(r)' = <<>>
    BY <2>2, <2>3 DEF ReportOf, Unsaid
  <2> QED
    BY <2>1, <2>2, <2>3, <2>4, <2>5, ReportByOne DEF Looping, Live
<1>9. ASSUME NEW i \in 1..MaxCalls, ToolRefused(r, i) \/ Finalize(r, i)
      PROVE  ReportInv'
  <2> DEFINE m == ToolResult(r, local[r].turn, i)
  <2>1. EmitOutcome(r, i) /\ pc[r] = "tools" /\ pc' = pc
    BY <1>9 DEF ToolRefused, Finalize, Awaited, Executing, EmitOutcome
  <2>2. CallMoves(r, i, "ended") /\ local'[r].results = Append(q, m)
        /\ messages' = Append(messages, m) /\ m \in Messages
    BY <2>1, OutcomeLocal
  <2>3. local'[r].base = b /\ local'[r].newMessages = n
    BY <2>2 DEF CallMoves
  <2> HIDE DEF m, n, q, b
  <2>4. Reports(messages, b, n \o q, <<>>)
    BY <1>2, <2>1 DEF Looping, ReportOf, Unsaid, n, q
  <2>5. n \o q \in Seq(Messages) /\ n \o Append(q, m) = Append(n \o q, m)
    BY <1>1, <2>2, ReportOrder
  <2>6. Reports(Append(messages, m), b, Append(n \o q, m), <<>>)
    BY <1>1, <2>2, <2>4, <2>5, ReportsSaid
  <2>7. ReportOf(r)' = Append(n \o q, m) /\ Unsaid(r)' = <<>>
    BY <2>1, <2>2, <2>3, <2>5 DEF ReportOf, Unsaid
  <2> QED
    BY <2>1, <2>2, <2>3, <2>6, <2>7, ReportByOne DEF Looping, Live
<1> QED
  BY <1>4, <1>5, <1>6, <1>7, <1>8, <1>9

LEMMA ReportStep ==
  ASSUME TypeOK, RunRegistry, ~Reentrant, ~HooksThrow, ReportInv, [Next]_vars
  PROVE  ReportInv'
<1>1. CASE HostStep
  BY <1>1, HostReport
<1>2. ASSUME NEW r \in Runs, LoopStep(r) \/ ToolStep(r)
      PROVE  ReportInv'
  <2>1. ~RunThrows(r)
    BY DEF RunThrows
  <2> QED
    BY <1>2, <2>1, SayReport, QuietReport DEF LoopStep, ToolStep
<1>3. CASE UNCHANGED vars
  BY <1>3 DEF vars, ReportInv, ReportOf, Unsaid
<1> QED
  BY <1>1, <1>2, <1>3 DEF Next

\* What a run reports is what it added.
LEMMA ReportedIsSaid ==
  ASSUME TypeOK, ReportInv, ~HooksThrow, [Next]_vars
  PROVE  [\A r \in Runs : reported'[r] # reported[r] =>
            reported'[r] = SubSeq(messages', local[r].base + 1, Len(messages'))]_vars
<1> SUFFICES ASSUME NEW r \in Runs, reported'[r] # reported[r]
             PROVE  reported'[r] = SubSeq(messages', local[r].base + 1, Len(messages'))
  OBVIOUS
<1>1. \E s \in Runs : AgentEnd(s)
  <2>1. HostStep => reported' = reported
    BY DEF HostStep, Prompt, ContinueSteering, ContinueFollowUp, ContinueContext, StartRun, Steer,
       FollowUp, Abort, ClearSteeringQueue, ClearFollowUpQueue, Reset, AppendMessage,
       DropFailedResponse, history
  <2>2. ASSUME NEW s \in Runs, NEW i \in 1..MaxCalls,
               \/ ToolStart(s, i) \/ ToolRefused(s, i) \/ ToolPrepared(s, i) \/ Finalize(s, i)
               \/ ToolSettles(s, i)
        PROVE  reported' = reported
    BY <2>2 DEF ToolStart, ToolRefused, ToolPrepared, Finalize, EmitOutcome, ToolSettles,
                UnchangedExceptRun, history
  <2>3. ASSUME NEW s \in Runs,
               \/ AnnouncePrompt(s) \/ PollSteering(s) \/ InjectPending(s) \/ StreamStart(s)
               \/ StreamEnd(s) \/ FailedTurnEnd(s) \/ Launch(s) \/ TurnEnd(s)
               \/ PollFollowUp(s) \/ Unwind(s) \/ RunThrows(s)
        PROVE  reported' = reported
    BY <2>3 DEF AnnouncePrompt, PollSteering, InjectPending, StreamStart, StreamEnd,
                FailedTurnEnd, Launch, TurnEnd, PollFollowUp, Unwind, RunThrows,
                UnchangedExceptRun, history
  <2>4. ASSUME NEW s \in Runs, LoopStep(s) \/ ToolStep(s)
        PROVE  AgentEnd(s) \/ reported' = reported
    BY <2>2, <2>3, <2>4 DEF LoopStep, ToolStep
  <2>5. UNCHANGED vars => reported' = reported
    BY DEF vars
  <2> QED
    BY <2>1, <2>4, <2>5 DEF Next
<1>2. AgentEnd(r) /\ reported'[r] = local[r].newMessages
  BY <1>1 DEF AgentEnd, TypeOK
<1>3. messages' = messages /\ pc[r] = "ending"
  BY <1>2 DEF AgentEnd
<1>4. Reports(messages, local[r].base, local[r].newMessages, <<>>)
  BY <1>3 DEF ReportInv, ReportOf, Unsaid, Looping
<1> QED
  BY <1>2, <1>3, <1>4, ReportTypes, ReportsAll

\* The agent_end event of a run carries every message the run added to the
\* transcript and nothing else, in order. (It is assumed that no hook throws: the
\* run then reports the failure alone.)
THEOREM ReportsAreComplete ==
  ASSUME ~Reentrant, ~HooksThrow
  PROVE  Spec => AgentEndIsComplete
<1>1. Init => ReportInv
  BY DEF Init, ReportInv, Looping
<1>2. TypeOK /\ RunRegistry /\ ReportInv /\ [Next]_vars => ReportInv'
  BY ReportStep
<1>3. TypeOK /\ ReportInv /\ [Next]_vars =>
        [\A r \in Runs : reported'[r] # reported[r] =>
            reported'[r] = SubSeq(messages', local[r].base + 1, Len(messages'))]_vars
  BY ReportedIsSaid
<1> QED
  BY <1>1, <1>2, <1>3, AgentTypeOK, RegistryConsistent, PTL DEF Spec, AgentEndIsComplete

-----------------------------------------------------------------------------
(* Follow-up messages wait for the end of a tool turn.                     *)

\* A response whose tool calls are executed.
Calling(m) == m.role = "assistant" /\ m.calls > 0 /\ m.stop = "ok"
\* What a follow-up may follow.
Settled(m) == m.role = "user" \/ (m.role = "assistant" /\ ~Calling(m))
Quiet(said) == said = <<>> \/ Settled(said[Len(said)])

Answered(said) ==
  \A i \in 1..Len(said) : i < Len(said) /\ Calling(said[i]) => said[i + 1].role = "toolResult"
IsFollowUp(kinds, m) == m.role = "user" /\ kinds[m.id] = "followUp"
Spaced(kinds, said) ==
  \A i \in 1..Len(said) : IsFollowUp(kinds, said[i]) /\ i > 1 => Settled(said[i - 1])
BringsFollowUp(kinds, s) == \E i \in 1..Len(s) : IsFollowUp(kinds, s[i])

\* A run polls the follow-up queue only when its last response called no tool
\* and nothing came after it.
RunWaits(r) ==
  /\ pc[r] = "opening" => local[r].hasMore
  /\ pc[r] = "followUp" => ~local[r].hasMore
  /\ pc[r] \in {"tools", "polling", "followUp"} /\ ~local[r].hasMore => Quiet(messages)
  /\ pc[r] = "tools" /\ ~local[r].hasMore => \A i \in 1..MaxCalls : local[r].calls[i] = "none"
  /\ BringsFollowUp(submitted, local[r].pending) => Quiet(messages)

\* A response at the end of the transcript has calls only while they execute,
\* so that a run that starts finds a quiet transcript. Where the host drops
\* failed responses, no unanswered call may come to light under one.
UnansweredIsLive ==
  messages # <<>> /\ Calling(LastMessage) =>
    \E r \in Runs, j \in 1..MaxCalls : Waits(r, j)
WaitInv ==
  /\ Housekeeping => Answered(messages)
  /\ UnansweredIsLive
  /\ Spaced(submitted, messages)
  /\ \A r \in Runs : RunWaits(r)

LEMMA AppendWaits ==
  ASSUME NEW kinds, NEW said \in Seq(Messages), NEW m \in Messages
  PROVE  LET more == Append(said, m) IN
         /\ more # <<>> /\ more[Len(more)] = m
         /\ Answered(said) /\ (said # <<>> /\ Calling(said[Len(said)]) => m.role = "toolResult") =>
              Answered(more)
         /\ Spaced(kinds, said) /\ (IsFollowUp(kinds, m) => Quiet(said)) => Spaced(kinds, more)
<1> DEFINE more == Append(said, m)
<1>1. /\ Len(said) \in Nat /\ Len(more) = Len(said) + 1 /\ more[Len(said) + 1] = m
      /\ \A i \in 1..Len(said) : more[i] = said[i]
      /\ said # <<>> <=> Len(said) > 0
      /\ more # <<>>
  <2>1. more # <<>> /\ (said # <<>> <=> Len(said) > 0)
    OBVIOUS
  <2> QED
    BY <2>1, AppendFacts
<1> HIDE DEF more
<1>2. \A i \in 1..Len(more) : i \in 1..Len(said) \/ i = Len(said) + 1
  BY <1>1
<1>3. ASSUME Answered(said), said # <<>> /\ Calling(said[Len(said)]) => m.role = "toolResult"
      PROVE  Answered(more)
  <2> SUFFICES ASSUME NEW i \in 1..Len(more), i < Len(more), Calling(more[i])
               PROVE  more[i + 1].role = "toolResult"
    BY DEF Answered
  <2>1. i \in 1..Len(said) /\ more[i] = said[i]
    BY <1>1
  <2>2. CASE i = Len(said)
    BY <1>1, <1>3, <2>1, <2>2
  <2>3. CASE i < Len(said)
    <3>1. i + 1 \in 1..Len(said) /\ more[i + 1] = said[i + 1]
      BY <1>1, <2>1, <2>3
    <3> QED
      BY <1>3, <2>1, <2>3, <3>1 DEF Answered
  <2> QED
    BY <1>1, <2>1, <2>2, <2>3
<1>4. ASSUME Spaced(kinds, said), IsFollowUp(kinds, m) => Quiet(said)
      PROVE  Spaced(kinds, more)
  <2> SUFFICES ASSUME NEW i \in 1..Len(more), IsFollowUp(kinds, more[i]), i > 1
               PROVE  Settled(more[i - 1])
    BY DEF Spaced
  <2>1. i - 1 \in 1..Len(said) /\ more[i - 1] = said[i - 1]
    BY <1>1
  <2>2. CASE i \in 1..Len(said)
    BY <1>1, <1>4, <2>1, <2>2 DEF Spaced
  <2>3. CASE i = Len(said) + 1
    <3>1. i - 1 = Len(said) /\ said # <<>>
      BY <1>1, <2>1, <2>3
    <3> QED
      BY <1>1, <1>4, <2>1, <2>3, <3>1 DEF Quiet
  <2> QED
    BY <1>2, <2>2, <2>3
<1> QED
  BY <1>1, <1>3, <1>4 DEF more

LEMMA FrontWaits ==
  ASSUME NEW kinds, NEW said \in Seq(Messages), said # <<>>, Answered(said), Spaced(kinds, said)
  PROVE  LET front == SubSeq(said, 1, Len(said) - 1) IN
         /\ Answered(front) /\ Spaced(kinds, front)
         /\ front # <<>> /\ Calling(front[Len(front)]) => said[Len(said)].role = "toolResult"
<1> DEFINE front == SubSeq(said, 1, Len(said) - 1)
<1>1. /\ Len(said) \in Nat /\ Len(said) > 0 /\ Len(front) = Len(said) - 1
      /\ \A i \in 1..(Len(said) - 1) : front[i] = said[i]
      /\ front # <<>> => Len(front) > 0
  <2>1. front \in Seq(Messages)
    BY SubSeqProperties
  <2> QED
    BY <2>1, FrontFacts
<1> HIDE DEF front
<1>2. Answered(front)
  BY <1>1 DEF Answered
<1>3. Spaced(kinds, front)
  BY <1>1 DEF Spaced
<1>4. ASSUME front # <<>>, Calling(front[Len(front)]) PROVE said[Len(said)].role = "toolResult"
  <2>1. /\ Len(said) - 1 \in 1..Len(said) /\ Len(said) - 1 < Len(said)
        /\ Len(said) - 1 + 1 = Len(said) /\ front[Len(front)] = said[Len(said) - 1]
    BY <1>1, <1>4
  <2> QED
    BY <1>4, <2>1 DEF Answered
<1> QED
  BY <1>2, <1>3, <1>4 DEF front

LEMMA GrowsWaits ==
  ASSUME NEW kinds \in Seq(Kinds), NEW k \in Kinds
  PROVE  \A s : Known(kinds, s) =>
           /\ \A i \in 1..Len(s) : IsFollowUp(Append(kinds, k), s[i]) <=> IsFollowUp(kinds, s[i])
           /\ Spaced(kinds, s) => Spaced(Append(kinds, k), s)
           /\ BringsFollowUp(Append(kinds, k), s) => BringsFollowUp(kinds, s)
<1>1. \A i \in 1..Len(kinds) : Append(kinds, k)[i] = kinds[i]
  BY AppendFacts
<1>2. ASSUME NEW s, Known(kinds, s)
      PROVE  \A i \in 1..Len(s) : IsFollowUp(Append(kinds, k), s[i]) <=> IsFollowUp(kinds, s[i])
  BY <1>1, <1>2 DEF Known, IsFollowUp
<1> QED
  BY <1>2 DEF Spaced, BringsFollowUp

\* The live run is the only one with calls to answer or messages to announce.
LEMMA OnlyLiveRun ==
  ASSUME TypeOK, RunRegistry, FlowInv, NEW r \in Runs, pc[r] \in Live
  PROVE  \A s \in Runs \ {r} : pc[s] \notin Live /\ local[s].pending = <<>>
  BY DEF RunRegistry, FlowInv, Live, Looping

LEMMA NoLiveRun ==
  ASSUME TypeOK, RunRegistry, FlowInv, runningPrompt = NoRun
  PROVE  \A s \in Runs : pc[s] \notin Live /\ local[s].pending = <<>>
<1>1. \A s \in Runs : pc[s] \notin Live
  BY BoundsAssumption DEF RunRegistry, Runs, NoRun
<1> QED
  BY <1>1 DEF FlowInv, Live, Looping

LEMMA RestWaits ==
  ASSUME NEW s \in Runs, pc'[s] = pc[s], local'[s] = local[s], pc[s] \notin Live,
         local[s].pending = <<>>
  PROVE  RunWaits(s)'
<1>1. pc[s] \notin {"opening", "tools", "polling", "followUp"}
  BY DEF Live, Looping
<1>2. ~BringsFollowUp(submitted', <<>>)
  BY DEF BringsFollowUp
<1> QED
  BY <1>1, <1>2 DEF RunWaits

\* A step of the live run that writes one message.
LEMMA SpeakWaits ==
  ASSUME TypeOK, RunRegistry, FlowInv, WaitInv, NEW r \in Runs, pc[r] \in Live,
         NEW m \in Messages, messages' = Append(messages, m), submitted' = submitted,
         \A s \in Runs \ {r} : pc'[s] = pc[s] /\ local'[s] = local[s],
         Housekeeping => pc[r] # "tools" \/ m.role = "toolResult",
         IsFollowUp(submitted, m) => Quiet(messages),
         Calling(m) => \E j \in 1..MaxCalls : Waits(r, j)',
         RunWaits(r)'
  PROVE  WaitInv'
<1>1. \A s \in Runs \ {r} : pc[s] \notin Live /\ local[s].pending = <<>>
  BY OnlyLiveRun
<1>2. \A s \in Runs : RunWaits(s)'
  BY <1>1, RestWaits
<1>3. /\ messages' # <<>> /\ messages'[Len(messages')] = m
      /\ Answered(messages) /\ (messages # <<>> /\ Calling(messages[Len(messages)])
                                  => m.role = "toolResult") => Answered(messages')
      /\ Spaced(submitted, messages')
  BY AppendWaits, Transcript DEF WaitInv
<1>4. UnansweredIsLive'
  BY <1>3 DEF UnansweredIsLive, LastMessage
<1>5. ASSUME Housekeeping PROVE Answered(messages')
  <2>1. ASSUME messages # <<>>, Calling(messages[Len(messages)])
        PROVE  m.role = "toolResult"
    <3>1. \E s \in Runs : pc[s] = "tools"
      BY <2>1 DEF WaitInv, UnansweredIsLive, LastMessage, Waits
    <3>2. pc[r] = "tools"
      BY <1>1, <3>1 DEF Live, Looping
    <3> QED
      BY <1>5, <3>2
  <2> QED
    BY <1>3, <1>5, <2>1 DEF WaitInv
<1> QED
  BY <1>2, <1>3, <1>4, <1>5 DEF WaitInv

\* A step of a run that writes nothing and leaves no call behind.
LEMMA StillWaits ==
  ASSUME TypeOK, WaitInv, NEW r \in Runs, messages' = messages, submitted' = submitted,
         \A s \in Runs \ {r} : pc'[s] = pc[s] /\ local'[s] = local[s],
         \A j \in 1..MaxCalls : Waits(r, j) => Waits(r, j)',
         RunWaits(r)'
  PROVE  WaitInv'
<1>1. ASSUME NEW s \in Runs \ {r} PROVE RunWaits(s)'
  <2>1. RunWaits(s) /\ pc'[s] = pc[s] /\ local'[s] = local[s]
    BY DEF WaitInv
  <2> QED
    BY <2>1 DEF RunWaits
<1>2. UnansweredIsLive'
  <2>1. ASSUME NEW s \in Runs, NEW j \in 1..MaxCalls, Waits(s, j) PROVE Waits(s, j)'
    BY <2>1 DEF Waits
  <2> QED
    BY <2>1 DEF WaitInv, UnansweredIsLive, LastMessage
<1> QED
  BY <1>1, <1>2 DEF WaitInv

\* A run that starts with a follow-up finds a quiet transcript.
LEMMA StartWaits ==
  ASSUME TypeOK, RunRegistry, ~Reentrant, FlowInv, WaitInv, NEW r \in Runs, NEW prompts,
         NEW skip, CanStart, StartRun(r, prompts, skip),
         \/ submitted' = submitted
         \/ \E k \in Kinds : submitted' = Append(submitted, k),
         BringsFollowUp(submitted', prompts) => LastIsAssistant
  PROVE  WaitInv'
<1>1. runningPrompt = NoRun /\ messages' = messages
  BY DEF CanStart, StartRun
<1>2. \A s \in Runs : pc[s] \notin Live /\ local[s].pending = <<>>
  BY <1>1, NoLiveRun
<1>3. messages # <<>> => ~Calling(messages[Len(messages)])
  BY <1>2 DEF WaitInv, UnansweredIsLive, LastMessage, Waits, Live, Looping
<1>4. LastIsAssistant => Quiet(messages)
  BY <1>3 DEF LastIsAssistant, LastMessage, Quiet, Settled
<1>5. PICK mode \in ToolModes :
        local' = [local EXCEPT ![r] = LocalsAt(messages, prompts, mode, skip)]
  BY DEF StartRun
<1> DEFINE v == LocalsAt(messages, prompts, mode, skip)
<1>6. v.hasMore = TRUE /\ v.pending = prompts
  BY DEF LocalsAt
<1> HIDE DEF v
<1>7. SetLocal(r, v)
  BY <1>5 DEF v, SetLocal
<1>8. local'[r] = v /\ \A s \in Runs \ {r} : local'[s] = local[s]
  BY <1>7, LocalFacts, Zenon
<1>9. pc'[r] = "opening" /\ \A s \in Runs \ {r} : pc'[s] = pc[s]
  BY OthersStay DEF StartRun
<1>10. RunWaits(r)'
  BY <1>1, <1>4, <1>6, <1>8, <1>9 DEF RunWaits
<1>11. \A s \in Runs : RunWaits(s)'
  BY <1>2, <1>8, <1>9, <1>10, RestWaits
<1>12. Spaced(submitted', messages)
  <2>1. submitted \in Seq(Kinds) /\ Known(submitted, messages)
    BY DEF TypeOK, Kinds, FlowInv, Flow
  <2> QED
    BY <2>1, GrowsWaits DEF WaitInv
<1>13. UnansweredIsLive'
  BY <1>1, <1>3 DEF UnansweredIsLive, LastMessage
<1> QED
  BY <1>1, <1>11, <1>12, <1>13 DEF WaitInv

LEMMA HostWaits ==
  ASSUME TypeOK, RunRegistry, ~Reentrant, FlowInv, WaitInv, HostStep
  PROVE  WaitInv'
<1>1. /\ submitted \in Seq(Kinds) /\ messages \in Seq(Messages)
      /\ Known(submitted, messages)
      /\ OfKind(submitted, steeringQueue, "steer") /\ Known(submitted, steeringQueue)
      /\ OfKind(submitted, followUpQueue, "followUp") /\ Known(submitted, followUpQueue)
      /\ InLine(submitted, steeringQueue) /\ InLine(submitted, followUpQueue)
      /\ steeringQueue \in Seq(UserMessages) /\ followUpQueue \in Seq(UserMessages)
  BY DEF TypeOK, Kinds, FlowInv, Flow
<1>2. ASSUME NEW r \in Runs, Prompt(r) PROVE WaitInv'
  <2> DEFINE n == User(Len(submitted) + 1)
             more == Append(submitted, "prompt")
  <2>1. submitted' = more /\ "prompt" \in Kinds
    BY <1>2 DEF Prompt, Kinds
  <2>2. more[Len(submitted) + 1] = "prompt" /\ n.id = Len(submitted) + 1
    BY <1>1, <2>1, AppendFacts DEF User
  <2>3. ~BringsFollowUp(more, <<n>>)
    <3>1. \A i \in 1..Len(<<n>>) : <<n>>[i] = n
      OBVIOUS
    <3> HIDE DEF n, more
    <3> QED
      BY <2>2, <3>1 DEF BringsFollowUp, IsFollowUp
  <2> QED
    BY <1>2, <2>1, <2>3, StartWaits DEF Prompt, NextId
<1>3. ASSUME NEW r \in Runs, ContinueSteering(r) PROVE WaitInv'
  BY <1>3, StartWaits DEF ContinueSteering
<1>4. ASSUME NEW r \in Runs, ContinueFollowUp(r) PROVE WaitInv'
  BY <1>4, StartWaits DEF ContinueFollowUp
<1>5. ASSUME NEW r \in Runs, ContinueContext(r) PROVE WaitInv'
  <2>1. ~BringsFollowUp(submitted', <<>>)
    BY DEF BringsFollowUp
  <2> QED
    BY <1>5, <2>1, StartWaits DEF ContinueContext
<1>6. CASE Steer \/ FollowUp
  <2>1. PICK k \in Kinds : submitted' = Append(submitted, k)
    BY <1>6 DEF Steer, FollowUp, Kinds
  <2>2. UNCHANGED <<messages, pc, local>>
    BY <1>6 DEF Steer, FollowUp, runVars, agentVars
  <2>3. Spaced(submitted', messages)
    BY <1>1, <2>1, GrowsWaits DEF WaitInv
  <2>4. ASSUME NEW s \in Runs PROVE RunWaits(s)'
    <3>1. Known(submitted, local[s].pending)
      <4>1. CASE local[s].pending = <<>>
        BY <4>1, EmptyLine
      <4>2. CASE local[s].pending # <<>>
        <5>1. pc[s] \in Live
          BY <4>2 DEF FlowInv, Live, Looping
        <5> QED
          BY <5>1, OfLiveRun DEF FlowInv, Flow
      <4> QED
        BY <4>1, <4>2
    <3>2. BringsFollowUp(submitted', local[s].pending) => BringsFollowUp(submitted, local[s].pending)
      BY <1>1, <2>1, <3>1, GrowsWaits
    <3> QED
      BY <2>2, <3>2 DEF WaitInv, RunWaits
  <2>5. UnansweredIsLive'
    BY <2>2 DEF WaitInv, UnansweredIsLive, LastMessage, Waits
  <2> QED
    BY <2>2, <2>3, <2>4, <2>5 DEF WaitInv
<1>7. CASE Abort \/ ClearSteeringQueue \/ ClearFollowUpQueue
  <2>1. UNCHANGED <<messages, pc, local, submitted>>
    BY <1>7 DEF Abort, ClearSteeringQueue, ClearFollowUpQueue, runVars, agentVars, history
  <2> QED
    BY <2>1 DEF WaitInv, RunWaits, UnansweredIsLive, LastMessage, Waits
<1>8. CASE Reset \/ AppendMessage \/ DropFailedResponse
  <2>1. runningPrompt = NoRun /\ UNCHANGED <<pc, local>> /\ Housekeeping
    BY <1>8 DEF Reset, AppendMessage, DropFailedResponse, runVars, Idle
  <2>2. \A s \in Runs : pc[s] \notin Live /\ local[s].pending = <<>>
    BY <2>1, NoLiveRun
  <2>3. \A s \in Runs : RunWaits(s)'
    BY <2>1, <2>2, RestWaits
  <2>4. messages # <<>> => ~Calling(messages[Len(messages)])
    BY <2>2 DEF WaitInv, UnansweredIsLive, LastMessage, Waits, Live, Looping
  <2>5. CASE Reset
    <3>1. messages' = <<>> /\ submitted' = submitted
      BY <2>5 DEF Reset
    <3> QED
      BY <2>3, <3>1 DEF WaitInv, UnansweredIsLive, Answered, Spaced
  <2>6. CASE AppendMessage
    <3> DEFINE n == User(Len(submitted) + 1)
               more == Append(submitted, "append")
    <3>1. submitted' = more /\ "append" \in Kinds /\ messages' = Append(messages, n) /\ n \in Messages
      <4>1. n \in UserMessages
        BY <2>6, NextIdType DEF AppendMessage, NextId
      <4> QED
        BY <2>6, <4>1, MessageTypes DEF AppendMessage, Kinds, NextId
    <3>2. more[Len(submitted) + 1] = "append" /\ n.id = Len(submitted) + 1 /\ n.role = "user"
      BY <1>1, <3>1, AppendFacts DEF User
    <3>3. Spaced(more, messages)
      BY <1>1, <3>1, GrowsWaits DEF WaitInv
    <3> HIDE DEF n, more
    <3>4. ~IsFollowUp(more, n) /\ ~Calling(n)
      BY <3>2 DEF IsFollowUp, Calling
    <3>5. /\ messages' # <<>> /\ messages'[Len(messages')] = n
          /\ Answered(messages') /\ Spaced(more, messages')
      BY <1>1, <2>1, <2>4, <3>1, <3>3, <3>4, AppendWaits DEF WaitInv
    <3>6. UnansweredIsLive'
      BY <3>4, <3>5 DEF UnansweredIsLive, LastMessage
    <3> QED
      BY <2>3, <3>1, <3>5, <3>6 DEF WaitInv
  <2>7. CASE DropFailedResponse
    <3>1. /\ messages # <<>> /\ messages[Len(messages)].role = "assistant"
          /\ messages' = SubSeq(messages, 1, Len(messages) - 1) /\ submitted' = submitted
      BY <2>7 DEF DropFailedResponse, LastIsAssistant, LastMessage, history
    <3>2. /\ Answered(messages') /\ Spaced(submitted, messages')
          /\ messages' # <<>> => ~Calling(messages'[Len(messages')])
      BY <1>1, <2>1, <3>1, FrontWaits DEF WaitInv
    <3>3. UnansweredIsLive'
      BY <3>2 DEF UnansweredIsLive, LastMessage
    <3> QED
      BY <2>3, <3>1, <3>2, <3>3 DEF WaitInv
  <2> QED
    BY <1>8, <2>5, <2>6, <2>7
<1> QED
  BY <1>2, <1>3, <1>4, <1>5, <1>6, <1>7, <1>8 DEF HostStep

LEMMA AnnounceWaits ==
  ASSUME TypeOK, RunRegistry, FlowInv, WaitInv, NEW r \in Runs,
         AnnouncePrompt(r) \/ InjectPending(r)
  PROVE  WaitInv'
<1> DEFINE p == local[r].pending
           m == Head(p)
<1>1. /\ pc[r] \in {"opening", "turn"} /\ p # <<>> /\ pc' = pc /\ submitted' = submitted
      /\ messages' = Append(messages, m)
  BY DEF AnnouncePrompt, InjectPending, UnchangedExceptRun, history
<1>2. /\ \A s \in Runs \ {r} : local'[s] = local[s]
      /\ local'[r].pending = Tail(p) /\ local'[r].hasMore = local[r].hasMore
  BY AnnounceLocal, InjectLocal
<1>3. p \in Seq(UserMessages)
  BY LocalsType
<1>4. m = p[1] /\ 1 \in 1..Len(p) /\ m \in UserMessages
  BY <1>1, <1>3, TailFacts
<1>5. m \in Messages /\ m.role = "user" /\ ~Calling(m)
  BY <1>4, UserFacts, MessageTypes DEF Calling
<1>6. IsFollowUp(submitted, m) => Quiet(messages)
  BY <1>4 DEF WaitInv, RunWaits, BringsFollowUp
<1> HIDE DEF m, p
<1>7. Quiet(messages')
  BY <1>1, <1>5, AppendWaits, Transcript DEF Quiet, Settled
<1>8. RunWaits(r)'
  BY <1>1, <1>2, <1>7 DEF WaitInv, RunWaits
<1> QED
  BY <1>1, <1>2, <1>5, <1>6, <1>8, SpeakWaits DEF Live, Looping

LEMMA PollWaits ==
  ASSUME TypeOK, RunRegistry, FlowInv, WaitInv, NEW r \in Runs, PollSteering(r) \/ PollFollowUp(r)
  PROVE  WaitInv'
<1>1. /\ messages' = messages /\ submitted' = submitted
      /\ pc[r] \in {"opening", "polling", "followUp"}
      /\ \A j \in 1..MaxCalls : ~Waits(r, j)
  BY DEF PollSteering, PollFollowUp, agentVars, UnchangedExceptRun, history, Waits
<1>2. CASE PollSteering(r)
  <2>1. PICK mode \in QueueModes :
          LET polled == IF local[r].skipPoll THEN <<>> ELSE Dequeued(steeringQueue, mode) IN
          /\ SetLocal(r, [local[r] EXCEPT !.pending = polled, !.skipPoll = FALSE])
          /\ Goto(r, IF local[r].hasMore \/ polled # <<>> THEN "turn" ELSE "followUp")
    BY <1>2 DEF PollSteering
  <2> DEFINE q == IF local[r].skipPoll THEN <<>> ELSE Dequeued(steeringQueue, mode)
  <2>2. ~BringsFollowUp(submitted, q)
    <3>1. OfKind(submitted, Dequeued(steeringQueue, mode), "steer")
      BY TakesFromQueue DEF TypeOK, FlowInv, Flow
    <3>2. OfKind(submitted, q, "steer")
      BY <3>1, EmptyLine
    <3> HIDE DEF q
    <3> QED
      BY <3>2 DEF OfKind, BringsFollowUp, IsFollowUp
  <2>3. pc[r] = "followUp" => FALSE
    BY <1>2 DEF PollSteering
  <2> HIDE DEF q
  <2>4. /\ \A s \in Runs \ {r} : local'[s] = local[s]
        /\ local'[r].pending = q /\ local'[r].hasMore = local[r].hasMore
    <3>1. SetLocal(r, [local[r] EXCEPT !.pending = q, !.skipPoll = FALSE])
      BY <2>1 DEF q
    <3> QED
      BY <3>1, PollSteeringLocal
  <2>5. /\ pc'[r] = IF local[r].hasMore \/ q # <<>> THEN "turn" ELSE "followUp"
        /\ \A s \in Runs \ {r} : pc'[s] = pc[s]
    BY <2>1, OthersStay DEF Goto, q
  <2>6. RunWaits(r)'
    BY <1>1, <2>2, <2>3, <2>4, <2>5 DEF WaitInv, RunWaits
  <2> QED
    BY <1>1, <2>4, <2>5, <2>6, StillWaits
<1>3. CASE PollFollowUp(r)
  <2>1. PICK q : SetLocal(r, [local[r] EXCEPT !.pending = q])
    BY <1>3 DEF PollFollowUp
  <2>2. \A s \in Runs \ {r} : local'[s] = local[s]
    BY <2>1, PollFollowUpLocal
  <2>3. pc'[r] \in {"turn", "ending"} /\ \A s \in Runs \ {r} : pc'[s] = pc[s]
    BY <1>3, OthersStay DEF PollFollowUp, Goto
  <2>4. Quiet(messages)
    BY <1>3 DEF PollFollowUp, WaitInv, RunWaits
  <2>5. RunWaits(r)'
    BY <1>1, <2>3, <2>4 DEF RunWaits
  <2> QED
    BY <1>1, <2>2, <2>3, <2>5, StillWaits
<1> QED
  BY <1>2, <1>3

LEMMA RespondWaits ==
  ASSUME TypeOK, RunRegistry, FlowInv, WaitInv, NEW r \in Runs, StreamEnd(r)
  PROVE  WaitInv'
<1>1. PICK stop \in StopReasons, n \in 0..MaxCalls : Responds(r, stop, n)
  BY StreamEndLocal
<1> DEFINE m == Assistant(r, local[r].turn + 1, n, stop)
<1>2. /\ m \in Messages /\ messages' = Append(messages, m)
      /\ \A s \in Runs \ {r} : local'[s] = local[s]
      /\ local'[r].pending = local[r].pending /\ local'[r].hasMore = (n > 0)
      /\ \A i \in 1..MaxCalls :
           local'[r].calls[i] = IF stop = "ok" /\ i <= n THEN "todo" ELSE "none"
  BY <1>1 DEF Responds
<1> DEFINE p == IF stop = "ok" THEN "tools" ELSE "failedTurn"
<1>3. pc'[r] = p /\ \A s \in Runs \ {r} : pc'[s] = pc[s]
  <2>1. pc' = [pc EXCEPT ![r] = p]
    BY <1>1 DEF Responds
  <2> HIDE DEF p
  <2> QED
    BY <2>1, OthersStay
<1>4. m.role = "assistant" /\ m.calls = n /\ m.stop = stop
  BY DEF Assistant
<1>5. pc[r] \in {"turn", "streaming"} /\ local[r].pending = <<>> /\ submitted' = submitted
  BY DEF StreamEnd, AtRequest, FlowInv, UnchangedExceptRun, history
<1>6. ASSUME Calling(m) PROVE \E j \in 1..MaxCalls : Waits(r, j)'
  <2>1. stop = "ok" /\ 1 <= n /\ 1 \in 1..MaxCalls
    BY <1>4, <1>6, BoundsAssumption DEF Calling
  <2>2. Waits(r, 1)'
    BY <1>2, <1>3, <2>1 DEF Waits
  <2> QED
    BY <2>1, <2>2
<1> HIDE DEF m
<1>7. n = 0 => Quiet(messages')
  BY <1>2, <1>4, AppendWaits, Transcript DEF Quiet, Settled, Calling
<1>8. ~BringsFollowUp(submitted, <<>>)
  BY DEF BringsFollowUp
<1>9. ~(n > 0) => n = 0 /\ \A i \in 1..MaxCalls : ~(i <= n)
  BY BoundsAssumption
<1>10. RunWaits(r)'
  BY <1>2, <1>3, <1>5, <1>7, <1>8, <1>9 DEF RunWaits
<1>11. ~IsFollowUp(submitted, m)
  BY <1>4 DEF IsFollowUp
<1> QED
  BY <1>2, <1>3, <1>5, <1>6, <1>10, <1>11, SpeakWaits DEF Live, Looping

LEMMA OutcomeWaits ==
  ASSUME TypeOK, RunRegistry, FlowInv, WaitInv, NEW r \in Runs, NEW i \in 1..MaxCalls,
         ToolRefused(r, i) \/ Finalize(r, i)
  PROVE  WaitInv'
<1> DEFINE m == ToolResult(r, local[r].turn, i)
<1>1. /\ EmitOutcome(r, i) /\ pc[r] = "tools" /\ pc' = pc /\ submitted' = submitted
      /\ local[r].calls[i] # "none" /\ local[r].pending = <<>>
  BY DEF ToolRefused, Finalize, Awaited, Executing, CallState, EmitOutcome, UnchangedExceptRun,
         history, FlowInv
<1>2. CallMoves(r, i, "ended") /\ messages' = Append(messages, m) /\ m \in Messages
  BY <1>1, OutcomeLocal
<1>3. m.role = "toolResult" /\ ~Calling(m) /\ ~IsFollowUp(submitted, m)
  BY DEF ToolResult, Calling, IsFollowUp
<1>4. local'[r].hasMore /\ local'[r].pending = <<>>
  BY <1>1, <1>2 DEF CallMoves, WaitInv, RunWaits
<1>5. ~BringsFollowUp(submitted, <<>>)
  BY DEF BringsFollowUp
<1>6. RunWaits(r)'
  BY <1>1, <1>4, <1>5 DEF RunWaits
<1>7. \A s \in Runs \ {r} : local'[s] = local[s]
  BY <1>2 DEF CallMoves
<1> HIDE DEF m
<1> QED
  BY <1>1, <1>2, <1>3, <1>6, <1>7, SpeakWaits DEF Live, Looping

\* A call moves on: the response it belongs to still has a call without a result.
LEMMA ProgressWaits ==
  ASSUME TypeOK, WaitInv, NEW r \in Runs,
         \/ Launch(r)
         \/ \E i \in 1..MaxCalls : ToolStart(r, i) \/ ToolPrepared(r, i) \/ ToolSettles(r, i)
  PROVE  WaitInv'
<1>1. /\ pc' = pc /\ messages' = messages /\ submitted' = submitted
      /\ \E i \in 1..MaxCalls : local[r].calls[i] # "none"
  BY DEF Launch, ToolStart, ToolPrepared, ToolSettles, agentVars, UnchangedExceptRun, history,
         CallState
<1>2. /\ \A s \in Runs \ {r} : local'[s] = local[s]
      /\ local'[r].pending = local[r].pending /\ local'[r].hasMore = local[r].hasMore
      /\ \A j \in 1..MaxCalls : local[r].calls[j] \notin {"none", "ended"} =>
           local'[r].calls[j] \notin {"none", "ended"}
  <2>1. CASE Launch(r)
    BY <2>1, LaunchLocal
  <2>2. ASSUME NEW i \in 1..MaxCalls, ToolStart(r, i) \/ ToolPrepared(r, i) \/ ToolSettles(r, i)
        PROVE  <1>2
    <3>1. PICK state \in {"started", "running", "ready", "settled"} :
            SetLocal(r, SetCall(r, i, state))
      BY <2>2 DEF ToolStart, ToolPrepared, ToolSettles
    <3> QED
      BY <3>1, CallLocal DEF CallMoves
  <2> QED
    BY <2>1, <2>2
<1>3. RunWaits(r)'
  BY <1>1, <1>2 DEF WaitInv, RunWaits
<1>4. \A j \in 1..MaxCalls : Waits(r, j) => Waits(r, j)'
  BY <1>1, <1>2 DEF Waits
<1> QED
  BY <1>1, <1>2, <1>3, <1>4, StillWaits

LEMMA LeaveWaits ==
  ASSUME TypeOK, RunRegistry, FlowInv, WaitInv, ~(HooksThrow /\ Housekeeping), NEW r \in Runs,
         \/ StreamStart(r) \/ FailedTurnEnd(r) \/ TurnEnd(r) \/ AgentEnd(r) \/ Unwind(r)
         \/ RunThrows(r)
  PROVE  WaitInv'
<1>1. /\ \A s \in Runs \ {r} : local'[s] = local[s]
      /\ local'[r].pending = local[r].pending /\ local'[r].hasMore = local[r].hasMore
  BY QuietLocal, TurnEndLocal
<1>2. PICK p \in {"streaming", "ending", "polling", "unwinding", "done"} :
        pc' = [pc EXCEPT ![r] = p] /\ (p = "polling" => pc[r] = "tools")
  BY DEF StreamStart, FailedTurnEnd, TurnEnd, AgentEnd, Unwind, RunThrows, Finally, Goto, Executing
<1>3. pc'[r] = p /\ \A s \in Runs \ {r} : pc'[s] = pc[s]
  BY <1>2, OthersStay
<1>4. submitted' = submitted
  BY DEF StreamStart, FailedTurnEnd, TurnEnd, AgentEnd, Unwind, RunThrows, UnchangedExceptRun, history
<1>5. CASE ~RunThrows(r)
  <2>1. messages' = messages
    BY <1>5 DEF StreamStart, FailedTurnEnd, TurnEnd, AgentEnd, Unwind, agentVars
  <2>2. \A j \in 1..MaxCalls : ~Waits(r, j)
    BY <1>5 DEF StreamStart, FailedTurnEnd, TurnEnd, AgentEnd, Unwind, AtRequest, Waits, CallState
  <2>3. RunWaits(r)'
    BY <1>1, <1>2, <1>3, <1>4, <2>1 DEF WaitInv, RunWaits
  <2> QED
    BY <1>1, <1>3, <1>4, <2>1, <2>2, <2>3, StillWaits
<1>6. CASE RunThrows(r)
  <2> DEFINE m == Failure(r, IF abortController \in aborted THEN "aborted" ELSE "error")
  <2>1. messages' = Append(messages, m) /\ HooksThrow
    BY <1>6 DEF RunThrows
  <2>2. m.role = "assistant" /\ m.stop # "ok"
    BY DEF Failure, Assistant
  <2>3. m \in Messages
    BY BoundsAssumption, MessageTypes
       DEF Failure, Assistant, AssistantMessages, StopReasons
  <2>4. pc[r] \in Live /\ local[r].pending = <<>> /\ p = "done"
    <3>1. pc'[r] = "done"
      BY <1>6, OthersStay DEF RunThrows, Finally, Goto
    <3> QED
      BY <1>3, <1>6, <3>1 DEF RunThrows, AtRequest, Awaited, Executing, FlowInv, Live, Looping
  <2> HIDE DEF m
  <2>5. ~Calling(m) /\ ~IsFollowUp(submitted, m)
    BY <2>2 DEF Calling, IsFollowUp
  <2>6. ~BringsFollowUp(submitted, <<>>)
    BY DEF BringsFollowUp
  <2>7. RunWaits(r)'
    BY <1>1, <1>3, <1>4, <2>4, <2>6 DEF RunWaits
  <2>8. ~Housekeeping
    BY <2>1
  <2> QED
    BY <1>1, <1>3, <1>4, <2>1, <2>3, <2>4, <2>5, <2>7, <2>8, SpeakWaits
<1> QED
  BY <1>5, <1>6

LEMMA WaitStep ==
  ASSUME TypeOK, RunRegistry, ~Reentrant, ~(HooksThrow /\ Housekeeping), FlowInv, WaitInv,
         [Next]_vars
  PROVE  WaitInv'
<1>1. CASE HostStep
  BY <1>1, HostWaits
<1>2. ASSUME NEW r \in Runs, LoopStep(r) \/ ToolStep(r)
      PROVE  WaitInv'
  <2>1. CASE AnnouncePrompt(r) \/ InjectPending(r) \/ PollSteering(r) \/ PollFollowUp(r) \/ StreamEnd(r)
    BY <2>1, AnnounceWaits, PollWaits, RespondWaits
  <2>2. ASSUME NEW i \in 1..MaxCalls, ToolRefused(r, i) \/ Finalize(r, i)
        PROVE  WaitInv'
    BY <2>2, OutcomeWaits
  <2>3. CASE \/ Launch(r)
             \/ \E i \in 1..MaxCalls : ToolStart(r, i) \/ ToolPrepared(r, i) \/ ToolSettles(r, i)
    BY <2>3, ProgressWaits
  <2>4. CASE \/ StreamStart(r) \/ FailedTurnEnd(r) \/ TurnEnd(r) \/ AgentEnd(r) \/ Unwind(r)
             \/ RunThrows(r)
    BY <2>4, LeaveWaits
  <2> QED
    BY <1>2, <2>1, <2>2, <2>3, <2>4 DEF LoopStep, ToolStep
<1>3. CASE UNCHANGED vars
  BY <1>3 DEF vars, WaitInv, RunWaits, UnansweredIsLive, LastMessage, Waits
<1> QED
  BY <1>1, <1>2, <1>3 DEF Next

LEMMA ResponseCalls ==
  ASSUME NEW m \in Messages, m.role = "assistant"
  PROVE  m.calls \in Nat
<1>1. m \in AssistantMessages
  <2>1. ASSUME m \in UserMessages PROVE FALSE
    BY <2>1 DEF UserMessages, User
  <2>2. ASSUME m \in ToolResults PROVE FALSE
    BY <2>2 DEF ToolResults
  <2> QED
    BY <2>1, <2>2 DEF Messages
<1>2. m.calls \in 0..MaxCalls
  BY <1>1 DEF AssistantMessages
<1> QED
  BY <1>2, BoundsAssumption

LEMMA WaitInit == Init => WaitInv
<1> SUFFICES ASSUME Init PROVE WaitInv
  OBVIOUS
<1>1. messages = <<>> /\ 1..Len(messages) = {}
  BY DEF Init
<1>2. ASSUME NEW r \in Runs PROVE RunWaits(r)
  <2>1. pc[r] = "unused" /\ local[r].pending = <<>>
    BY DEF Init, NoLocals, LocalsAt
  <2>2. ~BringsFollowUp(submitted, <<>>)
    BY DEF BringsFollowUp
  <2> QED
    BY <2>1, <2>2 DEF RunWaits
<1> QED
  BY <1>1, <1>2 DEF WaitInv, UnansweredIsLive, Answered, Spaced

\* A follow-up message never enters the transcript behind a tool result or a
\* response with calls to execute, whether a run polls it or continue() starts one
\* with it. (It may where hooks throw and the host drops the failures they leave:
\* a response with unanswered calls then becomes the last message.)
THEOREM FollowUpsWaitForQuiet ==
  ASSUME ~Reentrant, ~(HooksThrow /\ Housekeeping)
  PROVE  Spec => []FollowUpsWait
<1>1. Init => WaitInv
  BY WaitInit
<1>2. TypeOK /\ RunRegistry /\ FlowInv /\ WaitInv /\ [Next]_vars => WaitInv'
  BY WaitStep
<1>3. ASSUME TypeOK, WaitInv PROVE FollowUpsWait
  <2> SUFFICES ASSUME NEW i \in DOMAIN messages, messages[i].role = "user",
                      submitted[messages[i].id] = "followUp", i > 1
               PROVE  \/ messages[i - 1].role = "user"
                      \/ messages[i - 1].role = "assistant"
                         /\ (messages[i - 1].calls = 0 \/ messages[i - 1].stop # "ok")
    BY DEF FollowUpsWait
  <2>1. i \in 1..Len(messages) /\ i - 1 \in 1..Len(messages)
    BY <1>3, Transcript
  <2>2. Settled(messages[i - 1])
    BY <1>3, <2>1 DEF WaitInv, Spaced, IsFollowUp
  <2>3. messages[i - 1].role = "assistant" => messages[i - 1].calls \in Nat
    BY <1>3, <2>1, Transcript, ResponseCalls
  <2> QED
    BY <2>2, <2>3 DEF Settled, Calling
<1> QED
  BY <1>1, <1>2, <1>3, FlowAlways, PTL DEF Spec

-----------------------------------------------------------------------------
(* Facts about numbers, and functions defined step by step.                *)

LEMMA Least ==
  ASSUME NEW S \in SUBSET Nat, S # {}
  PROVE  \E m \in S : \A y \in S : m <= y
<1> DEFINE Less == OpToRel(<, Nat)
<1>1. IsWellFoundedOn(Less, Nat)
  BY NatLessThanWellFounded, Zenon
<1>2. \A x, y \in Nat : x < y => <<x, y>> \in Less
  BY DEF OpToRel
<1>3. PICK x \in S : \A y \in S : ~ (<<y, x>> \in Less)
  <2> HIDE DEF Less
  <2> QED BY <1>1, WFMin, Zenon
<1>4. \A y \in S : ~(y < x)
  <2> HIDE DEF Less
  <2> QED BY <1>2, <1>3
<1> QED BY <1>4

\* What holds of 0 and is handed on up to n holds of n. (A set stands for the
\* property.)
LEMMA UpTo ==
  ASSUME NEW n \in Nat, NEW T, 0 \in T, \A m \in 0..(n - 1) : m \in T => m + 1 \in T
  PROVE  \A m \in 0..n : m \in T
<1> DEFINE Bad == {m \in 0..n : m \notin T}
<1> SUFFICES ASSUME Bad # {} PROVE FALSE
  OBVIOUS
<1>1. Bad \in SUBSET Nat
  OBVIOUS
<1>2. PICK m \in Bad : \A y \in Bad : m <= y
  BY <1>1, Least
<1>3. m \in 1..n /\ m - 1 \in 0..(n - 1) /\ m - 1 \notin Bad
  BY <1>2
<1> QED BY <1>3

\* A function that starts at a given value and whose every value comes from the
\* one before exists.
LEMMA Iterated ==
  ASSUME NEW S, NEW base \in S, NEW n \in Nat, NEW F \in [1..n -> [S -> S]]
  PROVE  \E g \in [0..n -> S] : g[0] = base /\ \A k \in 1..n : g[k] = F[k][g[k - 1]]
<1> DEFINE Is(m, g) == /\ g \in [0..m -> S] /\ g[0] = base
                       /\ \A k \in 1..m : g[k] = F[k][g[k - 1]]
           T == {m \in 0..n : \E g : Is(m, g)}
<1>1. 0 \in T
  <2> DEFINE g == [k \in 0..0 |-> base]
  <2>1. Is(0, g)
    OBVIOUS
  <2> HIDE DEF Is, g
  <2> QED BY <2>1
<1>2. \A m \in 0..(n - 1) : m \in T => m + 1 \in T
  <2> SUFFICES ASSUME NEW m \in 0..(n - 1), m \in T PROVE m + 1 \in T
    OBVIOUS
  <2>1. PICK g : Is(m, g)
    OBVIOUS
  <2> DEFINE h == [k \in 0..(m + 1) |-> IF k <= m THEN g[k] ELSE F[m + 1][g[m]]]
  <2>2. F[m + 1] \in [S -> S] /\ g[m] \in S
    BY <2>1
  <2>3. h \in [0..(m + 1) -> S]
    BY <2>1, <2>2
  <2>4. h[0] = base /\ h[m + 1] = F[m + 1][h[m]]
    BY <2>1
  <2>5. \A k \in 1..m : h[k] = g[k] /\ h[k - 1] = g[k - 1]
    OBVIOUS
  <2>6. ASSUME NEW k \in 1..(m + 1) PROVE h[k] = F[k][h[k - 1]]
    <3> HIDE DEF h
    <3>1. CASE k = m + 1
      BY <3>1, <2>4
    <3>2. CASE k \in 1..m
      BY <3>2, <2>1, <2>5
    <3> QED BY <3>1, <3>2
  <2>7. Is(m + 1, h)
    <3> HIDE DEF h
    <3> QED BY <2>3, <2>4, <2>6
  <2> HIDE DEF Is, h
  <2> QED BY <2>7
<1>3. n \in T
  <2> HIDE DEF T
  <2>1. \A m \in 0..n : m \in T
    BY <1>1, <1>2, UpTo, Zenon
  <2> QED BY <2>1
<1> QED BY <1>3

-----------------------------------------------------------------------------
(* The types of requests, and the recursive functions.                     *)

NoResults == [role : {"noResult"}, run : Runs, turn : Nat, call : 1..MaxCalls]
Requested == Messages \cup NoResults
States == [request : Seq(Requested), pendingToolCalls : Seq(ToolResults),
           existing : SUBSET ToolResults]

LEMMA RequestedFacts ==
  ASSUME NEW m \in Requested
  PROVE  /\ m.role \in {"user", "assistant", "toolResult", "noResult"}
         /\ m.role = "assistant" =>
              m.run \in Runs /\ m.turn \in Nat /\ m.calls \in 0..MaxCalls /\ m.stop \in StopReasons
         /\ m.role \in {"toolResult", "noResult"} =>
              m.run \in Runs /\ m.turn \in Nat /\ m.call \in 1..MaxCalls
         /\ m.role = "toolResult" => m \in ToolResults /\ m = ToolResult(m.run, m.turn, m.call)
BY DEF Requested, NoResults, Messages, UserMessages, User, AssistantMessages, ToolResults, ToolResult

LEMMA MessagesAreRequested == Messages \subseteq Requested
BY DEF Requested

\* What a request may be appended to.
LEMMA AppendRequest ==
  ASSUME NEW q \in Seq(Requested), NEW x \in Requested
  PROVE  /\ Append(q, x) \in Seq(Requested)
         /\ Len(q) \in Nat /\ DOMAIN q = 1..Len(q) /\ \A i \in 1..Len(q) : q[i] \in Requested
         /\ Len(Append(q, x)) = Len(q) + 1 /\ Append(q, x)[Len(q) + 1] = x
         /\ \A i \in 1..Len(q) : Append(q, x)[i] = q[i]
         /\ DOMAIN Append(q, x) = 1..(Len(q) + 1)
OBVIOUS

LEMMA NoResultType ==
  ASSUME NEW call \in ToolResults
  PROVE  /\ NoResult(call) \in Requested /\ NoResult(call).role = "noResult"
         /\ NoResult(call).run = call.run /\ NoResult(call).turn = call.turn
         /\ NoResult(call).call = call.call
BY DEF NoResult, ToolResults, Requested, NoResults

LEMMA CallsOfFacts ==
  ASSUME NEW m \in Requested, m.role = "assistant"
  PROVE  /\ CallsOf(m) \in Seq(ToolResults) /\ Len(CallsOf(m)) = m.calls
         /\ \A c \in 1..m.calls : CallsOf(m)[c] = ToolResult(m.run, m.turn, c)
<1>1. m.run \in Runs /\ m.turn \in Nat /\ m.calls \in 0..MaxCalls /\ m.calls \in Nat
  BY RequestedFacts, BoundsAssumption
<1>2. \A c \in 1..m.calls : ToolResult(m.run, m.turn, c) \in ToolResults
  <2> SUFFICES ASSUME NEW c \in 1..m.calls PROVE ToolResult(m.run, m.turn, c) \in ToolResults
    OBVIOUS
  <2>1. c \in 1..MaxCalls
    BY <1>1, BoundsAssumption
  <2> QED BY <1>1, <2>1 DEF ToolResult, ToolResults
<1> QED BY <1>1, <1>2 DEF CallsOf

\* The made-up results, one by one.
FlushStep(s, g, n) ==
  g[n] = IF IsOrphaned(s, s.pendingToolCalls[n])
           THEN Append(g[n - 1], NoResult(s.pendingToolCalls[n])) ELSE g[n - 1]

LEMMA FlushFacts ==
  ASSUME NEW s \in States
  PROVE  \E g \in [0..Len(s.pendingToolCalls) -> Seq(Requested)] :
           /\ g[0] = s.request
           /\ \A n \in 1..Len(s.pendingToolCalls) : FlushStep(s, g, n)
           /\ Flushed(s) = [request |-> g[Len(s.pendingToolCalls)], pendingToolCalls |-> <<>>,
                            existing |-> {}]
<1> DEFINE calls == s.pendingToolCalls
           N == Len(calls)
           Q == Seq(Requested)
           F == [n \in 1..N |-> [q \in Q |->
                   IF IsOrphaned(s, calls[n]) THEN Append(q, NoResult(calls[n])) ELSE q]]
           Is(g) == g = [n \in 0..N |->
                      IF n = 0 THEN s.request
                      ELSE IF IsOrphaned(s, calls[n])
                             THEN Append(g[n - 1], NoResult(calls[n])) ELSE g[n - 1]]
           chosen == CHOOSE g : Is(g)
<1>1. calls \in Seq(ToolResults) /\ s.request \in Q /\ N \in Nat
      /\ \A n \in 1..N : calls[n] \in ToolResults
  BY DEF States
<1>2. F \in [1..N -> [Q -> Q]]
  <2>1. ASSUME NEW n \in 1..N, NEW q \in Q
        PROVE  (IF IsOrphaned(s, calls[n]) THEN Append(q, NoResult(calls[n])) ELSE q) \in Q
    <3> HIDE DEF calls, N
    <3> QED BY <1>1, NoResultType, AppendRequest
  <2> HIDE DEF Q, N
  <2> QED BY <2>1
<1>3. PICK g \in [0..N -> Q] : g[0] = s.request /\ \A n \in 1..N : g[n] = F[n][g[n - 1]]
  <2>1. PICK S, base, m, G : S = Q /\ base = s.request /\ m = N /\ G = F
    OBVIOUS
  <2>2. m \in Nat /\ base \in S /\ G \in [1..m -> [S -> S]]
    BY <1>1, <1>2, <2>1
  <2>3. \E g \in [0..m -> S] : g[0] = base /\ \A n \in 1..m : g[n] = G[n][g[n - 1]]
    BY <2>2, Iterated, SMTT(30)
  <2> HIDE DEF F, N, Q
  <2> QED BY <2>1, <2>3
<1>4. ASSUME NEW n \in 1..N
      PROVE  g[n] = IF IsOrphaned(s, calls[n])
                      THEN Append(g[n - 1], NoResult(calls[n])) ELSE g[n - 1]
  <2>1. g[n - 1] \in Q /\ g[n] = F[n][g[n - 1]]
    <3> HIDE DEF F, Q, N
    <3> QED BY <1>1, <1>3
  <2> QED BY <2>1
<1>5. Is(g)
  <2> HIDE DEF F, Q, calls
  <2>1. \A n \in 0..N : g[n] = IF n = 0 THEN s.request
                        ELSE IF IsOrphaned(s, calls[n])
                             THEN Append(g[n - 1], NoResult(calls[n])) ELSE g[n - 1]
    <3> SUFFICES ASSUME NEW n \in 0..N
                 PROVE  g[n] = IF n = 0 THEN s.request
                        ELSE IF IsOrphaned(s, calls[n])
                             THEN Append(g[n - 1], NoResult(calls[n])) ELSE g[n - 1]
      OBVIOUS
    <3> HIDE DEF N
    <3>1. n = 0 \/ n \in 1..N
      BY <1>1
    <3>2. CASE n = 0
      BY <1>3, <3>2
    <3>3. CASE n \in 1..N
      <4>1. n # 0
        BY <3>3
      <4> QED BY <3>3, <4>1, <1>4
    <3> QED BY <3>1, <3>2, <3>3
  <2>2. g = [n \in 0..N |-> g[n]]
    BY <1>3
  <2> QED BY <2>1, <2>2
<1>6. Is(chosen)
  <2> HIDE DEF Is
  <2> QED BY <1>5
<1>7. Flushed(s) = [Nothing EXCEPT !.request = chosen[N]]
  BY DEF Flushed
<1>8. Flushed(s) = [request |-> chosen[N], pendingToolCalls |-> <<>>, existing |-> {}]
  <2> HIDE DEF chosen, N
  <2> QED BY <1>7 DEF Nothing
<1>9. chosen[0] = s.request /\ \A n \in 1..N : FlushStep(s, chosen, n)
  <2>1. PICK h : h = chosen
    OBVIOUS
  <2>2. Is(h)
    BY <1>6, <2>1
  <2>3. h[0] = s.request
    BY <1>1, <2>2
  <2>4. \A n \in 1..N : h[n] = IF IsOrphaned(s, calls[n])
                                 THEN Append(h[n - 1], NoResult(calls[n])) ELSE h[n - 1]
    <3> SUFFICES ASSUME NEW n \in 1..N
                 PROVE  h[n] = IF IsOrphaned(s, calls[n])
                                 THEN Append(h[n - 1], NoResult(calls[n])) ELSE h[n - 1]
      OBVIOUS
    <3> HIDE DEF N, calls, chosen
    <3>1. n \in 0..N /\ n # 0
      BY <1>1
    <3> QED BY <2>2, <3>1
  <2> HIDE DEF chosen
  <2> QED BY <2>1, <2>3, <2>4 DEF FlushStep
<1>10. chosen \in [0..N -> Q]
  <2> DEFINE T == {n \in 0..N : chosen[n] \in Q}
  <2>1. 0 \in T
    <3> HIDE DEF chosen, Q
    <3> QED BY <1>1, <1>9
  <2>2. \A n \in 0..(N - 1) : n \in T => n + 1 \in T
    <3> SUFFICES ASSUME NEW n \in 0..(N - 1), n \in T PROVE n + 1 \in T
      OBVIOUS
    <3>0. chosen[n] \in Q
      OBVIOUS
    <3> HIDE DEF chosen, calls, N, Q
    <3>1. n + 1 \in 1..N /\ (n + 1) - 1 = n /\ n + 1 \in 0..N
      BY <1>1
    <3>2. FlushStep(s, chosen, n + 1) /\ calls[n + 1] \in ToolResults
      BY <3>1, <1>1, <1>9
    <3>3. chosen[n + 1] \in Q
      BY <3>0, <3>1, <3>2, NoResultType, AppendRequest DEF FlushStep, calls, Q
    <3> QED BY <3>1, <3>3
  <2>3. \A n \in 0..N : n \in T
    <3> HIDE DEF T
    <3> QED BY <1>1, <2>1, <2>2, UpTo, Zenon
  <2>4. PICK h : Is(h) /\ h = chosen
    <3> HIDE DEF Is, chosen
    <3> QED BY <1>6
  <2>5. h = [n \in 0..N |-> h[n]]
    <3> HIDE DEF chosen
    <3> QED BY <2>4
  <2>6. \A n \in 0..N : h[n] \in Q
    <3> HIDE DEF chosen, Q, Is
    <3> QED BY <2>3, <2>4
  <2>7. h \in [0..N -> Q]
    <3> HIDE DEF chosen, Q, Is, N
    <3> QED BY <2>5, <2>6
  <2> HIDE DEF Is, chosen
  <2> QED BY <2>4, <2>7
<1> HIDE DEF chosen, Is, F
<1> QED BY <1>8, <1>9, <1>10 DEF N, Q, calls

\* What the pass makes of one more message.
LEMMA WithFacts ==
  ASSUME NEW s \in States, NEW m \in Messages
  PROVE  /\ Flushed(s) \in States /\ With(s, m) \in States
         /\ Flushed(s).pendingToolCalls = <<>> /\ Flushed(s).existing = {}
         /\ m.role = "user" =>
              With(s, m) = [request |-> Append(Flushed(s).request, m), pendingToolCalls |-> <<>>,
                            existing |-> {}]
         /\ m.role = "assistant" /\ Failed(m) => With(s, m) = Flushed(s)
         /\ m.role = "assistant" /\ ~Failed(m) =>
              With(s, m) = [request |-> Append(Flushed(s).request, m),
                            pendingToolCalls |-> CallsOf(m), existing |-> {}]
         /\ m.role = "toolResult" =>
              With(s, m) = [request |-> Append(s.request, m),
                            pendingToolCalls |-> s.pendingToolCalls,
                            existing |-> s.existing \cup {m}]
<1>1. m \in Requested /\ m.role \in {"user", "assistant", "toolResult"}
  BY MessagesAreRequested, MessageRoles
<1>2. PICK q \in Seq(Requested) :
        Flushed(s) = [request |-> q, pendingToolCalls |-> <<>>, existing |-> {}]
  <2>1. Len(s.pendingToolCalls) \in 0..Len(s.pendingToolCalls)
    BY DEF States
  <2> QED BY <2>1, FlushFacts
<1>3. <<>> \in Seq(ToolResults)
  OBVIOUS
<1>4. Flushed(s) \in States
  BY <1>2, <1>3 DEF States
<1>5. Append(q, m) \in Seq(Requested) /\ Append(s.request, m) \in Seq(Requested)
  BY <1>1, AppendRequest DEF States
<1>6. CASE m.role = "user"
  <2>1. With(s, m) = WithUser(s, m)
    BY <1>6 DEF With
  <2>2. WithUser(s, m) = [Nothing EXCEPT !.request = Append(q, m)]
    BY <1>2 DEF WithUser
  <2>3. With(s, m) = [request |-> Append(q, m), pendingToolCalls |-> <<>>, existing |-> {}]
    BY <2>1, <2>2 DEF Nothing
  <2>4. With(s, m) \in States
    BY <1>3, <1>5, <2>3 DEF States
  <2> QED BY <1>2, <1>4, <1>6, <2>3, <2>4
<1>7. CASE m.role = "assistant"
  <2>1. With(s, m) = WithResponse(s, m)
    BY <1>7 DEF With
  <2>2. CASE Failed(m)
    <3>1. With(s, m) = Flushed(s)
      BY <2>1, <2>2 DEF WithResponse
    <3> QED BY <1>2, <1>4, <1>7, <2>2, <3>1
  <2>3. CASE ~Failed(m)
    <3>1. With(s, m) = [request |-> Append(q, m), pendingToolCalls |-> CallsOf(m), existing |-> {}]
      BY <1>2, <2>1, <2>3 DEF WithResponse
    <3>2. CallsOf(m) \in Seq(ToolResults)
      BY <1>1, <1>7, CallsOfFacts
    <3>3. With(s, m) \in States
      BY <1>5, <3>1, <3>2 DEF States
    <3> QED BY <1>2, <1>4, <1>7, <2>3, <3>1, <3>3
  <2> QED BY <2>2, <2>3
<1>8. CASE m.role = "toolResult"
  <2>1. With(s, m) = WithResult(s, m)
    BY <1>8 DEF With
  <2>2. With(s, m) = [request |-> Append(s.request, m), pendingToolCalls |-> s.pendingToolCalls,
                      existing |-> s.existing \cup {m}]
    BY <2>1 DEF WithResult, States
  <2>3. m \in ToolResults
    BY <1>1, <1>8, RequestedFacts
  <2>4. With(s, m) \in States
    BY <1>5, <2>2, <2>3 DEF States
  <2> QED BY <1>2, <1>4, <1>8, <2>2, <2>4
<1> QED BY <1>1, <1>6, <1>7, <1>8

\* The pass, message by message.
LEMMA PassFacts ==
  ASSUME NEW C \in Seq(Messages)
  PROVE  \E g \in [0..Len(C) -> States] :
           /\ g[0] = Nothing
           /\ \A n \in 1..Len(C) : g[n] = With(g[n - 1], C[n])
           /\ transformMessages(C) = g[Len(C)].request
<1> DEFINE N == Len(C)
           F == [n \in 1..N |-> [s \in States |-> With(s, C[n])]]
           Is(g) == g = [n \in 0..N |-> IF n = 0 THEN Nothing ELSE With(g[n - 1], C[n])]
           chosen == CHOOSE g : Is(g)
<1>1. N \in Nat /\ \A n \in 1..N : C[n] \in Messages
  OBVIOUS
<1>2. Nothing \in States
  <2>1. <<>> \in Seq(Requested) /\ <<>> \in Seq(ToolResults)
    OBVIOUS
  <2> QED BY <2>1 DEF Nothing, States
<1>3. F \in [1..N -> [States -> States]]
  <2>1. ASSUME NEW n \in 1..N, NEW s \in States PROVE With(s, C[n]) \in States
    BY <1>1, WithFacts
  <2> HIDE DEF N
  <2> QED BY <2>1
<1>4. PICK g \in [0..N -> States] : g[0] = Nothing /\ \A n \in 1..N : g[n] = F[n][g[n - 1]]
  <2> HIDE DEF F, N, Is, chosen
  <2>1. PICK S, base, m, G : S = States /\ base = Nothing /\ m = N /\ G = F
    OBVIOUS
  <2>2. m \in Nat /\ base \in S /\ G \in [1..m -> [S -> S]]
    BY <1>1, <1>2, <1>3, <2>1
  <2>3. \E g \in [0..m -> S] : g[0] = base /\ \A n \in 1..m : g[n] = G[n][g[n - 1]]
    BY <2>2, Iterated, SMTT(30)
  <2> QED BY <2>1, <2>3
<1>5. \A n \in 1..N : g[n] = With(g[n - 1], C[n])
  <2> SUFFICES ASSUME NEW n \in 1..N PROVE g[n] = With(g[n - 1], C[n])
    OBVIOUS
  <2>1. g[n - 1] \in States /\ g[n] = F[n][g[n - 1]]
    <3> HIDE DEF F, N
    <3> QED BY <1>1, <1>4
  <2> QED BY <2>1
<1>6. Is(g)
  <2> HIDE DEF F
  <2>1. \A n \in 0..N : g[n] = IF n = 0 THEN Nothing ELSE With(g[n - 1], C[n])
    <3> SUFFICES ASSUME NEW n \in 0..N
                 PROVE  g[n] = IF n = 0 THEN Nothing ELSE With(g[n - 1], C[n])
      OBVIOUS
    <3> HIDE DEF N
    <3>1. n = 0 \/ n \in 1..N
      BY <1>1
    <3>2. CASE n = 0
      BY <1>4, <3>2
    <3>3. CASE n \in 1..N
      <4>1. n # 0
        BY <3>3
      <4> QED BY <3>3, <4>1, <1>5
    <3> QED BY <3>1, <3>2, <3>3
  <2>2. g = [n \in 0..N |-> g[n]]
    BY <1>4
  <2> QED BY <2>1, <2>2
<1>7. Is(chosen)
  <2> HIDE DEF Is
  <2> QED BY <1>6
<1>8. transformMessages(C) = chosen[N].request
  BY DEF transformMessages
<1>9. PICK h : h = chosen
  OBVIOUS
<1>10. Is(h)
  BY <1>7, <1>9
<1>11. h[0] = Nothing
  BY <1>1, <1>10
<1>12. \A n \in 1..N : h[n] = With(h[n - 1], C[n])
  <2> SUFFICES ASSUME NEW n \in 1..N PROVE h[n] = With(h[n - 1], C[n])
    OBVIOUS
  <2> HIDE DEF N, chosen
  <2>1. n \in 0..N /\ n # 0
    BY <1>1
  <2> QED BY <1>10, <2>1
<1>13. \A n \in 0..N : h[n] \in States
  <2> DEFINE T == {n \in 0..N : h[n] \in States}
  <2>1. 0 \in T
    BY <1>1, <1>2, <1>11
  <2>2. \A n \in 0..(N - 1) : n \in T => n + 1 \in T
    <3> SUFFICES ASSUME NEW n \in 0..(N - 1), n \in T PROVE n + 1 \in T
      OBVIOUS
    <3>1. h[n] \in States
      OBVIOUS
    <3> HIDE DEF N, chosen
    <3>2. n + 1 \in 1..N /\ (n + 1) - 1 = n /\ n + 1 \in 0..N
      BY <1>1
    <3>3. h[n + 1] \in States
      <4>1. h[n + 1] = With(h[n], C[n + 1]) /\ C[n + 1] \in Messages
        BY <1>1, <1>12, <3>2
      <4> QED BY <3>1, <4>1, WithFacts
    <3> QED BY <3>2, <3>3
  <2>3. \A n \in 0..N : n \in T
    <3> HIDE DEF T
    <3> QED BY <1>1, <2>1, <2>2, UpTo, Zenon
  <2> QED BY <2>3
<1>14. h \in [0..N -> States]
  <2> HIDE DEF N, chosen
  <2>1. h = [n \in 0..N |-> h[n]]
    BY <1>10
  <2> HIDE DEF Is
  <2> QED BY <1>13, <2>1
<1> HIDE DEF chosen, Is, F
<1> QED BY <1>8, <1>9, <1>11, <1>12, <1>14

-----------------------------------------------------------------------------
(* What the pass keeps true of the request, after n messages of context C. *)

SameTurn(m, n) == m.run = n.run /\ m.turn = n.turn

\* Responses and results come from the context, and each response from a turn of its own.
Comes(C, n, q) ==
  \A i \in 1..Len(q) : q[i].role \in {"assistant", "toolResult"} => \E j \in 1..n : C[j] = q[i]
Apart(q) ==
  \A i, j \in 1..Len(q) :
    i < j /\ IsResponse(q[i]) /\ IsResponse(q[j]) => ~SameTurn(q[i], q[j])
\* Result k belongs to response i, with only results between.
Belongs(q, k, i) ==
  IsResponse(q[i]) /\ Answers(q[k], q[i]) /\ \A j \in (i + 1)..k : IsResult(q[j])
Attached(q) ==
  \A k \in 1..Len(q) : IsResult(q[k]) => \E i \in 1..(k - 1) : Belongs(q, k, i)
Solid(C, n, q) == OnlyFinished(q) /\ Comes(C, n, q) /\ Apart(q) /\ Attached(q)

\* Response o is followed by results only.
Ends(q, o) ==
  o \in 1..Len(q) /\ IsResponse(q[o]) /\ \A j \in (o + 1)..Len(q) : IsResult(q[j])
Once(q, i, c) == \E k : Given(q, i, c) = {k}
AllGiven(q) ==
  \A i \in 1..Len(q) : IsResponse(q[i]) => \A c \in 1..q[i].calls : Once(q, i, c)

LEMMA RequestFacts ==
  ASSUME NEW q \in Seq(Requested)
  PROVE  /\ Len(q) \in Nat /\ DOMAIN q = 1..Len(q) /\ \A i \in 1..Len(q) : q[i] \in Requested
OBVIOUS

\* A result belongs to the one response it answers.
LEMMA Owner ==
  ASSUME NEW C, NEW n, NEW q \in Seq(Requested), Solid(C, n, q),
         NEW o \in 1..Len(q), IsResponse(q[o]), NEW k \in 1..Len(q), Answers(q[k], q[o])
  PROVE  o \in 1..(k - 1) /\ Belongs(q, k, o)
<1>1. PICK i \in 1..(k - 1) : Belongs(q, k, i)
  BY DEF Solid, Attached, Answers
<1>2. i \in 1..Len(q) /\ IsResponse(q[i]) /\ SameTurn(q[i], q[o])
  BY <1>1, RequestFacts DEF Belongs, Answers, SameTurn
<1>3. SameTurn(q[o], q[i])
  BY <1>2 DEF SameTurn
<1>4. i = o
  BY <1>2, <1>3, RequestFacts DEF Solid, Apart
<1> QED BY <1>1, <1>4

\* What one more message adds.
LEMMA GivenAppended ==
  ASSUME NEW q \in Seq(Requested), NEW x \in Requested, NEW i \in 1..Len(q), NEW c
  PROVE  /\ Answers(x, q[i]) /\ x.call = c =>
              Given(Append(q, x), i, c) = Given(q, i, c) \cup {Len(q) + 1}
         /\ ~(Answers(x, q[i]) /\ x.call = c) => Given(Append(q, x), i, c) = Given(q, i, c)
<1> DEFINE a == Append(q, x)
<1>1. /\ Len(q) \in Nat /\ DOMAIN q = 1..Len(q) /\ DOMAIN a = 1..(Len(q) + 1)
      /\ a[Len(q) + 1] = x /\ \A j \in 1..Len(q) : a[j] = q[j]
  BY AppendRequest
<1> HIDE DEF a
<1>2. ASSUME NEW k PROVE k \in Given(a, i, c) <=>
                           \/ k \in Given(q, i, c)
                           \/ k = Len(q) + 1 /\ Answers(x, q[i]) /\ x.call = c
  <2>1. CASE k \in 1..Len(q)
    BY <1>1, <2>1 DEF Given
  <2>2. CASE k = Len(q) + 1
    BY <1>1, <2>2 DEF Given
  <2>3. CASE k \notin 1..(Len(q) + 1)
    BY <1>1, <2>3 DEF Given
  <2> QED BY <1>1, <2>1, <2>2, <2>3
<1> QED BY <1>2 DEF a

LEMMA GivenOneMore ==
  ASSUME NEW q \in Seq(Requested), NEW x \in Requested, NEW i \in 1..Len(q), Answers(x, q[i])
  PROVE  Given(Append(q, x), i, x.call) = Given(q, i, x.call) \cup {Len(q) + 1}
BY GivenAppended

LEMMA EndsAppended ==
  ASSUME NEW q \in Seq(Requested), NEW x \in Requested, NEW o, Ends(q, o), IsResult(x)
  PROVE  Ends(Append(q, x), o)
<1> DEFINE a == Append(q, x)
<1>1. /\ Len(q) \in Nat /\ Len(a) = Len(q) + 1
      /\ a[Len(q) + 1] = x /\ \A j \in 1..Len(q) : a[j] = q[j]
  BY AppendRequest
<1> HIDE DEF a
<1> SUFFICES Ends(a, o)
  BY DEF a
<1> QED BY <1>1 DEF Ends

LEMMA SolidAppended ==
  ASSUME NEW C, NEW n \in Nat, NEW p \in Nat, n <= p,
         NEW q \in Seq(Requested), Solid(C, n, q), NEW x \in Requested,
         x.role \in {"assistant", "toolResult"} => \E j \in 1..p : C[j] = x,
         IsResponse(x) =>
           x.stop = "ok" /\ \A i \in 1..Len(q) : IsResponse(q[i]) => ~SameTurn(q[i], x),
         IsResult(x) => \E o : Ends(q, o) /\ Answers(x, q[o])
  PROVE  Solid(C, p, Append(q, x))
<1> DEFINE a == Append(q, x)
           l == Len(q)
<1>1. /\ l \in Nat /\ Len(a) = l + 1 /\ DOMAIN a = 1..(l + 1) /\ DOMAIN q = 1..l
      /\ a[l + 1] = x /\ \A j \in 1..l : a[j] = q[j]
  BY AppendRequest
<1> HIDE DEF a, l
<1>2. OnlyFinished(a)
  BY <1>1 DEF Solid, OnlyFinished
<1>3. Comes(C, p, a)
  <2> SUFFICES ASSUME NEW i \in 1..(l + 1), a[i].role \in {"assistant", "toolResult"}
               PROVE  \E j \in 1..p : C[j] = a[i]
    BY <1>1 DEF Comes
  <2>1. CASE i = l + 1
    BY <1>1, <2>1
  <2>2. CASE i \in 1..l
    <3>1. PICK j \in 1..n : C[j] = q[i]
      BY <1>1, <2>2 DEF Solid, Comes, l
    <3> QED BY <1>1, <2>2, <3>1
  <2> QED BY <1>1, <2>1, <2>2
<1>4. Apart(a)
  <2> SUFFICES ASSUME NEW i \in 1..(l + 1), NEW j \in 1..(l + 1), i < j,
                      IsResponse(a[i]), IsResponse(a[j])
               PROVE  ~SameTurn(a[i], a[j])
    BY <1>1 DEF Apart
  <2>1. i \in 1..l
    BY <1>1
  <2>2. CASE j = l + 1
    BY <1>1, <2>1, <2>2 DEF l
  <2>3. CASE j \in 1..l
    BY <1>1, <2>1, <2>3 DEF Solid, Apart, l
  <2> QED BY <1>1, <2>2, <2>3
<1>5. Attached(a)
  <2> SUFFICES ASSUME NEW k \in 1..(l + 1), IsResult(a[k])
               PROVE  \E i \in 1..(k - 1) : Belongs(a, k, i)
    BY <1>1 DEF Attached
  <2>1. CASE k = l + 1
    <3>1. PICK o : Ends(q, o) /\ Answers(x, q[o])
      BY <1>1, <2>1
    <3>2. o \in 1..l /\ a[o] = q[o] /\ IsResponse(q[o])
      BY <1>1, <3>1 DEF Ends, l
    <3>3. \A j \in (o + 1)..k : IsResult(a[j])
      BY <1>1, <2>1, <3>1, <3>2 DEF Ends, l
    <3> QED BY <1>1, <2>1, <3>1, <3>2, <3>3 DEF Belongs
  <2>2. CASE k \in 1..l
    <3>1. PICK i \in 1..(k - 1) : Belongs(q, k, i)
      BY <1>1, <2>2 DEF Solid, Attached, l
    <3>2. i \in 1..l /\ \A j \in (i + 1)..k : j \in 1..l
      BY <1>1, <2>2
    <3>3. Belongs(a, k, i)
      BY <1>1, <2>2, <3>1, <3>2 DEF Belongs
    <3> QED BY <3>3
  <2> QED BY <1>1, <2>1, <2>2
<1> QED BY <1>2, <1>3, <1>4, <1>5 DEF Solid, a

-----------------------------------------------------------------------------
(* The made-up results: after them every response has all of its results.  *)

InTurn(m) == (IsResponse(m) /\ m.stop = "ok") \/ m.role = "toolResult"

\* Where calls may still be unanswered, results may still come.
Counted(s) ==
  \A i \in 1..Len(s.request) : IsResponse(s.request[i]) =>
    \A c \in 1..s.request[i].calls :
      \/ Once(s.request, i, c)
      \/ /\ Given(s.request, i, c) = {} /\ Ends(s.request, i)
         /\ s.pendingToolCalls # <<>>
\* The pass waits for the results of response o.
OpenAt(s, o) ==
  /\ Ends(s.request, o) /\ s.pendingToolCalls = CallsOf(s.request[o])
  /\ \A j \in (o + 1)..Len(s.request) : s.request[j].role = "toolResult"
  /\ s.existing = {s.request[j] : j \in (o + 1)..Len(s.request)}
Waiting(C, n, s) ==
  IF n > 0 /\ InTurn(C[n])
    THEN \E o : OpenAt(s, o) /\ SameTurn(s.request[o], C[n])
    ELSE s.pendingToolCalls = <<>>
PassInv(C, n, s) == Solid(C, n, s.request) /\ Counted(s) /\ Waiting(C, n, s)

LEMMA OrphanFacts ==
  ASSUME NEW C, NEW n, NEW s \in States, PassInv(C, n, s), NEW o, OpenAt(s, o),
         NEW c \in 1..s.request[o].calls
  PROVE  /\ IsOrphaned(s, s.pendingToolCalls[c]) => Given(s.request, o, c) = {}
         /\ ~IsOrphaned(s, s.pendingToolCalls[c]) => Once(s.request, o, c)
<1> DEFINE q == s.request
           call == ToolResult(q[o].run, q[o].turn, c)
<1>1. /\ q \in Seq(Requested) /\ Len(q) \in Nat /\ DOMAIN q = 1..Len(q)
      /\ o \in 1..Len(q) /\ IsResponse(q[o]) /\ q[o] \in Requested
  BY RequestFacts DEF States, OpenAt, Ends
<1>2. s.pendingToolCalls[c] = call
  BY <1>1, CallsOfFacts DEF OpenAt, IsResponse
<1>3. \A k : k \in Given(q, o, c) <=> k \in 1..Len(q) /\ Answers(q[k], q[o]) /\ q[k].call = c
  BY <1>1 DEF Given
<1> HIDE DEF q
<1>4. ASSUME NEW k \in Given(q, o, c) PROVE call \in s.existing
  <2>1. k \in 1..Len(q) /\ Answers(q[k], q[o]) /\ q[k].call = c
    BY <1>3
  <2>2. o \in 1..(k - 1)
    BY <1>1, <2>1, Owner DEF PassInv, q
  <2>3. k \in (o + 1)..Len(q)
    BY <1>1, <2>1, <2>2
  <2>4. q[k].role = "toolResult" /\ q[k] \in s.existing
    BY <2>3 DEF OpenAt, q
  <2>5. q[k] \in Requested
    BY <1>1, <2>1, RequestFacts
  <2>6. q[k] = ToolResult(q[k].run, q[k].turn, q[k].call)
    BY <2>4, <2>5, RequestedFacts
  <2>7. q[k].run = q[o].run /\ q[k].turn = q[o].turn
    BY <2>1 DEF Answers
  <2> QED BY <2>1, <2>4, <2>6, <2>7
<1>5. ASSUME call \in s.existing PROVE Given(q, o, c) # {}
  <2>1. PICK k \in (o + 1)..Len(q) : q[k] = call
    BY <1>5 DEF OpenAt, q
  <2>2. k \in 1..Len(q) /\ Answers(q[k], q[o]) /\ q[k].call = c
    BY <1>1, <2>1 DEF ToolResult, Answers, IsResult
  <2> QED BY <1>3, <2>2
<1>6. Once(q, o, c) \/ Given(q, o, c) = {}
  BY <1>1 DEF PassInv, Counted, q
<1> QED BY <1>2, <1>4, <1>5, <1>6 DEF IsOrphaned, q

\* Request f is q with made-up results for the first m calls of response o.
Filled(C, n, q, o, m, f) ==
  /\ Solid(C, n, f) /\ Ends(f, o)
  /\ Len(f) >= Len(q) /\ \A j \in 1..Len(q) : f[j] = q[j]
  /\ \A j \in (Len(q) + 1)..Len(f) : f[j].role = "noResult"
  /\ \A c \in 1..q[o].calls :
       IF c <= m THEN Once(f, o, c) ELSE Given(f, o, c) = Given(q, o, c)
  /\ \A i \in 1..Len(q) : IsResponse(q[i]) /\ i # o =>
       \A c \in 1..q[i].calls : Given(f, i, c) = Given(q, i, c)

LEMMA FilledAppended ==
  ASSUME NEW C, NEW n \in Nat, NEW q \in Seq(Requested), NEW o \in 1..Len(q), IsResponse(q[o]),
         NEW m \in Nat, NEW f \in Seq(Requested), Filled(C, n, q, o, m, f), Apart(q),
         m + 1 \in 1..q[o].calls, Given(q, o, m + 1) = {},
         NEW x \in Requested, x.role = "noResult", SameTurn(x, q[o]), x.call = m + 1
  PROVE  Filled(C, n, q, o, m + 1, Append(f, x))
<1> DEFINE a == Append(f, x)
<1>1. /\ Len(q) \in Nat /\ Len(f) \in Nat /\ Len(f) >= Len(q) /\ Len(a) = Len(f) + 1
      /\ a[Len(f) + 1] = x /\ \A j \in 1..Len(f) : a[j] = f[j]
  BY AppendRequest, RequestFacts DEF Filled
<1>2. IsResult(x) /\ ~IsResponse(x) /\ x.role \notin {"assistant", "toolResult"}
  BY DEF IsResult, IsResponse
<1>3. f[o] = q[o] /\ o \in 1..Len(f) /\ Answers(x, f[o]) /\ Answers(x, q[o])
  BY <1>1, <1>2 DEF Filled, Answers, SameTurn
<1>4. Solid(C, n, a)
  <2>1. \E p : Ends(f, p) /\ Answers(x, f[p])
    BY <1>3 DEF Filled
  <2>2. Solid(C, n, f) /\ n <= n
    BY DEF Filled
  <2> HIDE DEF a
  <2>3. Solid(C, n, Append(f, x))
    BY <1>2, <2>1, <2>2, SolidAppended, Zenon
  <2> QED BY <2>3 DEF a
<1>5. Ends(a, o)
  BY <1>2, EndsAppended DEF Filled
<1>6. \A c : /\ c = m + 1 => Given(a, o, c) = Given(f, o, c) \cup {Len(f) + 1}
             /\ c # m + 1 => Given(a, o, c) = Given(f, o, c)
  <2> SUFFICES ASSUME NEW c
               PROVE  /\ c = m + 1 => Given(a, o, c) = Given(f, o, c) \cup {Len(f) + 1}
                      /\ c # m + 1 => Given(a, o, c) = Given(f, o, c)
    OBVIOUS
  <2>1. /\ Answers(x, f[o]) /\ x.call = c =>
              Given(Append(f, x), o, c) = Given(f, o, c) \cup {Len(f) + 1}
        /\ ~(Answers(x, f[o]) /\ x.call = c) => Given(Append(f, x), o, c) = Given(f, o, c)
    <3>1. o \in 1..Len(f)
      BY <1>3
    <3>2. ASSUME Answers(x, f[o]), x.call = c
          PROVE  Given(Append(f, x), o, c) = Given(f, o, c) \cup {Len(f) + 1}
      <4>1. Given(Append(f, x), o, x.call) = Given(f, o, x.call) \cup {Len(f) + 1}
        BY <3>1, <3>2, GivenOneMore, Zenon
      <4> QED BY <3>2, <4>1
    <3>3. ASSUME ~(Answers(x, f[o]) /\ x.call = c)
          PROVE  Given(Append(f, x), o, c) = Given(f, o, c)
      BY <3>1, <3>3, GivenAppended
    <3> QED BY <3>2, <3>3
  <2>2. Answers(x, f[o]) /\ (c = m + 1 <=> x.call = c)
    BY <1>3
  <2> QED BY <2>1, <2>2
<1> HIDE DEF a
<1>7. Len(a) >= Len(q) /\ \A j \in 1..Len(q) : a[j] = q[j]
  BY <1>1 DEF Filled
<1>8. \A j \in (Len(q) + 1)..Len(a) : a[j].role = "noResult"
  <2> SUFFICES ASSUME NEW j \in (Len(q) + 1)..Len(a) PROVE a[j].role = "noResult"
    OBVIOUS
  <2>1. CASE j = Len(f) + 1
    BY <1>1, <2>1
  <2>2. CASE j # Len(f) + 1
    <3>1. j \in (Len(q) + 1)..Len(f) /\ a[j] = f[j]
      BY <1>1, <2>2
    <3> QED BY <3>1 DEF Filled
  <2> QED BY <2>1, <2>2
<1>9. ASSUME NEW c \in 1..q[o].calls
      PROVE  IF c <= m + 1 THEN Once(a, o, c) ELSE Given(a, o, c) = Given(q, o, c)
  <2>0. c \in Nat
    BY RequestFacts, RequestedFacts
  <2>1. CASE c = m + 1
    <3>1. Given(f, o, c) = {}
      BY <2>0, <2>1 DEF Filled
    <3>2. Given(a, o, c) = {Len(f) + 1}
      BY <1>6, <2>1, <3>1
    <3>3. Once(a, o, c)
      BY <3>2, Zenon DEF Once
    <3>4. c <= m + 1
      BY <2>0, <2>1
    <3> QED BY <3>3, <3>4
  <2>2. CASE c # m + 1
    <3>1. Given(a, o, c) = Given(f, o, c) /\ (c <= m + 1 <=> c <= m)
      BY <1>6, <2>0, <2>2
    <3>2. IF c <= m THEN Once(f, o, c) ELSE Given(f, o, c) = Given(q, o, c)
      BY DEF Filled
    <3> QED BY <3>1, <3>2 DEF Once
  <2> QED BY <2>1, <2>2
<1>10. ASSUME NEW i \in 1..Len(q), IsResponse(q[i]), i # o, NEW c \in 1..q[i].calls
       PROVE  Given(a, i, c) = Given(q, i, c)
  <2>1. f[i] = q[i] /\ i \in 1..Len(f)
    BY <1>1 DEF Filled
  <2>2. ~Answers(x, q[i])
    <3>1. ~SameTurn(q[i], q[o]) /\ ~SameTurn(q[o], q[i])
      BY <1>1, <1>10 DEF Apart, SameTurn
    <3> QED BY <3>1 DEF SameTurn, Answers
  <2>3. Given(a, i, c) = Given(f, i, c)
    BY <2>1, <2>2, GivenAppended DEF a
  <2> QED BY <1>10, <2>3 DEF Filled
<1>11. Filled(C, n, q, o, m + 1, a)
  BY <1>4, <1>5, <1>7, <1>8, <1>9, <1>10 DEF Filled
<1> QED BY <1>11 DEF a

LEMMA FlushedIsAllGiven ==
  ASSUME NEW C, NEW n \in Nat, NEW s \in States, PassInv(C, n, s)
  PROVE  /\ Flushed(s).request \in Seq(Requested)
         /\ Solid(C, n, Flushed(s).request) /\ AllGiven(Flushed(s).request)
<1> DEFINE q == s.request
           calls == s.pendingToolCalls
           N == Len(calls)
<1>1. q \in Seq(Requested) /\ calls \in Seq(ToolResults) /\ N \in Nat /\ Len(q) \in Nat
      /\ \A c \in 1..N : calls[c] \in ToolResults
  BY DEF States
<1>2. PICK g \in [0..N -> Seq(Requested)] :
        /\ g[0] = q
        /\ \A k \in 1..N : FlushStep(s, g, k)
        /\ Flushed(s) = [request |-> g[N], pendingToolCalls |-> <<>>, existing |-> {}]
  BY FlushFacts
<1>3. Flushed(s).request = g[N] /\ g[N] \in Seq(Requested)
  BY <1>1, <1>2
<1>4. CASE calls = <<>>
  <2>1. N = 0 /\ g[N] = q
    BY <1>2, <1>4
  <2>2. AllGiven(q)
    BY <1>4 DEF PassInv, Counted, AllGiven
  <2> QED BY <1>1, <1>3, <2>1, <2>2 DEF PassInv
<1>5. CASE calls # <<>>
  <2>1. PICK o : OpenAt(s, o)
    BY <1>5 DEF PassInv, Waiting
  <2>2. o \in 1..Len(q) /\ IsResponse(q[o]) /\ q[o] \in Requested /\ Ends(q, o)
    BY <1>1, <2>1, RequestFacts DEF OpenAt, Ends
  <2>3. N = q[o].calls /\ \A c \in 1..N : calls[c] = ToolResult(q[o].run, q[o].turn, c)
    BY <2>1, <2>2, CallsOfFacts DEF OpenAt, IsResponse
  <2>4. Solid(C, n, q) /\ Apart(q)
    BY DEF PassInv, Solid
  <2> DEFINE T == {m \in 0..N : Filled(C, n, q, o, m, g[m])}
  <2>5. 0 \in T
    <3>1. \A c \in 1..q[o].calls : ~(c <= 0)
      BY <1>1, <2>3
    <3>2. Filled(C, n, q, o, 0, q)
      <4> HIDE DEF q
      <4> QED BY <1>1, <2>2, <2>4, <3>1 DEF Filled
    <3> QED BY <1>1, <1>2, <3>2
  <2>6. \A m \in 0..(N - 1) : m \in T => m + 1 \in T
    <3> SUFFICES ASSUME NEW m \in 0..(N - 1), m \in T PROVE m + 1 \in T
      OBVIOUS
    <3>1. Filled(C, n, q, o, m, g[m])
      OBVIOUS
    <3> HIDE DEF q, calls, N
    <3>2. m + 1 \in 1..N /\ (m + 1) - 1 = m /\ m + 1 \in 0..N /\ m \in 0..N /\ m \in Nat
      BY <1>1
    <3>3. FlushStep(s, g, m + 1) /\ g[m] \in Seq(Requested) /\ g[m + 1] \in Seq(Requested)
      BY <1>2, <3>2
    <3>4. g[m + 1] = IF IsOrphaned(s, calls[m + 1]) THEN Append(g[m], NoResult(calls[m + 1])) ELSE g[m]
      BY <3>2, <3>3 DEF FlushStep, calls
    <3>5. /\ IsOrphaned(s, calls[m + 1]) => Given(q, o, m + 1) = {}
          /\ ~IsOrphaned(s, calls[m + 1]) => Once(q, o, m + 1)
      BY <2>1, <2>3, <3>2, OrphanFacts DEF q, calls
    <3>6. CASE IsOrphaned(s, calls[m + 1])
      <4> DEFINE x == NoResult(calls[m + 1])
      <4>1. calls[m + 1] = ToolResult(q[o].run, q[o].turn, m + 1) /\ calls[m + 1] \in ToolResults
        BY <1>1, <2>3, <3>2
      <4>2. /\ calls[m + 1].run = q[o].run /\ calls[m + 1].turn = q[o].turn
            /\ calls[m + 1].call = m + 1
        BY <4>1 DEF ToolResult
      <4>3. x \in Requested /\ x.role = "noResult" /\ SameTurn(x, q[o]) /\ x.call = m + 1
        BY <4>1, <4>2, NoResultType DEF SameTurn
      <4> HIDE DEF x
      <4>4. Filled(C, n, q, o, m + 1, Append(g[m], x))
        BY <1>1, <2>2, <2>3, <2>4, <3>1, <3>2, <3>3, <3>5, <3>6, <4>3, FilledAppended
      <4> QED BY <3>2, <3>4, <3>6, <4>4 DEF x
    <3>7. CASE ~IsOrphaned(s, calls[m + 1])
      <4>1. g[m + 1] = g[m] /\ Once(q, o, m + 1)
        BY <3>4, <3>5, <3>7
      <4>2. Given(g[m], o, m + 1) = Given(q, o, m + 1)
        BY <2>3, <3>1, <3>2 DEF Filled
      <4>3. Once(g[m], o, m + 1)
        BY <4>1, <4>2 DEF Once
      <4>4. ASSUME NEW c \in 1..q[o].calls
            PROVE  IF c <= m + 1 THEN Once(g[m], o, c) ELSE Given(g[m], o, c) = Given(q, o, c)
        <5>1. IF c <= m THEN Once(g[m], o, c) ELSE Given(g[m], o, c) = Given(q, o, c)
          BY <3>1 DEF Filled
        <5>2. c \in Nat /\ (c <= m + 1 <=> c <= m \/ c = m + 1)
          BY <1>1, <2>3, <3>2
        <5>3. c <= m + 1 => Once(g[m], o, c)
          BY <4>3, <5>1, <5>2
        <5>4. ~(c <= m + 1) => Given(g[m], o, c) = Given(q, o, c)
          BY <5>1, <5>2
        <5> QED BY <5>3, <5>4
      <4>5. Filled(C, n, q, o, m + 1, g[m])
        BY <3>1, <4>4 DEF Filled
      <4> QED BY <3>2, <4>1, <4>5
    <3> QED BY <3>6, <3>7
  <2>7. \A m \in 0..N : m \in T
    <3> HIDE DEF T, N
    <3> QED BY <1>1, <2>5, <2>6, UpTo, Zenon
  <2>8. PICK f : f = g[N] /\ Filled(C, n, q, o, N, f)
    BY <1>1, <2>7
  <2>9. f \in Seq(Requested) /\ Solid(C, n, f)
    BY <1>3, <2>8 DEF Filled
  <2>10. AllGiven(f)
    <3> SUFFICES ASSUME NEW i \in 1..Len(f), IsResponse(f[i]), NEW c \in 1..f[i].calls
                 PROVE  Once(f, i, c)
      BY DEF AllGiven
    <3> HIDE DEF q, calls, N
    <3>1. i \in 1..Len(q) /\ f[i] = q[i]
      <4>1. Len(f) \in Nat /\ ~(i \in (Len(q) + 1)..Len(f))
        BY <2>8, <2>9, RequestFacts DEF Filled, IsResponse
      <4>2. i \in 1..Len(q)
        BY <1>1, <4>1
      <4> QED BY <2>8, <4>2 DEF Filled
    <3>2. CASE i = o
      <4>1. c \in 1..q[o].calls /\ c <= N
        BY <1>1, <2>3, <3>1, <3>2
      <4> QED BY <2>8, <3>2, <4>1 DEF Filled
    <3>3. CASE i # o
      <4>1. Given(f, i, c) = Given(q, i, c)
        BY <2>8, <3>1, <3>3 DEF Filled
      <4>2. ~Ends(q, i)
        <5>1. ~IsResult(q[o]) /\ ~IsResult(q[i])
          BY <2>2, <3>1 DEF IsResult, IsResponse
        <5>2. CASE i < o
          BY <1>1, <2>2, <3>1, <5>1, <5>2 DEF Ends
        <5>3. CASE o < i
          BY <1>1, <2>2, <3>1, <5>1, <5>3 DEF Ends
        <5> QED BY <1>1, <2>2, <3>1, <3>3, <5>2, <5>3
      <4>3. Once(q, i, c)
        BY <3>1, <4>2 DEF PassInv, Counted, q
      <4> QED BY <4>1, <4>3 DEF Once
    <3> QED BY <3>2, <3>3
  <2> QED BY <1>3, <2>8, <2>9, <2>10
<1> QED BY <1>4, <1>5


-----------------------------------------------------------------------------
(* The contexts that the pass turns into well-formed requests.             *)

Answering(m) == IsResponse(m) /\ m.stop = "ok"
\* No response is still being streamed.
Whole(C) == \A k \in 1..Len(C) : IsResponse(C[k]) => C[k].stop # "partial"
\* A result directly follows its response or another result of it.
Behind(C) ==
  \A k \in 1..Len(C) : C[k].role = "toolResult" =>
    k > 1 /\ InTurn(C[k - 1]) /\ SameTurn(C[k], C[k - 1])
OneResponseATurn(C) ==
  \A j, k \in 1..Len(C) : j < k /\ Answering(C[j]) /\ Answering(C[k]) => ~SameTurn(C[j], C[k])
OneResultACall(C) ==
  \A j, k \in 1..Len(C) : j < k /\ C[j].role = "toolResult" => C[j] # C[k]
Grammar(C) == Whole(C) /\ Behind(C) /\ OneResponseATurn(C) /\ OneResultACall(C)

LEMMA AllGivenAppended ==
  ASSUME NEW q \in Seq(Requested), AllGiven(q), NEW x \in Requested, ~IsResult(x)
  PROVE  \A i \in 1..Len(q) : IsResponse(Append(q, x)[i]) =>
           \A c \in 1..Append(q, x)[i].calls : Once(Append(q, x), i, c)
<1> SUFFICES ASSUME NEW i \in 1..Len(q), IsResponse(Append(q, x)[i]),
                    NEW c \in 1..Append(q, x)[i].calls
             PROVE  Once(Append(q, x), i, c)
  OBVIOUS
<1>1. Append(q, x)[i] = q[i]
  BY AppendRequest
<1>2. Once(q, i, c)
  BY <1>1 DEF AllGiven
<1>3. ~(Answers(x, q[i]) /\ x.call = c)
  BY DEF Answers
<1>4. Given(Append(q, x), i, c) = Given(q, i, c)
  BY <1>3, GivenAppended
<1> QED BY <1>2, <1>4 DEF Once

\* A user message, or a response that failed, closes the turn before it.
LEMMA PassesClosing ==
  ASSUME NEW C \in Seq(Messages), NEW n \in Nat, n + 1 \in 1..Len(C), NEW s \in States,
         PassInv(C, n, s), ~InTurn(C[n + 1]), Whole(C)
  PROVE  PassInv(C, n + 1, With(s, C[n + 1]))
<1> DEFINE m == C[n + 1]
           f == Flushed(s).request
           t == With(s, m)
<1>1. m \in Messages /\ m \in Requested /\ m.role \in {"user", "assistant"}
  BY MessagesAreRequested, MessageRoles DEF InTurn
<1>2. f \in Seq(Requested) /\ Solid(C, n, f) /\ AllGiven(f)
  BY FlushedIsAllGiven
<1>3. ~IsResult(m)
  BY <1>1 DEF IsResult
<1>4. CASE m.role = "user"
  <2>1. t.request = Append(f, m) /\ t.pendingToolCalls = <<>>
    <3>1. t = [request |-> Append(f, m), pendingToolCalls |-> <<>>, existing |-> {}]
      BY <1>1, <1>4, WithFacts
    <3> HIDE DEF t, f, m
    <3> QED BY <3>1
  <2>2. ~IsResponse(m) /\ m.role \notin {"assistant", "toolResult"}
    BY <1>4 DEF IsResponse
  <2> HIDE DEF m, f, t
  <2>3. Solid(C, n + 1, Append(f, m))
    <3>1. n <= n + 1 /\ n + 1 \in Nat
      OBVIOUS
    <3> QED BY <1>1, <1>2, <1>3, <2>2, <3>1, SolidAppended, Zenon
  <2>4. \A i \in 1..Len(t.request) : IsResponse(t.request[i]) => i \in 1..Len(f)
    BY <1>1, <1>2, <2>1, <2>2, AppendRequest
  <2>5. Counted(t)
    BY <1>1, <1>2, <1>3, <2>1, <2>4, AllGivenAppended DEF Counted
  <2>6. Waiting(C, n + 1, t)
    BY <2>1 DEF Waiting, m
  <2> QED BY <2>1, <2>3, <2>5, <2>6 DEF PassInv, t, m
<1>5. CASE m.role = "assistant"
  <2>1. Failed(m)
    BY <1>1, <1>5, RequestedFacts DEF InTurn, IsResponse, Failed, Whole, StopReasons
  <2>2. t.request = f /\ t.pendingToolCalls = <<>>
    BY <1>1, <1>5, <2>1, WithFacts
  <2> HIDE DEF m, f, t
  <2>3. Solid(C, n + 1, f)
    BY <1>2 DEF Solid, Comes
  <2>4. Counted(t)
    BY <1>2, <2>2 DEF Counted, AllGiven
  <2>5. Waiting(C, n + 1, t)
    BY <2>2 DEF Waiting, m
  <2> QED BY <2>2, <2>3, <2>4, <2>5 DEF PassInv, t, m
<1> QED BY <1>1, <1>4, <1>5

\* A response that calls tools, or says something, opens a turn.
LEMMA PassesResponse ==
  ASSUME NEW C \in Seq(Messages), NEW n \in Nat, n + 1 \in 1..Len(C), NEW s \in States,
         PassInv(C, n, s), Answering(C[n + 1]), OneResponseATurn(C)
  PROVE  PassInv(C, n + 1, With(s, C[n + 1]))
<1> DEFINE m == C[n + 1]
           f == Flushed(s).request
           a == Append(f, m)
           l == Len(f) + 1
           t == With(s, m)
<1>1. m \in Messages /\ m \in Requested /\ m.role = "assistant" /\ m.stop = "ok" /\ Len(C) \in Nat
  BY MessagesAreRequested DEF Answering, IsResponse
<1>2. f \in Seq(Requested) /\ Solid(C, n, f) /\ AllGiven(f)
  BY FlushedIsAllGiven
<1>3. ~IsResult(m) /\ IsResponse(m) /\ ~Failed(m) /\ InTurn(m)
  BY <1>1 DEF IsResult, IsResponse, Failed, InTurn
<1>4. t.request = a /\ t.pendingToolCalls = CallsOf(m) /\ t.existing = {}
  BY <1>1, <1>3, WithFacts
<1>5. m.calls \in Nat /\ Len(CallsOf(m)) = m.calls
  BY <1>1, RequestedFacts, CallsOfFacts, BoundsAssumption
<1>6. /\ a \in Seq(Requested) /\ Len(a) = l /\ a[l] = m /\ Len(f) \in Nat /\ l \in 1..Len(a)
      /\ \A i \in 1..Len(f) : a[i] = f[i]
  BY <1>1, <1>2, AppendRequest
<1>7. ASSUME NEW i \in 1..Len(f), IsResponse(f[i]) PROVE ~SameTurn(f[i], m)
  <2>1. f[i].stop = "ok" /\ f[i].role = "assistant"
    BY <1>2, <1>7, RequestFacts DEF Solid, OnlyFinished, IsResponse
  <2>2. PICK j \in 1..n : C[j] = f[i]
    BY <1>2, <2>1 DEF Solid, Comes
  <2>3. j \in 1..Len(C) /\ j < n + 1 /\ Answering(C[j]) /\ Answering(C[n + 1])
    BY <1>1, <2>1, <2>2 DEF Answering, IsResponse
  <2> QED BY <2>2, <2>3 DEF OneResponseATurn
<1>8. Solid(C, n + 1, a)
  <2>1. n <= n + 1 /\ n + 1 \in Nat /\ n + 1 \in 1..(n + 1)
    OBVIOUS
  <2>2. \E j \in 1..(n + 1) : C[j] = m
    BY <2>1
  <2> HIDE DEF m, f, a
  <2>3. Solid(C, n + 1, Append(f, m))
    BY <1>1, <1>2, <1>3, <1>7, <2>1, <2>2, SolidAppended, Zenon
  <2> QED BY <2>3 DEF a
<1> HIDE DEF m, f, t
<1>9. Ends(a, l)
  <2> HIDE DEF a
  <2> QED BY <1>3, <1>6 DEF Ends
<1>10. ASSUME NEW c PROVE Given(a, l, c) = {}
  <2> HIDE DEF a, l
  <2> SUFFICES ASSUME NEW k \in Given(a, l, c) PROVE FALSE
    OBVIOUS
  <2>1. k \in 1..Len(a) /\ Answers(a[k], a[l])
    BY <1>6, RequestFacts DEF Given
  <2>2. l \in 1..(k - 1)
    BY <1>3, <1>6, <1>8, <2>1, Owner
  <2> QED BY <1>6, <2>1, <2>2 DEF l
<1>11. Counted(t)
  <2> SUFFICES ASSUME NEW i \in 1..Len(a), IsResponse(a[i]), NEW c \in 1..a[i].calls
               PROVE  \/ Once(a, i, c)
                      \/ Given(a, i, c) = {} /\ Ends(a, i) /\ t.pendingToolCalls # <<>>
    BY <1>4 DEF Counted
  <2>1. CASE i \in 1..Len(f)
    BY <1>1, <1>2, <1>3, <2>1, AllGivenAppended
  <2>2. CASE i = l
    <3> HIDE DEF a, l
    <3>1. m.calls # 0
      BY <1>5, <1>6, <2>2
    <3>2. t.pendingToolCalls # <<>>
      BY <1>4, <1>5, <3>1
    <3> QED BY <1>9, <1>10, <2>2, <3>2
  <2> QED BY <1>6, <2>1, <2>2
<1>12. Waiting(C, n + 1, t)
  <2>1. OpenAt(t, l)
    <3> HIDE DEF a
    <3>1. \A j \in (l + 1)..Len(a) : FALSE
      BY <1>6
    <3>2. t.existing = {a[j] : j \in (l + 1)..Len(a)}
      BY <1>4, <3>1
    <3> QED BY <1>4, <1>6, <1>9, <3>1, <3>2 DEF OpenAt
  <2>2. SameTurn(t.request[l], C[n + 1])
    BY <1>4, <1>6 DEF SameTurn, m
  <2>3. InTurn(C[n + 1]) /\ n + 1 > 0
    BY <1>3 DEF m
  <2> QED BY <2>1, <2>2, <2>3 DEF Waiting
<1> QED BY <1>4, <1>8, <1>11, <1>12 DEF PassInv, t, m

\* A result joins the turn that is open.
LEMMA PassesResult ==
  ASSUME NEW C \in Seq(Messages), NEW n \in Nat, n + 1 \in 1..Len(C), NEW s \in States,
         PassInv(C, n, s), C[n + 1].role = "toolResult", Behind(C), OneResultACall(C)
  PROVE  PassInv(C, n + 1, With(s, C[n + 1]))
<1> DEFINE m == C[n + 1]
           q == s.request
           a == Append(q, m)
           l == Len(q) + 1
           t == With(s, m)
<1>1. /\ m \in Messages /\ m \in Requested /\ m.role = "toolResult" /\ Len(C) \in Nat
      /\ m = ToolResult(m.run, m.turn, m.call)
  BY MessagesAreRequested, RequestedFacts
<1>2. q \in Seq(Requested) /\ Solid(C, n, q) /\ Apart(q) /\ Counted(s)
  BY DEF PassInv, Solid, States
<1>3. IsResult(m) /\ ~IsResponse(m) /\ InTurn(m)
  BY <1>1 DEF IsResult, IsResponse, InTurn
<1>4. t = [request |-> a, pendingToolCalls |-> s.pendingToolCalls, existing |-> s.existing \cup {m}]
  BY <1>1, WithFacts
<1>5. t.request = a /\ t.pendingToolCalls = s.pendingToolCalls /\ t.existing = s.existing \cup {m}
  <2> HIDE DEF t, a, m
  <2> QED BY <1>4
<1>6. /\ a \in Seq(Requested) /\ Len(a) = l /\ a[l] = m /\ Len(q) \in Nat
      /\ \A i \in 1..Len(q) : a[i] = q[i]
  BY <1>1, <1>2, AppendRequest
<1>7. n > 0 /\ InTurn(C[n]) /\ SameTurn(m, C[n])
  <2>1. n + 1 > 1 /\ InTurn(C[(n + 1) - 1]) /\ SameTurn(C[n + 1], C[(n + 1) - 1])
    BY DEF Behind
  <2> QED BY <2>1
<1>8. PICK o : OpenAt(s, o) /\ SameTurn(q[o], C[n])
  BY <1>7 DEF PassInv, Waiting
<1>9. /\ Ends(q, o) /\ o \in 1..Len(q) /\ IsResponse(q[o]) /\ Answers(m, q[o]) /\ SameTurn(m, q[o])
  BY <1>3, <1>7, <1>8 DEF OpenAt, Ends, SameTurn, Answers
<1> HIDE DEF m, q, t
<1>10. Solid(C, n + 1, a)
  <2>1. n <= n + 1 /\ n + 1 \in Nat /\ n + 1 \in 1..(n + 1)
    OBVIOUS
  <2>2. \E j \in 1..(n + 1) : C[j] = m
    BY <2>1 DEF m
  <2>3. \E p : Ends(q, p) /\ Answers(m, q[p])
    BY <1>9
  <2> HIDE DEF a
  <2>4. Solid(C, n + 1, Append(q, m))
    BY <1>1, <1>2, <1>3, <2>1, <2>2, <2>3, SolidAppended, Zenon
  <2> QED BY <2>4 DEF a
<1>11. Given(q, o, m.call) = {}
  <2> SUFFICES ASSUME NEW k \in Given(q, o, m.call) PROVE FALSE
    OBVIOUS
  <2>1. k \in 1..Len(q) /\ Answers(q[k], q[o]) /\ q[k].call = m.call
    BY <1>2, RequestFacts DEF Given
  <2>2. o \in 1..(k - 1)
    BY <1>2, <1>9, <2>1, Owner
  <2>3. q[k].role = "toolResult"
    BY <1>6, <1>8, <2>1, <2>2 DEF OpenAt, q
  <2>4. q[k] = ToolResult(q[k].run, q[k].turn, q[k].call)
    BY <1>2, <2>1, <2>3, RequestFacts, RequestedFacts
  <2>5. q[k].run = m.run /\ q[k].turn = m.turn
    BY <1>9, <2>1 DEF Answers, SameTurn
  <2>6. q[k] = m
    BY <1>1, <2>1, <2>4, <2>5
  <2>7. PICK j \in 1..n : C[j] = q[k]
    BY <1>2, <2>1, <2>3 DEF Solid, Comes
  <2>8. j \in 1..Len(C) /\ j < n + 1 /\ C[j].role = "toolResult" /\ C[j] = C[n + 1]
    BY <1>1, <2>3, <2>6, <2>7 DEF m
  <2> QED BY <2>8 DEF OneResultACall
<1>12. ASSUME NEW i \in 1..Len(q), IsResponse(q[i]), i # o PROVE ~Answers(m, q[i])
  <2>1. ~SameTurn(q[i], q[o]) /\ ~SameTurn(q[o], q[i])
    BY <1>2, <1>6, <1>9, <1>12 DEF Apart, SameTurn
  <2> QED BY <1>9, <2>1 DEF SameTurn, Answers
<1>13. Counted(t)
  <2> SUFFICES ASSUME NEW i \in 1..Len(a), IsResponse(a[i]), NEW c \in 1..a[i].calls
               PROVE  \/ Once(a, i, c)
                      \/ Given(a, i, c) = {} /\ Ends(a, i) /\ t.pendingToolCalls # <<>>
    BY <1>5 DEF Counted
  <2>1. i \in 1..Len(q) /\ a[i] = q[i] /\ IsResponse(q[i]) /\ c \in 1..q[i].calls
    <3> HIDE DEF a
    <3> QED BY <1>3, <1>6
  <2>2. \/ Once(q, i, c)
        \/ Given(q, i, c) = {} /\ Ends(q, i) /\ s.pendingToolCalls # <<>>
    BY <1>2, <2>1 DEF Counted, q
  <2>3. CASE Answers(m, q[i]) /\ m.call = c
    <3>1. i = o
      BY <1>12, <2>1, <2>3
    <3>2. Given(a, o, m.call) = Given(q, o, m.call) \cup {Len(q) + 1}
      BY <1>1, <1>2, <1>9, GivenOneMore, Zenon
    <3>3. Given(a, o, m.call) = {Len(q) + 1}
      <4> HIDE DEF a
      <4> QED BY <1>11, <3>2
    <3>4. Once(a, o, m.call)
      <4> HIDE DEF a
      <4> QED BY <3>3, Zenon DEF Once
    <3> QED BY <2>3, <3>1, <3>4
  <2>4. CASE ~(Answers(m, q[i]) /\ m.call = c)
    <3>1. Given(a, i, c) = Given(q, i, c)
      BY <1>1, <1>2, <2>1, <2>4, GivenAppended
    <3>2. Ends(q, i) => Ends(a, i)
      BY <1>1, <1>2, <1>3, EndsAppended
    <3> HIDE DEF a
    <3> QED BY <1>5, <2>2, <3>1, <3>2 DEF Once
  <2> QED BY <2>3, <2>4
<1>14. Waiting(C, n + 1, t)
  <2>1. Ends(a, o)
    BY <1>1, <1>2, <1>3, <1>9, EndsAppended
  <2> HIDE DEF a
  <2>2. a[o] = q[o]
    BY <1>6, <1>9
  <2>3. t.pendingToolCalls = CallsOf(a[o])
    BY <1>5, <1>8, <2>2 DEF OpenAt, q
  <2>4. \A j \in (o + 1)..Len(a) : a[j].role = "toolResult"
    <3> SUFFICES ASSUME NEW j \in (o + 1)..Len(a) PROVE a[j].role = "toolResult"
      OBVIOUS
    <3>1. CASE j = l
      BY <1>1, <1>6, <3>1
    <3>2. CASE j # l
      <4>1. j \in (o + 1)..Len(q) /\ a[j] = q[j]
        BY <1>6, <1>9, <3>2
      <4> QED BY <1>8, <4>1 DEF OpenAt, q
    <3> QED BY <3>1, <3>2
  <2>5. t.existing = {a[j] : j \in (o + 1)..Len(a)}
    <3>1. s.existing = {q[j] : j \in (o + 1)..Len(q)}
      BY <1>8 DEF OpenAt, q
    <3>2. \A j \in (o + 1)..Len(q) : a[j] = q[j]
      BY <1>6, <1>9
    <3>3. ASSUME NEW j \in (o + 1)..Len(a) PROVE j = l \/ j \in (o + 1)..Len(q)
      BY <1>6, <1>9
    <3>4. l \in (o + 1)..Len(a) /\ (o + 1)..Len(q) \subseteq (o + 1)..Len(a)
      BY <1>6, <1>9
    <3>5. {a[j] : j \in (o + 1)..Len(a)} = {q[j] : j \in (o + 1)..Len(q)} \cup {m}
      <4> HIDE DEF l
      <4> QED BY <1>6, <3>2, <3>3, <3>4
    <3> QED BY <1>5, <3>1, <3>5
  <2>6. OpenAt(t, o)
    BY <1>5, <2>1, <2>3, <2>4, <2>5 DEF OpenAt
  <2>7. SameTurn(t.request[o], C[n + 1])
    BY <1>5, <1>9, <2>2 DEF SameTurn, m
  <2>8. InTurn(C[n + 1]) /\ n + 1 > 0
    BY <1>3 DEF m
  <2> QED BY <2>6, <2>7, <2>8 DEF Waiting
<1> QED BY <1>5, <1>10, <1>13, <1>14 DEF PassInv, t, m

LEMMA PassStep ==
  ASSUME NEW C \in Seq(Messages), Grammar(C), NEW n \in Nat, n + 1 \in 1..Len(C),
         NEW s \in States, PassInv(C, n, s)
  PROVE  PassInv(C, n + 1, With(s, C[n + 1]))
<1>1. CASE ~InTurn(C[n + 1])
  BY <1>1, PassesClosing DEF Grammar
<1>2. CASE Answering(C[n + 1])
  BY <1>2, PassesResponse DEF Grammar
<1>3. CASE C[n + 1].role = "toolResult"
  BY <1>3, PassesResult DEF Grammar
<1> QED BY <1>1, <1>2, <1>3 DEF InTurn, Answering

LEMMA EndFacts ==
  ASSUME NEW q \in Seq(Requested), NEW i \in 1..Len(q)
  PROVE  /\ EndOfResults(q, i) \in i..Len(q)
         /\ EndOfResults(q, i) < Len(q) => ~IsResult(q[EndOfResults(q, i) + 1])
<1> DEFINE S == {k \in i..Len(q) : k = Len(q) \/ ~IsResult(q[k + 1])}
           Is(k) == /\ \A j \in (i + 1)..k : IsResult(q[j])
                    /\ k < Len(q) => ~IsResult(q[k + 1])
<1>1. Len(q) \in Nat
  OBVIOUS
<1>2. S \in SUBSET Nat /\ Len(q) \in S
  BY <1>1
<1>3. PICK k \in S : \A y \in S : k <= y
  BY <1>2, Least
<1>4. k \in i..Len(q) /\ (k < Len(q) => ~IsResult(q[k + 1]))
  BY <1>1, <1>3
<1>5. ASSUME NEW j \in (i + 1)..k PROVE IsResult(q[j])
  <2>1. j - 1 \in i..Len(q) /\ j - 1 < k /\ (j - 1) + 1 = j /\ j - 1 # Len(q)
    BY <1>1, <1>4
  <2>2. ~(k <= j - 1)
    BY <1>1, <1>4, <2>1
  <2>3. j - 1 \notin S
    <3> HIDE DEF S
    <3> QED BY <1>3, <2>2
  <2> QED BY <2>1, <2>3
<1>6. k \in i..Len(q) /\ Is(k)
  BY <1>4, <1>5
<1>7. EndOfResults(q, i) = CHOOSE e \in i..Len(q) : Is(e)
  BY DEF EndOfResults
<1>8. EndOfResults(q, i) \in i..Len(q) /\ Is(EndOfResults(q, i))
  <2> HIDE DEF Is
  <2> QED BY <1>6, <1>7
<1> QED BY <1>8

LEMMA InvIsWellFormed ==
  ASSUME NEW C, NEW n, NEW s \in States, PassInv(C, n, s)
  PROVE  WellFormed(s.request)
<1> DEFINE q == s.request
<1>1. q \in Seq(Requested) /\ Len(q) \in Nat /\ DOMAIN q = 1..Len(q)
  BY RequestFacts DEF States
<1>2. Solid(C, n, q)
  BY DEF PassInv
<1> HIDE DEF q
<1>3. ResultsFollow(q)
  <2> SUFFICES ASSUME NEW k \in 1..Len(q), IsResult(q[k])
               PROVE  \E i \in 1..(k - 1) : /\ IsResponse(q[i]) /\ k \in Following(q, i)
                                            /\ Answers(q[k], q[i])
    BY <1>1 DEF ResultsFollow
  <2>1. PICK i \in 1..(k - 1) : Belongs(q, k, i)
    BY <1>2 DEF Solid, Attached
  <2>2. i \in 1..Len(q)
    BY <1>1
  <2>3. PICK e : e = EndOfResults(q, i)
    OBVIOUS
  <2>4. e \in i..Len(q) /\ (e < Len(q) => ~IsResult(q[e + 1]))
    BY <1>1, <2>2, <2>3, EndFacts
  <2>5. k <= e
    <3> SUFFICES ASSUME e < k PROVE FALSE
      BY <1>1, <2>4
    <3>1. e < Len(q) /\ e + 1 \in (i + 1)..k
      BY <1>1, <2>4
    <3> QED BY <2>1, <2>4, <3>1 DEF Belongs
  <2>6. k \in Following(q, i)
    BY <1>1, <2>2, <2>3, <2>4, <2>5 DEF Following
  <2> QED BY <2>1, <2>6 DEF Belongs
<1>4. AnsweredOnce(q)
  <2> SUFFICES ASSUME NEW i \in 1..Len(q), IsResponse(q[i]), NEW c \in 1..q[i].calls
               PROVE  \/ Cardinality(Given(q, i, c)) = 1
                      \/ Given(q, i, c) = {} /\ EndOfResults(q, i) = Len(q)
    BY <1>1 DEF AnsweredOnce
  <2>1. Once(q, i, c) \/ (Given(q, i, c) = {} /\ Ends(q, i))
    BY DEF PassInv, Counted, q
  <2>2. CASE Once(q, i, c)
    <3>1. PICK k : Given(q, i, c) = {k}
      BY <2>2 DEF Once
    <3> QED BY <3>1, FS_Singleton
  <2>3. CASE Given(q, i, c) = {} /\ Ends(q, i)
    <3>1. PICK e : e = EndOfResults(q, i)
      OBVIOUS
    <3>2. e \in i..Len(q) /\ (e < Len(q) => ~IsResult(q[e + 1]))
      BY <1>1, <3>1, EndFacts
    <3>3. e = Len(q)
      <4>1. ASSUME e < Len(q) PROVE FALSE
        <5>1. e + 1 \in (i + 1)..Len(q)
          BY <1>1, <3>2, <4>1
        <5> QED BY <2>3, <3>2, <4>1, <5>1 DEF Ends
      <4>2. e \in Nat /\ e <= Len(q) /\ Len(q) \in Nat
        BY <1>1, <3>2
      <4> QED BY <4>1, <4>2
    <3> QED BY <2>3, <3>1, <3>3
  <2> QED BY <2>1, <2>2, <2>3
<1> QED BY <1>2, <1>3, <1>4 DEF WellFormed, Solid, q

\* What the second pass of transformMessages makes of such a context, whatever its
\* length, has no failed response, no result away from its response, and no call
\* with more than one result, or with none but at the very end.
THEOREM TransformIsWellFormed ==
  ASSUME NEW C \in Seq(Messages), Grammar(C)
  PROVE  WellFormed(transformMessages(C))
<1> DEFINE N == Len(C)
<1>1. PICK g \in [0..N -> States] :
        /\ g[0] = Nothing
        /\ \A n \in 1..N : g[n] = With(g[n - 1], C[n])
        /\ transformMessages(C) = g[N].request
  BY PassFacts
<1>2. N \in Nat
  OBVIOUS
<1> DEFINE T == {n \in 0..N : PassInv(C, n, g[n])}
<1>3. 0 \in T
  <2>1. Nothing.request = <<>> /\ Nothing.pendingToolCalls = <<>>
    BY DEF Nothing
  <2>2. DOMAIN <<>> = {} /\ Len(<<>>) = 0
    OBVIOUS
  <2>3. Solid(C, 0, <<>>)
    BY <2>2 DEF Solid, OnlyFinished, Comes, Apart, Attached
  <2>4. PassInv(C, 0, Nothing)
    BY <2>1, <2>2, <2>3 DEF PassInv, Counted, Waiting
  <2> QED BY <1>1, <1>2, <2>4
<1>4. \A n \in 0..(N - 1) : n \in T => n + 1 \in T
  <2> SUFFICES ASSUME NEW n \in 0..(N - 1), n \in T PROVE n + 1 \in T
    OBVIOUS
  <2>1. PassInv(C, n, g[n])
    OBVIOUS
  <2> HIDE DEF N
  <2>2. n \in Nat /\ n + 1 \in 1..N /\ (n + 1) - 1 = n /\ n + 1 \in 0..N /\ n \in 0..N
    BY <1>2
  <2>3. g[n] \in States /\ g[n + 1] = With(g[n], C[n + 1])
    BY <1>1, <2>2
  <2>4. PassInv(C, n + 1, With(g[n], C[n + 1]))
    BY <2>1, <2>2, <2>3, PassStep DEF N
  <2> QED BY <2>2, <2>3, <2>4
<1>5. \A n \in 0..N : n \in T
  <2> HIDE DEF T, N
  <2> QED BY <1>2, <1>3, <1>4, UpTo, Zenon
<1>6. PassInv(C, N, g[N]) /\ g[N] \in States
  <2> HIDE DEF N
  <2> QED BY <1>1, <1>2, <1>5
<1> HIDE DEF N, T
<1> QED BY <1>1, <1>6, InvIsWellFormed

-----------------------------------------------------------------------------
(* Every run asks the model with such a context.                           *)

\* The response of a turn that its run has reached.
ResponsesKnown ==
  \A k \in 1..Len(messages) : Answering(messages[k]) =>
    pc[messages[k].run] # "unused" /\ messages[k].turn <= local[messages[k].run].turn
\* What the context of run r is to the transcript: outside of a response and its
\* calls they are the same, and while tools execute the last message of the
\* transcript is of the turn that is executed.
AtPlace(r, place, l, said) ==
  /\ place = "opening" => l.context = said \o l.pending
  /\ place \in {"polling", "turn", "followUp"} => l.context = said
  /\ place = "streaming" =>
       Len(l.context) = Len(said) + 1 /\ \A i \in 1..Len(said) : l.context[i] = said[i]
  /\ place = "tools" =>
       /\ said = l.context \o l.results
       /\ said # <<>> /\ InTurn(said[Len(said)])
       /\ said[Len(said)].run = r /\ said[Len(said)].turn = l.turn
InPlace == \A r \in Runs : AtPlace(r, pc[r], local[r], messages)
RequestInv == Grammar(messages) /\ ResponsesKnown /\ InPlace

LEMMA GrammarAppended ==
  ASSUME NEW C \in Seq(Messages), Grammar(C), NEW m \in Messages,
         IsResponse(m) => m.stop # "partial",
         m.role = "toolResult" =>
           /\ C # <<>> /\ InTurn(C[Len(C)]) /\ SameTurn(m, C[Len(C)])
           /\ \A k \in 1..Len(C) : C[k] # m,
         Answering(m) => \A k \in 1..Len(C) : Answering(C[k]) => ~SameTurn(C[k], m)
  PROVE  Grammar(Append(C, m))
<1> DEFINE a == Append(C, m)
           l == Len(C)
<1>1. /\ l \in Nat /\ Len(a) = l + 1 /\ a[l + 1] = m /\ \A j \in 1..l : a[j] = C[j]
      /\ C # <<>> => l # 0
  OBVIOUS
<1> HIDE DEF a, l
<1>2. Whole(a)
  BY <1>1 DEF Grammar, Whole, l
<1>3. Behind(a)
  <2> SUFFICES ASSUME NEW k \in 1..(l + 1), a[k].role = "toolResult"
               PROVE  k > 1 /\ InTurn(a[k - 1]) /\ SameTurn(a[k], a[k - 1])
    BY <1>1 DEF Behind
  <2>1. CASE k = l + 1
    <3>1. C # <<>> /\ InTurn(C[l]) /\ SameTurn(m, C[l])
      BY <1>1, <2>1 DEF l
    <3>2. l \in 1..l /\ k - 1 = l /\ k > 1 /\ a[k - 1] = C[l] /\ a[k] = m
      BY <1>1, <2>1, <3>1
    <3> QED BY <3>1, <3>2
  <2>2. CASE k \in 1..l
    <3>1. k > 1 /\ InTurn(C[k - 1]) /\ SameTurn(C[k], C[k - 1])
      BY <1>1, <2>2 DEF Grammar, Behind, l
    <3>2. a[k] = C[k] /\ a[k - 1] = C[k - 1]
      BY <1>1, <2>2, <3>1
    <3> QED BY <3>1, <3>2
  <2> QED BY <1>1, <2>1, <2>2
<1>4. OneResponseATurn(a)
  <2> SUFFICES ASSUME NEW j \in 1..(l + 1), NEW k \in 1..(l + 1), j < k,
                      Answering(a[j]), Answering(a[k])
               PROVE  ~SameTurn(a[j], a[k])
    BY <1>1 DEF OneResponseATurn
  <2>1. j \in 1..l /\ a[j] = C[j]
    BY <1>1
  <2>2. CASE k = l + 1
    BY <1>1, <2>1, <2>2 DEF l
  <2>3. CASE k \in 1..l
    BY <1>1, <2>1, <2>3 DEF Grammar, OneResponseATurn, l
  <2> QED BY <1>1, <2>2, <2>3
<1>5. OneResultACall(a)
  <2> SUFFICES ASSUME NEW j \in 1..(l + 1), NEW k \in 1..(l + 1), j < k,
                      a[j].role = "toolResult"
               PROVE  a[j] # a[k]
    BY <1>1 DEF OneResultACall
  <2>1. j \in 1..l /\ a[j] = C[j]
    BY <1>1
  <2>2. CASE k = l + 1
    <3> SUFFICES ASSUME a[j] = a[k] PROVE FALSE
      OBVIOUS
    <3>1. m.role = "toolResult" /\ C[j] = m
      BY <1>1, <2>1, <2>2
    <3> QED BY <2>1, <3>1 DEF l
  <2>3. CASE k \in 1..l
    BY <1>1, <2>1, <2>3 DEF Grammar, OneResultACall, l
  <2> QED BY <1>1, <2>2, <2>3
<1> QED BY <1>2, <1>3, <1>4, <1>5 DEF Grammar, a

LEMMA GrammarCut ==
  ASSUME NEW C \in Seq(Messages), Grammar(C), NEW k \in 0..Len(C)
  PROVE  Grammar(SubSeq(C, 1, k))
<1> DEFINE a == SubSeq(C, 1, k)
<1>1. Len(C) \in Nat /\ Len(a) = k /\ \A j \in 1..k : a[j] = C[j] /\ j \in 1..Len(C)
  OBVIOUS
<1> HIDE DEF a
<1>2. Whole(a)
  BY <1>1 DEF Grammar, Whole
<1>3. Behind(a)
  <2> SUFFICES ASSUME NEW j \in 1..k, a[j].role = "toolResult"
               PROVE  j > 1 /\ InTurn(a[j - 1]) /\ SameTurn(a[j], a[j - 1])
    BY <1>1 DEF Behind
  <2>1. j > 1 /\ InTurn(C[j - 1]) /\ SameTurn(C[j], C[j - 1])
    BY <1>1 DEF Grammar, Behind
  <2>2. a[j] = C[j] /\ a[j - 1] = C[j - 1]
    BY <1>1, <2>1
  <2> QED BY <2>1, <2>2
<1>4. OneResponseATurn(a)
  BY <1>1 DEF Grammar, OneResponseATurn
<1>5. OneResultACall(a)
  BY <1>1 DEF Grammar, OneResultACall
<1> QED BY <1>2, <1>3, <1>4, <1>5 DEF Grammar, a

\* A step that adds no response and takes no run back.
NoNewResponse ==
  \A k \in 1..Len(messages') :
    Answering(messages'[k]) => k \in 1..Len(messages) /\ messages[k] = messages'[k]
MovesOn(s) == pc[s] # "unused" => pc'[s] # "unused" /\ local'[s].turn >= local[s].turn

LEMMA KnownKept ==
  ASSUME TypeOK, TypeOK', ResponsesKnown, NoNewResponse, \A s \in Runs : MovesOn(s)
  PROVE  ResponsesKnown'
<1> SUFFICES ASSUME NEW k \in 1..Len(messages'), Answering(messages'[k])
             PROVE  /\ pc'[messages'[k].run] # "unused"
                    /\ messages'[k].turn <= local'[messages'[k].run].turn
  BY DEF ResponsesKnown
<1> DEFINE m == messages'[k]
<1>1. k \in 1..Len(messages) /\ messages[k] = m /\ Answering(m)
  BY DEF NoNewResponse
<1>2. m \in Messages
  BY <1>1, Transcript
<1> HIDE DEF m
<1>3. m.run \in Runs /\ m.turn \in Nat
  BY <1>1, <1>2, MessagesAreRequested, RequestedFacts DEF Answering, IsResponse
<1>4. pc[m.run] # "unused" /\ m.turn <= local[m.run].turn
  BY <1>1 DEF ResponsesKnown
<1>5. pc'[m.run] # "unused" /\ local'[m.run].turn >= local[m.run].turn
  BY <1>3, <1>4 DEF MovesOn
<1>6. local[m.run].turn \in Nat /\ local'[m.run].turn \in Nat
  BY <1>3 DEF TypeOK, Locals
<1>7. m.turn <= local'[m.run].turn
  BY <1>3, <1>4, <1>5, <1>6
<1> QED BY <1>5, <1>7 DEF m

\* The transcript after a message that neither calls tools nor answers a call.
LEMMA SaidOutOfTurn ==
  ASSUME TypeOK, Grammar(messages), NEW m \in Messages, messages' = Append(messages, m),
         m.role = "user" \/ (m.role = "assistant" /\ m.stop \in {"error", "aborted"})
  PROVE  Grammar(messages)' /\ NoNewResponse
<1>1. ~Answering(m) /\ m.role # "toolResult" /\ (IsResponse(m) => m.stop # "partial")
  BY DEF Answering, IsResponse
<1>2. messages \in Seq(Messages)
  BY Transcript
<1>3. Grammar(Append(messages, m))
  BY <1>1, <1>2, GrammarAppended
<1>4. NoNewResponse
  BY <1>1, <1>2 DEF NoNewResponse
<1> QED BY <1>3, <1>4

LEMMA SaidNothing ==
  ASSUME Grammar(messages), messages' = messages
  PROVE  Grammar(messages)' /\ NoNewResponse
BY DEF NoNewResponse

LEMMA NotLive ==
  ASSUME NEW r, NEW place, place \notin Live, NEW l, NEW said
  PROVE  AtPlace(r, place, l, said)
BY DEF AtPlace, Live, Looping

LEMMA OthersRest ==
  ASSUME RunRegistry, NEW r \in Runs, pc[r] \in Live
  PROVE  \A s \in Runs \ {r} : pc[s] \notin Live
BY DEF RunRegistry

LEMMA InPlaceAfter ==
  ASSUME RunRegistry, NEW r \in Runs, pc[r] \in Live,
         \A s \in Runs \ {r} : pc'[s] = pc[s],
         AtPlace(r, pc'[r], local'[r], messages')
  PROVE  InPlace'
<1> SUFFICES ASSUME NEW s \in Runs PROVE AtPlace(s, pc'[s], local'[s], messages')
  BY DEF InPlace
<1>1. CASE s = r
  BY <1>1
<1>2. CASE s # r
  BY <1>2, OthersRest, NotLive
<1> QED BY <1>1, <1>2

LEMMA SamePlace ==
  ASSUME NEW r, NEW place, NEW l, NEW said, AtPlace(r, place, l, said), NEW m,
         m.context = l.context, m.results = l.results, m.turn = l.turn, m.pending = l.pending
  PROVE  AtPlace(r, place, m, said)
BY DEF AtPlace

LEMMA HostRequest ==
  ASSUME ~Reentrant, TypeOK, TypeOK', RunRegistry, RequestInv, HostStep
  PROVE  RequestInv'
<1>1. ASSUME NEW r \in Runs,
             Prompt(r) \/ ContinueSteering(r) \/ ContinueFollowUp(r) \/ ContinueContext(r)
      PROVE  RequestInv'
  <2>1. CanStart /\ \E prompts, skip : StartRun(r, prompts, skip)
    BY <1>1 DEF Prompt, ContinueSteering, ContinueFollowUp, ContinueContext
  <2>2. PICK prompts, mode, skip :
          /\ local' = [local EXCEPT ![r] = LocalsAt(messages, prompts, mode, skip)]
          /\ pc' = [pc EXCEPT ![r] = "opening"] /\ pc[r] = "unused" /\ messages' = messages
    BY <2>1 DEF StartRun, NewRun
  <2>3. \A s \in Runs : pc[s] \notin Live
    BY <2>1 DEF CanStart, RunRegistry, NoRun, Runs
  <2>4. /\ local'[r] = LocalsAt(messages, prompts, mode, skip) /\ pc'[r] = "opening"
        /\ \A s \in Runs \ {r} : pc'[s] = pc[s] /\ local'[s] = local[s]
    BY <2>2 DEF TypeOK
  <2>5. local'[r].context = messages \o prompts /\ local'[r].pending = prompts
    BY <2>4 DEF LocalsAt
  <2>6. AtPlace(r, pc'[r], local'[r], messages')
    BY <2>2, <2>4, <2>5 DEF AtPlace
  <2>7. InPlace'
    <3> SUFFICES ASSUME NEW s \in Runs PROVE AtPlace(s, pc'[s], local'[s], messages')
      BY DEF InPlace
    <3> QED BY <2>3, <2>4, <2>6, NotLive
  <2>8. Grammar(messages)' /\ NoNewResponse
    BY <2>2, SaidNothing DEF RequestInv
  <2>9. \A s \in Runs : MovesOn(s)
    <3>1. \A s \in Runs : local[s].turn \in Nat
      BY LocalsType
    <3> QED BY <2>2, <2>4, <3>1 DEF MovesOn
  <2> QED BY <2>7, <2>8, <2>9, KnownKept DEF RequestInv
<1>2. CASE \/ Steer \/ FollowUp \/ Abort \/ ClearSteeringQueue \/ ClearFollowUpQueue
           \/ Reset \/ AppendMessage \/ DropFailedResponse
  <2>1. /\ pc' = pc /\ local' = local
        /\ \/ messages' = messages
           \/ /\ runningPrompt = NoRun
              /\ \/ \E k \in 0..Len(messages) : messages' = SubSeq(messages, 1, k)
                 \/ \E m \in Messages : messages' = Append(messages, m) /\ m.role = "user"
    BY <1>2, HostTranscript
  <2>2. Grammar(messages)' /\ NoNewResponse
    <3>1. CASE messages' = messages
      BY <3>1, SaidNothing DEF RequestInv
    <3>2. ASSUME NEW k \in 0..Len(messages), messages' = SubSeq(messages, 1, k)
          PROVE  Grammar(messages)' /\ NoNewResponse
      <4>1. messages \in Seq(Messages)
        BY Transcript
      <4>2. Grammar(SubSeq(messages, 1, k))
        BY <4>1, GrammarCut DEF RequestInv
      <4>3. NoNewResponse
        BY <3>2, <4>1 DEF NoNewResponse
      <4> QED BY <3>2, <4>2, <4>3
    <3>3. ASSUME NEW m \in Messages, messages' = Append(messages, m), m.role = "user"
          PROVE  Grammar(messages)' /\ NoNewResponse
      BY <3>3, SaidOutOfTurn DEF RequestInv
    <3> QED BY <2>1, <3>1, <3>2, <3>3
  <2>3. \A s \in Runs : MovesOn(s)
    <3>1. \A s \in Runs : local[s].turn \in Nat
      BY LocalsType
    <3> QED BY <2>1, <3>1 DEF MovesOn
  <2>4. InPlace'
    <3>1. CASE messages' = messages
      BY <2>1, <3>1 DEF RequestInv, InPlace
    <3>2. CASE runningPrompt = NoRun
      <4>1. \A s \in Runs : pc[s] \notin Live
        BY <3>2 DEF RunRegistry, NoRun, Runs
      <4> SUFFICES ASSUME NEW s \in Runs PROVE AtPlace(s, pc'[s], local'[s], messages')
        BY DEF InPlace
      <4> QED BY <2>1, <4>1, NotLive
    <3> QED BY <2>1, <3>1, <3>2
  <2> QED BY <2>2, <2>3, <2>4, KnownKept DEF RequestInv
<1> QED BY <1>1, <1>2 DEF HostStep

\* The steps outside of a response and its calls keep the context up to date, and
\* so does the end of a turn.
LEMMA MoveAtPlace ==
  ASSUME TypeOK, NEW r \in Runs, AtPlace(r, pc[r], local[r], messages),
         \/ AnnouncePrompt(r) \/ InjectPending(r) \/ PollSteering(r) \/ StreamStart(r)
         \/ FailedTurnEnd(r) \/ TurnEnd(r) \/ PollFollowUp(r) \/ AgentEnd(r) \/ Unwind(r)
         \/ RunThrows(r)
  PROVE  AtPlace(r, pc'[r], local'[r], messages')
<1>1. /\ messages \in Seq(Messages) /\ Len(messages) \in Nat
      /\ local[r].context \in Seq(Messages) /\ local[r].pending \in Seq(Messages)
  BY Transcript, LocalsType, SubseqTypes, MessageTypes
<1>2. CASE AnnouncePrompt(r)
  <2> DEFINE p == local[r].pending
  <2>1. /\ pc[r] = "opening" /\ pc' = pc /\ p # <<>> /\ messages' = Append(messages, Head(p))
        /\ local'[r].context = local[r].context /\ local'[r].pending = Tail(p)
    BY <1>2, AnnounceLocal DEF AnnouncePrompt
  <2>2. local[r].context = messages \o p
    BY <2>1 DEF AtPlace
  <2>3. p \in Seq(Messages)
    BY <1>1
  <2> HIDE DEF p
  <2>4. messages \o p = Append(messages, Head(p)) \o Tail(p)
    BY <1>1, <2>1, <2>3
  <2> QED BY <2>1, <2>2, <2>4 DEF AtPlace
<1>3. CASE InjectPending(r)
  <2>1. /\ pc[r] = "turn" /\ pc' = pc
        /\ messages' = Append(messages, Head(local[r].pending))
        /\ local'[r].context = Append(local[r].context, Head(local[r].pending))
    BY <1>3, InjectLocal DEF InjectPending
  <2>2. local[r].context = messages
    BY <2>1 DEF AtPlace
  <2> QED BY <2>1, <2>2 DEF AtPlace
<1>4. CASE PollSteering(r)
  <2>1. PICK q : SetLocal(r, [local[r] EXCEPT !.pending = q, !.skipPoll = FALSE])
    BY <1>4 DEF PollSteering
  <2>2. local'[r].context = local[r].context
    BY <2>1, PollSteeringLocal
  <2>3. PICK p \in {"turn", "followUp"} : pc' = [pc EXCEPT ![r] = p]
    BY <1>4 DEF PollSteering, Goto
  <2>4. pc'[r] = p /\ messages' = messages
    BY <1>4, <2>3 DEF TypeOK, PollSteering, agentVars
  <2>5. local[r].context = messages
    <3>1. CASE pc[r] = "opening" /\ local[r].pending = <<>>
      <4>1. local[r].context = messages \o <<>>
        BY <3>1 DEF AtPlace
      <4> QED BY <1>1, <4>1
    <3>2. CASE pc[r] = "polling"
      BY <3>2 DEF AtPlace
    <3> QED BY <1>4, <3>1, <3>2 DEF PollSteering
  <2> QED BY <2>2, <2>4, <2>5 DEF AtPlace
<1>5. CASE PollFollowUp(r)
  <2>1. PICK q : SetLocal(r, [local[r] EXCEPT !.pending = q])
    BY <1>5 DEF PollFollowUp
  <2>2. local'[r].context = local[r].context
    BY <2>1, PollFollowUpLocal
  <2>3. PICK p \in {"ending", "turn"} : pc' = [pc EXCEPT ![r] = p]
    BY <1>5 DEF PollFollowUp, Goto
  <2>4. pc'[r] = p /\ messages' = messages /\ pc[r] = "followUp"
    BY <1>5, <2>3 DEF TypeOK, PollFollowUp, agentVars
  <2> QED BY <2>2, <2>4 DEF AtPlace
<1>6. CASE StreamStart(r)
  <2> DEFINE m == Partial(r, local[r].turn + 1)
             c == Append(local[r].context, m)
  <2>1. SetLocal(r, [local[r] EXCEPT !.context = c])
    BY <1>6 DEF StreamStart
  <2>2. pc[r] = "turn" /\ pc'[r] = "streaming" /\ messages' = messages
    BY <1>6 DEF StreamStart, AtRequest, Goto, TypeOK
  <2>3. c \in Seq(Messages \cup {m}) /\ local[r].context = messages
    BY <1>1, <2>2 DEF AtPlace
  <2>4. Len(c) = Len(messages) + 1 /\ \A i \in 1..Len(messages) : c[i] = messages[i]
    <3> HIDE DEF m
    <3> QED BY <1>1, <2>3
  <2> HIDE DEF c
  <2>5. local'[r] = [local[r] EXCEPT !.context = c] /\ local[r] \in Locals
    BY <2>1, LocalFacts, LocalsType, Zenon
  <2>6. local'[r].context = c
    BY <2>5 DEF Locals
  <2> QED BY <2>2, <2>4, <2>6 DEF AtPlace
<1>7. CASE TurnEnd(r)
  <2>1. local'[r].context = local[r].context \o local[r].results
    BY <1>7, TurnEndLocal
  <2>2. pc[r] = "tools" /\ pc'[r] = "polling" /\ messages' = messages
    BY <1>7 DEF TurnEnd, Executing, Goto, TypeOK, agentVars
  <2> QED BY <2>1, <2>2 DEF AtPlace
<1>8. CASE FailedTurnEnd(r) \/ AgentEnd(r) \/ Unwind(r) \/ RunThrows(r)
  <2>1. pc'[r] \in {"ending", "unwinding", "done"}
    BY <1>8 DEF FailedTurnEnd, AgentEnd, Unwind, RunThrows, Finally, Goto, TypeOK
  <2> QED BY <2>1 DEF AtPlace
<1> QED BY <1>2, <1>3, <1>4, <1>5, <1>6, <1>7, <1>8

LEMMA MoveRequest ==
  ASSUME TypeOK, TypeOK', RunRegistry, RequestInv, NEW r \in Runs,
         \/ AnnouncePrompt(r) \/ InjectPending(r) \/ PollSteering(r) \/ StreamStart(r)
         \/ FailedTurnEnd(r) \/ TurnEnd(r) \/ PollFollowUp(r) \/ AgentEnd(r) \/ Unwind(r)
         \/ RunThrows(r)
  PROVE  RequestInv'
<1>1. /\ pc[r] \in Live /\ pc'[r] # "unused"
      /\ \A s \in Runs \ {r} : pc'[s] = pc[s] /\ local'[s] = local[s]
      /\ local'[r].turn = local[r].turn
  BY MovePlaces
<1>2. Grammar(messages)' /\ NoNewResponse
  BY MoveTranscript, SaidNothing, SaidOutOfTurn DEF RequestInv
<1>3. \A s \in Runs : MovesOn(s)
  <2>1. \A s \in Runs : local[s].turn \in Nat
    BY LocalsType
  <2> QED BY <1>1, <2>1 DEF MovesOn
<1>4. AtPlace(r, pc'[r], local'[r], messages')
  BY MoveAtPlace DEF RequestInv, InPlace
<1>5. InPlace'
  BY <1>1, <1>4, InPlaceAfter
<1> QED BY <1>2, <1>3, <1>5, KnownKept DEF RequestInv

LEMMA AppendToSecond ==
  ASSUME NEW s \in Seq(Messages), NEW t \in Seq(Messages), NEW m \in Messages
  PROVE  Append(s \o t, m) = s \o Append(t, m)
OBVIOUS

LEMMA AppendLast ==
  ASSUME NEW s \in Seq(Messages), NEW m \in Messages
  PROVE  Append(s, m) # <<>> /\ Append(s, m)[Len(Append(s, m))] = m
OBVIOUS

LEMMA LastPut ==
  ASSUME NEW s \in Seq(Messages), NEW c \in Seq(Messages), NEW m \in Messages,
         Len(c) = Len(s) + 1, \A i \in 1..Len(s) : c[i] = s[i]
  PROVE  [c EXCEPT ![Len(c)] = m] = Append(s, m)
<1>1. Len(s) \in Nat /\ Len(c) \in 1..Len(c)
  OBVIOUS
<1>2. [c EXCEPT ![Len(c)] = m] \in Seq(Messages) /\ Len([c EXCEPT ![Len(c)] = m]) = Len(c)
  BY <1>1, ExceptSeq
<1>3. Append(s, m) \in Seq(Messages) /\ Len(Append(s, m)) = Len(c)
  OBVIOUS
<1>4. \A i \in 1..Len(c) : [c EXCEPT ![Len(c)] = m][i] = Append(s, m)[i]
  OBVIOUS
<1> QED BY <1>2, <1>3, <1>4, SeqEqual

\* A response is one of a new turn, and takes the place of the partial one.
LEMMA StreamEndRequest ==
  ASSUME TypeOK, TypeOK', RunRegistry, RequestInv, NEW r \in Runs, StreamEnd(r)
  PROVE  RequestInv'
<1>1. PICK stop \in StopReasons \ {"partial"}, n \in 0..MaxCalls : Responds(r, stop, n)
  BY StreamEndLocal
<1> DEFINE m == Assistant(r, local[r].turn + 1, n, stop)
           l == Len(messages)
<1>2. /\ m \in Messages /\ messages' = Append(messages, m)
      /\ pc' = [pc EXCEPT ![r] = IF stop = "ok" THEN "tools" ELSE "failedTurn"]
      /\ \A s \in Runs \ {r} : local'[s] = local[s]
      /\ local'[r].turn = local[r].turn + 1 /\ local'[r].results = <<>>
      /\ local'[r].context = Finished(r, m)
  BY <1>1 DEF Responds
<1>3. /\ IsResponse(m) /\ m.role = "assistant" /\ m.run = r /\ m.turn = local[r].turn + 1
      /\ m.stop = stop
  BY DEF Assistant, IsResponse
<1> HIDE DEF m
<1>4. /\ messages \in Seq(Messages) /\ l \in Nat /\ Len(messages') = l + 1 /\ messages'[l + 1] = m
      /\ \A k \in 1..l : messages'[k] = messages[k]
      /\ local[r].context \in Seq(Messages) /\ local[r].turn \in Nat
  BY <1>2, Transcript, LocalsType
<1>5. /\ pc'[r] = IF stop = "ok" THEN "tools" ELSE "failedTurn"
      /\ pc[r] \in {"turn", "streaming"} /\ pc[r] \in Live /\ pc'[r] # "unused"
      /\ \A s \in Runs \ {r} : pc'[s] = pc[s]
  BY <1>2 DEF StreamEnd, AtRequest, TypeOK, Live, Looping
<1>6. ASSUME NEW k \in 1..l, Answering(messages[k])
      PROVE  /\ messages[k].run \in Runs /\ messages[k].turn \in Nat
             /\ pc[messages[k].run] # "unused"
             /\ messages[k].turn <= local[messages[k].run].turn
  <2>1. messages[k] \in Requested /\ messages[k].role = "assistant"
    BY <1>6, Transcript, MessagesAreRequested DEF Answering, IsResponse
  <2> QED BY <1>6, <2>1, RequestedFacts DEF RequestInv, ResponsesKnown
<1> HIDE DEF l
<1>7. Grammar(messages)'
  <2>1. ASSUME NEW k \in 1..Len(messages), Answering(messages[k]) PROVE ~SameTurn(messages[k], m)
    <3> SUFFICES ASSUME SameTurn(messages[k], m) PROVE FALSE
      OBVIOUS
    <3>1. messages[k].run = r /\ messages[k].turn = local[r].turn + 1
      BY <1>3 DEF SameTurn
    <3> QED BY <1>4, <1>6, <2>1, <3>1 DEF l
  <2>2. m.stop # "partial" /\ m.role # "toolResult"
    BY <1>3
  <2>3. Grammar(Append(messages, m))
    BY <1>2, <1>4, <2>1, <2>2, GrammarAppended DEF RequestInv
  <2> QED BY <1>2, <2>3
<1>8. ResponsesKnown'
  <2> SUFFICES ASSUME NEW k \in 1..(l + 1), Answering(messages'[k])
               PROVE  /\ pc'[messages'[k].run] # "unused"
                      /\ messages'[k].turn <= local'[messages'[k].run].turn
    BY <1>4 DEF ResponsesKnown
  <2>1. CASE k = l + 1
    BY <1>2, <1>3, <1>4, <1>5, <2>1
  <2>2. CASE k \in 1..l
    <3>1. PICK s, t : s = messages[k].run /\ t = messages[k].turn
      OBVIOUS
    <3>2. messages'[k] = messages[k] /\ Answering(messages[k])
      BY <1>4, <2>2
    <3>3. s \in Runs /\ t \in Nat /\ pc[s] # "unused" /\ t <= local[s].turn
      BY <1>6, <2>2, <3>1, <3>2
    <3>4. pc'[s] # "unused"
      BY <1>5, <3>3
    <3>5. t <= local'[s].turn
      BY <1>2, <1>4, <3>3
    <3> QED BY <3>1, <3>2, <3>4, <3>5
  <2> QED BY <1>4, <2>1, <2>2
<1>9. local'[r].context = messages'
  <2>1. AtPlace(r, pc[r], local[r], messages)
    BY DEF RequestInv, InPlace
  <2>2. CASE pc[r] = "streaming"
    <3>1. /\ Len(local[r].context) = Len(messages) + 1
          /\ \A i \in 1..Len(messages) : local[r].context[i] = messages[i]
      BY <2>1, <2>2 DEF AtPlace
    <3>2. [local[r].context EXCEPT ![Len(local[r].context)] = m] = Append(messages, m)
      <4>1. PICK c, s : c = local[r].context /\ s = messages
        OBVIOUS
      <4>2. /\ s \in Seq(Messages) /\ c \in Seq(Messages) /\ m \in Messages
            /\ Len(c) = Len(s) + 1 /\ \A i \in 1..Len(s) : c[i] = s[i]
        BY <1>2, <1>4, <3>1, <4>1
      <4>3. [c EXCEPT ![Len(c)] = m] = Append(s, m)
        BY <4>2, LastPut
      <4> QED BY <4>1, <4>3
    <3> QED BY <1>2, <2>2, <3>2 DEF Finished
  <2>3. CASE pc[r] = "turn"
    <3>1. local[r].context = messages
      BY <2>1, <2>3 DEF AtPlace
    <3> QED BY <1>2, <2>3, <3>1 DEF Finished
  <2> QED BY <1>5, <2>2, <2>3
<1>10. AtPlace(r, pc'[r], local'[r], messages')
  <2>1. CASE stop = "ok"
    <3>1. messages' \in Seq(Messages) /\ messages' # <<>>
      BY <1>2, <1>4
    <3>2. messages' = local'[r].context \o local'[r].results
      BY <1>2, <1>9, <3>1
    <3>3. InTurn(m)
      BY <1>3, <2>1 DEF InTurn
    <3> QED BY <1>2, <1>3, <1>4, <1>5, <2>1, <3>1, <3>2, <3>3 DEF AtPlace
  <2>2. CASE stop # "ok"
    BY <1>5, <2>2 DEF AtPlace
  <2> QED BY <2>1, <2>2
<1>11. InPlace'
  BY <1>5, <1>10, InPlaceAfter
<1> QED BY <1>7, <1>8, <1>11 DEF RequestInv

\* A call moves on without a result, in the live run or in one that has ended.
LEMMA ProgressRequest ==
  ASSUME TypeOK, TypeOK', RequestInv, NEW r \in Runs,
         \/ Launch(r)
         \/ \E i \in 1..MaxCalls : ToolStart(r, i) \/ ToolPrepared(r, i) \/ ToolSettles(r, i)
  PROVE  RequestInv'
<1>1. pc' = pc /\ messages' = messages
  BY DEF Launch, ToolStart, ToolPrepared, ToolSettles, agentVars
<1>2. /\ \A s \in Runs \ {r} : local'[s] = local[s]
      /\ local'[r].turn = local[r].turn /\ local'[r].results = local[r].results
      /\ local'[r].context = local[r].context /\ local'[r].pending = local[r].pending
  <2>1. CASE Launch(r)
    BY <2>1, LaunchLocal
  <2>2. ASSUME NEW i \in 1..MaxCalls, ToolStart(r, i) \/ ToolPrepared(r, i) \/ ToolSettles(r, i)
        PROVE  <1>2
    <3>1. PICK state : SetLocal(r, SetCall(r, i, state))
      BY <2>2 DEF ToolStart, ToolPrepared, ToolSettles
    <3> QED BY <3>1, CallLocal DEF CallMoves
  <2> QED BY <2>1, <2>2
<1>3. InPlace'
  <2> SUFFICES ASSUME NEW s \in Runs PROVE AtPlace(s, pc'[s], local'[s], messages')
    BY DEF InPlace
  <2>1. AtPlace(s, pc[s], local[s], messages)
    BY DEF RequestInv, InPlace
  <2>2. /\ local'[s].turn = local[s].turn /\ local'[s].results = local[s].results
        /\ local'[s].context = local[s].context /\ local'[s].pending = local[s].pending
    BY <1>2
  <2>3. AtPlace(s, pc[s], local'[s], messages)
    BY <2>1, <2>2, SamePlace
  <2> QED BY <1>1, <2>3
<1>4. Grammar(messages)' /\ NoNewResponse
  BY <1>1, SaidNothing DEF RequestInv
<1>5. \A s \in Runs : MovesOn(s)
  <2>1. \A s \in Runs : local[s].turn \in Nat
    BY LocalsType
  <2> QED BY <1>1, <1>2, <2>1 DEF MovesOn
<1> QED BY <1>3, <1>4, <1>5, KnownKept DEF RequestInv

\* A call gets its first and only result, while its turn is the last one.
LEMMA OutcomeRequest ==
  ASSUME TypeOK, TypeOK', RunRegistry, ResultsInv, RequestInv, NEW r \in Runs,
         NEW i \in 1..MaxCalls, ToolRefused(r, i) \/ Finalize(r, i)
  PROVE  RequestInv'
<1> DEFINE m == ToolResult(r, local[r].turn, i)
<1>1. /\ EmitOutcome(r, i) /\ pc[r] = "tools" /\ pc' = pc /\ local[r].calls[i] # "ended"
  BY DEF ToolRefused, Finalize, Awaited, Executing, CallState, EmitOutcome
<1>2. /\ CallMoves(r, i, "ended") /\ messages' = Append(messages, m) /\ m \in Messages
      /\ m \in ToolResults /\ local'[r].results = Append(local[r].results, m)
  BY <1>1, OutcomeLocal
<1>3. m.role = "toolResult" /\ m.run = r /\ m.turn = local[r].turn /\ m.call = i
  BY DEF ToolResult
<1> HIDE DEF m
<1>4. AtPlace(r, "tools", local[r], messages)
  BY <1>1 DEF RequestInv, InPlace
<1>5. /\ messages \in Seq(Messages) /\ Len(messages) \in Nat
      /\ local[r].context \in Seq(Messages) /\ local[r].results \in Seq(Messages)
  BY Transcript, LocalsType, SubseqTypes, MessageTypes
<1>6. /\ messages # <<>> /\ InTurn(messages[Len(messages)])
      /\ SameTurn(m, messages[Len(messages)])
      /\ messages = local[r].context \o local[r].results
  BY <1>3, <1>4 DEF AtPlace, SameTurn
<1>7. ASSUME NEW k \in 1..Len(messages) PROVE messages[k] # m
  <2> SUFFICES ASSUME messages[k] = m PROVE FALSE
    OBVIOUS
  <2> QED BY <1>1, <1>3 DEF ResultsInv, ResultsKnown
<1>8. ~IsResponse(m) /\ ~Answering(m)
  BY <1>3 DEF IsResponse, Answering
<1>9. Grammar(messages)'
  <2>1. Grammar(Append(messages, m))
    BY <1>2, <1>5, <1>6, <1>7, <1>8, GrammarAppended DEF RequestInv
  <2> QED BY <1>2, <2>1
<1>10. NoNewResponse
  BY <1>2, <1>5, <1>8 DEF NoNewResponse
<1>11. \A s \in Runs : MovesOn(s)
  <2>1. \A s \in Runs : local[s].turn \in Nat
    BY LocalsType
  <2> QED BY <1>1, <1>2, <2>1 DEF MovesOn, CallMoves
<1>12. AtPlace(r, pc'[r], local'[r], messages')
  <2>1. Append(messages, m) = local[r].context \o Append(local[r].results, m)
    <3>1. Append(local[r].context \o local[r].results, m)
            = local[r].context \o Append(local[r].results, m)
      BY <1>2, <1>5, AppendToSecond, Zenon
    <3> QED BY <1>6, <3>1, Zenon
  <2>2. /\ local'[r].context = local[r].context /\ local'[r].turn = local[r].turn
        /\ local'[r].results = Append(local[r].results, m)
    BY <1>2 DEF CallMoves
  <2>3. messages' = local'[r].context \o local'[r].results
    BY <1>2, <2>1, <2>2
  <2>4. /\ messages' # <<>> /\ messages'[Len(messages')] = m
    <3>1. Append(messages, m) # <<>> /\ Append(messages, m)[Len(Append(messages, m))] = m
      BY <1>2, <1>5, AppendLast, Zenon
    <3>2. messages' = Append(messages, m)
      BY <1>2
    <3> QED BY <3>1, <3>2, Zenon
  <2>5. InTurn(m)
    BY <1>3 DEF InTurn
  <2> QED BY <1>1, <1>3, <2>2, <2>3, <2>4, <2>5 DEF AtPlace
<1>13. InPlace'
  <2>1. pc[r] \in Live
    BY <1>1 DEF Live, Looping
  <2> QED BY <1>1, <1>12, <2>1, InPlaceAfter
<1> QED BY <1>9, <1>10, <1>11, <1>13, KnownKept DEF RequestInv

LEMMA RequestStep ==
  ASSUME ~Reentrant, TypeOK, TypeOK', RunRegistry, ResultsInv, RequestInv, [Next]_vars
  PROVE  RequestInv'
<1>1. CASE HostStep
  BY <1>1, HostRequest
<1>2. ASSUME NEW r \in Runs, LoopStep(r) \/ ToolStep(r)
      PROVE  RequestInv'
  <2>1. CASE \/ AnnouncePrompt(r) \/ InjectPending(r) \/ PollSteering(r) \/ StreamStart(r)
             \/ FailedTurnEnd(r) \/ TurnEnd(r) \/ PollFollowUp(r) \/ AgentEnd(r) \/ Unwind(r)
             \/ RunThrows(r)
    BY <2>1, MoveRequest
  <2>2. CASE StreamEnd(r)
    BY <2>2, StreamEndRequest
  <2>3. CASE \/ Launch(r)
             \/ \E i \in 1..MaxCalls : ToolStart(r, i) \/ ToolPrepared(r, i) \/ ToolSettles(r, i)
    BY <2>3, ProgressRequest
  <2>4. ASSUME NEW i \in 1..MaxCalls, ToolRefused(r, i) \/ Finalize(r, i)
        PROVE  RequestInv'
    BY <2>4, OutcomeRequest
  <2> QED BY <1>2, <2>1, <2>2, <2>3, <2>4 DEF LoopStep, ToolStep
<1>3. CASE UNCHANGED vars
  BY <1>3 DEF vars, RequestInv, ResponsesKnown, InPlace
<1> QED BY <1>1, <1>2, <1>3 DEF Next

LEMMA RequestInit == Init => RequestInv
<1> SUFFICES ASSUME Init PROVE RequestInv
  OBVIOUS
<1>1. messages = <<>> /\ Len(<<>>) = 0
  BY DEF Init
<1>2. Grammar(messages)
  BY <1>1 DEF Grammar, Whole, Behind, OneResponseATurn, OneResultACall
<1>3. ResponsesKnown
  BY <1>1 DEF ResponsesKnown
<1>4. InPlace
  <2>1. \A r \in Runs : pc[r] = "unused"
    BY DEF Init
  <2>2. \A r \in Runs : pc[r] \notin Live
    BY <2>1 DEF Live, Looping
  <2> QED BY <2>2, NotLive DEF InPlace
<1> QED BY <1>2, <1>3, <1>4 DEF RequestInv

\* Whatever the runs before have left in the transcript, a request has no failed
\* response, its results directly follow the response that made the calls, and
\* each call has one result, save for the calls of the very last response.
THEOREM RequestsAreWellFormed == ASSUME ~Reentrant PROVE Spec => []RequestIsWellFormed
<1>1. TypeOK /\ RequestInv => RequestIsWellFormed
  <2> SUFFICES ASSUME TypeOK, RequestInv, NEW r \in Runs, AtRequest(r)
               PROVE  WellFormed(transformMessages(local[r].context))
    BY DEF RequestIsWellFormed
  <2>1. local[r].context = messages
    BY DEF AtRequest, RequestInv, InPlace, AtPlace
  <2> QED BY <2>1, Transcript, TransformIsWellFormed DEF RequestInv
<1>2. ResultsInv /\ TypeOK /\ TypeOK' /\ [Next]_vars => ResultsInv'
  BY ResultsStep
<1>3. Init => ResultsInv
  BY DEF Init, ResultsInv, ResultsKnown, CallsInOrder, SequentialOrder, InOrder
<1>4. TypeOK /\ TypeOK' /\ RunRegistry /\ ResultsInv /\ RequestInv /\ [Next]_vars => RequestInv'
  BY RequestStep
<1> QED
  BY <1>1, <1>2, <1>3, <1>4, RequestInit, AgentTypeOK, RegistryConsistent, PTL DEF Spec
=============================================================================
