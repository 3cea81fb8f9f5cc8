-------------------------------- MODULE Agent --------------------------------
(***************************************************************************)
(* The Agent class of packages/agent/src/agent.ts together with the loop   *)
(* of packages/agent/src/agent-loop.ts that it runs.                       *)
(*                                                                         *)
(* A run starts with prompt() or continue(), alternates model responses    *)
(* and tool calls, and ends with agent_end and the unwinding of _runLoop.  *)
(* JavaScript is single threaded: a run gives up control only where it     *)
(* awaits, so an action is the code between two awaits that matter, and    *)
(* between two actions of a run the host (the UI, an extension, a          *)
(* listener) may call any method of the Agent.                             *)
(*                                                                         *)
(* message_start and message_end of one complete message (a user message   *)
(* or a tool result) are one action: no other step depends on the pair     *)
(* being torn. The streaming of an assistant message is not.               *)
(***************************************************************************)
EXTENDS Naturals, Sequences

CONSTANTS
  MaxRuns,      \* bound on the calls of prompt() and continue() that start a run
  MaxMessages,  \* bound on the user messages the host submits
  MaxToolTurns, \* bound on the responses of one run that call tools
  MaxCalls,     \* bound on the tool calls of one response
  ToolModes,    \* the values setToolExecution() is called with
  QueueModes,   \* the values setSteeringMode() and setFollowUpMode() are called with
  Outcomes,     \* how the model may end a response: "ok", "error"
  CanAbort,     \* the host may call abort()
  HooksThrow,   \* transformContext, convertToLlm, streamFn or afterToolCall may throw
  Reentrant,    \* a listener of agent_end may call prompt() or continue()
  Housekeeping  \* the host uses reset, clear*Queue, appendMessage, replaceMessages

ASSUME BoundsAssumption ==
  MaxRuns \in Nat /\ MaxMessages \in Nat /\ MaxToolTurns \in Nat /\ MaxCalls \in Nat
ASSUME ModesAssumption ==
  /\ ToolModes \subseteq {"sequential", "parallel"} /\ ToolModes # {}
  /\ QueueModes \subseteq {"one-at-a-time", "all"} /\ QueueModes # {}
  /\ Outcomes \subseteq {"ok", "error"}
ASSUME SwitchesAssumption ==
  {CanAbort, HooksThrow, Reentrant, Housekeeping} \subseteq BOOLEAN

VARIABLES
  \* Agent._state
  messages, isStreaming, streamMessage, pendingToolCalls, error,
  \* the other fields of Agent
  steeringQueue, followUpQueue, abortController, runningPrompt,
  \* the runs: where each one is, its local variables, its AbortSignal
  pc, local, aborted,
  \* history: what kind each user message is, which were dropped on request,
  \* and what each run's agent_end event carried
  submitted, discarded, reported

agentVars == <<messages, isStreaming, streamMessage, pendingToolCalls, error>>
queueVars == <<steeringQueue, followUpQueue>>
runVars   == <<abortController, runningPrompt, pc, local, aborted>>
history   == <<submitted, discarded, reported>>
vars == <<messages, isStreaming, streamMessage, pendingToolCalls, error,
          steeringQueue, followUpQueue, abortController, runningPrompt,
          pc, local, aborted, submitted, discarded, reported>>

-----------------------------------------------------------------------------
(* Messages and runs.                                                      *)

Runs == 1..MaxRuns
NoRun == 0
Ids == 1..MaxMessages

\* A user message is known by the order in which the host submitted it.
User(id) == [role |-> "user", id |-> id]
\* The response of a turn, with the number of its tool calls and its stopReason.
Assistant(r, t, calls, stop) ==
  [role |-> "assistant", run |-> r, turn |-> t, calls |-> calls, stop |-> stop]
ToolResult(r, t, i) == [role |-> "toolResult", run |-> r, turn |-> t, call |-> i]
\* The message that stands for a response still being streamed.
Partial(r, t) == Assistant(r, t, 0, "partial")
\* The message _runLoop appends for a run that threw.
Failure(r, stop) == Assistant(r, 0, 0, stop)
NoMessage == [role |-> "none"]

UserMessages == {User(id) : id \in Ids}
StopReasons == {"ok", "error", "aborted", "partial"}
AssistantMessages ==
  [role : {"assistant"}, run : Runs, turn : Nat, calls : 0..MaxCalls, stop : StopReasons]
ToolResults == [role : {"toolResult"}, run : Runs, turn : Nat, call : 1..MaxCalls]
Messages == UserMessages \cup AssistantMessages \cup ToolResults

LastMessage == messages[Len(messages)]
LastIsAssistant == messages # <<>> /\ LastMessage.role = "assistant"

\* "opening": emitting the prompts; "polling": about to poll the steering queue;
\* "turn": injecting pending messages, then asking the model; "streaming": the
\* response has started; "tools": executing tool calls; "failedTurn": the
\* response was an error; "followUp": about to poll the follow-up queue;
\* "ending": about to emit agent_end; "unwinding": agent_end was emitted and
\* `finally` has not run yet.
Looping == {"opening", "polling", "turn", "streaming", "tools", "failedTurn", "followUp", "ending"}
Live == Looping \cup {"unwinding"}
Places == Live \cup {"unused", "done"}

\* Where a tool call of the current response is: "started" has emitted
\* tool_execution_start, "ready" is prepared (parallel mode), "settled" is the
\* outcome of execute() not yet reported, "ended" has its result message;
\* "none": the response has no such call.
CallStates == {"none", "todo", "started", "ready", "running", "settled", "ended"}
CallId(r, i) == <<r, local[r].turn, i>>
CallIds == Runs \X Nat \X (1..MaxCalls)

\* The local variables of _runLoop and runLoop. `base` is the length of the
\* transcript when the run started (history only).
Locals == [context : Seq(Messages), newMessages : Seq(Messages), pending : Seq(UserMessages),
           hasMore : BOOLEAN, turn : Nat, toolTurns : 0..MaxToolTurns,
           calls : [1..MaxCalls -> CallStates],
           results : Seq(ToolResults), mode : {"sequential", "parallel"},
           skipPoll : BOOLEAN, base : Nat]
NoCalls == [i \in 1..MaxCalls |-> "none"]
LocalsAt(transcript, prompts, mode, skip) ==
  [context |-> transcript \o prompts, newMessages |-> prompts, pending |-> prompts,
   hasMore |-> TRUE, turn |-> 0, toolTurns |-> 0, calls |-> NoCalls, results |-> <<>>,
   mode |-> mode, skipPoll |-> skip, base |-> Len(transcript)]
NoLocals == LocalsAt(<<>>, <<>>, "parallel", FALSE)

\* Every variable has its type.
TypeOK ==
  /\ messages \in Seq(Messages)
  /\ isStreaming \in BOOLEAN
  /\ streamMessage \in AssistantMessages \cup {NoMessage}
  /\ pendingToolCalls \subseteq CallIds
  /\ error \in BOOLEAN
  /\ steeringQueue \in Seq(UserMessages)
  /\ followUpQueue \in Seq(UserMessages)
  /\ abortController \in Runs \cup {NoRun}
  /\ runningPrompt \in Runs \cup {NoRun}
  /\ pc \in [Runs -> Places]
  /\ local \in [Runs -> Locals]
  /\ aborted \subseteq Runs
  /\ submitted \in Seq({"prompt", "steer", "followUp", "append"})
  /\ Len(submitted) <= MaxMessages
  /\ discarded \subseteq Ids
  /\ reported \in [Runs -> Seq(Messages)]

Init ==
  /\ messages = <<>>
  /\ isStreaming = FALSE
  /\ streamMessage = NoMessage
  /\ pendingToolCalls = {}
  /\ error = FALSE
  /\ steeringQueue = <<>>
  /\ followUpQueue = <<>>
  /\ abortController = NoRun
  /\ runningPrompt = NoRun
  /\ pc = [r \in Runs |-> "unused"]
  /\ local = [r \in Runs |-> NoLocals]
  /\ aborted = {}
  /\ submitted = <<>>
  /\ discarded = {}
  /\ reported = [r \in Runs |-> <<>>]

\* Definitions named X_... are faulty variants of X, one plausible slip each:
\* with one of them in the place of X a property below must fail.

-----------------------------------------------------------------------------
(* The host: every method of Agent that changes what a run can see.        *)

NextId == Len(submitted) + 1
CanSubmit == Len(submitted) < MaxMessages

\* prompt() and continue() refuse while isStreaming. A host that is not an
\* agent_end listener runs in a task of its own, after the microtasks that
\* unwind the previous run.
CanStart == ~isStreaming /\ (Reentrant \/ runningPrompt = NoRun)

\* The unused run with the least number.
NewRun(r) == pc[r] = "unused" /\ \A s \in 1..(r - 1) : pc[s] # "unused"

\* _runLoop up to its first await, with the prompts still to be emitted.
StartRun(r, prompts, skip) ==
  /\ NewRun(r)
  /\ runningPrompt' = r
  /\ abortController' = r
  /\ isStreaming' = TRUE
  /\ streamMessage' = NoMessage
  /\ error' = FALSE
  /\ pc' = [pc EXCEPT ![r] = "opening"]
  /\ \E mode \in ToolModes :
       local' = [local EXCEPT ![r] = LocalsAt(messages, prompts, mode, skip)]
  /\ UNCHANGED <<messages, pendingToolCalls, aborted, discarded, reported>>

Prompt(r) ==
  /\ CanStart /\ CanSubmit
  /\ submitted' = Append(submitted, "prompt")
  /\ StartRun(r, <<User(NextId)>>, FALSE)
  /\ UNCHANGED queueVars

\* dequeueSteeringMessages and dequeueFollowUpMessages.
Dequeued(queue, mode) ==
  IF mode = "all" \/ queue = <<>> THEN queue ELSE <<Head(queue)>>
Remaining_KeepsHead(queue, mode) == IF mode = "all" THEN <<>> ELSE queue
Remaining(queue, mode) ==
  IF mode = "all" \/ queue = <<>> THEN <<>> ELSE Tail(queue)

\* continue() after a response: the queued messages become the prompts.
ContinueSteering(r) ==
  /\ CanStart
  /\ LastIsAssistant
  /\ steeringQueue # <<>>
  /\ \E mode \in QueueModes :
       /\ StartRun(r, Dequeued(steeringQueue, mode), TRUE)
       /\ steeringQueue' = Remaining(steeringQueue, mode)
  /\ UNCHANGED <<followUpQueue, submitted>>

ContinueFollowUp(r) ==
  /\ CanStart
  /\ LastIsAssistant
  /\ steeringQueue = <<>> /\ followUpQueue # <<>>
  /\ \E mode \in QueueModes :
       /\ StartRun(r, Dequeued(followUpQueue, mode), FALSE)
       /\ followUpQueue' = Remaining(followUpQueue, mode)
  /\ UNCHANGED <<steeringQueue, submitted>>

\* continue() from a user message or a tool result (a retry).
ContinueContext(r) ==
  /\ CanStart
  /\ messages # <<>> /\ ~LastIsAssistant
  /\ StartRun(r, <<>>, FALSE)
  /\ UNCHANGED <<queueVars, submitted>>

Steer_JumpsQueue ==
  /\ CanSubmit
  /\ submitted' = Append(submitted, "steer")
  /\ steeringQueue' = <<User(NextId)>> \o steeringQueue
  /\ UNCHANGED <<agentVars, followUpQueue, runVars, discarded, reported>>

Steer ==
  /\ CanSubmit
  /\ submitted' = Append(submitted, "steer")
  /\ steeringQueue' = Append(steeringQueue, User(NextId))
  /\ UNCHANGED <<agentVars, followUpQueue, runVars, discarded, reported>>

FollowUp ==
  /\ CanSubmit
  /\ submitted' = Append(submitted, "followUp")
  /\ followUpQueue' = Append(followUpQueue, User(NextId))
  /\ UNCHANGED <<agentVars, steeringQueue, runVars, discarded, reported>>

Abort ==
  /\ CanAbort
  /\ abortController # NoRun
  /\ aborted' = aborted \cup {abortController}
  /\ UNCHANGED <<agentVars, queueVars, abortController, runningPrompt, pc, local, history>>

IdsIn(seq) == {m.id : m \in {seq[i] : i \in DOMAIN seq} \cap UserMessages}

\* clearSteeringQueue, clearFollowUpQueue; clearAllQueues is one after the other.
ClearSteeringQueue ==
  /\ Housekeeping
  /\ steeringQueue # <<>>
  /\ discarded' = discarded \cup IdsIn(steeringQueue)
  /\ steeringQueue' = <<>>
  /\ UNCHANGED <<agentVars, followUpQueue, runVars, submitted, reported>>

ClearFollowUpQueue ==
  /\ Housekeeping
  /\ followUpQueue # <<>>
  /\ discarded' = discarded \cup IdsIn(followUpQueue)
  /\ followUpQueue' = <<>>
  /\ UNCHANGED <<agentVars, steeringQueue, runVars, submitted, reported>>

\* The methods below have no guard of their own; AgentSession calls them only
\* once waitForIdle() has resolved.
Idle == Housekeeping /\ runningPrompt = NoRun

Reset ==
  /\ Idle
  /\ messages' = <<>>
  /\ isStreaming' = FALSE
  /\ streamMessage' = NoMessage
  /\ pendingToolCalls' = {}
  /\ error' = FALSE
  /\ steeringQueue' = <<>>
  /\ followUpQueue' = <<>>
  /\ discarded' = 1..Len(submitted)
  /\ UNCHANGED <<runVars, submitted, reported>>

\* appendMessage(): a command's output or an extension's message.
AppendMessage ==
  /\ Idle /\ CanSubmit
  /\ submitted' = Append(submitted, "append")
  /\ messages' = Append(messages, User(NextId))
  /\ UNCHANGED <<isStreaming, streamMessage, pendingToolCalls, error, queueVars, runVars,
                 discarded, reported>>

\* replaceMessages(messages.slice(0, -1)): AgentSession drops the error response
\* it is about to retry.
DropFailedResponse ==
  /\ Idle
  /\ LastIsAssistant /\ LastMessage.stop = "error"
  /\ messages' = SubSeq(messages, 1, Len(messages) - 1)
  /\ UNCHANGED <<isStreaming, streamMessage, pendingToolCalls, error, queueVars, runVars, history>>

HostStep ==
  \/ \E r \in Runs : Prompt(r) \/ ContinueSteering(r) \/ ContinueFollowUp(r) \/ ContinueContext(r)
  \/ Steer \/ FollowUp \/ Abort
  \/ ClearSteeringQueue \/ ClearFollowUpQueue \/ Reset \/ AppendMessage \/ DropFailedResponse

-----------------------------------------------------------------------------
(* The loop.                                                               *)

\* A step of run r that changes its place and its local variables.
Goto(r, place) == pc' = [pc EXCEPT ![r] = place]
SetLocal(r, value) == local' = [local EXCEPT ![r] = value]
UnchangedExceptRun == UNCHANGED <<abortController, runningPrompt, aborted, history>>

\* runAgentLoop emits the next prompt.
AnnouncePrompt(r) ==
  /\ pc[r] = "opening" /\ local[r].pending # <<>>
  /\ messages' = Append(messages, Head(local[r].pending))
  /\ SetLocal(r, [local[r] EXCEPT !.pending = Tail(@)])
  /\ UNCHANGED <<isStreaming, streamMessage, pendingToolCalls, error, queueVars, pc>>
  /\ UnchangedExceptRun

PollSteering_ForgetsTools(r) ==
  /\ \/ pc[r] = "opening" /\ local[r].pending = <<>>
     \/ pc[r] = "polling"
  /\ \E mode \in QueueModes :
       LET polled == IF local[r].skipPoll THEN <<>> ELSE Dequeued(steeringQueue, mode) IN
       /\ steeringQueue' = IF local[r].skipPoll THEN steeringQueue
                                                ELSE Remaining(steeringQueue, mode)
       /\ SetLocal(r, [local[r] EXCEPT !.pending = polled, !.skipPoll = FALSE])
       /\ Goto(r, IF pc[r] = "opening" \/ polled # <<>> THEN "turn" ELSE "followUp")
  /\ UNCHANGED <<agentVars, followUpQueue>>
  /\ UnchangedExceptRun

PollSteering_ForgetsPolled(r) ==
  /\ \/ pc[r] = "opening" /\ local[r].pending = <<>>
     \/ pc[r] = "polling"
  /\ \E mode \in QueueModes :
       LET polled == IF local[r].skipPoll THEN <<>> ELSE Dequeued(steeringQueue, mode) IN
       /\ steeringQueue' = IF local[r].skipPoll THEN steeringQueue
                                                ELSE Remaining(steeringQueue, mode)
       /\ SetLocal(r, [local[r] EXCEPT !.pending = polled, !.skipPoll = FALSE])
       /\ Goto(r, IF local[r].hasMore THEN "turn" ELSE "followUp")
  /\ UNCHANGED <<agentVars, followUpQueue>>
  /\ UnchangedExceptRun

\* getSteeringMessages(), at the start of runLoop and after every turn. The inner
\* loop goes on while the last response called tools or messages were dequeued.
PollSteering(r) ==
  /\ \/ pc[r] = "opening" /\ local[r].pending = <<>>
     \/ pc[r] = "polling"
  /\ \E mode \in QueueModes :
       LET polled == IF local[r].skipPoll THEN <<>> ELSE Dequeued(steeringQueue, mode) IN
       /\ steeringQueue' = IF local[r].skipPoll THEN steeringQueue
                                                ELSE Remaining(steeringQueue, mode)
       /\ SetLocal(r, [local[r] EXCEPT !.pending = polled, !.skipPoll = FALSE])
       /\ Goto(r, IF local[r].hasMore \/ polled # <<>> THEN "turn" ELSE "followUp")
  /\ UNCHANGED <<agentVars, followUpQueue>>
  /\ UnchangedExceptRun

\* Faulty variant: the message is missing from agent_end.
InjectPending_NotReported(r) ==
  /\ pc[r] = "turn" /\ local[r].pending # <<>>
  /\ messages' = Append(messages, Head(local[r].pending))
  /\ SetLocal(r, [local[r] EXCEPT !.context = Append(@, Head(local[r].pending)),
                                  !.pending = Tail(@)])
  /\ UNCHANGED <<isStreaming, streamMessage, pendingToolCalls, error, queueVars, pc>>
  /\ UnchangedExceptRun

\* The inner loop injects the next pending message.
InjectPending(r) ==
  /\ pc[r] = "turn" /\ local[r].pending # <<>>
  /\ messages' = Append(messages, Head(local[r].pending))
  /\ SetLocal(r, [local[r] EXCEPT !.context = Append(@, Head(local[r].pending)),
                                  !.newMessages = Append(@, Head(local[r].pending)),
                                  !.pending = Tail(@)])
  /\ UNCHANGED <<isStreaming, streamMessage, pendingToolCalls, error, queueVars, pc>>
  /\ UnchangedExceptRun

\* streamAssistantResponse has asked the model or is about to.
AtRequest(r) == pc[r] = "turn" /\ local[r].pending = <<>>

\* The "start" event: the partial message joins the context.
StreamStart(r) ==
  /\ AtRequest(r)
  /\ streamMessage' = Partial(r, local[r].turn + 1)
  /\ SetLocal(r, [local[r] EXCEPT !.context = Append(@, Partial(r, local[r].turn + 1))])
  /\ Goto(r, "streaming")
  /\ UNCHANGED <<messages, isStreaming, pendingToolCalls, error, queueVars>>
  /\ UnchangedExceptRun

\* What the providers make of the end of a response: an aborted request ends as
\* "aborted" whatever was received, any other one as the model says.
Endings(r) == IF r \in aborted THEN {"aborted"} ELSE Outcomes

\* The context with the final message, in the place of the partial one if the
\* stream had started.
Finished(r, message) ==
  IF pc[r] = "streaming"
    THEN [local[r].context EXCEPT ![Len(local[r].context)] = message]
    ELSE Append(local[r].context, message)

\* The "done" or "error" event. The tool calls of an error response are kept in
\* the message and not executed.
StreamEnd(r) ==
  /\ AtRequest(r) \/ pc[r] = "streaming"
  /\ \E stop \in Endings(r), n \in 0..MaxCalls :
       LET message == Assistant(r, local[r].turn + 1, n, stop) IN
       /\ n > 0 => local[r].toolTurns < MaxToolTurns
       /\ messages' = Append(messages, message)
       /\ SetLocal(r, [local[r] EXCEPT
            !.context = Finished(r, message),
            !.newMessages = Append(@, message),
            !.turn = @ + 1,
            !.toolTurns = IF n > 0 THEN @ + 1 ELSE @,
            !.hasMore = (n > 0),
            !.calls = [i \in 1..MaxCalls |-> IF stop = "ok" /\ i <= n THEN "todo" ELSE "none"],
            !.results = <<>>])
       /\ Goto(r, IF stop = "ok" THEN "tools" ELSE "failedTurn")
  /\ streamMessage' = NoMessage
  /\ UNCHANGED <<isStreaming, pendingToolCalls, error, queueVars>>
  /\ UnchangedExceptRun

\* turn_end of an error response: its errorMessage becomes the agent's error.
FailedTurnEnd(r) ==
  /\ pc[r] = "failedTurn"
  /\ error' = TRUE
  /\ Goto(r, "ending")
  /\ UNCHANGED <<messages, isStreaming, streamMessage, pendingToolCalls, queueVars, local>>
  /\ UnchangedExceptRun

-----------------------------------------------------------------------------
(* Tool calls.                                                             *)

CallState(r, i) == local[r].calls[i]
SetCall(r, i, state) == [local[r] EXCEPT !.calls[i] = state]
Executing(r) == pc[r] = "tools"

BeforeNext_AlwaysEnded(r) == {"ended"}
BeforeNext_NeverWaits(r) == {"ready", "running", "settled", "ended"}

\* The next call may start: in sequential mode when the one before has its
\* result, in parallel mode when it has been prepared or has failed to be.
BeforeNext(r) == IF local[r].mode = "sequential" THEN {"ended"} ELSE {"ready", "ended"}

ToolStart(r, i) ==
  /\ Executing(r)
  /\ CallState(r, i) = "todo"
  /\ \A j \in 1..(i - 1) : CallState(r, j) \in BeforeNext(r)
  /\ pendingToolCalls' = pendingToolCalls \cup {CallId(r, i)}
  /\ SetLocal(r, SetCall(r, i, "started"))
  /\ UNCHANGED <<messages, isStreaming, streamMessage, error, queueVars, pc>>
  /\ UnchangedExceptRun

EmitOutcome_StaysPending(r, i) ==
  LET result == ToolResult(r, local[r].turn, i) IN
  /\ messages' = Append(messages, result)
  /\ SetLocal(r, [SetCall(r, i, "ended") EXCEPT !.results = Append(@, result)])
  /\ UNCHANGED <<isStreaming, streamMessage, pendingToolCalls, error, queueVars, pc>>
  /\ UnchangedExceptRun

\* emitToolCallOutcome: tool_execution_end, then the result message.
EmitOutcome(r, i) ==
  LET result == ToolResult(r, local[r].turn, i) IN
  /\ pendingToolCalls' = pendingToolCalls \ {CallId(r, i)}
  /\ messages' = Append(messages, result)
  /\ SetLocal(r, [SetCall(r, i, "ended") EXCEPT !.results = Append(@, result)])
  /\ UNCHANGED <<isStreaming, streamMessage, error, queueVars, pc>>
  /\ UnchangedExceptRun

\* prepareToolCall fails: unknown tool, invalid arguments, beforeToolCall blocks
\* or throws. Both modes report the outcome at once.
ToolRefused(r, i) ==
  /\ Executing(r)
  /\ CallState(r, i) = "started"
  /\ EmitOutcome(r, i)

\* prepareToolCall succeeds: sequential mode executes the tool, parallel mode
\* goes on to the next call.
ToolPrepared(r, i) ==
  /\ Executing(r)
  /\ CallState(r, i) = "started"
  /\ SetLocal(r, SetCall(r, i, IF local[r].mode = "sequential" THEN "running" ELSE "ready"))
  /\ UNCHANGED <<agentVars, queueVars, pc>>
  /\ UnchangedExceptRun

\* executeToolCallsParallel launches every prepared call.
Launch(r) ==
  /\ Executing(r)
  /\ \A i \in 1..MaxCalls : CallState(r, i) \in {"none", "ready", "ended"}
  /\ \E i \in 1..MaxCalls : CallState(r, i) = "ready"
  /\ SetLocal(r, [local[r] EXCEPT !.calls =
       [i \in 1..MaxCalls |-> IF CallState(r, i) = "ready" THEN "running" ELSE CallState(r, i)]])
  /\ UNCHANGED <<agentVars, queueVars, pc>>
  /\ UnchangedExceptRun

\* A tool's execute() resolves or rejects; it may outlive a run that threw.
ToolSettles(r, i) ==
  /\ CallState(r, i) = "running"
  /\ SetLocal(r, SetCall(r, i, "settled"))
  /\ UNCHANGED <<agentVars, queueVars, pc>>
  /\ UnchangedExceptRun

\* The execution the loop awaits: calls are finalized in the order of launch.
Awaited(r, i) ==
  /\ Executing(r)
  /\ CallState(r, i) = "settled"
  /\ \A j \in 1..(i - 1) : CallState(r, j) = "ended"

Finalize(r, i) ==
  /\ Awaited(r, i)
  /\ EmitOutcome(r, i)

\* Every call has its result: the results join the context, turn_end is emitted.
TurnEnd(r) ==
  /\ Executing(r)
  /\ \A i \in 1..MaxCalls : CallState(r, i) \in {"none", "ended"}
  /\ SetLocal(r, [local[r] EXCEPT !.context = @ \o local[r].results,
                                  !.newMessages = @ \o local[r].results])
  /\ Goto(r, "polling")
  /\ UNCHANGED <<agentVars, queueVars>>
  /\ UnchangedExceptRun

-----------------------------------------------------------------------------
(* The end of a run.                                                       *)

\* getFollowUpMessages(), once the inner loop has nothing more to do.
PollFollowUp(r) ==
  /\ pc[r] = "followUp"
  /\ \E mode \in QueueModes :
       /\ followUpQueue' = Remaining(followUpQueue, mode)
       /\ SetLocal(r, [local[r] EXCEPT !.pending = Dequeued(followUpQueue, mode)])
  /\ Goto(r, IF followUpQueue = <<>> THEN "ending" ELSE "turn")
  /\ UNCHANGED <<agentVars, steeringQueue>>
  /\ UnchangedExceptRun

\* agent_end: isStreaming is cleared before the listeners hear of it, and the
\* run still has to unwind.
AgentEnd(r) ==
  /\ pc[r] = "ending"
  /\ isStreaming' = FALSE
  /\ streamMessage' = NoMessage
  /\ reported' = [reported EXCEPT ![r] = local[r].newMessages]
  /\ Goto(r, "unwinding")
  /\ UNCHANGED <<messages, pendingToolCalls, error, queueVars, abortController, runningPrompt,
                 local, aborted, submitted, discarded>>

Finally_KeepsPrompt(r) ==
  /\ isStreaming' = FALSE
  /\ streamMessage' = NoMessage
  /\ pendingToolCalls' = {}
  /\ abortController' = NoRun
  /\ UNCHANGED runningPrompt
  /\ Goto(r, "done")

\* The `finally` block of _runLoop.
Finally(r) ==
  /\ isStreaming' = FALSE
  /\ streamMessage' = NoMessage
  /\ pendingToolCalls' = {}
  /\ abortController' = NoRun
  /\ runningPrompt' = NoRun
  /\ Goto(r, "done")

Unwind(r) ==
  /\ pc[r] = "unwinding"
  /\ Finally(r)
  /\ UNCHANGED <<messages, error, queueVars, local, aborted, history>>

RunThrows_NoMessage(r) ==
  /\ HooksThrow
  /\ \/ AtRequest(r)
     \/ pc[r] = "streaming"
     \/ \E i \in 1..MaxCalls : Awaited(r, i)
  /\ error' = TRUE
  /\ Finally(r)
  /\ UNCHANGED <<messages, queueVars, local, aborted, history>>

\* transformContext, convertToLlm, the stream or afterToolCall throws: the
\* `catch` block of _runLoop, then `finally`, in one go.
RunThrows(r) ==
  /\ HooksThrow
  /\ \/ AtRequest(r)
     \/ pc[r] = "streaming"
     \/ \E i \in 1..MaxCalls : Awaited(r, i)
  /\ LET failure == Failure(r, IF abortController \in aborted THEN "aborted" ELSE "error") IN
       /\ messages' = Append(messages, failure)
       /\ reported' = [reported EXCEPT ![r] = <<failure>>]
  /\ error' = TRUE
  /\ Finally(r)
  /\ UNCHANGED <<queueVars, local, aborted, submitted, discarded>>

LoopStep(r) ==
  \/ AnnouncePrompt(r) \/ PollSteering(r) \/ InjectPending(r)
  \/ StreamStart(r) \/ StreamEnd(r) \/ FailedTurnEnd(r)
  \/ \E i \in 1..MaxCalls :
       ToolStart(r, i) \/ ToolRefused(r, i) \/ ToolPrepared(r, i) \/ Finalize(r, i)
  \/ Launch(r) \/ TurnEnd(r)
  \/ PollFollowUp(r) \/ AgentEnd(r) \/ Unwind(r) \/ RunThrows(r)

ToolStep(r) == \E i \in 1..MaxCalls : ToolSettles(r, i)

Next == HostStep \/ \E r \in Runs : LoopStep(r) \/ ToolStep(r)

\* The event loop resumes every run whose awaited promise is settled, every
\* model response ends and every tool settles; the host owes nothing.
Fairness == \A r \in Runs : WF_vars(LoopStep(r)) /\ WF_vars(ToolStep(r))

Spec == Init /\ [][Next]_vars /\ Fairness

-----------------------------------------------------------------------------
(* Properties.                                                             *)

\* The guard of prompt() and the registry of the running prompt agree with the
\* runs: at most one run is alive, abort() and waitForIdle() reach that run and
\* no other, and isStreaming holds exactly until its agent_end.
RunRegistry ==
  /\ \A r \in Runs : pc[r] \in Live => runningPrompt = r
  /\ runningPrompt # NoRun => pc[runningPrompt] \in Live
  /\ abortController = runningPrompt
  /\ isStreaming <=> \E r \in Runs : pc[r] \in Looping

\* "Agent is already processing a prompt": two runs never loop at the same time.
OneRunAtATime ==
  \A r, s \in Runs : pc[r] \in Looping /\ pc[s] \in Looping => r = s

\* The results that the response being executed still owes.
OwedResults ==
  UNION {{ToolResult(r, local[r].turn, i) :
            i \in {j \in 1..MaxCalls : Executing(r) /\ CallState(r, j) \notin {"none", "ended"}}} :
         r \in Runs}

\* The transcript is a conversation a provider accepts: no prompt, steering or
\* follow-up message and no response ever gets between a tool call and its
\* result, and no call is answered twice.
Turns == INSTANCE TurnProtocol WITH transcript <- messages, owed <- OwedResults
FollowsTurnProtocol == Turns!Spec

\* The pending tool calls the UI shows are those of the live run that were
\* announced and have no result yet.
PendingToolCallsExact ==
  pendingToolCalls =
    UNION {{CallId(r, i) :
              i \in {j \in 1..MaxCalls : Executing(r) /\
                       CallState(r, j) \in {"started", "ready", "running", "settled"}}} :
           r \in Runs}

Occurrences(m, seq) == {i \in DOMAIN seq : seq[i] = m}
Holds(m) ==
  {<<"transcript", i>> : i \in Occurrences(m, messages)}
  \cup {<<"steering", i>> : i \in Occurrences(m, steeringQueue)}
  \cup {<<"followUp", i>> : i \in Occurrences(m, followUpQueue)}
  \cup UNION {{<<"run", r, i>> : i \in Occurrences(m, local[r].pending)} : r \in Runs}

\* No user message is lost or doubled on its way through the queues: unless it
\* was cleared on request, it is in one queue, or pending in one run, or in the
\* transcript once.
EachMessageOnce ==
  \A id \in 1..Len(submitted) :
    id \notin discarded => \E place \in Holds(User(id)) : Holds(User(id)) = {place}

\* Steering messages, and follow-up messages, enter the transcript in the order
\* in which they were queued.
QueueOrder ==
  \A i, j \in DOMAIN messages :
    i < j /\ messages[i].role = "user" /\ messages[j].role = "user"
    /\ submitted[messages[i].id] = submitted[messages[j].id]
      => messages[i].id < messages[j].id

\* A follow-up never lands inside a tool turn: what precedes it in the transcript
\* is not a tool result or a response that calls tools.
FollowUpsWait ==
  \A i \in DOMAIN messages :
    messages[i].role = "user" /\ submitted[messages[i].id] = "followUp" /\ i > 1 =>
      \/ messages[i - 1].role = "user"
      \/ messages[i - 1].role = "assistant"
         /\ (messages[i - 1].calls = 0 \/ messages[i - 1].stop # "ok")

\* Results enter the transcript in the order of the calls in the response.
InOrder(r) ==
  \A i, j \in DOMAIN messages :
    i < j /\ messages[i].role = "toolResult" /\ messages[j].role = "toolResult"
    /\ messages[i].run = r /\ messages[j].run = r /\ messages[i].turn = messages[j].turn
      => messages[i].call < messages[j].call

\* A run in sequential mode keeps it, whichever calls are refused, fail or are
\* still executing when an abort arrives.
SequentialOrder == \A r \in Runs : local[r].mode = "sequential" => InOrder(r)

\* agent_end carries every message the run added to the transcript. (A run that throws
\* reports its error message alone; the instance that checks this has none.)
AgentEndIsComplete ==
  [][\A r \in Runs : reported'[r] # reported[r] =>
       reported'[r] = SubSeq(messages', local[r].base + 1, Len(messages'))]_vars

\* Every run ends, with or without abort: no await of the loop waits for
\* something only the loop could do. waitForIdle() therefore resolves.
RunsEnd == \A r \in Runs : pc[r] \in Live ~> pc[r] = "done"

InTranscript(id) == \E i \in DOMAIN messages : messages[i] = User(id)

\* A steering message queued while tools execute reaches the transcript, unless
\* it is cleared or the run is cut short by an error or an abort.
SteeringArrives ==
  \A r \in Runs, id \in Ids :
    Executing(r) /\ User(id) \in {steeringQueue[i] : i \in DOMAIN steeringQueue}
      ~> InTranscript(id) \/ id \in discarded \/ error \/ r \in aborted
=============================================================================
