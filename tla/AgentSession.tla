----------------------------- MODULE AgentSession -----------------------------
(***************************************************************************)
(* The AgentSession class of packages/coding-agent/src/core/               *)
(* agent-session.ts: it owns an Agent and a SessionManager, writes to the  *)
(* session what the agent says, and around the runs of the agent it        *)
(* retries failed answers, compacts a context that has grown too large,    *)
(* shows the queued messages, defers the results of bash commands and      *)
(* replaces the session under the agent.                                   *)
(*                                                                         *)
(* Agent events are handled by a promise chain (_agentEventQueue) that may *)
(* lag behind the agent and is held up while a backoff sleeps or a         *)
(* compaction runs. An action is the code between two awaits. What waits   *)
(* for nothing outside the process (MicroWork) runs before any input or    *)
(* timer: the event handlers of extensions are taken to be quick.          *)
(*                                                                         *)
(* The Agent is reduced to what this class sees of it: its transcript, its *)
(* two queues, whether it streams, and the events it emits (the module     *)
(* Agent has it in detail). The session is the path from the root to the   *)
(* leaf of each session file (the module SessionManager has the tree).     *)
(***************************************************************************)
EXTENDS Naturals, FiniteSets, Sequences, SequencesExt

CONSTANTS
  MaxPrompts,   \* bound on the calls of prompt()
  Files,        \* the session files
  MaxTurns,     \* bound on what is not a prompt or a plain answer: other answers, bash
                \* results, custom messages, commands, escapes
  MaxRetries,   \* settings.retry.maxRetries
  Outcomes,     \* how the model may answer
  Commands      \* the session commands the user gives: "new", "switch", "compact", "tree", "fork"

ASSUME BoundsAssumption ==
  {MaxPrompts, MaxTurns, MaxRetries} \subseteq Nat
ASSUME FilesAssumption == Files # {}
ASSUME OutcomesAssumption ==
  /\ Outcomes \subseteq {"stop", "toolUse", "large", "error", "fatal", "overflow", "throws", "throwsRetryable"}
  /\ Commands \subseteq {"new", "switch", "compact", "tree", "fork"}

VARIABLES
  agent,    \* what AgentSession sees of its Agent
  session,  \* the fields of AgentSession
  stored,   \* the path from root to leaf of every session file
  current,  \* SessionManager.sessionFile
  calls,    \* where every call of prompt() is
  jobs,     \* the compactions under way, by who awaits them
  command,  \* the command under way
  timers,   \* the pending calls of agent.continue()
  clock,    \* Date.now(), and the identity of messages and entries
  used,     \* how much of MaxTurns is used
  missed,   \* history: what the session could not see of the agent; "overlap": since the
            \* last prompt a run was started while the handler was at an earlier one
  again     \* history: retryable errors in a row and overflow recoveries, since the last user
            \* message or good answer (or, for the errors, a run nobody waits for)

vars == <<agent, session, stored, current, calls, jobs, command, timers, clock, used,
          missed, again>>

-----------------------------------------------------------------------------
(* Messages, entries, events.                                              *)

Prompts == 1..MaxPrompts
\* Who may await a compaction.
Handler == <<"handler", 0>>
Command == <<"command", 0>>
Owner(p) == <<"prompt", p>>
Owners == {Handler, Command} \cup {Owner(p) : p \in Prompts}
\* `kind` is how the model answered, `ref` the
\* firstKeptEntryId of a compaction and the call a tool result answers.
Message(role, id, kind) == [role |-> role, id |-> id, kind |-> kind, ref |-> 0]
Compaction(id, kept) == [Message("compaction", id, "none") EXCEPT !.ref = kept]
ToolResult(id, call) == [Message("toolResult", id, "none") EXCEPT !.ref = call]
NoMessage == [role |-> "none", id |-> 0, kind |-> "none", ref |-> 0]
IsAnswer(m) == m.role = "assistant"
Failed(m) == IsAnswer(m) /\ m.kind \in {"error", "fatal", "overflow", "throws", "aborted"}

LastIsAnswer(ms) == ms # <<>> /\ IsAnswer(Last(ms))
WithoutLastAnswer(ms) == IF LastIsAnswer(ms) THEN Front(ms) ELSE ms

path == stored[current]
Save(ms) == stored' = [stored EXCEPT ![current] = @ \o ms]

\* getLatestCompactionEntry(getBranch()): its position, 0 without one.
LatestCompaction(entries) == SelectLastInSeq(entries, LAMBDA e : e.role = "compaction")

\* The elements of a sequence that are in a set. (SelectSeq is beyond the provers.)
Selected(seq, set) ==
  LET upTo[n \in 0..Len(seq)] ==
        IF n = 0 THEN <<>>
        ELSE IF seq[n] \in set THEN Append(upTo[n - 1], seq[n]) ELSE upTo[n - 1]
  IN upTo[Len(seq)]

\* buildSessionContext: the summary, what the latest compaction kept, what came after,
\* without older summaries.
Told(entries) == Selected(entries, {e \in ToSet(entries) : e.role # "compaction"})
Context(entries) ==
  LET c == LatestCompaction(entries)
      k == SelectInSeq(entries, LAMBDA e : e.id = entries[c].ref)
  IN IF c = 0 THEN entries
     ELSE <<entries[c]>>
          \o Told(SubSeq(entries, IF k \in 1..(c - 1) THEN k ELSE c + 1, Len(entries)))

Event(type, m) == [type |-> type, msg |-> m]
Spoken(ms) ==
  [i \in 1..(2 * Len(ms)) |-> Event(IF i % 2 = 1 THEN "start" ELSE "end", ms[(i + 1) \div 2])]
HasUser(ms) == \E m \in ToSet(ms) : m.role = "user"

\* _isRetryableError: an error whose text matches, and that is not an overflow.
Retryable(m) == IsAnswer(m) /\ m.kind = "error"

\* agent.subscribe(_handleAgentEvent): the promise of a retry is created at once, the
\* rest waits for its turn; without a subscription the events are lost.
Emitted(s, events) ==
  IF ~s.connected THEN s
  ELSE [s EXCEPT !.events = @ \o events,
                 !.promise = @ \/ \E e \in ToSet(events) : e.type = "agent_end" /\ Retryable(e.msg)]

Unseen(events) ==
  IF session.connected THEN {}
  ELSE (IF \E e \in ToSet(events) : e.type = "end" THEN {"log"} ELSE {})
       \cup (IF \E e \in ToSet(events) : e.type = "start" /\ e.msg.role = "user" THEN {"mirror"} ELSE {})

\* History: the transcript is rebuilt from the session. What the agent has said and the
\* handler has not written yet is not in it.
EndedMessages ==
  LET ends == Selected(session.events, {e \in ToSet(session.events) : e.type = "end"})
  IN [i \in 1..Len(ends) |-> ends[i].msg]
Rebuilt == IF EndedMessages = <<>> THEN missed \ {"log"} ELSE missed \cup {"log"}

Streaming == agent.phase # "idle"
\* The handler is subscribed and has nothing to do.
InSync == session.connected /\ session.handler = "ready" /\ session.events = <<>>
Queued(a) == a.steering # <<>> \/ a.followUp # <<>>

NoJob == [pc |-> "none", overflow |-> FALSE, kept |-> 0]

\* Code that is ready to run and waits for nothing outside the process.
MicroWork ==
  \/ session.handler = "ready" /\ session.events # <<>>
  \/ session.handler = "cancelled"
  \/ \E p \in Prompts : calls[p].pc \in {"before", "ended"}
  \/ command.pc = "idle" /\ ~Streaming
  \/ command.pc = "restore"
InputTurn == ~MicroWork
\* Requests and tools take longer than the setTimeout(0) of a retry.
SlowTurn == InputTurn /\ timers.retry = 0

NoneYet == [retry |-> 0, overflow |-> 0]

-----------------------------------------------------------------------------
Init ==
  /\ agent = [messages |-> <<>>, phase |-> "idle", asked |-> 0, stopping |-> FALSE,
              call |-> 0, steering |-> <<>>, followUp |-> <<>>]
  /\ session = [connected |-> TRUE, events |-> <<>>, handler |-> "ready", handling |-> NoMessage,
                lastAnswer |-> NoMessage, attempt |-> 0, promise |-> FALSE, overflowed |-> FALSE,
                pendingBash |-> <<>>, nextTurn |-> <<>>, steering |-> <<>>, followUp |-> <<>>]
  /\ current = CHOOSE f \in Files : TRUE
  /\ stored = [f \in Files |-> <<>>]
  /\ calls = [p \in Prompts |-> [pc |-> "none", msgs |-> <<>>]]
  /\ jobs = [o \in Owners |-> NoJob]
  /\ command = [name |-> "none", pc |-> "none", context |-> <<>>]
  /\ timers = [retry |-> 0, resume |-> 0]
  /\ clock = 1
  /\ used = 0
  /\ missed = {}
  /\ again = NoneYet

-----------------------------------------------------------------------------
(* The agent, as AgentSession sees it.                                     *)

\* _runLoop up to the first request: the prompts are emitted, and one steering message
\* unless the run was started with one.
Opened(a, prompts, skipPoll) ==
  LET n == IF skipPoll \/ a.steering = <<>> THEN 0 ELSE 1
  IN prompts \o SubSeq(a.steering, 1, n)
StartRun(prompts, skipPoll, a, known) ==
  LET opened == Opened(a, prompts, skipPoll)
      n == Len(opened) - Len(prompts)
  IN /\ agent' = [a EXCEPT !.messages = @ \o opened, !.steering = SubSeq(@, n + 1, Len(@)),
                           !.phase = "llm", !.asked = clock, !.stopping = FALSE,
                           !.call = 0]
     /\ clock' = clock + 1
     /\ session' = Emitted(session, Spoken(opened))
     /\ missed' = known \cup Unseen(Spoken(opened)) \cup (IF InSync THEN {} ELSE {"overlap"})

\* A message of the queues at a turn boundary: steering first, follow-ups only when
\* the model called no tool.
Polled(afterTools) ==
  CASE agent.steering # <<>> -> <<Head(agent.steering)>>
    [] agent.steering = <<>> /\ agent.followUp # <<>> /\ ~afterTools -> <<Head(agent.followUp)>>
    [] OTHER -> <<>>
Unqueue(a, ms) ==
  IF ms = <<>> THEN a
  ELSE IF a.steering # <<>> THEN [a EXCEPT !.steering = Tail(@)] ELSE [a EXCEPT !.followUp = Tail(@)]

EndedCalls == [p \in Prompts |-> IF calls[p].pc = "running" THEN [calls[p] EXCEPT !.pc = "ended"] ELSE calls[p]]

\* The model answers: with a tool call, with an end of the run, or with an answer after
\* which the queues hold another message.
Answer(kind) ==
  LET m == Message("assistant", agent.asked, kind)
      ends == Failed(m) \/ (kind # "toolUse" /\ Polled(FALSE) = <<>>)
      next == IF ends \/ kind = "toolUse" THEN <<>> ELSE Polled(FALSE)
      events == <<Event("end", m)>>
                \o (IF ends THEN <<Event("agent_end", m)>> ELSE <<>>) \o Spoken(next)
  IN /\ SlowTurn
     /\ agent.phase = "llm"
     /\ IF agent.stopping THEN kind = "aborted"
        ELSE \/ kind = "stop"
             \/ kind \in Outcomes \ {"throws", "throwsRetryable"} /\ used < MaxTurns
             \/ kind = "error" /\ again.retry > 0
     /\ agent' = [Unqueue(agent, next) EXCEPT
                    !.messages = Append(@, m) \o next,
                    !.phase = CASE ends -> "idle" [] kind = "toolUse" -> "tools" [] OTHER -> "llm",
                    !.asked = IF ends THEN 0 ELSE clock, !.stopping = @ /\ ~ends,
                    !.call = IF kind = "toolUse" THEN m.id ELSE 0]
     /\ clock' = clock + 1
     /\ session' = Emitted(session, events)
     /\ missed' = missed \cup Unseen(events)
     /\ calls' = IF ends THEN EndedCalls ELSE calls
     /\ used' = IF kind \in {"stop", "aborted"} \/ (kind = "error" /\ again.retry > 0) THEN used
                ELSE used + 1
     /\ again' = CASE kind = "error" -> [again EXCEPT !.retry = @ + 1]
                   [] kind \in {"fatal", "overflow"} -> again
                   [] OTHER -> NoneYet
     /\ UNCHANGED <<stored, current, jobs, command, timers>>

\* The tools of the turn have ended: their result, a steering message, the next request.
ToolsDone ==
  LET m == ToolResult(clock, agent.call)
      said == <<m>> \o Polled(TRUE)
  IN /\ SlowTurn
     /\ agent.phase = "tools"
     /\ agent' = [Unqueue(agent, Polled(TRUE)) EXCEPT
                    !.messages = @ \o said, !.phase = "llm", !.asked = clock + 1,
                    !.call = 0]
     /\ clock' = clock + 2
     /\ session' = Emitted(session, Spoken(said))
     /\ missed' = missed \cup Unseen(Spoken(said))
     /\ again' = IF HasUser(said) THEN NoneYet ELSE again
     /\ UNCHANGED <<stored, current, calls, jobs, command, timers, used>>

\* The run throws (getApiKey, a transform): the agent appends an error message itself and
\* emits only agent_end. Its text may be one that _isRetryableError matches.
RunThrows(thrown) ==
  LET m == Message("assistant", agent.asked, IF thrown = "throws" THEN "throws" ELSE "error")
  IN /\ SlowTurn
     /\ agent.phase = "llm" /\ thrown \in Outcomes /\ used < MaxTurns
     /\ agent' = [agent EXCEPT !.messages = Append(@, m), !.phase = "idle", !.asked = 0,
                                 !.stopping = FALSE]
     /\ session' = Emitted(session, <<Event("agent_end", m)>>)
     /\ missed' = IF session'.promise THEN missed \cup {"retry"} ELSE missed
     /\ calls' = EndedCalls
     /\ used' = used + 1
     /\ UNCHANGED <<stored, current, jobs, command, timers, clock, again>>

\* agent.continue(), called by a timer; what it throws is swallowed.
Continue(kind) ==
  LET fired == [timers EXCEPT ![kind] = @ - 1]
      ms == agent.messages
      resumed == IF ms # <<>> /\ ~LastIsAnswer(ms) THEN <<>> ELSE Polled(FALSE)
      skipPoll == resumed # <<>> /\ agent.steering # <<>>
      rest == Unqueue(agent, resumed)
  IN /\ InputTurn
     /\ timers[kind] > 0
     /\ timers' = fired
     /\ IF Streaming \/ ms = <<>> \/ (LastIsAnswer(ms) /\ resumed = <<>>)
        THEN /\ missed' = IF kind = "retry" /\ ~Streaming THEN missed \cup {"retry"} ELSE missed
             /\ UNCHANGED <<agent, clock, session, again>>
        ELSE /\ StartRun(resumed, skipPoll, rest, missed)
             /\ again' = IF HasUser(Opened(rest, resumed, skipPoll)) THEN NoneYet
                         ELSE IF kind = "resume" \/ ~session.promise THEN [again EXCEPT !.retry = 0]
                         ELSE again
     /\ UNCHANGED <<stored, current, calls, jobs, command, used>>

-----------------------------------------------------------------------------
(* Retry.                                                                  *)

\* _resolveRetry: the promise is gone and the prompts that wait for it return.
Resolved(s) == [s EXCEPT !.promise = FALSE]
Released == [p \in Prompts |-> IF calls[p].pc = "waiting" THEN [calls[p] EXCEPT !.pc = "done"] ELSE calls[p]]

\* abortRetry
RetryAborted(s) ==
  [Resolved(s) EXCEPT !.handler = IF @ = "backoff" THEN "cancelled" ELSE @]

\* abort: the retry, then the run.
AbortEffects(s, a) ==
  /\ session' = RetryAborted(s)
  /\ calls' = Released
  /\ agent' = IF a.phase = "idle" THEN a ELSE [a EXCEPT !.stopping = TRUE]

-----------------------------------------------------------------------------
(* Compaction.                                                             *)

\* The message is older than the latest compaction.
Stale(m) == LET c == LatestCompaction(path) IN c # 0 /\ m.id <= path[c].id

\* estimateContextTokens, for an answer that failed: the last answer with a usage.
LastUsage == SelectLastInSeq(agent.messages, LAMBDA x : IsAnswer(x) /\ ~Failed(x))
Large(m) ==
  IF Failed(m) THEN /\ LastUsage # 0
                    /\ ~Stale(agent.messages[LastUsage])
                    /\ agent.messages[LastUsage].kind = "large"
  ELSE m.kind = "large"

\* What _checkCompaction decides.
Verdict(m, skipAborted) ==
  IF (skipAborted /\ m.kind = "aborted") \/ Stale(m) THEN "none"
  ELSE IF m.kind = "overflow" THEN IF session.overflowed THEN "gaveUp" ELSE "overflow"
  ELSE IF m.kind # "aborted" /\ Large(m) THEN "threshold" ELSE "none"
Compacts(verdict) == verdict \in {"overflow", "threshold"}

\* _runAutoCompaction up to its first await; an overflow takes the error off the transcript.
JobsWith(owner, verdict) ==
  IF Compacts(verdict)
  THEN [jobs EXCEPT ![owner] = [pc |-> "key", overflow |-> verdict = "overflow", kept |-> 0]]
  ELSE jobs
Trimmed(a, verdict) ==
  IF verdict = "overflow" THEN [a EXCEPT !.messages = WithoutLastAnswer(@)] ELSE a
\* History: an answer that was handled late may take a good one off that has come since.
Cut == IF LastIsAnswer(agent.messages) /\ ~Failed(Last(agent.messages)) THEN missed \cup {"log"} ELSE missed
Recovering(verdict) ==
  IF verdict = "overflow" THEN [again EXCEPT !.overflow = @ + 1] ELSE again
Attempted(s, verdict) == IF verdict = "overflow" THEN [s EXCEPT !.overflowed = TRUE] ELSE s

\* The messages of a prompt are built; the handlers of before_agent_start come next.
Built(c, s) == [c EXCEPT !.pc = "before", !.msgs = @ \o s.nextTurn]

\* The end of a compaction returns to whoever awaits it: the event handler, a prompt,
\* the compact command, which subscribes again.
Return(owner, s) ==
  /\ jobs' = [jobs EXCEPT ![owner] = NoJob]
  /\ session' = CASE owner = Handler -> [s EXCEPT !.handler = "ready"]
                  [] owner = Command -> [s EXCEPT !.connected = TRUE]
                  [] OTHER -> [s EXCEPT !.nextTurn = <<>>]
  /\ calls' = IF owner[1] = "prompt" THEN [calls EXCEPT ![owner[2]] = Built(@, s)] ELSE calls
  /\ command' = IF owner = Command THEN [command EXCEPT !.name = "none", !.pc = "none"] ELSE command

\* prepareCompaction finds something after the latest compaction; it keeps from some
\* entry that is not a tool result (the module Compaction has the choice).
Preparable == path # <<>> /\ Last(path).role # "compaction"
Keepable ==
  LET new == SubSeq(path, LatestCompaction(path) + 1, Len(path))
      starts == {e \in ToSet(new) : e.role # "toolResult"}
  IN {e.id : e \in IF starts = {} THEN {Head(new)} ELSE starts}

\* The API key is there, what to summarize is known, the summary is asked for.
JobAsks(owner) ==
  /\ InputTurn
  /\ jobs[owner].pc = "key" /\ Preparable
  /\ \E id \in Keepable : jobs' = [jobs EXCEPT ![owner].pc = "summary", ![owner].kept = id]
  /\ UNCHANGED <<agent, session, stored, current, calls, command, timers, clock, used, missed, again>>

\* No key, nothing to compact, a failed summary, or abortCompaction().
JobFails(owner) ==
  /\ InputTurn
  /\ \/ jobs[owner].pc = "key"
     \/ jobs[owner].pc = "summary"
  /\ Return(owner, session)
  /\ UNCHANGED <<agent, stored, current, timers, clock, used, missed, again>>

\* The summary is appended to the session that is open now, the transcript is rebuilt,
\* and after an overflow, or with messages queued, the agent is to continue.
JobDone(owner) ==
  LET entry == Compaction(clock, jobs[owner].kept)
      rebuilt == Context(Append(path, entry))
      retrying == jobs[owner].overflow
      resumed == IF retrying /\ LastIsAnswer(rebuilt) /\ Failed(Last(rebuilt)) /\ Last(rebuilt).kind # "aborted"
                 THEN Front(rebuilt) ELSE rebuilt
  IN /\ InputTurn
     /\ jobs[owner].pc = "summary"
     /\ Save(<<entry>>)
     /\ clock' = clock + 1
     /\ agent' = [agent EXCEPT !.messages = resumed]
     /\ missed' = Rebuilt
     /\ timers' = IF owner # Command /\ (retrying \/ Queued(agent))
                  THEN [timers EXCEPT !.resume = @ + 1] ELSE timers
     /\ Return(owner, session)
     /\ UNCHANGED <<current, used, again>>

-----------------------------------------------------------------------------
(* The event handler, _processAgentEvent.                                  *)

NextEvent == Head(session.events)
Taken == [session EXCEPT !.events = Tail(@)]
Ready == session.handler = "ready" /\ session.events # <<>>

\* Faulty variant: only the steering list is searched.
Unshown_SteeringOnly(s, m) == [s EXCEPT !.steering = RemoveFirst(@, m)]

\* message_start of a user message: it leaves the list it was shown in.
Unshown(s, m) ==
  IF Contains(s.steering, m) THEN [s EXCEPT !.steering = RemoveFirst(@, m)]
  ELSE [s EXCEPT !.followUp = RemoveFirst(@, m)]

MessageStarts ==
  /\ Ready /\ NextEvent.type = "start"
  /\ session' = IF NextEvent.msg.role = "user"
                THEN [Unshown(Taken, NextEvent.msg) EXCEPT !.overflowed = FALSE] ELSE Taken
  /\ UNCHANGED <<agent, stored, current, calls, jobs, command, timers, clock, used, missed, again>>

\* message_end: the message is appended to the session; a good answer clears the counters.
MessageEnds ==
  LET m == NextEvent.msg
  IN /\ Ready /\ NextEvent.type = "end"
     /\ Save(<<m>>)
     /\ session' = IF ~IsAnswer(m) THEN Taken
                   ELSE IF Failed(m) /\ m.kind # "aborted" THEN [Taken EXCEPT !.lastAnswer = m]
                   ELSE [Taken EXCEPT !.lastAnswer = m, !.overflowed = FALSE, !.attempt = 0]
     /\ UNCHANGED <<agent, current, calls, jobs, command, timers, clock, used, missed, again>>

\* Faulty variant: after the last attempt nobody resolves the promise of the retry.
Settle_Unresolved(s, m) ==
  LET v == Verdict(m, TRUE)
  IN /\ session' = [Attempted(s, v) EXCEPT !.handler = IF Compacts(v) THEN "compacting" ELSE "ready"]
     /\ jobs' = JobsWith(Handler, v)
     /\ agent' = Trimmed(agent, v)
     /\ again' = Recovering(v)
     /\ missed' = IF v = "overflow" THEN Cut ELSE missed
     /\ UNCHANGED calls

\* The tail of agent_end: prompts that wait for a retry return, then the size is checked.
Settle(s, m) ==
  LET v == Verdict(m, TRUE)
  IN /\ session' = [Attempted(Resolved(s), v) EXCEPT !.handler = IF Compacts(v) THEN "compacting" ELSE "ready"]
     /\ calls' = Released
     /\ jobs' = JobsWith(Handler, v)
     /\ agent' = Trimmed(agent, v)
     /\ again' = Recovering(v)
     /\ missed' = IF v = "overflow" THEN Cut ELSE missed

\* Faulty variant: the attempts are compared too late.
BacksOff_OnceMore == Retryable(session.lastAnswer) /\ session.attempt <= MaxRetries

\* The error is worth another attempt and there is one left.
BacksOff == Retryable(session.lastAnswer) /\ session.attempt < MaxRetries

\* agent_end. _handleRetryableError counts the attempt, takes the error off the
\* transcript and sleeps, unless the attempts are used up.
AgentEnds ==
  LET m == session.lastAnswer
      s == [Taken EXCEPT !.lastAnswer = NoMessage]
  IN /\ Ready /\ NextEvent.type = "agent_end"
     /\ CASE m.role = "none" -> session' = Taken /\ UNCHANGED <<agent, calls, jobs, missed, again>>
          [] m.role # "none" /\ BacksOff ->
               /\ session' = [s EXCEPT !.handler = "backoff", !.handling = m,
                                       !.attempt = @ + 1, !.promise = TRUE]
               /\ agent' = [agent EXCEPT !.messages = WithoutLastAnswer(@)]
               /\ missed' = Cut
               /\ UNCHANGED <<calls, jobs, again>>
          [] OTHER -> Settle(IF Retryable(m) THEN [s EXCEPT !.attempt = 0] ELSE s, m)
     /\ UNCHANGED <<stored, current, command, timers, clock, used>>

\* The backoff has slept: the retry is left to a timer and agent_end is done with.
BackoffElapses ==
  /\ InputTurn
  /\ session.handler = "backoff"
  /\ session' = [session EXCEPT !.handler = "ready", !.handling = NoMessage]
  /\ timers' = [timers EXCEPT !.retry = @ + 1]
  /\ UNCHANGED <<agent, stored, current, calls, jobs, command, clock, used, missed, again>>

\* The backoff was aborted.
BackoffCancelled ==
  /\ session.handler = "cancelled"
  /\ Settle([session EXCEPT !.attempt = 0, !.handling = NoMessage], session.handling)
  /\ UNCHANGED <<stored, current, command, timers, clock, used>>

-----------------------------------------------------------------------------
(* prompt().                                                               *)

IsNextCall(p) == calls[p].pc = "none" /\ \A q \in 1..(p - 1) : calls[q].pc # "none"
\* A call that has returned is left with its place only.
At(p, place) == [calls EXCEPT ![p] = [pc |-> place, msgs |-> IF place = "compacting" THEN @.msgs ELSE <<>>]]

\* While the agent streams the text is shown and queued.
PromptQueues(p) ==
  LET m == Message("user", clock, "none")
  IN /\ InputTurn
     /\ IsNextCall(p) /\ Streaming
     /\ \/ /\ agent' = [agent EXCEPT !.steering = Append(@, m)]
           /\ session' = [session EXCEPT !.steering = Append(@, m)]
        \/ /\ agent' = [agent EXCEPT !.followUp = Append(@, m)]
           /\ session' = [session EXCEPT !.followUp = Append(@, m)]
     /\ calls' = At(p, "done")
     /\ clock' = clock + 1
     /\ UNCHANGED <<stored, current, jobs, command, timers, used, missed, again>>

\* Faulty variant: the deferred bash results reach the transcript only.
PromptStarts_Unsaved(p) ==
  /\ InputTurn
  /\ IsNextCall(p) /\ ~Streaming
  /\ agent' = [agent EXCEPT !.messages = @ \o session.pendingBash]
  /\ session' = [session EXCEPT !.pendingBash = <<>>]
  /\ calls' = [calls EXCEPT ![p] = [pc |-> "key", msgs |-> <<Message("user", clock, "none")>>]]
  /\ clock' = clock + 1
  /\ missed' = IF session.pendingBash = <<>> \/ session.events = <<>> THEN missed ELSE missed \cup {"log"}
  /\ UNCHANGED <<stored, current, jobs, command, timers, used, again>>

\* Otherwise the deferred bash results are flushed and the API key is asked for. Nothing
\* keeps a host from calling while another call is under way.
PromptStarts(p) ==
  /\ InputTurn
  /\ IsNextCall(p) /\ ~Streaming
  /\ agent' = [agent EXCEPT !.messages = @ \o session.pendingBash]
  /\ Save(session.pendingBash)
  /\ session' = [session EXCEPT !.pendingBash = <<>>]
  /\ calls' = [calls EXCEPT ![p] = [pc |-> "key", msgs |-> <<Message("user", clock, "none")>>]]
  /\ clock' = clock + 1
  /\ missed' = IF session.pendingBash = <<>> \/ session.events = <<>> THEN missed ELSE missed \cup {"log"}
  /\ UNCHANGED <<current, jobs, command, timers, used, again>>

\* Without a key the call throws; with one the transcript is checked for compaction.
PromptHasNoKey(p) ==
  /\ InputTurn
  /\ calls[p].pc = "key"
  /\ calls' = At(p, "thrown")
  /\ UNCHANGED <<agent, session, stored, current, jobs, command, timers, clock, used, missed, again>>
PromptChecks(p) ==
  LET l == SelectLastInSeq(agent.messages, IsAnswer)
      v == IF l = 0 THEN "none" ELSE Verdict(agent.messages[l], FALSE)
  IN /\ InputTurn
     /\ calls[p].pc = "key"
     /\ IF Compacts(v)
        THEN /\ calls' = At(p, "compacting")
             /\ session' = Attempted(session, v)
        ELSE /\ calls' = [calls EXCEPT ![p] = Built(@, session)]
             /\ session' = [session EXCEPT !.nextTurn = <<>>]
     /\ jobs' = JobsWith(Owner(p), v)
     /\ agent' = Trimmed(agent, v)
     /\ again' = Recovering(v)
     /\ missed' = IF v # "overflow" THEN missed ELSE Cut \cup (IF InSync THEN {} ELSE {"overlap"})
     /\ UNCHANGED <<stored, current, command, timers, clock, used>>

\* agent.prompt() refuses while the agent streams; what was built is dropped then.
PromptRuns(p) ==
  /\ calls[p].pc = "before"
  /\ IF Streaming
     THEN /\ calls' = At(p, "thrown")
          /\ UNCHANGED <<agent, session, clock, missed, again>>
     ELSE /\ StartRun(calls[p].msgs, FALSE, agent, missed \ {"overlap"})
          /\ calls' = At(p, "running")
          /\ again' = NoneYet
  /\ UNCHANGED <<stored, current, jobs, command, timers, used>>

\* The run is over: waitForRetry.
PromptWaits(p) ==
  /\ calls[p].pc = "ended"
  /\ calls' = At(p, IF session.promise THEN "waiting" ELSE "done")
  /\ UNCHANGED <<agent, session, stored, current, jobs, command, timers, clock, used, missed, again>>

-----------------------------------------------------------------------------
(* What else the host calls.                                               *)

\* An addition to transcript and session at once. What the agent said before and the
\* handler has not written yet comes after it in the session.
Record(m) ==
  /\ agent' = [agent EXCEPT !.messages = Append(@, m)]
  /\ Save(<<m>>)
  /\ missed' = IF session.events = <<>> THEN missed ELSE missed \cup {"log"}

\* Faulty variant: recorded while the agent streams, too.
RecordBash_AtOnce ==
  /\ InputTurn
  /\ used < MaxTurns
  /\ used' = used + 1
  /\ clock' = clock + 1
  /\ Record(Message("bash", clock, "none"))
  /\ UNCHANGED <<session, current, calls, jobs, command, timers, again>>

\* recordBashResult: deferred while the agent streams.
RecordBash ==
  LET m == Message("bash", clock, "none")
  IN /\ InputTurn
     /\ used < MaxTurns
     /\ used' = used + 1
     /\ clock' = clock + 1
     /\ IF Streaming
        THEN /\ session' = [session EXCEPT !.pendingBash = Append(@, m)]
             /\ UNCHANGED <<agent, stored, missed>>
        ELSE Record(m) /\ UNCHANGED session
     /\ UNCHANGED <<current, calls, jobs, command, timers, again>>

\* sendCustomMessage: for the next prompt, queued while the agent streams, or appended.
SendCustom ==
  LET m == Message("custom", clock, "none")
  IN /\ InputTurn
     /\ used < MaxTurns
     /\ used' = used + 1
     /\ clock' = clock + 1
     /\ \/ /\ session' = [session EXCEPT !.nextTurn = Append(@, m)]
           /\ UNCHANGED <<agent, stored, missed>>
        \/ /\ Streaming
           /\ \/ agent' = [agent EXCEPT !.steering = Append(@, m)]
              \/ agent' = [agent EXCEPT !.followUp = Append(@, m)]
           /\ UNCHANGED <<session, stored, missed>>
        \/ /\ ~Streaming
           /\ Record(m)
           /\ UNCHANGED session
     /\ UNCHANGED <<current, calls, jobs, command, timers, again>>

\* Escape in interactive mode: abortRetry during a backoff, and while the agent runs the
\* queued texts go back to the editor (clearQueue) and the agent is aborted.
EscapeBackoff ==
  /\ InputTurn
  /\ used < MaxTurns /\ used' = used + 1
  /\ session.handler = "backoff"
  /\ session' = RetryAborted(session)
  /\ calls' = Released
  /\ UNCHANGED <<agent, stored, current, jobs, command, timers, clock, missed, again>>
EscapeRun ==
  /\ InputTurn
  /\ used < MaxTurns /\ used' = used + 1
  /\ Streaming /\ ~agent.stopping
  /\ agent' = [agent EXCEPT !.stopping = TRUE, !.steering = <<>>, !.followUp = <<>>]
  /\ session' = [session EXCEPT !.steering = <<>>, !.followUp = <<>>]
  /\ missed' = missed \ {"mirror"}
  /\ UNCHANGED <<stored, current, calls, jobs, command, timers, clock, again>>

Commanded(name) ==
  /\ InputTurn
  /\ name \in Commands /\ used < MaxTurns /\ command.pc = "none"
  /\ used' = used + 1

\* The files a new session may get.
Unused == {f \in Files \ {current} : stored[f] = <<>>}

\* newSession, switchSession and compact unsubscribe, abort, and wait for the agent.
CommandStarts(name) ==
  /\ name \in {"new", "switch", "compact"}
  /\ Commanded(name) /\ (name = "new" => Unused # {})
  /\ AbortEffects([session EXCEPT !.connected = FALSE], agent)
  /\ command' = [command EXCEPT !.name = name, !.pc = "idle"]
  /\ UNCHANGED <<stored, current, jobs, timers, clock, missed, again>>
CommandAt(name, place) == command.name = name /\ command.pc = place
NoCommand == [command EXCEPT !.name = "none", !.pc = "none", !.context = <<>>]

\* newSession: agent.reset, an empty session, every list cleared.
NewSession ==
  /\ CommandAt("new", "idle") /\ ~Streaming
  /\ \E f \in Unused : current' = f
  /\ agent' = [agent EXCEPT !.messages = <<>>, !.steering = <<>>, !.followUp = <<>>]
  /\ session' = [session EXCEPT !.steering = <<>>, !.followUp = <<>>, !.nextTurn = <<>>,
                                !.connected = TRUE]
  /\ missed' = Rebuilt \ {"mirror"}
  /\ command' = NoCommand
  /\ UNCHANGED <<stored, calls, jobs, timers, clock, used, again>>

\* switchSession: the lists are cleared, the agent's queues are not; the context of the
\* session opened is restored after the handlers of session_switch.
SwitchOpens ==
  /\ CommandAt("switch", "idle") /\ ~Streaming
  /\ \E f \in Files \ {current} :
       /\ current' = f
       /\ command' = [command EXCEPT !.pc = "restore", !.context = Context(stored[f])]
  /\ session' = [session EXCEPT !.steering = <<>>, !.followUp = <<>>, !.nextTurn = <<>>]
  /\ missed' = IF Queued(agent) THEN missed \cup {"mirror"} ELSE missed \ {"mirror"}
  /\ UNCHANGED <<agent, stored, calls, jobs, timers, clock, used, again>>
SwitchRestores ==
  /\ CommandAt("switch", "restore")
  /\ agent' = [agent EXCEPT !.messages = command.context]
  /\ session' = [session EXCEPT !.connected = TRUE]
  /\ missed' = IF command.context = Context(path) THEN Rebuilt ELSE missed \cup {"log"}
  /\ command' = NoCommand
  /\ UNCHANGED <<stored, current, calls, jobs, timers, clock, used, again>>

\* compact: the API key is asked for; the rest is a compaction this command awaits.
CompactStarts ==
  /\ CommandAt("compact", "idle") /\ ~Streaming
  /\ jobs' = [jobs EXCEPT ![Command] = [pc |-> "key", overflow |-> FALSE, kept |-> 0]]
  /\ command' = [command EXCEPT !.pc = "compacting"]
  /\ UNCHANGED <<agent, session, stored, current, calls, timers, clock, used, missed, again>>

\* navigateTree without a summary and fork neither abort anything nor wait.
NavigateTree ==
  \E i \in 1..(Len(path) - 1) :
    LET leaf == IF path[i].role \in {"user", "custom"} THEN i - 1 ELSE i
        kept == SubSeq(path, 1, leaf)
    IN /\ Commanded("tree")
       /\ stored' = [stored EXCEPT ![current] = kept]
       /\ agent' = [agent EXCEPT !.messages = Context(kept)]
       /\ missed' = Rebuilt
       /\ UNCHANGED <<session, current, calls, jobs, command, timers, clock, again>>
Fork ==
  \E i \in 1..Len(path), f \in Unused :
    LET kept == SubSeq(path, 1, i - 1)
    IN /\ Commanded("fork")
       /\ path[i].role = "user"
       /\ current' = f
       /\ stored' = [stored EXCEPT ![f] = kept]
       /\ session' = [session EXCEPT !.nextTurn = <<>>]
       /\ agent' = [agent EXCEPT !.messages = Context(kept)]
       /\ missed' = Rebuilt
       /\ UNCHANGED <<calls, jobs, command, timers, clock, again>>

-----------------------------------------------------------------------------
AgentStep == (\E k \in {"stop", "aborted"} \cup Outcomes : Answer(k)) \/ ToolsDone
             \/ (\E t \in {"throws", "throwsRetryable"} : RunThrows(t))
HandlerStep == MessageStarts \/ MessageEnds \/ AgentEnds \/ BackoffElapses \/ BackoffCancelled
JobStep(o) == JobAsks(o) \/ JobFails(o) \/ JobDone(o)
PromptStep(p) == PromptHasNoKey(p) \/ PromptChecks(p) \/ PromptRuns(p) \/ PromptWaits(p)
CommandStep == NewSession \/ SwitchOpens \/ SwitchRestores \/ CompactStarts
TimerStep == \E k \in {"retry", "resume"} : Continue(k)
HostStep ==
  \/ \E p \in Prompts : PromptQueues(p) \/ PromptStarts(p)
  \/ RecordBash \/ SendCustom \/ EscapeBackoff \/ EscapeRun
  \/ \E name \in Commands : CommandStarts(name)
  \/ NavigateTree \/ Fork

Next ==
  \/ AgentStep \/ HandlerStep \/ CommandStep \/ TimerStep \/ HostStep
  \/ \E o \in Owners : JobStep(o)
  \/ \E p \in Prompts : PromptStep(p)

\* The model answers, tools and requests end, timers fire, and the event loop runs what
\* is ready; what the host does is never due.
Fairness ==
  /\ WF_vars(AgentStep) /\ WF_vars(HandlerStep) /\ WF_vars(CommandStep) /\ WF_vars(TimerStep)
  /\ \A o \in Owners : WF_vars(JobStep(o))
  /\ \A p \in Prompts : WF_vars(PromptStep(p))
Spec == Init /\ [][Next]_vars /\ Fairness

-----------------------------------------------------------------------------
(* Properties.                                                             *)

Sent(ms) == Selected(ms, {m \in ToSet(ms) : ~Failed(m)})

\* What the model is sent is what the session will restore: the transcript of the agent is
\* the context of the open session plus what the handler has still to write, answers that
\* failed aside. Not after a run went on while the session was unsubscribed, when the
\* transcript was rebuilt or appended to before the handler had written what was said
\* (agent-session.ts:2934 replaceMessages, :2560 appendMessage), or when a failure handled
\* late took off a good answer that had come since (:2423, whatever is last).
ContextMatchesLog ==
  "log" \notin missed /\ command.pc # "restore" => Sent(agent.messages) = Sent(Context(path \o EndedMessages))

Starting == {e.msg : e \in {x \in ToSet(session.events) : x.type = "start"}}
Users(ms) == Selected(ms, {m \in ToSet(ms) : m.role = "user"})

\* The queued messages the user is shown are those the agent still holds, in order; those
\* whose message_start waits for the handler are still shown. Not after a switch with
\* messages queued, which clears the lists but not the agent's queues.
MirrorMatchesQueue ==
  "mirror" \notin missed =>
    /\ Selected(session.steering, ToSet(session.steering) \ Starting) = Users(agent.steering)
    /\ Selected(session.followUp, ToSet(session.followUp) \ Starting) = Users(agent.followUp)

\* In the context of the open session a tool result directly follows the answer that
\* called the tool, whatever was recorded, compacted or branched in between; providers
\* refuse anything else (agent-session.ts:2554, "to avoid breaking tool_use/tool_result
\* ordering").
ResultsFollowCalls ==
  LET ms == Context(path)
  IN \A i, j \in 1..Len(ms) :
       ms[j].role = "toolResult" /\ IsAnswer(ms[i]) /\ ms[i].id = ms[j].ref => j = i + 1

\* A failing provider is not asked for ever: after the first answer with a retryable error
\* at most maxRetries more are asked for, and an overflow is recovered from once, until a
\* user message or a good answer (:2400 and :1790). Not while runs overlap: when a prompt is
\* sent during the backoff or the compaction of an earlier run, its answers and those of
\* the continuation are counted by one handler.
RecoveryBounded == "overlap" \notin missed => again.retry <= MaxRetries + 1 /\ again.overflow <= 1

Returned(p) == calls[p].pc \in {"done", "thrown"}

\* Every call of prompt() returns: waitForRetry ends when the retry has succeeded, failed
\* or been given up (:2452, "Retry failed - will be caught by next agent_end").
PromptsReturn == \A p \in Prompts : calls[p].pc # "none" ~> Returned(p)

\* Every call of prompt() returns, unless a run that the promise of a retry waits for has
\* thrown or its continue() was refused: there is no agent_end with an answer then.
PromptsReturnUnlessStuck ==
  \A p \in Prompts : calls[p].pc # "none" ~> Returned(p) \/ "retry" \in missed
=============================================================================
