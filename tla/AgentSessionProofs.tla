------------------------- MODULE AgentSessionProofs -------------------------
(***************************************************************************)
(* What is proved about AgentSession, for any number of prompts, session   *)
(* files, retries and other inputs:                                        *)
(*   - a failing provider is not asked for ever;                           *)
(*   - what the model is sent is what the session will restore.            *)
(*                                                                         *)
(* The errors in a row are counted where they are answered, the attempts   *)
(* where they are handled, and the handler may lag behind. What ties the   *)
(* two together is the queue of events between them: a failed answer is    *)
(* followed at once by its agent_end, an agent_end is the last event, and  *)
(* nothing waits while the handler sleeps or compacts, as long as no run   *)
(* is started before the handler is done with the one before.              *)
(*                                                                         *)
(* The same queue stands between the transcript, which has a message when  *)
(* it is said, and the file, which has it when it is handled. Every step   *)
(* adds the same messages to the one and to the file followed by the       *)
(* queue, or makes the transcript anew from the file.                      *)
(***************************************************************************)
EXTENDS AgentSession, SequenceTheorems, FiniteSetTheorems, TLAPS

Roles == {"none", "user", "custom", "toolResult", "assistant", "bash", "compaction"}
Kinds == {"none", "aborted", "stop", "toolUse", "large", "error", "fatal", "overflow", "throws"}
Messages == [role: Roles, id: Nat, kind: Kinds, ref: Nat]
\* What is prompted, steered or queued, and what enters a run between two answers.
Inputs == [role: {"user", "custom"}, id: Nat, kind: {"none"}, ref: Nat]
Said == [role: {"user", "custom", "toolResult"}, id: Nat, kind: {"none"}, ref: Nat]
Events == [type: {"start", "end", "agent_end"}, msg: Messages]

\* The fields of the two records, whatever their values.
IsSession(s) ==
  s = [connected |-> s.connected, events |-> s.events, handler |-> s.handler,
       handling |-> s.handling, lastAnswer |-> s.lastAnswer, attempt |-> s.attempt,
       promise |-> s.promise, overflowed |-> s.overflowed, pendingBash |-> s.pendingBash,
       nextTurn |-> s.nextTurn, steering |-> s.steering, followUp |-> s.followUp]
IsAgent(a) ==
  a = [messages |-> a.messages, phase |-> a.phase, asked |-> a.asked, stopping |-> a.stopping,
       call |-> a.call, steering |-> a.steering, followUp |-> a.followUp]

CallPlaces ==
  {"none", "key", "compacting", "before", "running", "ended", "waiting", "done", "thrown"}

SessionTypes ==
  /\ IsSession(session)
  /\ session.connected \in BOOLEAN
  /\ session.events \in Seq(Events)
  /\ session.handler \in {"ready", "backoff", "cancelled", "compacting"}
  /\ session.handling \in Messages
  /\ session.lastAnswer \in Messages
  /\ session.attempt \in 0..MaxRetries
  /\ session.promise \in BOOLEAN
  /\ session.overflowed \in BOOLEAN
  /\ session.nextTurn \in Seq(Inputs)
AgentTypes ==
  /\ IsAgent(agent)
  /\ agent.phase \in {"idle", "llm", "tools"}
  /\ agent.asked \in Nat
  /\ agent.stopping \in BOOLEAN
  /\ agent.call \in Nat
  /\ agent.steering \in Seq(Inputs)
  /\ agent.followUp \in Seq(Inputs)
Types ==
  /\ SessionTypes
  /\ AgentTypes
  /\ clock \in Nat
  /\ calls \in [Prompts -> [pc: CallPlaces, msgs: Seq(Inputs)]]
  /\ again \in [retry: Nat, overflow: Nat]

-----------------------------------------------------------------------------
(* The inductive invariant.                                                *)

Hard(m) == Failed(m) /\ m.kind # "aborted"
Final(e) == e.type = "agent_end"
Bad(e) == e.type = "end" /\ Hard(e.msg)
\* What clears the counters: a good answer, and a user message the one of overflows.
Good(e) == e.type = "end" /\ IsAnswer(e.msg) /\ ~Hard(e.msg)
Asked(e) == e.type = "start" /\ e.msg.role = "user"

Places == 1..Len(session.events)
EventAt(i) == session.events[i]
Clears == \E i \in Places : Good(EventAt(i))
\* The handler has yet to count a retryable error.
Uncounted == \/ Retryable(session.lastAnswer)
             \/ \E i \in Places : EventAt(i).type = "end" /\ Retryable(EventAt(i).msg)

\* An answer that failed ends its run: its agent_end is the next event.
Paired == \A i \in Places : Bad(EventAt(i)) => i + 1 \in Places /\ Final(EventAt(i + 1))
InHand == Hard(session.lastAnswer) => 1 \in Places /\ Final(EventAt(1))
Handled == session.handler \in {"backoff", "cancelled"} => session.handling.kind = "error"

\* While runs do not overlap: the events of one run only, none while the handler is busy.
OneRun ==
  /\ \A i \in Places : Final(EventAt(i)) => i = Len(session.events)
  /\ Streaming => \A i \in Places : ~Final(EventAt(i))
  /\ Streaming => session.connected \/ agent.stopping
Busy == session.handler # "ready" => session.events = <<>> /\ ~Streaming
\* The errors in a row are those the handler has counted and the one it has not.
CountedRunning == Streaming => again.retry <= session.attempt /\ (Clears => again.retry = 0)
CountedWaiting ==
  ~Streaming /\ (session.promise \/ Uncounted) =>
    /\ again.retry <= session.attempt + (IF Uncounted THEN 1 ELSE 0)
    /\ Clears => again.retry <= (IF Uncounted THEN 1 ELSE 0)
\* An overflow recovered from is remembered until something that clears it is handled.
Remembered ==
  again.overflow = 1 => session.overflowed /\ \A i \in Places : ~Good(EventAt(i)) /\ ~Asked(EventAt(i))
Bounded == again.retry <= MaxRetries + 1 /\ again.overflow <= 1

Apart == "overlap" \notin missed
InApart == OneRun /\ Busy /\ CountedRunning /\ CountedWaiting /\ Remembered /\ Bounded
Inv == Types /\ Paired /\ InHand /\ Handled /\ (Apart => InApart)

-----------------------------------------------------------------------------
(* Facts about the data.                                                   *)

LEMMA NoMessageType == NoMessage \in Messages
  BY DEF NoMessage, Messages, Roles, Kinds

LEMMA MessageType ==
  ASSUME NEW role \in Roles, NEW id \in Nat, NEW kind \in Kinds
  PROVE  /\ Message(role, id, kind) \in Messages
         /\ Message(role, id, kind).role = role
         /\ Message(role, id, kind).kind = kind
  BY DEF Message, Messages

LEMMA InputType ==
  ASSUME NEW role \in {"user", "custom"}, NEW id \in Nat
  PROVE  Message(role, id, "none") \in Inputs
  BY DEF Message, Inputs

LEMMA SaidTypes ==
  /\ Inputs \subseteq Said
  /\ Said \subseteq Messages
  /\ \A id, call \in Nat : ToolResult(id, call) \in Said
  BY DEF Inputs, Said, Messages, Roles, Kinds, ToolResult, Message

\* What is said between two answers is no answer.
LEMMA SaidIsNoAnswer ==
  ASSUME NEW m \in Said
  PROVE  ~IsAnswer(m) /\ ~Failed(m) /\ ~Hard(m) /\ ~Retryable(m)
  BY DEF Said, IsAnswer, Failed, Hard, Retryable

LEMMA QueueTypes ==
  ASSUME Types
  PROVE  /\ Polled(TRUE) \in Seq(Inputs)
         /\ Polled(FALSE) \in Seq(Inputs)
<1>1. agent.steering \in Seq(Inputs) /\ agent.followUp \in Seq(Inputs)
  BY DEF Types, AgentTypes
<1>2. ASSUME NEW q \in Seq(Inputs), q # <<>> PROVE <<Head(q)>> \in Seq(Inputs)
  BY <1>2
<1>3. <<>> \in Seq(Inputs)
  OBVIOUS
<1>4. ASSUME NEW after \in BOOLEAN PROVE Polled(after) \in Seq(Inputs)
  <2>1. CASE agent.steering # <<>>
    BY <1>1, <1>2, <2>1 DEF Polled
  <2>2. CASE agent.steering = <<>> /\ agent.followUp # <<>> /\ ~after
    BY <1>1, <1>2, <2>2 DEF Polled
  <2>3. CASE agent.steering = <<>> /\ ~(agent.followUp # <<>> /\ ~after)
    BY <1>3, <2>3 DEF Polled
  <2> QED
    BY <2>1, <2>2, <2>3
<1> QED
  BY <1>4

\* What the queues of an agent hold after a message was taken.
LEMMA UnqueueType ==
  ASSUME AgentTypes, NEW ms, ms = <<>> \/ agent.steering # <<>> \/ agent.followUp # <<>>
  PROVE  LET a == Unqueue(agent, ms)
         IN /\ IsAgent(a)
            /\ a.steering \in Seq(Inputs)
            /\ a.followUp \in Seq(Inputs)
            /\ a.phase = agent.phase
            /\ a.asked = agent.asked
            /\ a.stopping = agent.stopping
            /\ a.call = agent.call
            /\ a.messages = agent.messages
<1>1. CASE ms = <<>>
  BY <1>1 DEF Unqueue, AgentTypes
<1>2. CASE ms # <<>> /\ agent.steering # <<>>
  <2>1. Unqueue(agent, ms) = [agent EXCEPT !.steering = Tail(@)]
    BY <1>2 DEF Unqueue
  <2>2. Tail(agent.steering) \in Seq(Inputs)
    BY <1>2 DEF AgentTypes
  <2> QED
    BY <2>1, <2>2 DEF AgentTypes, IsAgent
<1>3. CASE ms # <<>> /\ agent.steering = <<>>
  <2>1. Unqueue(agent, ms) = [agent EXCEPT !.followUp = Tail(@)]
    BY <1>3 DEF Unqueue
  <2>2. Tail(agent.followUp) \in Seq(Inputs)
    BY <1>3 DEF AgentTypes
  <2> QED
    BY <2>1, <2>2 DEF AgentTypes, IsAgent
<1> QED
  BY <1>1, <1>2, <1>3

\* The events of messages that are no answers.
LEMMA SpokenType ==
  ASSUME NEW ms \in Seq(Said)
  PROVE  /\ Spoken(ms) \in Seq(Events)
         /\ Len(Spoken(ms)) = 2 * Len(ms)
         /\ \A i \in 1..Len(Spoken(ms)) :
              /\ Spoken(ms)[i].type \in {"start", "end"}
              /\ Spoken(ms)[i].msg \in Said
              /\ \E j \in 1..Len(ms) : Spoken(ms)[i].msg = ms[j]
<1> DEFINE n == 2 * Len(ms)
           F(i) == Event(IF i % 2 = 1 THEN "start" ELSE "end", ms[(i + 1) \div 2])
<1>1. n \in Nat /\ Len(ms) \in Nat
  OBVIOUS
<1>2. ASSUME NEW i \in 1..n PROVE (i + 1) \div 2 \in 1..Len(ms)
  BY <1>1, <1>2
<1>3. ASSUME NEW i \in 1..n
      PROVE  /\ F(i) \in Events
             /\ F(i).type \in {"start", "end"}
             /\ F(i).msg = ms[(i + 1) \div 2]
             /\ F(i).msg \in Said
  <2> DEFINE m == ms[(i + 1) \div 2]
             t == IF i % 2 = 1 THEN "start" ELSE "end"
  <2>1. m \in Said
    BY <1>2
  <2>2. m \in Messages
    BY <2>1, SaidTypes
  <2>3. t \in {"start", "end"}
    OBVIOUS
  <2>4. F(i) = [type |-> t, msg |-> m]
    BY DEF Event
  <2> HIDE DEF m, t, F
  <2>5. F(i) \in Events /\ F(i).type = t /\ F(i).msg = m
    BY <2>2, <2>3, <2>4 DEF Events
  <2> QED
    BY <2>1, <2>3, <2>5 DEF m
<1>4. Spoken(ms) = [i \in 1..n |-> F(i)]
  BY DEF Spoken
<1> HIDE DEF F, n
<1>5. Spoken(ms) \in [1..n -> Events]
  BY <1>3, <1>4
<1>6. Spoken(ms) \in Seq(Events) /\ Len(Spoken(ms)) = n
  BY <1>1, <1>5
<1>7. ASSUME NEW i \in 1..n PROVE Spoken(ms)[i] = F(i)
  BY <1>4
<1> QED
  BY <1>2, <1>3, <1>6, <1>7 DEF n

-----------------------------------------------------------------------------
(* What the operators of the model do to the state.                        *)

LEMMA EmittedFacts ==
  ASSUME NEW s, IsSession(s), s.connected \in BOOLEAN, s.events \in Seq(Events),
         s.promise \in BOOLEAN, NEW events \in Seq(Events)
  PROVE  LET t == Emitted(s, events)
         IN /\ IsSession(t)
            /\ t.connected = s.connected /\ t.handler = s.handler /\ t.handling = s.handling
            /\ t.lastAnswer = s.lastAnswer /\ t.attempt = s.attempt
            /\ t.overflowed = s.overflowed /\ t.nextTurn = s.nextTurn
            /\ t.events = (IF s.connected THEN s.events \o events ELSE s.events)
            /\ t.events \in Seq(Events)
            /\ t.promise \in BOOLEAN
<1>1. CASE s.connected
  <2> DEFINE p == s.promise \/ \E e \in ToSet(events) : e.type = "agent_end" /\ Retryable(e.msg)
  <2>1. p \in BOOLEAN
    OBVIOUS
  <2> HIDE DEF p
  <2>2. Emitted(s, events) = [s EXCEPT !.events = @ \o events, !.promise = p]
    BY <1>1 DEF Emitted, p
  <2>3. s.events \o events \in Seq(Events)
    OBVIOUS
  <2> QED
    BY <1>1, <2>1, <2>2, <2>3 DEF IsSession
<1>2. CASE ~s.connected
  BY <1>2 DEF Emitted
<1> QED
  BY <1>1, <1>2

LEMMA CallsType ==
  ASSUME calls \in [Prompts -> [pc: CallPlaces, msgs: Seq(Inputs)]]
  PROVE  /\ EndedCalls \in [Prompts -> [pc: CallPlaces, msgs: Seq(Inputs)]]
         /\ Released \in [Prompts -> [pc: CallPlaces, msgs: Seq(Inputs)]]
         /\ \A p \in Prompts, place \in CallPlaces :
              At(p, place) \in [Prompts -> [pc: CallPlaces, msgs: Seq(Inputs)]]
<1>1. <<>> \in Seq(Inputs)
  OBVIOUS
<1> QED
  BY <1>1 DEF EndedCalls, Released, At, CallPlaces

LEMMA BuiltType ==
  ASSUME NEW c \in [pc: CallPlaces, msgs: Seq(Inputs)], NEW s, s.nextTurn \in Seq(Inputs)
  PROVE  Built(c, s) \in [pc: CallPlaces, msgs: Seq(Inputs)]
<1>1. c.msgs \o s.nextTurn \in Seq(Inputs)
  OBVIOUS
<1> QED
  BY <1>1 DEF Built, CallPlaces

LEMMA NothingPending == InputTurn => session.handler # "cancelled" /\ (session.handler = "ready" => session.events = <<>>)
  BY DEF InputTurn, MicroWork

-----------------------------------------------------------------------------
(* Steps that leave alone what is counted.                                 *)

Quiet ==
  /\ Types'
  /\ agent'.phase = agent.phase
  /\ agent.stopping => agent'.stopping
  /\ Streaming /\ session.connected => session'.connected \/ agent'.stopping
  /\ session'.events = session.events
  /\ session'.lastAnswer = session.lastAnswer
  /\ session'.attempt = session.attempt
  /\ session'.overflowed = session.overflowed
  /\ session'.promise => session.promise
  /\ \/ session'.handler = "ready"
     \/ session'.handler = session.handler /\ session'.handling = session.handling
     \/ /\ session.handler = "backoff" /\ session'.handler = "cancelled"
        /\ session'.handling = session.handling
  /\ again' = again
  /\ Apart' => Apart

LEMMA QuietSteps == Inv /\ Quiet => Inv'
<1> SUFFICES ASSUME Inv, Quiet PROVE Inv'
  OBVIOUS
<1> USE DEF Inv, Quiet
<1>1. Places' = Places /\ \A i \in Places : EventAt(i)' = EventAt(i)
  BY DEF Places, EventAt
<1>2. Streaming' = Streaming
  BY DEF Streaming
<1>3. Paired'
  BY <1>1 DEF Paired
<1>4. InHand'
  BY <1>1 DEF InHand
<1>5. Handled'
  BY DEF Handled
<1>6. ASSUME Apart' PROVE InApart'
  <2>1. InApart
    BY <1>6
  <2>2. Clears' = Clears
    BY <1>1 DEF Clears
  <2>3. Uncounted' = Uncounted
    BY <1>1 DEF Uncounted
  <2>4. OneRun'
    BY <1>1, <1>2, <2>1 DEF InApart, OneRun
  <2>5. Busy'
    BY <1>2, <2>1 DEF InApart, Busy
  <2>6. CountedRunning'
    BY <1>2, <2>1, <2>2 DEF InApart, CountedRunning
  <2>7. CountedWaiting'
    BY <1>2, <2>1, <2>2, <2>3 DEF InApart, CountedWaiting
  <2>8. Remembered'
    BY <1>1, <2>1 DEF InApart, Remembered
  <2>9. Bounded'
    BY <2>1 DEF InApart, Bounded
  <2> QED
    BY <2>4, <2>5, <2>6, <2>7, <2>8, <2>9 DEF InApart
<1> QED
  BY <1>3, <1>4, <1>5, <1>6

\* The fields of the session that the count depends on are left alone.
SameSession ==
  /\ session'.connected = session.connected /\ session'.events = session.events
  /\ session'.lastAnswer = session.lastAnswer /\ session'.attempt = session.attempt
  /\ session'.overflowed = session.overflowed /\ session'.promise = session.promise
  /\ session'.handler = session.handler /\ session'.handling = session.handling
SameAgent == agent'.phase = agent.phase /\ agent'.stopping = agent.stopping

LEMMA UnchangedSession == Inv /\ UNCHANGED session => SessionTypes' /\ SameSession
  BY DEF Inv, Types, SessionTypes, IsSession, SameSession
LEMMA UnchangedAgent == Inv /\ UNCHANGED agent => AgentTypes' /\ SameAgent
  BY DEF Inv, Types, AgentTypes, IsAgent, SameAgent

LEMMA PlacedType ==
  ASSUME Inv, NEW p \in Prompts, NEW place \in CallPlaces, calls' = At(p, place)
  PROVE  calls' \in [Prompts -> [pc: CallPlaces, msgs: Seq(Inputs)]]
  BY CallsType DEF Inv, Types

\* What is enough for a step to be quiet.
LEMMA QuietWhenSame ==
  ASSUME Inv, SessionTypes', AgentTypes', SameSession, SameAgent, clock' \in Nat,
         calls' \in [Prompts -> [pc: CallPlaces, msgs: Seq(Inputs)]], again' = again,
         Apart' => Apart
  PROVE  Quiet
  BY DEF Inv, Types, SameSession, SameAgent, Quiet

LEMMA BackoffElapsesQuiet == Inv /\ BackoffElapses => Quiet
<1> SUFFICES ASSUME Inv, BackoffElapses PROVE Quiet
  OBVIOUS
<1>1. SessionTypes'
  BY NoMessageType DEF Inv, Types, SessionTypes, BackoffElapses, IsSession
<1> QED
  BY <1>1 DEF Inv, Types, SessionTypes, IsSession, AgentTypes, BackoffElapses, Quiet, Apart, Streaming

LEMMA PromptQueuesQuiet == ASSUME NEW p \in Prompts, Inv, PromptQueues(p) PROVE Quiet
<1> DEFINE m == Message("user", clock, "none")
<1>1. m \in Inputs
  BY InputType DEF Inv, Types
<1> HIDE DEF m
<1>2. /\ Append(agent.steering, m) \in Seq(Inputs)
      /\ Append(agent.followUp, m) \in Seq(Inputs)
  BY <1>1 DEF Inv, Types, AgentTypes
<1>3. \/ /\ agent' = [agent EXCEPT !.steering = Append(@, m)]
         /\ session' = [session EXCEPT !.steering = Append(@, m)]
      \/ /\ agent' = [agent EXCEPT !.followUp = Append(@, m)]
         /\ session' = [session EXCEPT !.followUp = Append(@, m)]
  BY DEF PromptQueues, m
<1>4. AgentTypes' /\ SameAgent
  BY <1>2, <1>3 DEF Inv, Types, AgentTypes, IsAgent, SameAgent
<1>5. SessionTypes' /\ SameSession
  BY <1>3 DEF Inv, Types, SessionTypes, IsSession, SameSession
<1>6. calls' \in [Prompts -> [pc: CallPlaces, msgs: Seq(Inputs)]]
  BY PlacedType DEF PromptQueues, CallPlaces
<1>7. clock' \in Nat /\ again' = again /\ (Apart' => Apart)
  BY DEF PromptQueues, Inv, Types, Apart
<1> QED
  BY <1>4, <1>5, <1>6, <1>7, QuietWhenSame

LEMMA PromptStartsQuiet == ASSUME NEW p \in Prompts, Inv, PromptStarts(p) PROVE Quiet
<1> DEFINE m == Message("user", clock, "none")
<1>1. <<m>> \in Seq(Inputs)
  BY InputType DEF Inv, Types
<1> HIDE DEF m
<1>2. AgentTypes' /\ SameAgent
  BY DEF PromptStarts, Inv, Types, AgentTypes, IsAgent, SameAgent
<1>3. SessionTypes' /\ SameSession
  BY DEF PromptStarts, Inv, Types, SessionTypes, IsSession, SameSession
<1>4. calls' = [calls EXCEPT ![p] = [pc |-> "key", msgs |-> <<m>>]]
  BY DEF PromptStarts, m
<1>5. calls' \in [Prompts -> [pc: CallPlaces, msgs: Seq(Inputs)]]
  BY <1>1, <1>4 DEF Inv, Types, CallPlaces
<1>6. clock' \in Nat /\ again' = again
  BY DEF PromptStarts, Inv, Types
<1>7. Apart' => Apart
  BY DEF PromptStarts, Apart
<1> QED
  BY <1>2, <1>3, <1>5, <1>6, <1>7, QuietWhenSame

LEMMA PromptHasNoKeyQuiet == ASSUME NEW p \in Prompts, Inv, PromptHasNoKey(p) PROVE Quiet
<1>1. calls' \in [Prompts -> [pc: CallPlaces, msgs: Seq(Inputs)]]
  BY PlacedType DEF PromptHasNoKey, CallPlaces
<1>2. UNCHANGED <<agent, session, clock, missed, again>>
  BY DEF PromptHasNoKey
<1> QED
  BY <1>1, <1>2, UnchangedSession, UnchangedAgent, QuietWhenSame DEF Inv, Types, Apart

LEMMA PromptWaitsQuiet == ASSUME NEW p \in Prompts, Inv, PromptWaits(p) PROVE Quiet
<1>1. calls' \in [Prompts -> [pc: CallPlaces, msgs: Seq(Inputs)]]
  BY PlacedType DEF PromptWaits, CallPlaces
<1>2. UNCHANGED <<agent, session, clock, missed, again>>
  BY DEF PromptWaits
<1> QED
  BY <1>1, <1>2, UnchangedSession, UnchangedAgent, QuietWhenSame DEF Inv, Types, Apart

LEMMA RecordFacts ==
  ASSUME Inv, NEW m, Record(m)
  PROVE  AgentTypes' /\ SameAgent /\ (Apart' => Apart)
<1>1. AgentTypes' /\ SameAgent
  BY DEF Record, Inv, Types, AgentTypes, IsAgent, SameAgent
<1>2. Apart' => Apart
  BY DEF Record, Apart
<1> QED
  BY <1>1, <1>2

LEMMA RecordBashQuiet == Inv /\ RecordBash => Quiet
<1> SUFFICES ASSUME Inv, RecordBash PROVE Quiet
  OBVIOUS
<1> DEFINE m == Message("bash", clock, "none")
<1>1. UNCHANGED <<calls, again>> /\ clock' = clock + 1
  BY DEF RecordBash
<1>2. \/ /\ session' = [session EXCEPT !.pendingBash = Append(@, m)]
         /\ UNCHANGED <<agent, stored, missed>>
      \/ Record(m) /\ UNCHANGED session
  BY DEF RecordBash
<1> HIDE DEF m
<1>3. AgentTypes' /\ SameAgent /\ (Apart' => Apart)
  BY <1>2, UnchangedAgent, RecordFacts DEF Apart
<1>4. SessionTypes' /\ SameSession
  <2>1. CASE session' = [session EXCEPT !.pendingBash = Append(@, m)]
    BY <2>1 DEF Inv, Types, SessionTypes, IsSession, SameSession
  <2>2. CASE UNCHANGED session
    BY <2>2, UnchangedSession
  <2> QED
    BY <1>2, <2>1, <2>2
<1> QED
  BY <1>1, <1>3, <1>4, QuietWhenSame DEF Inv, Types

LEMMA SendCustomQuiet == Inv /\ SendCustom => Quiet
<1> SUFFICES ASSUME Inv, SendCustom PROVE Quiet
  OBVIOUS
<1> DEFINE m == Message("custom", clock, "none")
<1>1. UNCHANGED <<calls, again>> /\ clock' = clock + 1
  BY DEF SendCustom
<1>2. \/ /\ session' = [session EXCEPT !.nextTurn = Append(@, m)]
         /\ UNCHANGED <<agent, stored, missed>>
      \/ /\ \/ agent' = [agent EXCEPT !.steering = Append(@, m)]
            \/ agent' = [agent EXCEPT !.followUp = Append(@, m)]
         /\ UNCHANGED <<session, stored, missed>>
      \/ Record(m) /\ UNCHANGED session
  BY DEF SendCustom
<1>3. m \in Inputs
  BY InputType DEF Inv, Types
<1> HIDE DEF m
<1>4. CASE session' = [session EXCEPT !.nextTurn = Append(@, m)] /\ UNCHANGED <<agent, stored, missed>>
  <2>1. Append(session.nextTurn, m) \in Seq(Inputs)
    BY <1>3 DEF Inv, Types, SessionTypes
  <2>2. SessionTypes' /\ SameSession
    BY <1>4, <2>1 DEF Inv, Types, SessionTypes, IsSession, SameSession
  <2> QED
    BY <1>1, <1>4, <2>2, UnchangedAgent, QuietWhenSame DEF Inv, Types, Apart
<1>5. CASE /\ \/ agent' = [agent EXCEPT !.steering = Append(@, m)]
              \/ agent' = [agent EXCEPT !.followUp = Append(@, m)]
           /\ UNCHANGED <<session, stored, missed>>
  <2>1. Append(agent.steering, m) \in Seq(Inputs) /\ Append(agent.followUp, m) \in Seq(Inputs)
    BY <1>3 DEF Inv, Types, AgentTypes
  <2>2. AgentTypes' /\ SameAgent
    BY <1>5, <2>1 DEF Inv, Types, AgentTypes, IsAgent, SameAgent
  <2> QED
    BY <1>1, <1>5, <2>2, UnchangedSession, QuietWhenSame DEF Inv, Types, Apart
<1>6. CASE Record(m) /\ UNCHANGED session
  BY <1>1, <1>6, RecordFacts, UnchangedSession, QuietWhenSame DEF Inv, Types
<1> QED
  BY <1>2, <1>4, <1>5, <1>6

LEMMA EscapeBackoffQuiet == Inv /\ EscapeBackoff => Quiet
<1> SUFFICES ASSUME Inv, EscapeBackoff PROVE Quiet
  OBVIOUS
<1>1. session' = RetryAborted(session) /\ calls' = Released
      /\ UNCHANGED <<agent, clock, missed, again>>
  BY DEF EscapeBackoff
<1>2. /\ SessionTypes'
      /\ session'.connected = session.connected
      /\ session'.events = session.events
      /\ session'.lastAnswer = session.lastAnswer
      /\ session'.attempt = session.attempt
      /\ session'.overflowed = session.overflowed
      /\ session'.promise = FALSE
      /\ session'.handling = session.handling
      /\ session'.handler = (IF session.handler = "backoff" THEN "cancelled" ELSE session.handler)
  BY <1>1 DEF RetryAborted, Resolved, Inv, Types, SessionTypes, IsSession
<1>3. Types'
  BY <1>1, <1>2, CallsType, UnchangedAgent DEF Inv, Types
<1> QED
  BY <1>1, <1>2, <1>3 DEF Quiet, Apart, Inv, Types, SessionTypes

LEMMA EscapeRunQuiet == Inv /\ EscapeRun => Quiet
<1> SUFFICES ASSUME Inv, EscapeRun PROVE Quiet
  OBVIOUS
<1>1. <<>> \in Seq(Inputs)
  OBVIOUS
<1>2. AgentTypes' /\ agent'.phase = agent.phase /\ agent'.stopping
  BY <1>1 DEF EscapeRun, Inv, Types, AgentTypes, IsAgent
<1>3. SessionTypes' /\ SameSession
  BY DEF EscapeRun, Inv, Types, SessionTypes, IsSession, SameSession
<1>4. UNCHANGED <<calls, clock, again>> /\ (Apart' => Apart)
  BY DEF EscapeRun, Apart
<1> QED
  BY <1>2, <1>3, <1>4 DEF Quiet, SameSession, Inv, Types

LEMMA CommandStartsQuiet == ASSUME NEW name, Inv, CommandStarts(name) PROVE Quiet
<1>1. /\ session' = RetryAborted([session EXCEPT !.connected = FALSE])
      /\ calls' = Released
      /\ agent' = IF agent.phase = "idle" THEN agent ELSE [agent EXCEPT !.stopping = TRUE]
      /\ UNCHANGED <<clock, missed, again>>
  BY DEF CommandStarts, AbortEffects
<1>2. AgentTypes' /\ agent'.phase = agent.phase
      /\ (agent.stopping => agent'.stopping) /\ (Streaming => agent'.stopping)
  BY <1>1 DEF Inv, Types, AgentTypes, IsAgent, Streaming
<1>3. /\ SessionTypes'
      /\ session'.connected = FALSE
      /\ session'.events = session.events
      /\ session'.lastAnswer = session.lastAnswer
      /\ session'.attempt = session.attempt
      /\ session'.overflowed = session.overflowed
      /\ session'.promise = FALSE
      /\ session'.handling = session.handling
      /\ session'.handler = (IF session.handler = "backoff" THEN "cancelled" ELSE session.handler)
  BY <1>1 DEF RetryAborted, Resolved, Inv, Types, SessionTypes, IsSession
<1>4. Types'
  BY <1>1, <1>2, <1>3, CallsType DEF Inv, Types
<1> QED
  BY <1>1, <1>2, <1>3, <1>4 DEF Quiet, Apart, Inv, Types, SessionTypes

\* The open session and the transcript are replaced; nothing that is counted changes.
LEMMA Replaced ==
  ASSUME Inv, NEW ms, NEW steering \in Seq(Inputs), NEW followUp \in Seq(Inputs),
         agent' = [agent EXCEPT !.messages = ms, !.steering = steering, !.followUp = followUp]
  PROVE  AgentTypes' /\ SameAgent
  BY DEF Inv, Types, AgentTypes, IsAgent, SameAgent
LEMMA Rewritten ==
  ASSUME Inv, NEW ms, agent' = [agent EXCEPT !.messages = ms]
  PROVE  AgentTypes' /\ SameAgent
  BY DEF Inv, Types, AgentTypes, IsAgent, SameAgent

LEMMA ApartRebuilt == "overlap" \notin Rebuilt => Apart
  BY DEF Rebuilt, Apart

LEMMA NewSessionQuiet == Inv /\ NewSession => Quiet
<1> SUFFICES ASSUME Inv, NewSession PROVE Quiet
  OBVIOUS
<1>1. <<>> \in Seq(Inputs)
  OBVIOUS
<1>2. AgentTypes' /\ SameAgent
  BY <1>1, Replaced DEF NewSession
<1>3. SessionTypes' /\ session'.connected /\ session'.events = session.events
      /\ session'.lastAnswer = session.lastAnswer /\ session'.attempt = session.attempt
      /\ session'.overflowed = session.overflowed /\ session'.promise = session.promise
      /\ session'.handler = session.handler /\ session'.handling = session.handling
  BY <1>1 DEF NewSession, Inv, Types, SessionTypes, IsSession
<1>4. UNCHANGED <<calls, clock, again>> /\ (Apart' => Apart)
  BY ApartRebuilt DEF NewSession, Apart
<1> QED
  BY <1>2, <1>3, <1>4 DEF Quiet, SameAgent, Inv, Types

LEMMA SwitchOpensQuiet == Inv /\ SwitchOpens => Quiet
<1> SUFFICES ASSUME Inv, SwitchOpens PROVE Quiet
  OBVIOUS
<1>1. <<>> \in Seq(Inputs)
  OBVIOUS
<1>2. SessionTypes' /\ SameSession
  BY <1>1 DEF SwitchOpens, Inv, Types, SessionTypes, IsSession, SameSession
<1>3. UNCHANGED <<agent, calls, clock, again>> /\ (Apart' => Apart)
  BY DEF SwitchOpens, Apart
<1> QED
  BY <1>2, <1>3, UnchangedAgent, QuietWhenSame DEF Inv, Types

LEMMA SwitchRestoresQuiet == Inv /\ SwitchRestores => Quiet
<1> SUFFICES ASSUME Inv, SwitchRestores PROVE Quiet
  OBVIOUS
<1>1. AgentTypes' /\ SameAgent
  BY Rewritten DEF SwitchRestores
<1>2. SessionTypes' /\ session'.connected /\ session'.events = session.events
      /\ session'.lastAnswer = session.lastAnswer /\ session'.attempt = session.attempt
      /\ session'.overflowed = session.overflowed /\ session'.promise = session.promise
      /\ session'.handler = session.handler /\ session'.handling = session.handling
  BY DEF SwitchRestores, Inv, Types, SessionTypes, IsSession
<1>3. UNCHANGED <<calls, clock, again>> /\ (Apart' => Apart)
  BY ApartRebuilt DEF SwitchRestores, Apart
<1> QED
  BY <1>1, <1>2, <1>3 DEF Quiet, SameAgent, Inv, Types

LEMMA CompactStartsQuiet == Inv /\ CompactStarts => Quiet
<1> SUFFICES ASSUME Inv, CompactStarts PROVE Quiet
  OBVIOUS
<1>1. UNCHANGED <<agent, session, calls, clock, missed, again>>
  BY DEF CompactStarts
<1> QED
  BY <1>1, UnchangedAgent, UnchangedSession, QuietWhenSame DEF Inv, Types, Apart

LEMMA NavigateTreeQuiet == Inv /\ NavigateTree => Quiet
<1> SUFFICES ASSUME Inv, NavigateTree PROVE Quiet
  OBVIOUS
<1>1. \E ms : agent' = [agent EXCEPT !.messages = ms]
  BY DEF NavigateTree
<1>2. AgentTypes' /\ SameAgent
  BY <1>1, Rewritten
<1>3. UNCHANGED <<session, calls, clock, again>> /\ (Apart' => Apart)
  BY ApartRebuilt DEF NavigateTree, Apart
<1> QED
  BY <1>2, <1>3, UnchangedSession, QuietWhenSame DEF Inv, Types

LEMMA ForkQuiet == Inv /\ Fork => Quiet
<1> SUFFICES ASSUME Inv, Fork PROVE Quiet
  OBVIOUS
<1>1. \E ms : agent' = [agent EXCEPT !.messages = ms]
  BY DEF Fork
<1>2. AgentTypes' /\ SameAgent
  BY <1>1, Rewritten
<1>3. session' = [session EXCEPT !.nextTurn = <<>>] /\ <<>> \in Seq(Inputs)
  BY DEF Fork
<1>4. SessionTypes' /\ SameSession
  BY <1>3 DEF Inv, Types, SessionTypes, IsSession, SameSession
<1>5. UNCHANGED <<calls, clock, again>> /\ (Apart' => Apart)
  BY ApartRebuilt DEF Fork, Apart
<1> QED
  BY <1>2, <1>4, <1>5, QuietWhenSame DEF Inv, Types

LEMMA JobAsksQuiet == ASSUME NEW o \in Owners, Inv, JobAsks(o) PROVE Quiet
<1>1. UNCHANGED <<agent, session, calls, clock, missed, again>>
  BY DEF JobAsks
<1> QED
  BY <1>1, UnchangedAgent, UnchangedSession, QuietWhenSame DEF Inv, Types, Apart

\* A compaction returns to the handler, to a command or to a prompt.
LEMMA ReturnFacts ==
  ASSUME Inv, NEW o \in Owners, Return(o, session)
  PROVE  /\ SessionTypes'
         /\ calls' \in [Prompts -> [pc: CallPlaces, msgs: Seq(Inputs)]]
         /\ session.connected => session'.connected
         /\ session'.events = session.events
         /\ session'.lastAnswer = session.lastAnswer
         /\ session'.attempt = session.attempt
         /\ session'.overflowed = session.overflowed
         /\ session'.promise = session.promise
         /\ session'.handling = session.handling
         /\ session'.handler \in {"ready", session.handler}
<1>1. <<>> \in Seq(Inputs)
  OBVIOUS
<1>2. \/ session' = [session EXCEPT !.handler = "ready"]
      \/ session' = [session EXCEPT !.connected = TRUE]
      \/ session' = [session EXCEPT !.nextTurn = <<>>]
  BY DEF Return
<1>3. calls' \in [Prompts -> [pc: CallPlaces, msgs: Seq(Inputs)]]
  <2>1. CASE \E p \in Prompts : o = Owner(p)
    <3>1. PICK p \in Prompts : o = Owner(p)
      BY <2>1
    <3>2. calls' = [calls EXCEPT ![p] = Built(@, session)]
      BY <3>1 DEF Return, Owner
    <3>3. Built(calls[p], session) \in [pc: CallPlaces, msgs: Seq(Inputs)]
      BY BuiltType DEF Inv, Types, SessionTypes
    <3> QED
      BY <3>2, <3>3 DEF Inv, Types
  <2>2. CASE o \in {Handler, Command}
    BY <2>2 DEF Return, Handler, Command, Inv, Types
  <2> QED
    BY <2>1, <2>2 DEF Owners
<1>4. CASE session' = [session EXCEPT !.handler = "ready"]
  BY <1>3, <1>4 DEF Inv, Types, SessionTypes, IsSession
<1>5. CASE session' = [session EXCEPT !.connected = TRUE]
  BY <1>3, <1>5 DEF Inv, Types, SessionTypes, IsSession
<1>6. CASE session' = [session EXCEPT !.nextTurn = <<>>]
  BY <1>1, <1>3, <1>6 DEF Inv, Types, SessionTypes, IsSession
<1> QED
  BY <1>2, <1>4, <1>5, <1>6

LEMMA JobFailsQuiet == ASSUME NEW o \in Owners, Inv, JobFails(o) PROVE Quiet
<1>1. Return(o, session) /\ UNCHANGED <<agent, clock, missed, again>>
  BY DEF JobFails
<1>2. AgentTypes' /\ SameAgent
  BY <1>1, UnchangedAgent
<1>3. Types'
  BY <1>1, <1>2, ReturnFacts DEF Inv, Types
<1> QED
  BY <1>1, <1>2, <1>3, ReturnFacts DEF Quiet, SameAgent, Apart

LEMMA JobDoneQuiet == ASSUME NEW o \in Owners, Inv, JobDone(o) PROVE Quiet
<1>1. /\ Return(o, session) /\ UNCHANGED again /\ clock' = clock + 1 /\ missed' = Rebuilt
      /\ \E ms : agent' = [agent EXCEPT !.messages = ms]
  BY DEF JobDone
<1>2. AgentTypes' /\ SameAgent
  BY <1>1, Rewritten
<1>3. Types'
  BY <1>1, <1>2, ReturnFacts DEF Inv, Types
<1>4. Apart' => Apart
  BY <1>1, ApartRebuilt DEF Apart
<1> QED
  BY <1>1, <1>2, <1>3, <1>4, ReturnFacts DEF Quiet, SameAgent

LEMMA StutterQuiet == Inv /\ UNCHANGED vars => Quiet
  BY UnchangedAgent, UnchangedSession, QuietWhenSame DEF vars, Inv, Types, Apart

-----------------------------------------------------------------------------
(* The steps of the handler.                                               *)

\* The first event is taken off the queue.
LEMMA TakenFacts ==
  ASSUME Inv, Ready
  PROVE  /\ 1 \in Places
         /\ NextEvent = EventAt(1)
         /\ NextEvent \in Events
         /\ IsSession(Taken)
         /\ Taken.events \in Seq(Events)
         /\ Len(Taken.events) = Len(session.events) - 1
         /\ \A i \in 1..Len(Taken.events) : i + 1 \in Places /\ Taken.events[i] = EventAt(i + 1)
         /\ Taken.connected = session.connected /\ Taken.handler = session.handler
         /\ Taken.handling = session.handling /\ Taken.lastAnswer = session.lastAnswer
         /\ Taken.attempt = session.attempt /\ Taken.promise = session.promise
         /\ Taken.overflowed = session.overflowed /\ Taken.nextTurn = session.nextTurn
<1>1. session.events \in Seq(Events) /\ session.events # <<>> /\ IsSession(session)
  BY DEF Inv, Types, SessionTypes, Ready
<1>2. /\ Tail(session.events) \in Seq(Events)
      /\ Len(Tail(session.events)) = Len(session.events) - 1
      /\ \A i \in 1..Len(Tail(session.events)) : Tail(session.events)[i] = session.events[i + 1]
      /\ Len(session.events) \in Nat \ {0}
      /\ Head(session.events) = session.events[1]
      /\ Head(session.events) \in Events
  BY <1>1
<1>3. /\ IsSession(Taken) /\ Taken.events = Tail(session.events)
      /\ Taken.connected = session.connected /\ Taken.handler = session.handler
      /\ Taken.handling = session.handling /\ Taken.lastAnswer = session.lastAnswer
      /\ Taken.attempt = session.attempt /\ Taken.promise = session.promise
      /\ Taken.overflowed = session.overflowed /\ Taken.nextTurn = session.nextTurn
  <2> DEFINE left == Tail(session.events)
  <2>1. Taken = [session EXCEPT !.events = left] /\ IsSession(session)
    BY <1>1 DEF Taken
  <2> HIDE DEF left
  <2>2. /\ IsSession(Taken) /\ Taken.events = left
        /\ Taken.connected = session.connected /\ Taken.handler = session.handler
        /\ Taken.handling = session.handling /\ Taken.lastAnswer = session.lastAnswer
        /\ Taken.attempt = session.attempt /\ Taken.promise = session.promise
        /\ Taken.overflowed = session.overflowed /\ Taken.nextTurn = session.nextTurn
    BY <2>1 DEF IsSession
  <2> QED
    BY <2>2 DEF left
<1>4. \A i \in 1..Len(Taken.events) : i + 1 \in Places /\ Taken.events[i] = EventAt(i + 1)
  BY <1>2, <1>3 DEF Places, EventAt
<1> QED
  BY <1>2, <1>3, <1>4 DEF Places, EventAt, NextEvent

\* The events that are left after one was taken: the same, one place earlier.
LEMMA LeftFacts ==
  ASSUME Inv, Ready, session'.events = Taken.events
  PROVE  /\ Places' = 1..Len(session'.events)
         /\ Len(session'.events) = Len(session.events) - 1
         /\ Len(session.events) \in Nat
         /\ \A i \in Places' : i \in Nat \ {0} /\ i + 1 \in Places /\ EventAt(i)' = EventAt(i + 1)
         /\ \A i \in Places : i # 1 => i - 1 \in Places' /\ EventAt(i - 1)' = EventAt(i)
<1>1. Len(session.events) \in Nat
  BY DEF Inv, Types, SessionTypes
<1>2. Places' = 1..Len(session'.events) /\ Len(session'.events) = Len(session.events) - 1
  BY TakenFacts DEF Places
<1>3. ASSUME NEW i \in Places'
      PROVE  i \in Nat \ {0} /\ i + 1 \in Places /\ EventAt(i)' = EventAt(i + 1)
  <2>1. i \in 1..Len(Taken.events)
    BY <1>2
  <2>2. i + 1 \in Places /\ Taken.events[i] = EventAt(i + 1)
    BY <2>1, TakenFacts
  <2>3. EventAt(i)' = session'.events[i]
    BY DEF EventAt
  <2> QED
    BY <1>1, <1>2, <2>1, <2>2, <2>3
<1>4. ASSUME NEW i \in Places, i # 1 PROVE i - 1 \in Places' /\ EventAt(i - 1)' = EventAt(i)
  <2>1. i - 1 \in Places' /\ (i - 1) + 1 = i
    BY <1>1, <1>2, <1>4 DEF Places
  <2>2. EventAt(i - 1)' = EventAt((i - 1) + 1)
    BY <1>3, <2>1
  <2> QED
    BY <2>1, <2>2
<1> QED
  BY <1>1, <1>2, <1>3, <1>4

LEMMA PairedLeft ==
  ASSUME Inv, Ready, session'.events = Taken.events
  PROVE  Paired'
<1> SUFFICES ASSUME NEW i \in Places', Bad(EventAt(i)')
             PROVE  i + 1 \in Places' /\ Final(EventAt(i + 1)')
  BY DEF Paired
<1>1. i + 1 \in Places /\ EventAt(i)' = EventAt(i + 1)
  BY LeftFacts
<1>2. (i + 1) + 1 \in Places /\ Final(EventAt((i + 1) + 1))
  BY <1>1 DEF Inv, Paired
<1>3. i \in Nat \ {0}
  BY LeftFacts
<1>4. ((i + 1) + 1) - 1 = i + 1 /\ (i + 1) + 1 # 1
  BY <1>3
<1>5. i + 1 \in Places' /\ EventAt(i + 1)' = EventAt((i + 1) + 1)
  BY <1>2, <1>4, LeftFacts
<1> QED
  BY <1>2, <1>5

LEMMA MessageStartsStep == Inv /\ MessageStarts => Inv'
<1> SUFFICES ASSUME Inv, MessageStarts PROVE Inv'
  OBVIOUS
<1>1. Ready /\ NextEvent.type = "start" /\ UNCHANGED <<agent, calls, clock, missed, again>>
  BY DEF MessageStarts
<1> DEFINE asked == NextEvent.msg.role = "user"
<1>2. /\ IsSession(session') /\ session'.events = Taken.events
      /\ session'.connected = session.connected /\ session'.handler = session.handler
      /\ session'.handling = session.handling /\ session'.lastAnswer = session.lastAnswer
      /\ session'.attempt = session.attempt /\ session'.promise = session.promise
      /\ session'.overflowed = (IF asked THEN FALSE ELSE session.overflowed)
      /\ session'.nextTurn = session.nextTurn
  <2>1. session' = IF asked THEN [Unshown(Taken, NextEvent.msg) EXCEPT !.overflowed = FALSE] ELSE Taken
    BY DEF MessageStarts
  <2> HIDE DEF asked
  <2>2. CASE asked
    <3> DEFINE t == Taken
               m == NextEvent.msg
    <3>1. \/ session' = [[t EXCEPT !.steering = RemoveFirst(@, m)] EXCEPT !.overflowed = FALSE]
          \/ session' = [[t EXCEPT !.followUp = RemoveFirst(@, m)] EXCEPT !.overflowed = FALSE]
      BY <2>1, <2>2 DEF Unshown
    <3>2. IsSession(t)
      BY <1>1, TakenFacts
    <3> HIDE DEF t, m
    <3>3. /\ IsSession(session') /\ session'.events = t.events
          /\ session'.connected = t.connected /\ session'.handler = t.handler
          /\ session'.handling = t.handling /\ session'.lastAnswer = t.lastAnswer
          /\ session'.attempt = t.attempt /\ session'.promise = t.promise
          /\ session'.overflowed = FALSE
          /\ session'.nextTurn = t.nextTurn
      BY <3>1, <3>2 DEF IsSession
    <3> QED
      BY <1>1, <2>2, <3>3, TakenFacts DEF t
  <2>3. CASE ~asked
    BY <1>1, <2>1, <2>3, TakenFacts
  <2> QED
    BY <2>2, <2>3
<1> HIDE DEF asked
<1>3. Types'
  <2>1. SessionTypes'
    BY <1>1, <1>2, TakenFacts DEF Inv, Types, SessionTypes
  <2> QED
    BY <1>1, <2>1, UnchangedAgent DEF Inv, Types
<1>4. /\ \A i \in Places' : i + 1 \in Places /\ EventAt(i)' = EventAt(i + 1)
      /\ \A i \in Places : i # 1 => i - 1 \in Places' /\ EventAt(i - 1)' = EventAt(i)
  BY <1>1, <1>2, LeftFacts
<1>5. EventAt(1).type = "start" /\ 1 \in Places
  BY <1>1, TakenFacts
<1>6. ~Hard(session.lastAnswer)
  BY <1>5 DEF Inv, InHand, Final
<1>7. Paired' /\ InHand' /\ Handled'
  BY <1>1, <1>2, <1>6, PairedLeft DEF InHand, Handled, Inv
<1>8. ASSUME Apart' PROVE InApart'
  <2>1. InApart /\ Streaming' = Streaming
    BY <1>1, <1>8 DEF Inv, Apart, Streaming
  <2>2. Clears' => Clears
    BY <1>4 DEF Clears
  <2>3. Uncounted' = Uncounted
    <3>1. Uncounted' => Uncounted
      BY <1>2, <1>4 DEF Uncounted
    <3>2. Uncounted => Uncounted'
      BY <1>2, <1>4, <1>5 DEF Uncounted
    <3>3. Uncounted \in BOOLEAN /\ Uncounted' \in BOOLEAN
      BY DEF Uncounted
    <3> QED
      BY <3>1, <3>2, <3>3
  <2>4. OneRun'
    <3>1. ASSUME NEW i \in Places', Final(EventAt(i)') PROVE i = Len(session'.events)
      <4>1. i + 1 \in Places /\ Final(EventAt(i + 1))
        BY <1>4, <3>1
      <4>2. i + 1 = Len(session.events)
        BY <2>1, <4>1 DEF InApart, OneRun
      <4> QED
        BY <1>1, <1>2, <4>2, LeftFacts
    <3>2. Streaming' => \A i \in Places' : ~Final(EventAt(i)')
      BY <1>4, <2>1 DEF InApart, OneRun
    <3>3. Streaming' => session'.connected \/ agent'.stopping
      BY <1>1, <1>2, <2>1 DEF InApart, OneRun
    <3> QED
      BY <3>1, <3>2, <3>3 DEF OneRun
  <2>5. Busy'
    BY <1>1, <1>2 DEF Busy, Ready
  <2>6. CountedRunning'
    BY <1>1, <1>2, <2>1, <2>2 DEF InApart, CountedRunning
  <2>7. CountedWaiting'
    BY <1>1, <1>2, <2>1, <2>2, <2>3 DEF InApart, CountedWaiting
  <2>8. Remembered'
    BY <1>1, <1>2, <1>4, <1>5, <2>1, TakenFacts DEF InApart, Remembered, Asked, asked
  <2>9. Bounded'
    BY <1>1, <2>1 DEF InApart, Bounded
  <2> QED
    BY <2>4, <2>5, <2>6, <2>7, <2>8, <2>9 DEF InApart
<1> QED
  BY <1>3, <1>7, <1>8 DEF Inv

LEMMA RetryableIsHard == ASSUME NEW m, Retryable(m) PROVE Hard(m) /\ IsAnswer(m)
  BY DEF Retryable, Hard, Failed

LEMMA MessageEndsStep == Inv /\ MessageEnds => Inv'
<1> SUFFICES ASSUME Inv, MessageEnds PROVE Inv'
  OBVIOUS
<1> DEFINE m == NextEvent.msg
           good == IsAnswer(m) /\ ~Hard(m)
<1>1. Ready /\ NextEvent.type = "end" /\ UNCHANGED <<agent, calls, clock, missed, again>>
  BY DEF MessageEnds
<1>2. /\ 1 \in Places /\ EventAt(1).type = "end" /\ EventAt(1).msg = m /\ m \in Messages
      /\ ~Final(EventAt(1)) /\ (good <=> Good(EventAt(1))) /\ (Hard(m) <=> Bad(EventAt(1)))
  BY <1>1, TakenFacts DEF Events, Final, Good, Bad
<1>3. /\ IsSession(session') /\ session'.events = Taken.events
      /\ session'.connected = session.connected /\ session'.handler = session.handler
      /\ session'.handling = session.handling /\ session'.promise = session.promise
      /\ session'.lastAnswer = (IF IsAnswer(m) THEN m ELSE session.lastAnswer)
      /\ session'.attempt = (IF good THEN 0 ELSE session.attempt)
      /\ session'.overflowed = (IF good THEN FALSE ELSE session.overflowed)
      /\ session'.nextTurn = session.nextTurn
  <2>1. session' = IF ~IsAnswer(m) THEN Taken
                   ELSE IF Hard(m) THEN [Taken EXCEPT !.lastAnswer = m]
                   ELSE [Taken EXCEPT !.lastAnswer = m, !.overflowed = FALSE, !.attempt = 0]
    BY DEF MessageEnds, Hard
  <2> DEFINE t == Taken
  <2>2. IsSession(t)
    BY <1>1, TakenFacts
  <2>3. Hard(m) => IsAnswer(m)
    BY DEF Hard, Failed
  <2>4. /\ IsSession(session') /\ session'.events = t.events
        /\ session'.connected = t.connected /\ session'.handler = t.handler
        /\ session'.handling = t.handling /\ session'.promise = t.promise
        /\ session'.lastAnswer = (IF IsAnswer(m) THEN m ELSE t.lastAnswer)
        /\ session'.attempt = (IF good THEN 0 ELSE t.attempt)
        /\ session'.overflowed = (IF good THEN FALSE ELSE t.overflowed)
        /\ session'.nextTurn = t.nextTurn
    <3> HIDE DEF m, t
    <3>1. CASE ~IsAnswer(m)
      BY <2>1, <2>2, <3>1 DEF t
    <3>2. CASE Hard(m)
      <4>1. session' = [t EXCEPT !.lastAnswer = m]
        BY <2>1, <2>3, <3>2 DEF t
      <4> QED
        BY <2>2, <2>3, <3>2, <4>1 DEF IsSession
    <3>3. CASE IsAnswer(m) /\ ~Hard(m)
      <4>1. session' = [t EXCEPT !.lastAnswer = m, !.overflowed = FALSE, !.attempt = 0]
        BY <2>1, <3>3 DEF t
      <4> QED
        BY <2>2, <3>3, <4>1 DEF IsSession
    <3> QED
      BY <3>1, <3>2, <3>3
  <2> QED
    BY <1>1, <2>4, TakenFacts
<1> HIDE DEF m, good
<1>4. Types'
  <2>1. /\ session'.attempt \in 0..MaxRetries
        /\ session'.overflowed \in BOOLEAN
        /\ session'.lastAnswer \in Messages
        /\ session'.events \in Seq(Events)
    <3>1. session.attempt \in 0..MaxRetries /\ 0 \in 0..MaxRetries
      BY BoundsAssumption DEF Inv, Types, SessionTypes
    <3>2. session.overflowed \in BOOLEAN /\ session.lastAnswer \in Messages
      BY DEF Inv, Types, SessionTypes
    <3>3. session'.events \in Seq(Events)
      BY <1>1, <1>3, TakenFacts
    <3> QED
      BY <1>2, <1>3, <3>1, <3>2, <3>3
  <2>2. SessionTypes'
    BY <1>3, <2>1 DEF Inv, Types, SessionTypes
  <2> QED
    BY <1>1, <2>2, UnchangedAgent DEF Inv, Types
<1>5. /\ \A i \in Places' : i + 1 \in Places /\ EventAt(i)' = EventAt(i + 1)
      /\ \A i \in Places : i # 1 => i - 1 \in Places' /\ EventAt(i - 1)' = EventAt(i)
  BY <1>1, <1>3, LeftFacts
<1>6. ~Hard(session.lastAnswer)
  BY <1>2 DEF Inv, InHand
<1>7. InHand'
  <2> SUFFICES ASSUME Hard(session'.lastAnswer) PROVE 1 \in Places' /\ Final(EventAt(1)')
    BY DEF InHand
  <2>1. Hard(m)
    BY <1>3, <1>6
  <2>2. 1 + 1 \in Places /\ Final(EventAt(1 + 1))
    BY <1>2, <2>1 DEF Inv, Paired
  <2>3. (1 + 1) - 1 = 1 /\ 1 + 1 # 1
    OBVIOUS
  <2> QED
    BY <1>5, <2>2, <2>3
<1>8. Paired' /\ Handled'
  BY <1>1, <1>3, PairedLeft DEF Handled, Inv
<1>9. ASSUME Apart' PROVE InApart'
  <2>1. InApart /\ Streaming' = Streaming
    BY <1>1, <1>9 DEF Inv, Apart, Streaming
  <2>2. Clears' => Clears
    BY <1>5 DEF Clears
  <2>3. good => Clears
    BY <1>2 DEF Clears
  <2>4. Uncounted' = Uncounted
    <3>1. Uncounted' => Uncounted
      <4>1. ASSUME Retryable(session'.lastAnswer) PROVE Uncounted
        <5>1. Retryable(m)
          BY <1>3, <1>6, <4>1, RetryableIsHard
        <5> QED
          BY <1>2, <5>1 DEF Uncounted
      <4>2. ASSUME NEW i \in Places', EventAt(i)'.type = "end", Retryable(EventAt(i)'.msg)
            PROVE  Uncounted
        BY <1>5, <4>2 DEF Uncounted
      <4> QED
        BY <4>1, <4>2 DEF Uncounted
    <3>2. Uncounted => Uncounted'
      <4>1. ~Retryable(session.lastAnswer)
        BY <1>6, RetryableIsHard
      <4>2. ASSUME NEW i \in Places, EventAt(i).type = "end", Retryable(EventAt(i).msg)
            PROVE  Uncounted'
        <5>1. CASE i = 1
          BY <1>2, <1>3, <4>2, <5>1, RetryableIsHard DEF Uncounted
        <5>2. CASE i # 1
          BY <1>5, <4>2, <5>2 DEF Uncounted
        <5> QED
          BY <5>1, <5>2
      <4> QED
        BY <4>1, <4>2 DEF Uncounted
    <3>3. Uncounted \in BOOLEAN /\ Uncounted' \in BOOLEAN
      BY DEF Uncounted
    <3> QED
      BY <3>1, <3>2, <3>3
  <2>5. OneRun'
    <3>1. ASSUME NEW i \in Places', Final(EventAt(i)') PROVE i = Len(session'.events)
      <4>1. i + 1 \in Places /\ Final(EventAt(i + 1))
        BY <1>5, <3>1
      <4>2. i + 1 = Len(session.events)
        BY <2>1, <4>1 DEF InApart, OneRun
      <4> QED
        BY <1>1, <1>3, <4>2, LeftFacts
    <3>2. Streaming' => \A i \in Places' : ~Final(EventAt(i)')
      BY <1>5, <2>1 DEF InApart, OneRun
    <3>3. Streaming' => session'.connected \/ agent'.stopping
      BY <1>1, <1>3, <2>1 DEF InApart, OneRun
    <3> QED
      BY <3>1, <3>2, <3>3 DEF OneRun
  <2>6. Busy'
    BY <1>1, <1>3 DEF Busy, Ready
  <2>7. again \in [retry: Nat, overflow: Nat] /\ session.attempt \in Nat /\ again' = again
    BY <1>1, BoundsAssumption DEF Inv, Types, SessionTypes
  <2>8. CountedRunning'
    BY <1>3, <2>1, <2>2, <2>3, <2>7 DEF InApart, CountedRunning
  <2>9. CountedWaiting'
    BY <1>3, <2>1, <2>2, <2>3, <2>4, <2>7 DEF InApart, CountedWaiting
  <2>10. Remembered'
    BY <1>2, <1>3, <1>5, <2>1, <2>7 DEF InApart, Remembered
  <2>11. Bounded'
    BY <1>1, <2>1 DEF InApart, Bounded
  <2> QED
    BY <2>5, <2>6, <2>8, <2>9, <2>10, <2>11 DEF InApart
<1> QED
  BY <1>4, <1>7, <1>8, <1>9 DEF Inv

\* Nothing is left to handle and the agent is idle.
LEMMA AtRest ==
  ASSUME session'.events = <<>>, ~Streaming', ~Hard(session'.lastAnswer),
         again'.retry \in Nat, session'.attempt \in Nat,
         session'.promise => again'.retry <= session'.attempt,
         again'.overflow = 1 => session'.overflowed,
         Bounded'
  PROVE  InApart'
<1>1. \A i : i \notin Places'
  BY DEF Places
<1>2. ~Uncounted' /\ ~Clears'
  BY <1>1, RetryableIsHard DEF Uncounted, Clears
<1>3. OneRun'
  BY <1>1 DEF OneRun
<1>4. Busy' /\ CountedRunning'
  BY DEF Busy, CountedRunning
<1>5. CountedWaiting'
  <2> SUFFICES ASSUME session'.promise PROVE again'.retry <= session'.attempt + 0
    BY <1>2, Zenon DEF CountedWaiting
  <2> QED
    OBVIOUS
<1>6. Remembered'
  BY <1>1 DEF Remembered
<1> QED
  BY <1>3, <1>4, <1>5, <1>6 DEF InApart

\* What the tail of agent_end changes.
LEMMA SettleFacts ==
  ASSUME Inv, NEW s, NEW m, IsSession(s), Settle(s, m)
  PROVE  /\ IsSession(session')
         /\ session'.connected = s.connected /\ session'.events = s.events
         /\ session'.handling = s.handling /\ session'.lastAnswer = s.lastAnswer
         /\ session'.attempt = s.attempt /\ session'.nextTurn = s.nextTurn
         /\ session'.promise = FALSE
         /\ session'.handler \in {"ready", "compacting"}
         /\ \/ again' = again /\ session'.overflowed = s.overflowed
            \/ /\ m.kind = "overflow" /\ ~session.overflowed
               /\ again' = [again EXCEPT !.overflow = @ + 1] /\ session'.overflowed = TRUE
         /\ AgentTypes' /\ SameAgent
         /\ calls' \in [Prompts -> [pc: CallPlaces, msgs: Seq(Inputs)]]
         /\ Apart' => Apart
<1> DEFINE v == Verdict(m, TRUE)
           place == IF Compacts(v) THEN "compacting" ELSE "ready"
           cut == WithoutLastAnswer(agent.messages)
<1>1. /\ session' = [Attempted(Resolved(s), v) EXCEPT !.handler = place]
      /\ calls' = Released
      /\ agent' = Trimmed(agent, v)
      /\ again' = Recovering(v)
      /\ missed' = IF v = "overflow" THEN Cut ELSE missed
  BY DEF Settle
<1>2. v = "overflow" => m.kind = "overflow" /\ ~session.overflowed
  BY DEF Verdict
<1>3. place \in {"ready", "compacting"}
  OBVIOUS
<1> HIDE DEF v, place, cut
<1>4. calls' \in [Prompts -> [pc: CallPlaces, msgs: Seq(Inputs)]]
  BY <1>1, CallsType DEF Inv, Types
<1>5. Apart' => Apart
  BY <1>1 DEF Apart, Cut
<1>6. AgentTypes' /\ SameAgent
  <2>1. agent' = agent \/ agent' = [agent EXCEPT !.messages = cut]
    BY <1>1 DEF Trimmed, cut
  <2> QED
    BY <2>1, UnchangedAgent, Rewritten DEF Inv
<1>7. CASE v = "overflow"
  <2>1. session' = [[[s EXCEPT !.promise = FALSE] EXCEPT !.overflowed = TRUE] EXCEPT !.handler = place]
    BY <1>1, <1>7 DEF Attempted, Resolved
  <2>2. again' = [again EXCEPT !.overflow = @ + 1]
    BY <1>1, <1>7 DEF Recovering
  <2> QED
    BY <1>2, <1>3, <1>4, <1>5, <1>6, <1>7, <2>1, <2>2 DEF IsSession
<1>8. CASE v # "overflow"
  <2>1. session' = [[s EXCEPT !.promise = FALSE] EXCEPT !.handler = place]
    BY <1>1, <1>8 DEF Attempted, Resolved
  <2>2. again' = again
    BY <1>1, <1>8 DEF Recovering
  <2> QED
    BY <1>3, <1>4, <1>5, <1>6, <2>1, <2>2 DEF IsSession
<1> QED
  BY <1>7, <1>8

\* After agent_end nothing waits, unless runs overlap.
LEMMA Settled ==
  ASSUME Inv, NEW s, NEW m, IsSession(s), Settle(s, m), clock' = clock, Paired',
         s.connected \in BOOLEAN, s.events \in Seq(Events), s.handling \in Messages,
         s.lastAnswer \in Messages, InHand', s.attempt \in 0..MaxRetries,
         s.overflowed = session.overflowed, s.nextTurn \in Seq(Inputs),
         Apart => s.events = <<>> /\ ~Streaming /\ ~Hard(s.lastAnswer)
  PROVE  Inv'
<1>1. /\ IsSession(session')
      /\ session'.connected = s.connected /\ session'.events = s.events
      /\ session'.handling = s.handling /\ session'.lastAnswer = s.lastAnswer
      /\ session'.attempt = s.attempt /\ session'.nextTurn = s.nextTurn
      /\ session'.promise = FALSE
      /\ session'.handler \in {"ready", "compacting"}
      /\ AgentTypes' /\ SameAgent
      /\ calls' \in [Prompts -> [pc: CallPlaces, msgs: Seq(Inputs)]]
      /\ Apart' => Apart
  BY SettleFacts
<1>2. \/ again' = again /\ session'.overflowed = session.overflowed
      \/ /\ ~session.overflowed
         /\ again' = [again EXCEPT !.overflow = @ + 1] /\ session'.overflowed = TRUE
  BY SettleFacts
<1>3. again \in [retry: Nat, overflow: Nat] /\ session.overflowed \in BOOLEAN
  BY DEF Inv, Types, SessionTypes
<1>4. Types'
  <2>1. again' \in [retry: Nat, overflow: Nat] /\ session'.overflowed \in BOOLEAN
    <3>1. again.overflow + 1 \in Nat
      BY <1>3
    <3>2. [again EXCEPT !.overflow = @ + 1] \in [retry: Nat, overflow: Nat]
      BY <1>3, <3>1
    <3> QED
      BY <1>2, <1>3, <3>2
  <2>2. SessionTypes'
    BY <1>1, <2>1 DEF SessionTypes
  <2> QED
    BY <1>1, <2>1, <2>2 DEF Inv, Types
<1>5. Handled'
  BY <1>1 DEF Handled
<1>6. ASSUME Apart' PROVE InApart'
  <2>1. InApart /\ session'.events = <<>> /\ ~Streaming' /\ ~Hard(session'.lastAnswer)
    BY <1>1, <1>6 DEF Inv, SameAgent, Streaming
  <2>2. Bounded' /\ (again'.overflow = 1 => session'.overflowed)
    BY <1>2, <1>3, <2>1 DEF InApart, Bounded, Remembered
  <2> QED
    BY <1>1, <1>4, <2>1, <2>2, AtRest, BoundsAssumption DEF Types, SessionTypes
<1> QED
  BY <1>4, <1>5, <1>6 DEF Inv

LEMMA AgentEndsStep == Inv /\ AgentEnds => Inv'
<1> SUFFICES ASSUME Inv, AgentEnds PROVE Inv'
  OBVIOUS
<1> DEFINE m == session.lastAnswer
           s == [Taken EXCEPT !.lastAnswer = NoMessage]
<1>1. Ready /\ NextEvent.type = "agent_end" /\ clock' = clock
  BY DEF AgentEnds
<1>2. 1 \in Places /\ Final(EventAt(1))
  BY <1>1, TakenFacts DEF Final
<1>3. /\ IsSession(s) /\ s.events = Taken.events /\ s.lastAnswer = NoMessage
      /\ s.connected = session.connected /\ s.handler = session.handler
      /\ s.handling = session.handling /\ s.attempt = session.attempt
      /\ s.promise = session.promise /\ s.overflowed = session.overflowed
      /\ s.nextTurn = session.nextTurn
  <2> DEFINE t == Taken
  <2>1. IsSession(t)
    BY <1>1, TakenFacts
  <2>2. s = [t EXCEPT !.lastAnswer = NoMessage]
    OBVIOUS
  <2> HIDE DEF s, t
  <2>3. /\ IsSession(s) /\ s.events = t.events /\ s.lastAnswer = NoMessage
        /\ s.connected = t.connected /\ s.handler = t.handler
        /\ s.handling = t.handling /\ s.attempt = t.attempt
        /\ s.promise = t.promise /\ s.overflowed = t.overflowed
        /\ s.nextTurn = t.nextTurn
    BY <2>1, <2>2 DEF IsSession
  <2> QED
    BY <1>1, <2>3, TakenFacts DEF t
<1>4. NoMessage \in Messages /\ ~Hard(NoMessage)
  BY NoMessageType DEF NoMessage, Hard, Failed, IsAnswer
<1>5. Apart => Taken.events = <<>> /\ ~Streaming
  <2> SUFFICES ASSUME Apart PROVE Taken.events = <<>> /\ ~Streaming
    OBVIOUS
  <2>1. 1 = Len(session.events) /\ ~Streaming
    BY <1>2 DEF Inv, InApart, OneRun
  <2>2. Taken.events \in Seq(Events) /\ Len(Taken.events) = Len(session.events) - 1
    BY <1>1, TakenFacts
  <2>3. Len(Taken.events) = 0
    BY <2>1, <2>2
  <2> QED
    BY <2>1, <2>2, <2>3
<1>6. session.handler = "ready" /\ Taken.events \in Seq(Events)
  BY <1>1, TakenFacts DEF Ready
<1>7. CASE m.role = "none"
  <2>1. session' = Taken /\ UNCHANGED <<agent, calls, missed, again>>
    BY <1>7 DEF AgentEnds
  <2>2. Types'
    <3>1. SessionTypes'
      BY <1>1, <2>1, TakenFacts DEF Inv, Types, SessionTypes
    <3> QED
      BY <1>1, <2>1, <3>1, UnchangedAgent DEF Inv, Types
  <2>3. session'.lastAnswer = m /\ session'.handler = "ready"
        /\ session'.attempt = session.attempt /\ session'.promise = session.promise
        /\ session'.overflowed = session.overflowed
    BY <1>1, <1>6, <2>1, TakenFacts
  <2>4. ~Hard(m)
    BY <1>7 DEF Hard, Failed, IsAnswer
  <2>5. Paired' /\ InHand' /\ Handled'
    BY <1>1, <2>1, <2>3, <2>4, PairedLeft DEF InHand, Handled
  <2>6. ASSUME Apart' PROVE InApart'
    <3>1. InApart /\ session'.events = <<>> /\ ~Streaming'
      BY <1>5, <2>1, <2>6 DEF Inv, Apart, Streaming
    <3>2. session'.promise => again'.retry <= session'.attempt
      <4> SUFFICES ASSUME session.promise PROVE again.retry <= session.attempt
        BY <2>1, <2>3
      <4>1. ~Uncounted
        <5>1. \A i \in Places : EventAt(i).type # "end"
          <6>1. 1 = Len(session.events)
            BY <1>2, <3>1 DEF InApart, OneRun
          <6>2. \A i \in 1..1 : i = 1
            OBVIOUS
          <6>3. Places = 1..1
            BY <6>1 DEF Places
          <6> QED
            BY <1>2, <6>2, <6>3 DEF Final
        <5> QED
          BY <2>4, <5>1, RetryableIsHard DEF Uncounted
      <4>2. ~Streaming /\ again.retry <= session.attempt + 0
        BY <2>1, <3>1, <4>1 DEF InApart, CountedWaiting, Streaming
      <4> QED
        BY <4>2, BoundsAssumption DEF Inv, Types, SessionTypes
    <3>3. Bounded' /\ (again'.overflow = 1 => session'.overflowed)
      BY <2>1, <2>3, <3>1 DEF InApart, Bounded, Remembered
    <3>4. again'.retry \in Nat /\ session'.attempt \in Nat
      BY <2>2, BoundsAssumption DEF Types, SessionTypes
    <3> QED
      BY <2>3, <2>4, <3>1, <3>2, <3>3, <3>4, AtRest
  <2> QED
    BY <2>2, <2>5, <2>6 DEF Inv
<1>8. CASE m.role # "none" /\ BacksOff
  <2>1. /\ session' = [s EXCEPT !.handler = "backoff", !.handling = m,
                                !.attempt = @ + 1, !.promise = TRUE]
        /\ agent' = [agent EXCEPT !.messages = WithoutLastAnswer(@)]
        /\ missed' = Cut /\ UNCHANGED <<calls, again>>
    BY <1>8 DEF AgentEnds
  <2>2. Retryable(m) /\ session.attempt < MaxRetries
    BY <1>8 DEF BacksOff
  <2> HIDE DEF s
  <2>3. /\ IsSession(session') /\ session'.events = Taken.events /\ session'.lastAnswer = NoMessage
        /\ session'.connected = session.connected /\ session'.handler = "backoff"
        /\ session'.handling = m /\ session'.attempt = session.attempt + 1
        /\ session'.promise = TRUE /\ session'.overflowed = session.overflowed
        /\ session'.nextTurn = session.nextTurn
    BY <1>3, <2>1 DEF IsSession
  <2>4. AgentTypes' /\ SameAgent
    BY <2>1, Rewritten
  <2>5. session'.attempt \in 0..MaxRetries
    BY <2>2, <2>3, BoundsAssumption DEF Inv, Types, SessionTypes
  <2>6. Types'
    <3>1. SessionTypes'
      BY <1>4, <1>6, <2>3, <2>5 DEF Inv, Types, SessionTypes
    <3> QED
      BY <1>1, <2>1, <2>4, <3>1 DEF Inv, Types
  <2>7. Paired' /\ InHand' /\ Handled'
    BY <1>1, <1>4, <2>2, <2>3, PairedLeft DEF InHand, Handled, Retryable
  <2>8. ASSUME Apart' PROVE InApart'
    <3>1. Apart
      BY <2>1, <2>8 DEF Apart, Cut
    <3>2. InApart /\ session'.events = <<>> /\ ~Streaming'
      BY <1>5, <2>3, <2>4, <3>1 DEF Inv, SameAgent, Streaming
    <3>3. again.retry <= session.attempt + 1
      <4>1. Uncounted /\ ~Streaming
        BY <1>5, <2>2, <3>1 DEF Uncounted
      <4> QED
        BY <3>2, <4>1 DEF InApart, CountedWaiting
    <3>4. Bounded' /\ (again'.overflow = 1 => session'.overflowed)
      BY <2>1, <2>3, <3>2 DEF InApart, Bounded, Remembered
    <3>5. again'.retry \in Nat /\ session'.attempt \in Nat
      BY <2>6, BoundsAssumption DEF Types, SessionTypes
    <3> QED
      BY <1>4, <2>1, <2>3, <3>2, <3>3, <3>4, <3>5, AtRest
  <2> QED
    BY <2>6, <2>7, <2>8 DEF Inv
<1>9. CASE m.role # "none" /\ ~BacksOff
  <2> DEFINE r == IF Retryable(m) THEN [s EXCEPT !.attempt = 0] ELSE s
  <2>1. Settle(r, m)
    BY <1>9 DEF AgentEnds
  <2>2. /\ IsSession(r) /\ r.events = Taken.events /\ r.lastAnswer = NoMessage
        /\ r.connected = session.connected /\ r.handling = session.handling
        /\ r.attempt \in {0, session.attempt} /\ r.overflowed = session.overflowed
        /\ r.nextTurn = session.nextTurn
    <3> HIDE DEF s, m
    <3>1. r = s \/ r = [s EXCEPT !.attempt = 0]
      OBVIOUS
    <3> HIDE DEF r
    <3> QED
      BY <1>3, <3>1 DEF IsSession
  <2> HIDE DEF r
  <2>3. r.attempt \in 0..MaxRetries
    BY <2>2, BoundsAssumption DEF Inv, Types, SessionTypes
  <2>4. r.connected \in BOOLEAN /\ r.handling \in Messages /\ r.nextTurn \in Seq(Inputs)
    BY <2>2 DEF Inv, Types, SessionTypes
  <2>5. session'.events = Taken.events
    BY <2>1, <2>2, SettleFacts
  <2>6. Paired'
    BY <1>1, <2>5, PairedLeft
  <2>7. InHand'
    BY <1>4, <2>1, <2>2, SettleFacts DEF InHand
  <2> QED
    BY <1>1, <1>4, <1>5, <1>6, <2>1, <2>2, <2>3, <2>4, <2>6, <2>7, Settled
<1> QED
  BY <1>7, <1>8, <1>9

LEMMA BackoffCancelledStep == Inv /\ BackoffCancelled => Inv'
<1> SUFFICES ASSUME Inv, BackoffCancelled PROVE Inv'
  OBVIOUS
<1> DEFINE s == [session EXCEPT !.attempt = 0, !.handling = NoMessage]
           m == session.handling
<1>1. session.handler = "cancelled" /\ Settle(s, m) /\ clock' = clock
  BY DEF BackoffCancelled
<1>2. /\ IsSession(s) /\ s.events = session.events /\ s.lastAnswer = session.lastAnswer
      /\ s.connected = session.connected /\ s.handling = NoMessage /\ s.attempt = 0
      /\ s.overflowed = session.overflowed /\ s.nextTurn = session.nextTurn
  <2>1. IsSession(session)
    BY DEF Inv, Types, SessionTypes
  <2>2. s = [session EXCEPT !.attempt = 0, !.handling = NoMessage]
    OBVIOUS
  <2> HIDE DEF s
  <2> QED
    BY <2>1, <2>2 DEF IsSession
<1> HIDE DEF s
<1>3. session'.events = session.events /\ session'.lastAnswer = session.lastAnswer
  BY <1>1, <1>2, SettleFacts
<1>4. Paired' /\ InHand'
  BY <1>3 DEF Inv, Paired, InHand, Places, EventAt
<1>5. Apart => s.events = <<>> /\ ~Streaming /\ ~Hard(s.lastAnswer)
  <2> SUFFICES ASSUME Apart PROVE session.events = <<>> /\ ~Streaming /\ ~Hard(session.lastAnswer)
    BY <1>2
  <2>1. session.events = <<>> /\ ~Streaming
    BY <1>1 DEF Inv, InApart, Busy
  <2>2. 1 \notin Places
    BY <2>1 DEF Places
  <2> QED
    BY <2>1, <2>2 DEF Inv, InHand
<1>6. s.connected \in BOOLEAN /\ s.events \in Seq(Events) /\ s.handling \in Messages
      /\ s.lastAnswer \in Messages /\ s.nextTurn \in Seq(Inputs)
  BY <1>2, NoMessageType DEF Inv, Types, SessionTypes
<1>7. s.attempt \in 0..MaxRetries
  BY <1>2, BoundsAssumption
<1> QED
  BY <1>1, <1>2, <1>4, <1>5, <1>6, <1>7, Settled

-----------------------------------------------------------------------------
(* The steps of the agent.                                                 *)

\* An event of a message that is no answer.
Calm(e) == e.type \in {"start", "end"} /\ e.msg \in Said

LEMMA CalmFacts ==
  ASSUME NEW e, Calm(e)
  PROVE  ~Final(e) /\ ~Bad(e) /\ ~Good(e) /\ ~(e.type = "end" /\ Retryable(e.msg))
  BY SaidIsNoAnswer DEF Calm, Final, Bad, Good

LEMMA SpokenIsCalm ==
  ASSUME NEW ms \in Seq(Said), NEW i \in 1..Len(Spoken(ms))
  PROVE  Calm(Spoken(ms)[i]) /\ (Asked(Spoken(ms)[i]) => HasUser(ms))
<1>1. /\ Spoken(ms)[i].type \in {"start", "end"}
      /\ Spoken(ms)[i].msg \in Said
      /\ \E j \in 1..Len(ms) : Spoken(ms)[i].msg = ms[j]
  BY SpokenType
<1>2. ASSUME Asked(Spoken(ms)[i]) PROVE HasUser(ms)
  <2>1. PICK j \in 1..Len(ms) : Spoken(ms)[i].msg = ms[j]
    BY <1>1
  <2>2. ms[j] \in ToSet(ms) /\ ms[j].role = "user"
    BY <1>2, <2>1 DEF ToSet, Asked
  <2> QED
    BY <2>2 DEF HasUser
<1> QED
  BY <1>1, <1>2 DEF Calm

\* Events are emitted together: a failed answer with its agent_end.
LEMMA EmittedPaired ==
  ASSUME Inv, NEW new \in Seq(Events), session' = Emitted(session, new),
         \A i \in 1..Len(new) : Bad(new[i]) => i + 1 \in 1..Len(new) /\ Final(new[i + 1])
  PROVE  Paired' /\ InHand' /\ Handled'
<1> DEFINE old == session.events
<1>1. /\ old \in Seq(Events) /\ session.connected \in BOOLEAN /\ session.promise \in BOOLEAN
      /\ IsSession(session)
  BY DEF Inv, Types, SessionTypes
<1>2. /\ session'.events = (IF session.connected THEN old \o new ELSE old)
      /\ session'.lastAnswer = session.lastAnswer /\ session'.handler = session.handler
      /\ session'.handling = session.handling
  BY <1>1, EmittedFacts
<1>3. Handled'
  BY <1>2 DEF Inv, Handled
<1>4. CASE ~session.connected
  BY <1>2, <1>3, <1>4 DEF Inv, Paired, InHand, Places, EventAt
<1>5. CASE session.connected
  <2>1. PICK n \in Nat : n = Len(session.events)
    BY <1>1
  <2>2. Len(session'.events) = n + Len(new) /\ Places' = 1..(n + Len(new)) /\ Places = 1..n
    BY <1>1, <1>2, <1>5, <2>1 DEF Places
  <2>3. ASSUME NEW i \in Places PROVE i \in Places' /\ EventAt(i)' = EventAt(i)
    BY <1>1, <1>2, <1>5, <2>1, <2>2 DEF Places, EventAt
  <2>4. ASSUME NEW i \in Places', i \notin Places
        PROVE  i - n \in 1..Len(new) /\ EventAt(i)' = new[i - n]
    BY <1>1, <1>2, <1>5, <2>1, <2>2, <2>4 DEF Places, EventAt
  <2>5. ASSUME NEW i \in Places', NEW j \in 1..Len(new), i = j + n
        PROVE  EventAt(i)' = new[j]
    <3>1. i \notin Places /\ i - n = j
      BY <2>2, <2>5
    <3> QED
      BY <2>4, <3>1
  <2>6. Paired'
    <3> SUFFICES ASSUME NEW i \in Places', Bad(EventAt(i)')
                 PROVE  i + 1 \in Places' /\ Final(EventAt(i + 1)')
      BY DEF Paired
    <3>1. CASE i \in Places
      <4>1. i + 1 \in Places /\ Final(EventAt(i + 1))
        BY <2>3, <3>1 DEF Inv, Paired
      <4> QED
        BY <2>3, <4>1
    <3>2. CASE i \notin Places
      <4>1. i - n \in 1..Len(new) /\ Bad(new[i - n])
        BY <2>4, <3>2
      <4>2. (i - n) + 1 \in 1..Len(new) /\ Final(new[(i - n) + 1])
        BY <4>1
      <4>3. i + 1 = ((i - n) + 1) + n /\ i + 1 \in Places'
        BY <2>2, <4>2
      <4> QED
        BY <2>5, <4>2, <4>3
    <3> QED
      BY <3>1, <3>2
  <2>7. InHand'
    BY <1>2, <2>3 DEF Inv, InHand
  <2> QED
    BY <1>3, <2>6, <2>7
<1> QED
  BY <1>4, <1>5

LEMMA EmittedTypes ==
  ASSUME Inv, NEW new \in Seq(Events), session' = Emitted(session, new)
  PROVE  /\ SessionTypes'
         /\ session'.connected = session.connected /\ session'.handler = session.handler
         /\ session'.handling = session.handling /\ session'.lastAnswer = session.lastAnswer
         /\ session'.attempt = session.attempt /\ session'.overflowed = session.overflowed
         /\ session'.events = (IF session.connected THEN session.events \o new ELSE session.events)
<1>1. /\ session.events \in Seq(Events) /\ session.connected \in BOOLEAN
      /\ session.promise \in BOOLEAN /\ IsSession(session)
  BY DEF Inv, Types, SessionTypes
<1>2. /\ IsSession(session')
      /\ session'.connected = session.connected /\ session'.handler = session.handler
      /\ session'.handling = session.handling /\ session'.lastAnswer = session.lastAnswer
      /\ session'.attempt = session.attempt /\ session'.overflowed = session.overflowed
      /\ session'.nextTurn = session.nextTurn
      /\ session'.events = (IF session.connected THEN session.events \o new ELSE session.events)
      /\ session'.events \in Seq(Events)
      /\ session'.promise \in BOOLEAN
  BY <1>1, EmittedFacts
<1> QED
  BY <1>2 DEF Inv, Types, SessionTypes

\* While the agent runs and runs do not overlap, the handler has caught up at every turn
\* of the input.
LEMMA CaughtUp ==
  ASSUME Inv, Apart, InputTurn, session.handler = "ready" \/ Streaming
  PROVE  /\ session.handler = "ready" /\ session.events = <<>>
         /\ ~Hard(session.lastAnswer) /\ ~Uncounted
<1>1. session.handler = "ready"
  BY DEF Inv, InApart, Busy
<1>2. session.events = <<>>
  BY <1>1, NothingPending
<1>3. \A i : i \notin Places
  BY <1>2 DEF Places
<1>4. ~Hard(session.lastAnswer)
  BY <1>3 DEF Inv, InHand
<1> QED
  BY <1>1, <1>2, <1>3, <1>4, RetryableIsHard DEF Uncounted

LEMMA RetryFacts ==
  ASSUME Inv
  PROVE  /\ again.retry \in Nat /\ again.overflow \in Nat /\ session.attempt \in Nat
         /\ session.attempt <= MaxRetries /\ MaxRetries \in Nat
         /\ again \in [retry: Nat, overflow: Nat]
         /\ NoneYet \in [retry: Nat, overflow: Nat] /\ NoneYet.retry = 0 /\ NoneYet.overflow = 0
  BY BoundsAssumption DEF Inv, Types, SessionTypes, NoneYet

\* The agent goes on with messages that are no answers.
LEMMA GoesOn ==
  ASSUME Inv, session.handler = "ready", session.events = <<>>,
         NEW new \in Seq(Events), \A i \in 1..Len(new) : Calm(new[i]),
         session' = Emitted(session, new), Streaming',
         session.connected \/ agent'.stopping,
         again'.retry \in Nat, again'.retry <= session.attempt,
         again'.retry <= MaxRetries + 1, again'.overflow <= 1,
         again'.overflow = 1 => session.overflowed /\ \A i \in 1..Len(new) : ~Asked(new[i])
  PROVE  InApart'
<1>1. /\ session'.connected = session.connected /\ session'.handler = session.handler
      /\ session'.attempt = session.attempt /\ session'.overflowed = session.overflowed
      /\ session'.events = (IF session.connected THEN session.events \o new ELSE session.events)
  BY EmittedTypes
<1>2. session'.events = new \/ session'.events = <<>>
  BY <1>1
<1>3. ASSUME NEW i \in Places'
      PROVE  Calm(EventAt(i)') /\ (again'.overflow = 1 => ~Asked(EventAt(i)'))
  <2>1. CASE session'.events = new
    BY <1>3, <2>1 DEF Places, EventAt
  <2>2. CASE session'.events = <<>>
    BY <1>3, <2>2 DEF Places
  <2> QED
    BY <1>2, <2>1, <2>2
<1>4. \A i \in Places' : ~Final(EventAt(i)') /\ ~Good(EventAt(i)')
  BY <1>3, CalmFacts
<1>5. OneRun'
  BY <1>1, <1>4 DEF OneRun
<1>6. Busy'
  BY <1>1 DEF Busy
<1>7. ~Clears'
  BY <1>4 DEF Clears
<1>8. CountedRunning'
  BY <1>1, <1>7 DEF CountedRunning
<1>9. CountedWaiting'
  BY DEF CountedWaiting
<1>10. Remembered'
  BY <1>1, <1>3, <1>4 DEF Remembered
<1>11. Bounded'
  BY DEF Bounded
<1> QED
  BY <1>5, <1>6, <1>8, <1>9, <1>10, <1>11 DEF InApart

LEMMA ToolsDoneStep == Inv /\ ToolsDone => Inv'
<1> SUFFICES ASSUME Inv, ToolsDone PROVE Inv'
  OBVIOUS
<1> DEFINE q == Polled(TRUE)
           m == ToolResult(clock, agent.call)
           said == <<m>> \o q
           new == Spoken(said)
<1>1. /\ InputTurn /\ agent.phase = "tools"
      /\ agent' = [Unqueue(agent, q) EXCEPT
                     !.messages = @ \o said, !.phase = "llm", !.asked = clock + 1, !.call = 0]
      /\ clock' = clock + 2
      /\ session' = Emitted(session, new)
      /\ missed' = missed \cup Unseen(new)
      /\ again' = (IF HasUser(said) THEN NoneYet ELSE again)
      /\ UNCHANGED calls
  BY DEF ToolsDone, SlowTurn
<1>2. clock \in Nat /\ agent.call \in Nat
  BY DEF Inv, Types, AgentTypes
<1>3. said \in Seq(Said)
  <2>1. m \in Said
    BY <1>2, SaidTypes
  <2>2. q \in Seq(Said)
    BY QueueTypes, SaidTypes, SeqMonotonic DEF Inv
  <2> HIDE DEF m, q
  <2> QED
    BY <2>1, <2>2
<1>4. /\ new \in Seq(Events)
      /\ \A i \in 1..Len(new) : Calm(new[i]) /\ (Asked(new[i]) => HasUser(said))
  BY <1>3, SpokenType, SpokenIsCalm
<1>5. AgentTypes' /\ agent'.phase = "llm" /\ agent'.stopping = agent.stopping
  <2>1. q = <<>> \/ agent.steering # <<>> \/ agent.followUp # <<>>
    BY DEF Polled
  <2> DEFINE a == Unqueue(agent, q)
  <2>2. /\ IsAgent(a) /\ a.steering \in Seq(Inputs) /\ a.followUp \in Seq(Inputs)
        /\ a.stopping = agent.stopping
    BY <2>1, UnqueueType DEF Inv, Types
  <2> HIDE DEF a, said
  <2>3. agent' = [a EXCEPT !.messages = @ \o said, !.phase = "llm", !.asked = clock + 1, !.call = 0]
    BY <1>1 DEF a
  <2>4. /\ IsAgent(agent') /\ agent'.phase = "llm" /\ agent'.asked = clock + 1
        /\ agent'.stopping = a.stopping /\ agent'.call = 0
        /\ agent'.steering = a.steering /\ agent'.followUp = a.followUp
    BY <2>2, <2>3 DEF IsAgent
  <2>5. agent.stopping \in BOOLEAN
    BY DEF Inv, Types, AgentTypes
  <2> QED
    BY <1>2, <2>2, <2>4, <2>5 DEF AgentTypes
<1> HIDE DEF new, said
<1>6. Types'
  BY <1>1, <1>2, <1>4, <1>5, EmittedTypes, RetryFacts DEF Inv, Types
<1>7. Paired' /\ InHand' /\ Handled'
  BY <1>1, <1>4, CalmFacts, EmittedPaired
<1>8. ASSUME Apart' PROVE InApart'
  <2>1. Apart /\ Streaming /\ Streaming'
    BY <1>1, <1>5, <1>8 DEF Apart, Streaming
  <2>2. session.handler = "ready" /\ session.events = <<>>
    BY <1>1, <2>1, CaughtUp
  <2>3. again.retry <= session.attempt /\ (session.connected \/ agent.stopping)
    BY <2>1 DEF Inv, InApart, CountedRunning, OneRun
  <2>4. again.overflow <= 1 /\ (again.overflow = 1 => session.overflowed)
    BY <2>1 DEF Inv, InApart, Bounded, Remembered
  <2>5. /\ again'.retry \in Nat /\ again'.retry <= session.attempt
        /\ again'.retry <= MaxRetries + 1 /\ again'.overflow <= 1
    BY <1>1, <2>3, <2>4, RetryFacts
  <2>6. again'.overflow = 1 => session.overflowed /\ \A i \in 1..Len(new) : ~Asked(new[i])
    BY <1>1, <1>4, <2>4, RetryFacts
  <2> QED
    BY <1>1, <1>4, <1>5, <2>1, <2>2, <2>3, <2>5, <2>6, GoesOn
<1> QED
  BY <1>6, <1>7, <1>8 DEF Inv

\* The run throws: its last event comes, and no answer.
LEMMA RunThrowsStep == ASSUME NEW thrown, Inv, RunThrows(thrown) PROVE Inv'
<1> DEFINE m == Message("assistant", agent.asked, IF thrown = "throws" THEN "throws" ELSE "error")
           new == <<Event("agent_end", m)>>
<1>1. /\ InputTurn /\ agent.phase = "llm"
      /\ agent' = [agent EXCEPT !.messages = Append(@, m), !.phase = "idle", !.asked = 0,
                                !.stopping = FALSE]
      /\ session' = Emitted(session, new)
      /\ missed' = (IF session'.promise THEN missed \cup {"retry"} ELSE missed)
      /\ calls' = EndedCalls
      /\ UNCHANGED <<clock, again>>
  BY DEF RunThrows, SlowTurn
<1>2. m \in Messages
  <2>1. agent.asked \in Nat
    BY DEF Inv, Types, AgentTypes
  <2> QED
    BY <2>1, MessageType DEF Roles, Kinds
<1> HIDE DEF m
<1>3. /\ new \in Seq(Events) /\ Len(new) = 1 /\ new[1].type = "agent_end"
  BY <1>2 DEF Event, Events
<1>4. AgentTypes' /\ agent'.phase = "idle"
  BY <1>1 DEF Inv, Types, AgentTypes, IsAgent
<1> HIDE DEF new
<1>5. Types'
  BY <1>1, <1>3, <1>4, EmittedTypes, CallsType DEF Inv, Types
<1>6. \A i \in 1..Len(new) : ~Bad(new[i]) /\ ~Good(new[i]) /\ new[i].type # "end" /\ ~Asked(new[i])
  <2>1. \A i \in 1..Len(new) : i = 1
    BY <1>3
  <2> QED
    BY <1>3, <2>1 DEF Bad, Good, Asked
<1>7. Paired' /\ InHand' /\ Handled'
  BY <1>1, <1>3, <1>6, EmittedPaired
<1>8. ASSUME Apart' PROVE InApart'
  <2>1. Apart /\ Streaming /\ ~Streaming'
    BY <1>1, <1>4, <1>8 DEF Apart, Streaming
  <2>2. session.handler = "ready" /\ session.events = <<>> /\ ~Hard(session.lastAnswer)
    BY <1>1, <2>1, CaughtUp
  <2>3. again.retry <= session.attempt
    BY <2>1 DEF Inv, InApart, CountedRunning
  <2>4. again.retry <= MaxRetries + 1 /\ again.overflow <= 1 /\ (again.overflow = 1 => session.overflowed)
    BY <2>1 DEF Inv, InApart, Bounded, Remembered
  <2>5. /\ session'.connected = session.connected /\ session'.handler = session.handler
        /\ session'.lastAnswer = session.lastAnswer
        /\ session'.attempt = session.attempt /\ session'.overflowed = session.overflowed
        /\ session'.events = (IF session.connected THEN session.events \o new ELSE session.events)
    BY <1>1, <1>3, EmittedTypes
  <2>6. session'.events = new \/ session'.events = <<>>
    BY <1>3, <2>2, <2>5
  <2>7. \A i \in Places' : /\ i = 1 /\ Len(session'.events) = 1
                           /\ ~Good(EventAt(i)') /\ EventAt(i)'.type # "end" /\ ~Asked(EventAt(i)')
    <3>1. CASE session'.events = new
      <4>1. Places' = 1..1
        BY <1>3, <3>1 DEF Places
      <4>2. \A i \in 1..1 : i = 1
        OBVIOUS
      <4>3. EventAt(1)' = new[1] /\ 1 \in 1..Len(new)
        BY <1>3, <3>1 DEF EventAt
      <4> QED
        BY <1>3, <1>6, <3>1, <4>1, <4>2, <4>3
    <3>2. CASE session'.events = <<>>
      BY <3>2 DEF Places
    <3> QED
      BY <2>6, <3>1, <3>2
  <2>8. OneRun' /\ Busy'
    BY <2>1, <2>2, <2>5, <2>7 DEF OneRun, Busy
  <2>9. ~Uncounted' /\ ~Clears'
    BY <2>2, <2>5, <2>7, RetryableIsHard DEF Uncounted, Clears
  <2>10. CountedRunning'
    BY <2>1 DEF CountedRunning
  <2>11. CountedWaiting'
    <3> SUFFICES ASSUME session'.promise PROVE again'.retry <= session'.attempt + 0
      BY <2>9, Zenon DEF CountedWaiting
    <3> QED
      BY <1>1, <2>3, <2>5, RetryFacts
  <2>12. Remembered'
    BY <1>1, <2>4, <2>5, <2>7 DEF Remembered
  <2>13. Bounded'
    BY <1>1, <2>4 DEF Bounded
  <2> QED
    BY <2>8, <2>10, <2>11, <2>12, <2>13 DEF InApart
<1> QED
  BY <1>5, <1>7, <1>8 DEF Inv

\* A run is opened with prompts, or goes on.
LEMMA OpenedFacts ==
  ASSUME NEW a, IsAgent(a), a.steering \in Seq(Inputs), a.followUp \in Seq(Inputs),
         NEW prompts \in Seq(Inputs), NEW skipPoll, NEW known,
         Inv, StartRun(prompts, skipPoll, a, known)
  PROVE  LET opened == Opened(a, prompts, skipPoll)
         IN /\ opened \in Seq(Said)
            /\ session' = Emitted(session, Spoken(opened))
            /\ missed' = known \cup Unseen(Spoken(opened)) \cup (IF InSync THEN {} ELSE {"overlap"})
            /\ clock' = clock + 1
            /\ AgentTypes' /\ Streaming'
<1> DEFINE opened == Opened(a, prompts, skipPoll)
           n == Len(opened) - Len(prompts)
           k == IF skipPoll \/ a.steering = <<>> THEN 0 ELSE 1
<1>1. SubSeq(a.steering, 1, k) \in Seq(Inputs) /\ Len(SubSeq(a.steering, 1, k)) = k
  <2>1. CASE k = 0
    BY <2>1
  <2>2. CASE k = 1
    <3>1. Len(a.steering) >= 1
      BY <2>2
    <3> QED
      BY <2>2, <3>1
  <2> QED
    BY <2>1, <2>2
<1>2. k \in {0, 1}
  OBVIOUS
<1> HIDE DEF k
<1>3. opened = prompts \o SubSeq(a.steering, 1, k)
  BY DEF Opened, k
<1>4. opened \in Seq(Inputs) /\ Len(opened) = Len(prompts) + k
  BY <1>1, <1>3
<1>5. n = k
  BY <1>2, <1>4
<1> HIDE DEF opened
<1>6. opened \in Seq(Said)
  BY <1>4, SaidTypes
<1>7. SubSeq(a.steering, n + 1, Len(a.steering)) \in Seq(Inputs)
  BY <1>2, <1>5
<1>8. /\ agent' = [a EXCEPT !.messages = @ \o opened, !.steering = SubSeq(@, n + 1, Len(@)),
                            !.phase = "llm", !.asked = clock, !.stopping = FALSE, !.call = 0]
      /\ clock' = clock + 1
      /\ session' = Emitted(session, Spoken(opened))
      /\ missed' = known \cup Unseen(Spoken(opened)) \cup (IF InSync THEN {} ELSE {"overlap"})
  BY DEF StartRun, opened
<1>9. AgentTypes' /\ Streaming'
  <2> DEFINE left == SubSeq(a.steering, n + 1, Len(a.steering))
  <2>1. agent' = [a EXCEPT !.messages = @ \o opened, !.steering = left,
                           !.phase = "llm", !.asked = clock, !.stopping = FALSE, !.call = 0]
    BY <1>8
  <2>2. left \in Seq(Inputs)
    BY <1>7
  <2> HIDE DEF left, n
  <2>3. clock \in Nat
    BY DEF Inv, Types
  <2> QED
    BY <2>1, <2>2, <2>3 DEF AgentTypes, IsAgent, Streaming
<1> QED
  BY <1>6, <1>8, <1>9 DEF opened

\* A run starts: it overlaps with an earlier one, or the handler has nothing to do.
LEMMA RunStarts ==
  ASSUME Inv, NEW a, IsAgent(a), a.steering \in Seq(Inputs), a.followUp \in Seq(Inputs),
         NEW prompts \in Seq(Inputs), NEW skipPoll, NEW known,
         StartRun(prompts, skipPoll, a, known),
         calls' \in [Prompts -> [pc: CallPlaces, msgs: Seq(Inputs)]],
         again' \in [retry: Nat, overflow: Nat],
         Apart' /\ InSync => /\ again'.retry <= session.attempt
                             /\ again'.overflow <= 1
                             /\ again'.overflow = 1 => /\ session.overflowed
                                                       /\ ~HasUser(Opened(a, prompts, skipPoll))
  PROVE  Inv'
<1> DEFINE opened == Opened(a, prompts, skipPoll)
           new == Spoken(opened)
<1>1. /\ opened \in Seq(Said)
      /\ session' = Emitted(session, new)
      /\ missed' = known \cup Unseen(new) \cup (IF InSync THEN {} ELSE {"overlap"})
      /\ clock' = clock + 1
      /\ AgentTypes' /\ Streaming'
  BY OpenedFacts
<1> HIDE DEF opened
<1>2. /\ new \in Seq(Events)
      /\ \A i \in 1..Len(new) : Calm(new[i]) /\ (Asked(new[i]) => HasUser(opened))
  BY <1>1, SpokenType, SpokenIsCalm
<1> HIDE DEF new
<1>3. Types'
  BY <1>1, <1>2, EmittedTypes DEF Inv, Types
<1>4. Paired' /\ InHand' /\ Handled'
  BY <1>1, <1>2, CalmFacts, EmittedPaired
<1>5. ASSUME Apart' PROVE InApart'
  <2>1. InSync
    BY <1>1, <1>5 DEF Apart
  <2>2. session.connected /\ session.handler = "ready" /\ session.events = <<>>
    BY <2>1 DEF InSync
  <2>3. /\ again'.retry \in Nat /\ again'.retry <= session.attempt
        /\ again'.retry <= MaxRetries + 1 /\ again'.overflow <= 1
    BY <1>5, <2>1, RetryFacts
  <2>4. again'.overflow = 1 => session.overflowed /\ \A i \in 1..Len(new) : ~Asked(new[i])
    BY <1>2, <1>5, <2>1 DEF opened
  <2> QED
    BY <1>1, <1>2, <2>2, <2>3, <2>4, GoesOn
<1> QED
  BY <1>3, <1>4, <1>5 DEF Inv

LEMMA ContinueStep == ASSUME NEW kind, Inv, Continue(kind) PROVE Inv'
<1> DEFINE ms == agent.messages
           resumed == IF ms # <<>> /\ ~LastIsAnswer(ms) THEN <<>> ELSE Polled(FALSE)
           skipPoll == resumed # <<>> /\ agent.steering # <<>>
           rest == Unqueue(agent, resumed)
           opened == Opened(rest, resumed, skipPoll)
<1>1. InputTurn /\ UNCHANGED calls
  BY DEF Continue
<1>2. CASE UNCHANGED <<agent, clock, session, again>> /\ (Apart' => Apart)
  <2>1. Quiet
    BY <1>1, <1>2, UnchangedAgent, UnchangedSession, QuietWhenSame DEF Inv, Types
  <2> QED
    BY <2>1, QuietSteps
<1>3. CASE /\ ~Streaming
           /\ StartRun(resumed, skipPoll, rest, missed)
           /\ again' = IF HasUser(opened) THEN NoneYet
                       ELSE IF kind = "resume" \/ ~session.promise THEN [again EXCEPT !.retry = 0]
                       ELSE again
  <2>1. resumed \in Seq(Inputs)
    <3>1. Polled(FALSE) \in Seq(Inputs)
      BY QueueTypes DEF Inv
    <3>2. <<>> \in Seq(Inputs)
      OBVIOUS
    <3> QED
      BY <3>1, <3>2
  <2>2. resumed = <<>> \/ agent.steering # <<>> \/ agent.followUp # <<>>
    BY DEF Polled
  <2> HIDE DEF resumed
  <2>3. IsAgent(rest) /\ rest.steering \in Seq(Inputs) /\ rest.followUp \in Seq(Inputs)
    BY <2>2, UnqueueType DEF Inv, Types
  <2> HIDE DEF rest, skipPoll
  <2>4. \/ again' = NoneYet
        \/ again' = [again EXCEPT !.retry = 0] /\ ~HasUser(opened)
        \/ again' = again /\ ~HasUser(opened) /\ session.promise
    BY <1>3
  <2>5. again' \in [retry: Nat, overflow: Nat]
    BY <2>4, RetryFacts
  <2>6. ASSUME Apart', InSync
        PROVE  /\ again'.retry <= session.attempt
               /\ again'.overflow <= 1
               /\ again'.overflow = 1 => session.overflowed /\ ~HasUser(opened)
    <3>1. Apart
      BY <1>3, <2>6 DEF StartRun, Apart
    <3>2. session.handler = "ready" /\ ~Uncounted
      BY <1>1, <2>6, <3>1, CaughtUp DEF InSync
    <3>3. session.promise => again.retry <= session.attempt + 0
      BY <1>3, <3>1, <3>2 DEF Inv, InApart, CountedWaiting
    <3>4. again.overflow <= 1 /\ (again.overflow = 1 => session.overflowed)
      BY <3>1 DEF Inv, InApart, Bounded, Remembered
    <3>5. CASE again' = NoneYet
      BY <3>5, RetryFacts
    <3>6. CASE again' = [again EXCEPT !.retry = 0] /\ ~HasUser(opened)
      <4>1. again'.retry = 0 /\ again'.overflow = again.overflow
        BY <3>6, RetryFacts
      <4> QED
        BY <3>4, <3>6, <4>1, RetryFacts
    <3>7. CASE again' = again /\ ~HasUser(opened) /\ session.promise
      BY <3>3, <3>4, <3>7, RetryFacts
    <3> QED
      BY <2>4, <3>5, <3>6, <3>7
  <2> QED
    BY <1>1, <1>3, <2>1, <2>3, <2>5, <2>6, RunStarts DEF Inv, Types
<1> QED
  BY <1>2, <1>3 DEF Continue, Apart

LEMMA PromptRunsStep == ASSUME NEW p \in Prompts, Inv, PromptRuns(p) PROVE Inv'
<1>1. CASE Streaming
  <2>1. UNCHANGED <<agent, session, clock, missed, again>> /\ calls' = At(p, "thrown")
    BY <1>1 DEF PromptRuns
  <2>2. calls' \in [Prompts -> [pc: CallPlaces, msgs: Seq(Inputs)]]
    BY <2>1, PlacedType DEF CallPlaces
  <2>3. Quiet
    BY <2>1, <2>2, UnchangedAgent, UnchangedSession, QuietWhenSame DEF Inv, Types, Apart
  <2> QED
    BY <2>3, QuietSteps
<1>2. CASE ~Streaming
  <2>1. /\ StartRun(calls[p].msgs, FALSE, agent, missed \ {"overlap"})
        /\ calls' = At(p, "running")
        /\ again' = NoneYet
    BY <1>2 DEF PromptRuns
  <2>2. calls' \in [Prompts -> [pc: CallPlaces, msgs: Seq(Inputs)]]
    BY <2>1, PlacedType DEF CallPlaces
  <2>3. calls[p].msgs \in Seq(Inputs)
    BY DEF Inv, Types
  <2>4. IsAgent(agent) /\ agent.steering \in Seq(Inputs) /\ agent.followUp \in Seq(Inputs)
    BY DEF Inv, Types, AgentTypes
  <2>5. /\ again' \in [retry: Nat, overflow: Nat]
        /\ again'.retry <= session.attempt /\ again'.overflow <= 1 /\ again'.overflow # 1
    BY <2>1, RetryFacts
  <2> QED
    BY <2>1, <2>2, <2>3, <2>4, <2>5, RunStarts
<1> QED
  BY <1>1, <1>2

LEMMA PromptChecksStep == ASSUME NEW p \in Prompts, Inv, PromptChecks(p) PROVE Inv'
<1> DEFINE l == SelectLastInSeq(agent.messages, IsAnswer)
           v == IF l = 0 THEN "none" ELSE Verdict(agent.messages[l], FALSE)
           cut == WithoutLastAnswer(agent.messages)
<1>1. /\ IF Compacts(v)
         THEN calls' = At(p, "compacting") /\ session' = Attempted(session, v)
         ELSE /\ calls' = [calls EXCEPT ![p] = Built(@, session)]
              /\ session' = [session EXCEPT !.nextTurn = <<>>]
      /\ agent' = Trimmed(agent, v)
      /\ again' = Recovering(v)
      /\ missed' = IF v # "overflow" THEN missed ELSE Cut \cup (IF InSync THEN {} ELSE {"overlap"})
      /\ UNCHANGED clock
  BY DEF PromptChecks
<1>2. v = "overflow" => ~session.overflowed
  BY DEF Verdict
<1> HIDE DEF v, l, cut
<1>3. AgentTypes' /\ SameAgent
  <2>1. agent' = agent \/ agent' = [agent EXCEPT !.messages = cut]
    BY <1>1 DEF Trimmed, cut
  <2> QED
    BY <2>1, UnchangedAgent, Rewritten
<1>4. calls' \in [Prompts -> [pc: CallPlaces, msgs: Seq(Inputs)]]
  <2>1. CASE Compacts(v)
    BY <1>1, <2>1, PlacedType DEF CallPlaces
  <2>2. CASE ~Compacts(v)
    <3>1. Built(calls[p], session) \in [pc: CallPlaces, msgs: Seq(Inputs)]
      BY BuiltType DEF Inv, Types, SessionTypes
    <3> QED
      BY <1>1, <2>2, <3>1 DEF Inv, Types
  <2> QED
    BY <2>1, <2>2
<1>5. CASE v # "overflow"
  <2>1. again' = again /\ missed' = missed
    BY <1>1, <1>5 DEF Recovering
  <2>2. SessionTypes' /\ SameSession
    <3>1. session' = session \/ session' = [session EXCEPT !.nextTurn = <<>>]
      BY <1>1, <1>5 DEF Attempted
    <3>2. <<>> \in Seq(Inputs)
      OBVIOUS
    <3>3. CASE session' = session
      BY <3>3, UnchangedSession
    <3>4. CASE session' = [session EXCEPT !.nextTurn = <<>>]
      BY <3>2, <3>4 DEF Inv, Types, SessionTypes, IsSession, SameSession
    <3> QED
      BY <3>1, <3>3, <3>4
  <2>3. Quiet
    BY <1>1, <1>3, <1>4, <2>1, <2>2, QuietWhenSame DEF Inv, Types, Apart
  <2> QED
    BY <2>3, QuietSteps
<1>6. CASE v = "overflow"
  <2>1. /\ session' = [session EXCEPT !.overflowed = TRUE]
        /\ again' = [again EXCEPT !.overflow = @ + 1]
        /\ missed' = Cut \cup (IF InSync THEN {} ELSE {"overlap"})
    BY <1>1, <1>6 DEF Compacts, Attempted, Recovering
  <2>2. /\ SessionTypes' /\ session'.overflowed = TRUE
        /\ session'.connected = session.connected /\ session'.events = session.events
        /\ session'.lastAnswer = session.lastAnswer /\ session'.attempt = session.attempt
        /\ session'.promise = session.promise
        /\ session'.handler = session.handler /\ session'.handling = session.handling
    BY <2>1 DEF Inv, Types, SessionTypes, IsSession
  <2>3. again'.retry = again.retry /\ again'.overflow = again.overflow + 1
        /\ again' \in [retry: Nat, overflow: Nat]
    BY <2>1, RetryFacts
  <2>4. Types'
    BY <1>1, <1>3, <1>4, <2>2, <2>3 DEF Inv, Types
  <2>5. Places' = Places /\ \A i \in Places : EventAt(i)' = EventAt(i)
    BY <2>2 DEF Places, EventAt
  <2>6. Paired' /\ InHand' /\ Handled'
    BY <2>2, <2>5 DEF Inv, Paired, InHand, Handled
  <2>7. ASSUME Apart' PROVE InApart'
    <3>1. Apart /\ InSync
      BY <2>1, <2>7 DEF Apart, Cut
    <3>2. InApart /\ session.events = <<>> /\ session.handler = "ready"
      BY <3>1 DEF Inv, InSync
    <3>3. \A i : i \notin Places
      BY <3>2 DEF Places
    <3>4. ~Clears' /\ Uncounted' = Uncounted /\ Streaming' = Streaming
      BY <1>3, <2>2, <2>5, <3>3 DEF Clears, Uncounted, SameAgent, Streaming
    <3>5. OneRun'
      BY <1>3, <2>2, <2>5, <3>2, <3>3, <3>4 DEF OneRun, InApart, SameAgent
    <3>6. Busy'
      BY <2>2, <3>2 DEF Busy
    <3>7. CountedRunning'
      BY <2>2, <2>3, <3>2, <3>4 DEF InApart, CountedRunning
    <3>8. CountedWaiting'
      BY <2>2, <2>3, <3>2, <3>4 DEF InApart, CountedWaiting
    <3>9. Remembered'
      BY <2>2, <2>5, <3>3 DEF Remembered
    <3>10. Bounded'
      BY <1>2, <1>6, <2>3, <3>2, RetryFacts DEF InApart, Bounded, Remembered
    <3> QED
      BY <3>5, <3>6, <3>7, <3>8, <3>9, <3>10 DEF InApart
  <2> QED
    BY <2>4, <2>6, <2>7 DEF Inv
<1> QED
  BY <1>5, <1>6

\* The events of an answer: its message_end, then agent_end when the run is over with it,
\* or a message of the queues.
LEMMA LastAnswerEvents ==
  ASSUME NEW m \in Messages, NEW new,
         new = <<Event("end", m)>> \o <<Event("agent_end", m)>> \o Spoken(<<>>)
  PROVE  /\ new \in Seq(Events)
         /\ Len(new) = 2
         /\ new[1] = [type |-> "end", msg |-> m]
         /\ new[2] = [type |-> "agent_end", msg |-> m]
<1> DEFINE first == Event("end", m)
           last == Event("agent_end", m)
           spoken == Spoken(<<>>)
           both == <<first>> \o <<last>>
<1>1. /\ first \in Events /\ first = [type |-> "end", msg |-> m]
      /\ last \in Events /\ last = [type |-> "agent_end", msg |-> m]
  BY DEF Event, Events
<1>2. spoken = <<>>
  <2>1. <<>> \in Seq(Said) /\ Len(<<>>) = 0
    OBVIOUS
  <2>2. spoken \in Seq(Events) /\ Len(spoken) = 2 * Len(<<>>)
    BY <2>1, SpokenType
  <2> HIDE DEF spoken
  <2>3. Len(spoken) = 0
    BY <2>1, <2>2
  <2> QED
    BY <2>2, <2>3
<1> HIDE DEF first, last, spoken
<1>3. both \in Seq(Events) /\ Len(both) = 2 /\ both[1] = first /\ both[2] = last
  BY <1>1
<1>4. new = both \o <<>>
  BY <1>2 DEF first, last, spoken
<1> HIDE DEF both
<1>5. new = both
  BY <1>3, <1>4, ConcatEmptySeq
<1> QED
  BY <1>1, <1>3, <1>5

LEMMA AnswerEvents ==
  ASSUME NEW m \in Messages, NEW next \in Seq(Said), NEW new,
         new = <<Event("end", m)>> \o <<>> \o Spoken(next)
  PROVE  /\ new \in Seq(Events)
         /\ Len(new) \in Nat \ {0}
         /\ new[1] = [type |-> "end", msg |-> m]
         /\ \A i \in 2..Len(new) : Calm(new[i])
<1> DEFINE first == Event("end", m)
           one == <<first>>
           spoken == Spoken(next)
<1>1. first \in Events /\ first = [type |-> "end", msg |-> m]
  BY DEF Event, Events
<1>2. spoken \in Seq(Events) /\ \A i \in 1..Len(spoken) : Calm(spoken[i])
  BY SpokenType, SpokenIsCalm
<1> HIDE DEF first, spoken
<1>3. one \in Seq(Events) /\ Len(one) = 1 /\ one[1] = first
  BY <1>1
<1>4. new = (one \o <<>>) \o spoken
  BY DEF first, spoken
<1> HIDE DEF one
<1>5. new = one \o spoken
  BY <1>3, <1>4, ConcatEmptySeq
<1>6. /\ one \o spoken \in Seq(Events)
      /\ Len(one \o spoken) = Len(one) + Len(spoken)
      /\ \A i \in 1..(Len(one) + Len(spoken)) :
           (one \o spoken)[i] = IF i <= Len(one) THEN one[i] ELSE spoken[i - Len(one)]
  BY <1>2, <1>3, ConcatProperties, Zenon
<1>7. PICK n \in Nat : n = Len(spoken)
  BY <1>2
<1>8. new \in Seq(Events) /\ Len(new) = 1 + n
  BY <1>3, <1>5, <1>6, <1>7
<1>9. \A i \in 1..(1 + n) : new[i] = IF i <= 1 THEN one[i] ELSE spoken[i - 1]
  BY <1>3, <1>5, <1>6, <1>7
<1>10. new[1] = first
  BY <1>3, <1>7, <1>9
<1>11. ASSUME NEW i \in 2..Len(new) PROVE Calm(new[i])
  <2>1. i - 1 \in 1..Len(spoken) /\ new[i] = spoken[i - 1]
    BY <1>7, <1>8, <1>9
  <2> QED
    BY <1>2, <2>1
<1>12. Len(new) \in Nat \ {0}
  BY <1>7, <1>8
<1> QED
  BY <1>1, <1>8, <1>10, <1>11, <1>12

LEMMA AnswerStep ==
  ASSUME NEW kind \in {"stop", "aborted"} \cup Outcomes, Inv, Answer(kind)
  PROVE  Inv'
<1> DEFINE m == Message("assistant", agent.asked, kind)
           ends == Failed(m) \/ (kind # "toolUse" /\ Polled(FALSE) = <<>>)
           next == IF ends \/ kind = "toolUse" THEN <<>> ELSE Polled(FALSE)
           new == <<Event("end", m)>>
                  \o (IF ends THEN <<Event("agent_end", m)>> ELSE <<>>) \o Spoken(next)
<1>1. /\ InputTurn /\ agent.phase = "llm"
      /\ IF agent.stopping THEN kind = "aborted"
         ELSE \/ kind = "stop"
              \/ kind \in Outcomes \ {"throws", "throwsRetryable"}
              \/ kind = "error"
      /\ agent' = [Unqueue(agent, next) EXCEPT
                     !.messages = Append(@, m) \o next,
                     !.phase = CASE ends -> "idle" [] kind = "toolUse" -> "tools" [] OTHER -> "llm",
                     !.asked = IF ends THEN 0 ELSE clock, !.stopping = @ /\ ~ends,
                     !.call = IF kind = "toolUse" THEN m.id ELSE 0]
      /\ clock' = clock + 1
      /\ session' = Emitted(session, new)
      /\ missed' = missed \cup Unseen(new)
      /\ calls' = IF ends THEN EndedCalls ELSE calls
      /\ again' = CASE kind = "error" -> [again EXCEPT !.retry = @ + 1]
                    [] kind \in {"fatal", "overflow"} -> again
                    [] OTHER -> NoneYet
  BY DEF Answer, SlowTurn
<1>2. /\ kind \in {"stop", "aborted", "toolUse", "large", "error", "fatal", "overflow"}
      /\ agent.stopping => kind = "aborted"
      /\ kind \in Kinds
  BY <1>1, OutcomesAssumption DEF Kinds
<1>3. agent.asked \in Nat /\ clock \in Nat /\ agent.stopping \in BOOLEAN
  BY DEF Inv, Types, AgentTypes
<1>4. m \in Messages /\ m.kind = kind /\ IsAnswer(m) /\ m.id \in Nat
  <2>1. m \in Messages /\ m.kind = kind /\ m.role = "assistant"
    BY <1>2, <1>3, MessageType DEF Roles
  <2> QED
    BY <2>1 DEF IsAnswer, Messages
<1>5. ends \in BOOLEAN /\ (Failed(m) => ends) /\ (kind = "toolUse" => ~ends)
  BY <1>4 DEF Failed
<1>6. /\ Failed(m) <=> kind \in {"error", "fatal", "overflow", "aborted"}
      /\ Hard(m) <=> kind \in {"error", "fatal", "overflow"}
      /\ Retryable(m) <=> kind = "error"
  BY <1>2, <1>4 DEF Failed, Hard, Retryable
<1> HIDE DEF m
<1>7. next \in Seq(Inputs) /\ next \in Seq(Said) /\ (ends => next = <<>>)
  <2>1. Polled(FALSE) \in Seq(Inputs)
    BY QueueTypes DEF Inv
  <2>2. <<>> \in Seq(Inputs)
    OBVIOUS
  <2>3. next \in Seq(Inputs)
    BY <2>1, <2>2
  <2> QED
    BY <2>3, SaidTypes, SeqMonotonic
<1>8. next = <<>> \/ agent.steering # <<>> \/ agent.followUp # <<>>
  BY DEF Polled
<1> HIDE DEF ends, next
<1>9. /\ new \in Seq(Events)
      /\ Len(new) \in Nat \ {0}
      /\ new[1] = [type |-> "end", msg |-> m]
      /\ ends => Len(new) = 2 /\ new[2] = [type |-> "agent_end", msg |-> m]
      /\ ~ends => \A i \in 2..Len(new) : Calm(new[i])
  <2>1. CASE ends
    <3>1. new = <<Event("end", m)>> \o <<Event("agent_end", m)>> \o Spoken(<<>>)
      BY <1>7, <2>1
    <3> HIDE DEF new
    <3>2. /\ new \in Seq(Events) /\ Len(new) = 2
          /\ new[1] = [type |-> "end", msg |-> m]
          /\ new[2] = [type |-> "agent_end", msg |-> m]
      BY <1>4, <3>1, LastAnswerEvents
    <3> QED
      BY <2>1, <3>2
  <2>2. CASE ~ends
    <3>1. new = <<Event("end", m)>> \o <<>> \o Spoken(next)
      BY <2>2
    <3> HIDE DEF new
    <3>2. /\ new \in Seq(Events) /\ Len(new) \in Nat \ {0}
          /\ new[1] = [type |-> "end", msg |-> m]
          /\ \A i \in 2..Len(new) : Calm(new[i])
      BY <1>4, <1>7, <3>1, AnswerEvents
    <3> QED
      BY <2>2, <3>2
  <2> QED
    BY <2>1, <2>2
<1> HIDE DEF new
<1>10. /\ AgentTypes'
       /\ agent'.phase = (IF ends THEN "idle" ELSE IF kind = "toolUse" THEN "tools" ELSE "llm")
       /\ agent'.stopping = (agent.stopping /\ ~ends)
  <2> DEFINE a == Unqueue(agent, next)
             place == IF ends THEN "idle" ELSE IF kind = "toolUse" THEN "tools" ELSE "llm"
             stopping == a.stopping /\ ~ends
             asked == IF ends THEN 0 ELSE clock
             call == IF kind = "toolUse" THEN m.id ELSE 0
             said == Append(a.messages, m) \o next
  <2>1. /\ IsAgent(a) /\ a.steering \in Seq(Inputs) /\ a.followUp \in Seq(Inputs)
        /\ a.stopping = agent.stopping
    BY <1>8, UnqueueType DEF Inv, Types
  <2>2. (CASE ends -> "idle" [] kind = "toolUse" -> "tools" [] OTHER -> "llm") = place
    BY <1>5
  <2>3. agent' = [a EXCEPT !.messages = said, !.phase = place, !.asked = asked,
                           !.stopping = stopping, !.call = call]
    BY <1>1, <2>2
  <2>4. /\ place \in {"idle", "llm", "tools"} /\ asked \in Nat /\ call \in Nat
        /\ stopping \in BOOLEAN /\ stopping = (agent.stopping /\ ~ends)
    BY <1>3, <1>4, <2>1
  <2>5. place = (IF ends THEN "idle" ELSE IF kind = "toolUse" THEN "tools" ELSE "llm")
    OBVIOUS
  <2> HIDE DEF a, place, stopping, asked, call, said
  <2>6. /\ IsAgent(agent') /\ agent'.phase = place /\ agent'.asked = asked
        /\ agent'.stopping = stopping /\ agent'.call = call
        /\ agent'.steering = a.steering /\ agent'.followUp = a.followUp
    BY <2>1, <2>3 DEF IsAgent
  <2> QED
    BY <2>1, <2>4, <2>5, <2>6 DEF AgentTypes
<1>11. /\ kind = "error" => again' = [again EXCEPT !.retry = @ + 1]
       /\ kind \in {"fatal", "overflow"} => again' = again
       /\ kind \notin {"error", "fatal", "overflow"} => again' = NoneYet
  BY <1>1
<1>12. again' \in [retry: Nat, overflow: Nat]
  BY <1>11, RetryFacts
<1>13. Types'
  <2>1. calls' \in [Prompts -> [pc: CallPlaces, msgs: Seq(Inputs)]]
    BY <1>1, CallsType DEF Inv, Types
  <2> QED
    BY <1>1, <1>3, <1>9, <1>10, <1>12, <2>1, EmittedTypes DEF Inv, Types
<1>14. Paired' /\ InHand' /\ Handled'
  <2>1. ASSUME NEW i \in 1..Len(new), Bad(new[i])
        PROVE  i + 1 \in 1..Len(new) /\ Final(new[i + 1])
    <3>1. CASE ends
      <4>1. Len(new) = 2 /\ (i = 1 \/ i = 2)
        <5>1. Len(new) = 2
          BY <1>9, <3>1
        <5> QED
          BY <5>1
      <4>2. ~Bad(new[2]) /\ Final(new[2])
        BY <1>9, <3>1 DEF Bad, Final
      <4> QED
        BY <1>9, <2>1, <3>1, <4>1, <4>2
    <3>2. CASE ~ends
      <4>1. ~Bad(new[1])
        BY <1>5, <1>9, <3>2 DEF Bad, Hard
      <4>2. i \in 2..Len(new)
        BY <1>9, <2>1, <4>1
      <4> QED
        BY <1>9, <2>1, <3>2, <4>2, CalmFacts
    <3> QED
      BY <3>1, <3>2
  <2> QED
    BY <1>1, <1>9, <2>1, EmittedPaired
<1>15. ASSUME Apart' PROVE InApart'
  <2>1. Apart /\ Streaming
    BY <1>1, <1>15 DEF Apart, Streaming
  <2>2. session.handler = "ready" /\ session.events = <<>> /\ ~Hard(session.lastAnswer)
    BY <1>1, <2>1, CaughtUp
  <2>3. again.retry <= session.attempt /\ (session.connected \/ agent.stopping)
    BY <2>1 DEF Inv, InApart, CountedRunning, OneRun
  <2>4. again.overflow <= 1 /\ (again.overflow = 1 => session.overflowed)
    BY <2>1 DEF Inv, InApart, Bounded, Remembered
  <2>5. /\ session'.connected = session.connected /\ session'.handler = session.handler
        /\ session'.lastAnswer = session.lastAnswer
        /\ session'.attempt = session.attempt /\ session'.overflowed = session.overflowed
        /\ session'.events = (IF session.connected THEN session.events \o new ELSE session.events)
    BY <1>1, <1>9, EmittedTypes
  <2>6. /\ kind = "error" => again'.retry = again.retry + 1 /\ again'.overflow = again.overflow
        /\ kind \in {"fatal", "overflow"} => again' = again
        /\ kind \notin {"error", "fatal", "overflow"} => again'.retry = 0 /\ again'.overflow = 0
    BY <1>11, RetryFacts
  <2>7. Bounded' /\ again'.retry \in Nat /\ again'.overflow \in Nat
    BY <1>2, <2>3, <2>4, <2>6, RetryFacts DEF Bounded
  <2>8. CASE ~session.connected
    <3>1. kind = "aborted" /\ ends
      BY <1>2, <1>5, <1>6, <2>3, <2>8
    <3>2. session'.events = <<>> /\ ~Streaming' /\ again'.retry = 0 /\ again'.overflow = 0
      BY <1>10, <2>2, <2>5, <2>6, <2>8, <3>1 DEF Streaming
    <3> QED
      BY <2>2, <2>5, <2>7, <3>2, AtRest, RetryFacts
  <2>9. CASE session.connected
    <3>1. session'.events = new
      BY <1>9, <2>2, <2>5, <2>9
    <3>2. Places' = 1..Len(new) /\ \A i : EventAt(i)' = new[i]
      BY <3>1 DEF Places, EventAt
    <3>3. 1 \in 1..Len(new) /\ new[1].type = "end" /\ new[1].msg = m
      BY <1>9
    <3>4. CASE ends
      <4>1. Len(new) = 2 /\ \A i \in 1..Len(new) : i = 1 \/ i = 2
        <5>1. Len(new) = 2
          BY <1>9, <3>4
        <5>2. \A i \in 1..2 : i = 1 \/ i = 2
          OBVIOUS
        <5> QED
          BY <5>1, <5>2
      <4>2. new[2].type = "agent_end"
        BY <1>9, <3>4
      <4>3. ~Streaming'
        BY <1>10, <3>4 DEF Streaming
      <4>4. Clears' => ~Hard(m)
        BY <3>2, <3>3, <4>1, <4>2 DEF Clears, Good
      <4>5. Uncounted' <=> kind = "error"
        BY <1>6, <2>2, <2>5, <3>2, <3>3, <4>1, <4>2, RetryableIsHard DEF Uncounted
      <4>6. OneRun'
        BY <3>1, <3>2, <3>3, <4>1, <4>3 DEF OneRun, Final
      <4>7. Busy' /\ CountedRunning'
        BY <2>2, <2>5, <4>3 DEF Busy, CountedRunning
      <4>8. CountedWaiting'
        <5>1. CASE kind = "error"
          <6>1. Uncounted' /\ ~Clears' /\ again'.retry <= session'.attempt + 1
            BY <1>6, <2>3, <2>5, <2>6, <4>4, <4>5, <5>1, RetryFacts
          <6> QED
            BY <6>1 DEF CountedWaiting
        <5>2. CASE kind \in {"fatal", "overflow"}
          <6>1. ~Uncounted' /\ ~Clears' /\ again'.retry <= session'.attempt + 0
            BY <1>6, <2>3, <2>5, <2>6, <4>4, <4>5, <5>2, RetryFacts
          <6> QED
            BY <6>1 DEF CountedWaiting
        <5>3. CASE kind \notin {"error", "fatal", "overflow"}
          <6>1. ~Uncounted' /\ again'.retry = 0 /\ 0 <= session'.attempt + 0
            BY <2>5, <2>6, <4>5, <5>3, RetryFacts
          <6> QED
            BY <6>1 DEF CountedWaiting
        <5> QED
          BY <5>1, <5>2, <5>3
      <4>9. Remembered'
        <5> SUFFICES ASSUME again'.overflow = 1
                     PROVE  session'.overflowed /\ \A i \in Places' : ~Good(EventAt(i)') /\ ~Asked(EventAt(i)')
          BY DEF Remembered
        <5>1. kind \in {"error", "fatal", "overflow"} /\ again.overflow = 1
          BY <1>2, <2>6
        <5>2. ~Good(new[1]) /\ ~Good(new[2]) /\ ~Asked(new[1]) /\ ~Asked(new[2])
          BY <1>6, <3>3, <4>2, <5>1 DEF Good, Asked
        <5> QED
          BY <2>4, <2>5, <3>2, <4>1, <5>1, <5>2
      <4> QED
        BY <2>7, <4>6, <4>7, <4>8, <4>9 DEF InApart
    <3>5. CASE ~ends
      <4>1. ~Failed(m) /\ ~Hard(m) /\ ~Retryable(m) /\ kind \notin {"error", "fatal", "overflow"}
        BY <1>5, <1>6, <3>5
      <4>2. again'.retry = 0 /\ again'.overflow = 0
        BY <2>6, <4>1
      <4>3. \A i \in 1..Len(new) : ~Final(new[i])
        <5>1. ~Final(new[1])
          BY <3>3 DEF Final
        <5>2. \A i \in 2..Len(new) : ~Final(new[i])
          BY <1>9, <3>5, CalmFacts
        <5>3. \A i \in 1..Len(new) : i = 1 \/ i \in 2..Len(new)
          BY <1>9
        <5> QED
          BY <5>1, <5>2, <5>3
      <4>4. Streaming'
        BY <1>10, <3>5 DEF Streaming
      <4>5. OneRun'
        BY <2>5, <2>9, <3>2, <4>3 DEF OneRun
      <4>6. Busy'
        BY <2>2, <2>5 DEF Busy
      <4>7. CountedRunning' /\ CountedWaiting'
        BY <2>5, <4>2, <4>4, RetryFacts DEF CountedRunning, CountedWaiting
      <4>8. Remembered'
        BY <4>2 DEF Remembered
      <4> QED
        BY <2>7, <4>5, <4>6, <4>7, <4>8 DEF InApart
    <3> QED
      BY <3>4, <3>5
  <2> QED
    BY <2>8, <2>9
<1> QED
  BY <1>13, <1>14, <1>15 DEF Inv

-----------------------------------------------------------------------------
(* The theorem.                                                            *)

LEMMA InitInv == Init => Inv
<1> SUFFICES ASSUME Init PROVE Inv
  OBVIOUS
<1>1. SessionTypes
  <2>1. <<>> \in Seq(Events) /\ <<>> \in Seq(Inputs)
    OBVIOUS
  <2> QED
    BY <2>1, NoMessageType, BoundsAssumption DEF Init, SessionTypes, IsSession
<1>2. AgentTypes
  BY DEF Init, AgentTypes, IsAgent
<1>3. Types
  BY <1>1, <1>2 DEF Init, Types, CallPlaces, NoneYet
<1>4. session.events = <<>> /\ ~Hard(session.lastAnswer) /\ session.handler = "ready"
      /\ ~Streaming /\ ~session.promise /\ again.retry = 0 /\ again.overflow = 0
  BY DEF Init, NoMessage, Hard, Failed, IsAnswer, Streaming, NoneYet
<1>5. \A i : i \notin Places
  BY <1>4 DEF Places
<1>6. Paired /\ InHand /\ Handled
  BY <1>4, <1>5 DEF Paired, InHand, Handled
<1>7. ~Uncounted /\ ~Clears
  BY <1>4, <1>5, RetryableIsHard DEF Uncounted, Clears
<1>8. OneRun /\ Busy /\ CountedRunning /\ CountedWaiting /\ Remembered
  BY <1>4, <1>5, <1>7 DEF OneRun, Busy, CountedRunning, CountedWaiting, Remembered
<1>9. Bounded
  BY <1>4, BoundsAssumption DEF Bounded
<1> QED
  BY <1>3, <1>6, <1>8, <1>9 DEF Inv, InApart

LEMMA NextInv == Inv /\ [Next]_vars => Inv'
<1> SUFFICES ASSUME Inv, [Next]_vars PROVE Inv'
  OBVIOUS
<1>1. CASE AgentStep
  <2>1. ASSUME NEW k \in {"stop", "aborted"} \cup Outcomes, Answer(k) PROVE Inv'
    BY <2>1, AnswerStep
  <2>2. ASSUME NEW t \in {"throws", "throwsRetryable"}, RunThrows(t) PROVE Inv'
    BY <2>2, RunThrowsStep
  <2> QED
    BY <1>1, <2>1, <2>2, ToolsDoneStep DEF AgentStep
<1>2. CASE HandlerStep
  BY <1>2, MessageStartsStep, MessageEndsStep, AgentEndsStep, BackoffElapsesQuiet,
     BackoffCancelledStep, QuietSteps DEF HandlerStep
<1>3. CASE CommandStep
  BY <1>3, NewSessionQuiet, SwitchOpensQuiet, SwitchRestoresQuiet, CompactStartsQuiet,
     QuietSteps DEF CommandStep
<1>4. CASE TimerStep
  BY <1>4, ContinueStep DEF TimerStep
<1>5. CASE HostStep
  <2>1. ASSUME NEW p \in Prompts, PromptQueues(p) PROVE Inv'
    BY <2>1, PromptQueuesQuiet, QuietSteps
  <2>2. ASSUME NEW p \in Prompts, PromptStarts(p) PROVE Inv'
    BY <2>2, PromptStartsQuiet, QuietSteps
  <2>3. ASSUME NEW name \in Commands, CommandStarts(name) PROVE Inv'
    BY <2>3, CommandStartsQuiet, QuietSteps
  <2>4. CASE RecordBash \/ SendCustom \/ EscapeBackoff \/ EscapeRun \/ NavigateTree \/ Fork
    BY <2>4, RecordBashQuiet, SendCustomQuiet, EscapeBackoffQuiet, EscapeRunQuiet,
       NavigateTreeQuiet, ForkQuiet, QuietSteps
  <2> QED
    BY <1>5, <2>1, <2>2, <2>3, <2>4 DEF HostStep
<1>6. ASSUME NEW o \in Owners, JobStep(o) PROVE Inv'
  BY <1>6, JobAsksQuiet, JobFailsQuiet, JobDoneQuiet, QuietSteps DEF JobStep
<1>7. ASSUME NEW p \in Prompts, PromptStep(p) PROVE Inv'
  BY <1>7, PromptHasNoKeyQuiet, PromptChecksStep, PromptRunsStep, PromptWaitsQuiet,
     QuietSteps DEF PromptStep
<1>8. CASE UNCHANGED vars
  BY <1>8, StutterQuiet, QuietSteps
<1> QED
  BY <1>1, <1>2, <1>3, <1>4, <1>5, <1>6, <1>7, <1>8 DEF Next

\* A failing provider is not asked for ever: unless a run was started while the handler was
\* still at an earlier one, at most maxRetries + 1 answers in a row fail with a retryable
\* error and an overflow is recovered from once (agent-session.ts:2400 and :1790).
THEOREM RetriesAreBounded == Spec => []RecoveryBounded
<1>1. Inv => RecoveryBounded
  BY DEF Inv, Apart, InApart, Bounded, RecoveryBounded
<1> QED
  BY <1>1, InitInv, NextInv, PTL DEF Spec

-----------------------------------------------------------------------------
(* Induction over numbers and sequences, with sets in the place of predicates.  *)

\* A set of naturals that has 0 and every successor of its members has them all.
LEMMA NatSetInduction ==
  ASSUME NEW T, 0 \in T, \A n \in Nat : n \in T => n + 1 \in T
  PROVE  \A n \in Nat : n \in T
<1> DEFINE Less == OpToRel(<, Nat)
           Others == {n \in Nat : n \notin T}
<1>1. SUFFICES ASSUME Others # {} PROVE FALSE
  OBVIOUS
<1>2. IsWellFoundedOn(Less, Nat)
  BY NatLessThanWellFounded, Zenon
<1>3. \A x, y \in Nat : x < y => <<x, y>> \in Less
  BY DEF OpToRel
<1>4. PICK x \in Others : \A y \in Others : ~ (<<y, x>> \in Less)
  <2> HIDE DEF Less
  <2> QED BY <1>1, <1>2, WFMin, Zenon
<1>5. x \in Nat /\ x # 0 /\ x \notin T
  OBVIOUS
<1>6. x - 1 \in Nat /\ x - 1 < x /\ (x - 1) + 1 = x
  BY <1>5
<1>7. x - 1 \notin T
  BY <1>5, <1>6
<1>8. <<x - 1, x>> \in Less
  <2> HIDE DEF Less
  <2> QED BY <1>3, <1>5, <1>6
<1> QED BY <1>4, <1>6, <1>7, <1>8

\* A set that has the empty sequence and whatever is appended to its members has
\* every sequence.
LEMMA SeqSetInduction ==
  ASSUME NEW S, NEW T, <<>> \in T,
         \A s \in Seq(S), e \in S : s \in T => Append(s, e) \in T
  PROVE  \A s \in Seq(S) : s \in T
<1> DEFINE N == {n \in Nat : \A s \in Seq(S) : Len(s) = n => s \in T}
<1>1. 0 \in N
  <2> \A s \in Seq(S) : Len(s) = 0 => s = <<>>
    BY EmptySeq
  <2> QED OBVIOUS
<1>2. \A n \in Nat : n \in N => n + 1 \in N
  <2> SUFFICES ASSUME NEW n \in Nat, n \in N, NEW s \in Seq(S), Len(s) = n + 1
               PROVE  s \in T
    OBVIOUS
  <2>1. s # <<>>
    OBVIOUS
  <2>2. PICK r \in Seq(S), e \in S : s = Append(r, e)
    BY <2>1, SequenceEmptyOrAppend, Zenon
  <2>3. Len(r) = n
    BY <2>2, AppendProperties
  <2> QED BY <2>2, <2>3
<1>3. \A n \in Nat : n \in N
  <2> HIDE DEF N
  <2> QED BY <1>1, <1>2, NatSetInduction
<1> QED BY <1>3, LenProperties

-----------------------------------------------------------------------------

LEMMA AppendedConcat ==
  ASSUME NEW S, NEW s \in Seq(S), NEW t \in Seq(S), NEW e \in S
  PROVE  s \o Append(t, e) = Append(s \o t, e)
BY AppendIsConcat, ConcatAssociative, ConcatProperties

-----------------------------------------------------------------------------
(* Selections.                                                             *)

SelectedStep(seq, set, g, n) ==
  IF n = 0 THEN <<>>
  ELSE IF seq[n] \in set THEN Append(g[n - 1], seq[n]) ELSE g[n - 1]
IsSelection(seq, set, g) == g = [n \in 0..Len(seq) |-> SelectedStep(seq, set, g, n)]

LEMMA SelectedIsChosen ==
  ASSUME NEW seq, NEW set
  PROVE  Selected(seq, set) = (CHOOSE g : IsSelection(seq, set, g))[Len(seq)]
BY DEF Selected, IsSelection, SelectedStep

\* The recursive function exists.
LEMMA SelectionExists ==
  ASSUME NEW S, NEW set
  PROVE  \A s \in Seq(S) : \E g : IsSelection(s, set, g)
<1> DEFINE T == {s \in Seq(S) : \E g : IsSelection(s, set, g)}
<1>1. <<>> \in T
  <2> DEFINE g == [n \in {0} |-> <<>>]
  <2>1. 0..Len(<<>>) = {0}
    OBVIOUS
  <2>2. IsSelection(<<>>, set, g)
    BY <2>1 DEF IsSelection, SelectedStep
  <2> QED BY <2>2
<1>2. \A s \in Seq(S), e \in S : s \in T => Append(s, e) \in T
  <2> SUFFICES ASSUME NEW s \in Seq(S), NEW e \in S, s \in T PROVE Append(s, e) \in T
    OBVIOUS
  <2> PICK g : IsSelection(s, set, g)
    OBVIOUS
  <2> DEFINE r == Append(s, e)
             n0 == Len(s)
             last == IF e \in set THEN Append(g[n0], e) ELSE g[n0]
             h == [n \in 0..(n0 + 1) |-> IF n <= n0 THEN g[n] ELSE last]
  <2>1. r \in Seq(S) /\ Len(r) = n0 + 1 /\ r[n0 + 1] = e /\ n0 \in Nat
        /\ \A i \in 1..n0 : r[i] = s[i]
    BY AppendProperties, LenProperties
  <2>2. \A n \in 0..n0 : g[n] = SelectedStep(s, set, g, n)
    BY DEF IsSelection
  <2>3. ASSUME NEW n \in 0..(n0 + 1) PROVE h[n] = SelectedStep(r, set, h, n)
    <3> HIDE DEF r, last
    <3>1. CASE n = 0
      BY <3>1, <2>1, <2>2 DEF SelectedStep
    <3>2. CASE n \in 1..n0
      <4>1. h[n] = g[n] /\ h[n - 1] = g[n - 1] /\ r[n] = s[n] /\ n # 0
        BY <3>2, <2>1
      <4>2. g[n] = SelectedStep(s, set, g, n)
        BY <2>2, <3>2
      <4> HIDE DEF h
      <4> QED BY <4>1, <4>2 DEF SelectedStep
    <3>3. CASE n = n0 + 1
      <4>1. h[n] = last /\ h[n - 1] = g[n0] /\ r[n] = e /\ n # 0
        BY <3>3, <2>1
      <4> HIDE DEF h
      <4> QED BY <4>1 DEF SelectedStep, last
    <3> QED BY <3>1, <3>2, <3>3, <2>1
  <2>4. h = [n \in 0..Len(r) |-> SelectedStep(r, set, h, n)]
    <3>1. h = [n \in 0..(n0 + 1) |-> h[n]]
      OBVIOUS
    <3> HIDE DEF h, r
    <3> QED BY <3>1, <2>1, <2>3
  <2>5. IsSelection(r, set, h)
    <3> HIDE DEF h, r
    <3> QED BY <2>4 DEF IsSelection
  <2> HIDE DEF h, r
  <2> \E k : IsSelection(r, set, k)
    BY <2>5
  <2> QED BY <2>1 DEF r
<1> HIDE DEF T
<1>3. \A s \in Seq(S) : s \in T
  BY <1>1, <1>2, SeqSetInduction
<1> QED BY <1>3 DEF T

\* There is only one.
LEMMA SelectionUnique ==
  ASSUME NEW S, NEW set, NEW s \in Seq(S), NEW g, NEW h,
         IsSelection(s, set, g), IsSelection(s, set, h)
  PROVE  \A n \in 0..Len(s) : g[n] = h[n]
<1> DEFINE T == {n \in Nat : n <= Len(s) => g[n] = h[n]}
<1>0. Len(s) \in Nat
  OBVIOUS
<1>1. \A n \in 0..Len(s) : g[n] = SelectedStep(s, set, g, n) /\ h[n] = SelectedStep(s, set, h, n)
  BY DEF IsSelection
<1>2. 0 \in T
  BY <1>0, <1>1 DEF SelectedStep
<1>3. \A n \in Nat : n \in T => n + 1 \in T
  <2> SUFFICES ASSUME NEW n \in Nat, n \in T, n + 1 <= Len(s) PROVE g[n + 1] = h[n + 1]
    OBVIOUS
  <2>1. g[n] = h[n] /\ n + 1 # 0 /\ (n + 1) - 1 = n /\ n + 1 \in 0..Len(s)
    BY <1>0
  <2> QED BY <1>1, <2>1 DEF SelectedStep
<1> HIDE DEF T
<1>4. \A n \in Nat : n \in T
  BY <1>2, <1>3, NatSetInduction
<1> QED BY <1>0, <1>4 DEF T

LEMMA SelectedIsAnySelection ==
  ASSUME NEW S, NEW set, NEW s \in Seq(S), NEW g, IsSelection(s, set, g)
  PROVE  Selected(s, set) = g[Len(s)]
<1> DEFINE c == CHOOSE k : IsSelection(s, set, k)
<1>1. IsSelection(s, set, c)
  BY SelectionExists
<1>2. Selected(s, set) = c[Len(s)]
  BY SelectedIsChosen
<1> HIDE DEF c
<1>3. Len(s) \in 0..Len(s)
  BY LenProperties
<1>4. \A n \in 0..Len(s) : c[n] = g[n]
  BY <1>1, SelectionUnique
<1> QED BY <1>2, <1>3, <1>4

\* The selection from left to right.
LEMMA SelectedEmpty ==
  ASSUME NEW set
  PROVE  Selected(<<>>, set) = <<>>
<1> PICK g : IsSelection(<<>>, set, g)
  BY SelectionExists, EmptySeq
<1>1. Selected(<<>>, set) = g[0]
  BY SelectedIsAnySelection, EmptySeq
<1>2. g[0] = <<>>
  <2>1. 0 \in 0..Len(<<>>)
    OBVIOUS
  <2> QED BY <2>1 DEF IsSelection, SelectedStep
<1> QED BY <1>1, <1>2

LEMMA SelectedAppend ==
  ASSUME NEW S, NEW set, NEW s \in Seq(S), NEW e \in S
  PROVE  Selected(Append(s, e), set) =
           IF e \in set THEN Append(Selected(s, set), e) ELSE Selected(s, set)
<1> DEFINE r == Append(s, e)
           n0 == Len(s)
<1>1. r \in Seq(S) /\ Len(r) = n0 + 1 /\ r[n0 + 1] = e /\ n0 \in Nat
        /\ \A i \in 1..n0 : r[i] = s[i]
  BY AppendProperties, LenProperties
<1> HIDE DEF r
<1>2. PICK h : IsSelection(r, set, h)
  BY <1>1, SelectionExists
<1> DEFINE g == [n \in 0..n0 |-> h[n]]
<1>3. \A n \in 0..(n0 + 1) : h[n] = SelectedStep(r, set, h, n)
  BY <1>1, <1>2 DEF IsSelection
<1>4. ASSUME NEW n \in 0..n0 PROVE g[n] = SelectedStep(s, set, g, n)
  <2>1. h[n] = SelectedStep(r, set, h, n)
    BY <1>1, <1>3
  <2>2. CASE n = 0
    BY <2>1, <2>2 DEF SelectedStep
  <2>3. CASE n # 0
    <3>1. g[n] = h[n] /\ g[n - 1] = h[n - 1] /\ r[n] = s[n]
      BY <1>1, <2>3
    <3> HIDE DEF g
    <3> QED BY <3>1, <2>1, <2>3 DEF SelectedStep
  <2> QED BY <2>2, <2>3
<1>5. IsSelection(s, set, g)
  <2>1. g = [n \in 0..n0 |-> g[n]]
    OBVIOUS
  <2> HIDE DEF g
  <2>2. g = [n \in 0..n0 |-> SelectedStep(s, set, g, n)]
    BY <1>4, <2>1
  <2> QED BY <2>2 DEF IsSelection
<1>6. g[n0] = h[n0]
  BY <1>1
<1> HIDE DEF g
<1>7. Selected(s, set) = g[n0]
  BY <1>5, SelectedIsAnySelection
<1>8. Selected(r, set) = h[n0 + 1]
  BY <1>1, <1>2, SelectedIsAnySelection
<1>9. h[n0 + 1] = IF e \in set THEN Append(h[n0], e) ELSE h[n0]
  BY <1>1, <1>3 DEF SelectedStep
<1> QED BY <1>6, <1>7, <1>8, <1>9 DEF r

LEMMA SelectedIsSeq ==
  ASSUME NEW S, NEW set
  PROVE  \A s \in Seq(S) : Selected(s, set) \in Seq(S)
<1> DEFINE T == {s \in Seq(S) : Selected(s, set) \in Seq(S)}
<1>1. <<>> \in T
  BY SelectedEmpty, EmptySeq
<1>2. \A s \in Seq(S), e \in S : s \in T => Append(s, e) \in T
  BY SelectedAppend, AppendProperties
<1> HIDE DEF T
<1>3. \A s \in Seq(S) : s \in T
  BY <1>1, <1>2, SeqSetInduction
<1> QED BY <1>3 DEF T

LEMMA SelectedConcat ==
  ASSUME NEW S, NEW set, NEW s \in Seq(S)
  PROVE  \A t \in Seq(S) : Selected(s \o t, set) = Selected(s, set) \o Selected(t, set)
<1> DEFINE T == {t \in Seq(S) : Selected(s \o t, set) = Selected(s, set) \o Selected(t, set)}
<1>0. Selected(s, set) \in Seq(S)
  BY SelectedIsSeq
<1>1. <<>> \in T
  BY <1>0, SelectedEmpty, ConcatEmptySeq
<1>2. \A t \in Seq(S), e \in S : t \in T => Append(t, e) \in T
  <2> SUFFICES ASSUME NEW t \in Seq(S), NEW e \in S, t \in T PROVE Append(t, e) \in T
    OBVIOUS
  <2>1. Append(t, e) \in Seq(S) /\ s \o Append(t, e) = Append(s \o t, e) /\ s \o t \in Seq(S)
    BY AppendedConcat, AppendProperties, ConcatProperties
  <2>2. Selected(t, set) \in Seq(S)
    BY SelectedIsSeq
  <2>3. Selected(s, set) \o Append(Selected(t, set), e) = Append(Selected(s, set) \o Selected(t, set), e)
    BY <1>0, <2>2, AppendedConcat
  <2>4. Selected(Append(t, e), set) =
          IF e \in set THEN Append(Selected(t, set), e) ELSE Selected(t, set)
    BY SelectedAppend
  <2>5. Selected(Append(s \o t, e), set) =
          IF e \in set THEN Append(Selected(s \o t, set), e) ELSE Selected(s \o t, set)
    <3> DEFINE st == s \o t
    <3>1. st \in Seq(S)
      BY <2>1
    <3> HIDE DEF st
    <3>2. Selected(Append(st, e), set) =
            IF e \in set THEN Append(Selected(st, set), e) ELSE Selected(st, set)
      BY <3>1, SelectedAppend
    <3> QED BY <3>2 DEF st
  <2> QED BY <2>1, <2>3, <2>4, <2>5
<1> HIDE DEF T
<1>3. \A t \in Seq(S) : t \in T
  BY <1>1, <1>2, SeqSetInduction
<1> QED BY <1>3 DEF T

\* The elements of a sequence.
LEMMA ElementsOfNone == ToSet(<<>>) = {}
<1> DEFINE none == <<>>
<1>1. DOMAIN none = 1..0
  BY EmptySeq, LenProperties
<1> HIDE DEF none
<1>2. DOMAIN none = {}
  BY <1>1
<1> QED BY <1>2 DEF ToSet, none

LEMMA ElementsAppended ==
  ASSUME NEW S, NEW s \in Seq(S), NEW e \in S
  PROVE  ToSet(Append(s, e)) = ToSet(s) \cup {e}
BY AppendProperties, LenProperties DEF ToSet

LEMMA ElementsOfConcat ==
  ASSUME NEW S, NEW s \in Seq(S), NEW t \in Seq(S)
  PROVE  ToSet(s \o t) = ToSet(s) \cup ToSet(t)
<1> DEFINE st == s \o t
<1>1. /\ DOMAIN st = 1..(Len(s) + Len(t)) /\ DOMAIN s = 1..Len(s) /\ DOMAIN t = 1..Len(t)
      /\ Len(s) \in Nat /\ Len(t) \in Nat
  BY ConcatProperties, LenProperties
<1>2. \A i \in DOMAIN st : st[i] = IF i <= Len(s) THEN s[i] ELSE t[i - Len(s)]
  BY <1>1, ConcatProperties
<1> HIDE DEF st
<1>3. ASSUME NEW i \in DOMAIN s PROVE i \in DOMAIN st /\ st[i] = s[i]
  BY <1>1, <1>2
<1>4. ASSUME NEW i \in DOMAIN t PROVE i + Len(s) \in DOMAIN st /\ st[i + Len(s)] = t[i]
  BY <1>1, <1>2
<1>5. ASSUME NEW i \in DOMAIN st
      PROVE  \/ i \in DOMAIN s /\ st[i] = s[i]
             \/ i - Len(s) \in DOMAIN t /\ st[i] = t[i - Len(s)]
  BY <1>1, <1>2
<1>6. ToSet(st) = ToSet(s) \cup ToSet(t)
  BY <1>3, <1>4, <1>5 DEF ToSet
<1> QED BY <1>6 DEF st

LEMMA Elements ==
  ASSUME NEW S, NEW s \in Seq(S)
  PROVE  /\ ToSet(s) \subseteq S
         /\ \A e : e \in ToSet(s) <=> \E i \in 1..Len(s) : e = s[i]
BY LenProperties DEF ToSet

LEMMA ElementsOfOne == \A e : ToSet(<<e>>) = {e}
<1> TAKE e
<1>1. DOMAIN <<e>> = {1} /\ <<e>>[1] = e
  OBVIOUS
<1> QED BY <1>1 DEF ToSet

LEMMA ElementsSelected ==
  ASSUME NEW S, NEW set
  PROVE  \A s \in Seq(S) : ToSet(Selected(s, set)) = ToSet(s) \cap set
<1> DEFINE T == {s \in Seq(S) : ToSet(Selected(s, set)) = ToSet(s) \cap set}
<1>1. <<>> \in T
  BY ElementsOfNone, SelectedEmpty, EmptySeq
<1>2. \A s \in Seq(S), e \in S : s \in T => Append(s, e) \in T
  <2> SUFFICES ASSUME NEW s \in Seq(S), NEW e \in S, s \in T PROVE Append(s, e) \in T
    OBVIOUS
  <2>1. Append(s, e) \in Seq(S) /\ ToSet(Append(s, e)) = ToSet(s) \cup {e}
    BY ElementsAppended, AppendProperties
  <2>2. Selected(s, set) \in Seq(S)
    BY SelectedIsSeq
  <2>3. ToSet(Append(Selected(s, set), e)) = ToSet(Selected(s, set)) \cup {e}
    BY <2>2, ElementsAppended
  <2>4. ToSet(Selected(s, set)) = ToSet(s) \cap set
    OBVIOUS
  <2>5. Selected(Append(s, e), set) = IF e \in set THEN Append(Selected(s, set), e) ELSE Selected(s, set)
    BY SelectedAppend
  <2> QED BY <2>1, <2>3, <2>4, <2>5
<1> HIDE DEF T
<1>3. \A s \in Seq(S) : s \in T
  BY <1>1, <1>2, SeqSetInduction
<1> QED BY <1>3 DEF T

\* Only what is in the sequence counts.
LEMMA SelectedSame ==
  ASSUME NEW S, NEW X, NEW Y
  PROVE  \A s \in Seq(S) : (\A e \in ToSet(s) : e \in X <=> e \in Y) => Selected(s, X) = Selected(s, Y)
<1> DEFINE T == {s \in Seq(S) : (\A e \in ToSet(s) : e \in X <=> e \in Y) => Selected(s, X) = Selected(s, Y)}
<1>1. <<>> \in T
  BY SelectedEmpty, EmptySeq
<1>2. \A s \in Seq(S), e \in S : s \in T => Append(s, e) \in T
  <2> SUFFICES ASSUME NEW s \in Seq(S), NEW e \in S, s \in T,
                      \A x \in ToSet(Append(s, e)) : x \in X <=> x \in Y
               PROVE  Selected(Append(s, e), X) = Selected(Append(s, e), Y)
    BY AppendProperties
  <2>1. ToSet(Append(s, e)) = ToSet(s) \cup {e}
    BY ElementsAppended
  <2>2. Selected(s, X) = Selected(s, Y)
    BY <2>1
  <2>3. e \in X <=> e \in Y
    BY <2>1
  <2>4. Selected(Append(s, e), X) = IF e \in X THEN Append(Selected(s, X), e) ELSE Selected(s, X)
    BY SelectedAppend
  <2>5. Selected(Append(s, e), Y) = IF e \in Y THEN Append(Selected(s, Y), e) ELSE Selected(s, Y)
    BY SelectedAppend
  <2> QED BY <2>2, <2>3, <2>4, <2>5
<1> HIDE DEF T
<1>3. \A s \in Seq(S) : s \in T
  BY <1>1, <1>2, SeqSetInduction
<1> QED BY <1>3 DEF T

LEMMA SelectedTwice ==
  ASSUME NEW S, NEW X, NEW Y
  PROVE  \A s \in Seq(S) : Selected(Selected(s, X), Y) = Selected(s, X \cap Y)
<1> DEFINE T == {s \in Seq(S) : Selected(Selected(s, X), Y) = Selected(s, X \cap Y)}
<1>1. <<>> \in T
  BY SelectedEmpty, EmptySeq
<1>2. \A s \in Seq(S), e \in S : s \in T => Append(s, e) \in T
  <2> SUFFICES ASSUME NEW s \in Seq(S), NEW e \in S, s \in T PROVE Append(s, e) \in T
    OBVIOUS
  <2>1. Append(s, e) \in Seq(S)
    BY AppendProperties
  <2> DEFINE r == Selected(s, X)
  <2>2. r \in Seq(S)
    BY SelectedIsSeq
  <2>3. Selected(r, Y) = Selected(s, X \cap Y)
    OBVIOUS
  <2>4. Selected(Append(s, e), X) = IF e \in X THEN Append(r, e) ELSE r
    BY SelectedAppend
  <2>5. Selected(Append(s, e), X \cap Y) =
          IF e \in X \cap Y THEN Append(Selected(s, X \cap Y), e) ELSE Selected(s, X \cap Y)
    BY SelectedAppend
  <2> HIDE DEF r
  <2>6. Selected(Append(r, e), Y) = IF e \in Y THEN Append(Selected(r, Y), e) ELSE Selected(r, Y)
    BY <2>2, SelectedAppend
  <2>7. Selected(Selected(Append(s, e), X), Y) = Selected(Append(s, e), X \cap Y)
    <3>1. CASE e \in X /\ e \in Y
      BY <2>3, <2>4, <2>5, <2>6, <3>1
    <3>2. CASE e \in X /\ e \notin Y
      BY <2>3, <2>4, <2>5, <2>6, <3>2
    <3>3. CASE e \notin X
      BY <2>3, <2>4, <2>5, <3>3
    <3> QED BY <3>1, <3>2, <3>3
  <2> QED BY <2>1, <2>7
<1> HIDE DEF T
<1>3. \A s \in Seq(S) : s \in T
  BY <1>1, <1>2, SeqSetInduction
<1> QED BY <1>3 DEF T

LEMMA SelectedAll ==
  ASSUME NEW S, NEW X
  PROVE  \A s \in Seq(S) : ToSet(s) \subseteq X => Selected(s, X) = s
<1> DEFINE T == {s \in Seq(S) : ToSet(s) \subseteq X => Selected(s, X) = s}
<1>1. <<>> \in T
  BY SelectedEmpty, EmptySeq
<1>2. \A s \in Seq(S), e \in S : s \in T => Append(s, e) \in T
  BY SelectedAppend, ElementsAppended, AppendProperties
<1> HIDE DEF T
<1>3. \A s \in Seq(S) : s \in T
  BY <1>1, <1>2, SeqSetInduction
<1> QED BY <1>3 DEF T

LEMMA SelectedNone ==
  ASSUME NEW S, NEW X
  PROVE  \A s \in Seq(S) : ToSet(s) \cap X = {} => Selected(s, X) = <<>>
<1> DEFINE T == {s \in Seq(S) : ToSet(s) \cap X = {} => Selected(s, X) = <<>>}
<1>1. <<>> \in T
  BY SelectedEmpty, EmptySeq
<1>2. \A s \in Seq(S), e \in S : s \in T => Append(s, e) \in T
  BY SelectedAppend, ElementsAppended, AppendProperties
<1> HIDE DEF T
<1>3. \A s \in Seq(S) : s \in T
  BY <1>1, <1>2, SeqSetInduction
<1> QED BY <1>3 DEF T

\* Of one element.
LEMMA SelectedOne ==
  ASSUME NEW S, NEW e \in S, NEW X
  PROVE  Selected(<<e>>, X) = IF e \in X THEN <<e>> ELSE <<>>
<1> DEFINE none == <<>>
<1>0. none \in Seq(S)
  OBVIOUS
<1>1. Append(none, e) = <<e>> /\ none = <<>>
  OBVIOUS
<1>2. Selected(none, X) = none
  BY SelectedEmpty
<1> HIDE DEF none
<1>3. Selected(Append(none, e), X) = IF e \in X THEN Append(Selected(none, X), e) ELSE Selected(none, X)
  BY <1>0, SelectedAppend
<1>4. CASE e \in X
  BY <1>1, <1>2, <1>3, <1>4
<1>5. CASE e \notin X
  BY <1>1, <1>2, <1>3, <1>5
<1> QED BY <1>4, <1>5

\* Where the elements selected come from: their places, in order, and no others.
SelectedFrom(s, X, f) ==
  /\ f \in [1..Len(Selected(s, X)) -> 1..Len(s)]
  /\ \A i \in 1..Len(Selected(s, X)) : s[f[i]] = Selected(s, X)[i]
  /\ \A i, j \in 1..Len(Selected(s, X)) : i < j => f[i] < f[j]
  /\ \A x \in 1..Len(s) : s[x] \in X => \E i \in 1..Len(Selected(s, X)) : f[i] = x

LEMMA SelectedPlaces ==
  ASSUME NEW S, NEW X
  PROVE  \A s \in Seq(S) : \E f : SelectedFrom(s, X, f)
<1> DEFINE T == {s \in Seq(S) : \E f : SelectedFrom(s, X, f)}
<1>1. <<>> \in T
  <2> DEFINE f == [i \in {} |-> 0]
             none == <<>>
  <2>1. none \in Seq(S) /\ Len(none) = 0 /\ Selected(none, X) = none
    BY SelectedEmpty
  <2> HIDE DEF none
  <2>2. SelectedFrom(none, X, f)
    BY <2>1 DEF SelectedFrom
  <2> QED BY <2>1, <2>2 DEF none
<1>2. \A s \in Seq(S), e \in S : s \in T => Append(s, e) \in T
  <2> SUFFICES ASSUME NEW s \in Seq(S), NEW e \in S, s \in T PROVE Append(s, e) \in T
    OBVIOUS
  <2> PICK f : SelectedFrom(s, X, f)
    OBVIOUS
  <2> DEFINE r == Append(s, e)
             n == Len(s)
             v == Selected(s, X)
             m == Len(v)
             w == Selected(r, X)
  <2>1. r \in Seq(S) /\ Len(r) = n + 1 /\ r[n + 1] = e /\ n \in Nat /\ \A i \in 1..n : r[i] = s[i]
    BY AppendProperties, LenProperties
  <2>2. v \in Seq(S) /\ m \in Nat
    BY SelectedIsSeq, LenProperties
  <2>3. w = IF e \in X THEN Append(v, e) ELSE v
    BY SelectedAppend
  <2>4. /\ f \in [1..m -> 1..n]
        /\ \A i \in 1..m : s[f[i]] = v[i]
        /\ \A i, j \in 1..m : i < j => f[i] < f[j]
        /\ \A x \in 1..n : s[x] \in X => \E i \in 1..m : f[i] = x
    BY DEF SelectedFrom
  <2> HIDE DEF r, n, v, m, w
  <2>5. CASE e \in X
    <3> DEFINE g == [i \in 1..(m + 1) |-> IF i <= m THEN f[i] ELSE n + 1]
    <3>1. Len(w) = m + 1 /\ w[m + 1] = e /\ \A i \in 1..m : w[i] = v[i]
      BY <2>2, <2>3, <2>5, AppendProperties DEF m, v
    <3>2. g \in [1..(m + 1) -> 1..(n + 1)]
      BY <2>1, <2>2, <2>4
    <3>3. \A i \in 1..m : g[i] = f[i] /\ f[i] \in 1..n
      BY <2>2, <2>4
    <3>4. g[m + 1] = n + 1
      BY <2>2
    <3> HIDE DEF g
    <3>5. ASSUME NEW i \in 1..(m + 1) PROVE r[g[i]] = w[i]
      <4>1. CASE i = m + 1
        BY <4>1, <2>1, <3>1, <3>4
      <4>2. CASE i \in 1..m
        BY <4>2, <2>1, <2>4, <3>1, <3>3
      <4> QED BY <4>1, <4>2, <2>2
    <3>6. ASSUME NEW i \in 1..(m + 1), NEW j \in 1..(m + 1), i < j PROVE g[i] < g[j]
      <4>1. i \in 1..m
        BY <3>6, <2>2
      <4>2. CASE j = m + 1
        BY <4>1, <4>2, <2>1, <3>3, <3>4
      <4>3. CASE j \in 1..m
        BY <4>1, <4>3, <3>3, <3>6, <2>4
      <4> QED BY <4>2, <4>3, <2>2
    <3>7. ASSUME NEW x \in 1..(n + 1), r[x] \in X PROVE \E i \in 1..(m + 1) : g[i] = x
      <4>1. CASE x = n + 1
        BY <4>1, <3>4, <2>2
      <4>2. CASE x \in 1..n
        <5>1. s[x] \in X
          BY <4>2, <3>7, <2>1
        <5>2. PICK i \in 1..m : f[i] = x
          BY <4>2, <5>1, <2>4
        <5>3. i \in 1..(m + 1) /\ g[i] = x
          BY <2>2, <3>3, <5>2
        <5> QED BY <5>3
      <4> QED BY <4>1, <4>2, <2>1
    <3>8. SelectedFrom(r, X, g)
      BY <2>1, <3>1, <3>2, <3>5, <3>6, <3>7 DEF SelectedFrom, w
    <3> QED BY <2>1, <3>8 DEF r
  <2>6. CASE e \notin X
    <3>1. w = v
      BY <2>3, <2>6
    <3>2. f \in [1..m -> 1..(n + 1)] /\ \A i \in 1..m : f[i] \in 1..n
      BY <2>1, <2>4
    <3>3. \A i \in 1..m : r[f[i]] = w[i]
      BY <2>1, <2>4, <3>1, <3>2
    <3>4. ASSUME NEW x \in 1..(n + 1), r[x] \in X PROVE \E i \in 1..m : f[i] = x
      <4>1. x \in 1..n
        BY <2>1, <2>6, <3>4
      <4> QED BY <4>1, <3>4, <2>1, <2>4
    <3>5. SelectedFrom(r, X, f)
      BY <2>1, <2>4, <3>1, <3>2, <3>3, <3>4 DEF SelectedFrom, w, m
    <3> QED BY <2>1, <3>5 DEF r
  <2> QED BY <2>5, <2>6
<1> HIDE DEF T
<1>3. \A s \in Seq(S) : s \in T
  BY <1>1, <1>2, SeqSetInduction
<1> QED BY <1>3 DEF T

-----------------------------------------------------------------------------
(* Lists of messages and of events.                                        *)

\* The first element and the others.
LEMMA HeadAndTail ==
  ASSUME NEW S, NEW s \in Seq(S), s # <<>>
  PROVE  /\ Head(s) \in S /\ Tail(s) \in Seq(S) /\ <<Head(s)>> \in Seq(S)
         /\ s = <<Head(s)>> \o Tail(s)
         /\ Len(s) \in Nat \ {0} /\ Len(Tail(s)) = Len(s) - 1 /\ Head(s) = s[1]
         /\ \A i \in 1..Len(Tail(s)) : Tail(s)[i] = s[i + 1]
  OBVIOUS

LEMMA ConcatTyped ==
  ASSUME NEW S, NEW s \in Seq(S), NEW t \in Seq(S)
  PROVE  /\ s \o t \in Seq(S) /\ Len(s) \in Nat /\ Len(t) \in Nat
         /\ Len(s \o t) = Len(s) + Len(t)
         /\ \A i \in 1..Len(s) : (s \o t)[i] = s[i]
         /\ \A i \in 1..Len(t) : (s \o t)[i + Len(s)] = t[i]
         /\ \A i \in 1..(Len(s) + Len(t)) : i > Len(s) => (s \o t)[i] = t[i - Len(s)]
  OBVIOUS

Successes == {m \in Messages : ~Failed(m)}
UserMessages == {m \in Messages : m.role = "user"}
NoSummaries == {m \in Messages : m.role # "compaction"}
Ends == {e \in Events : e.type = "end"}

LEMMA SentIs == ASSUME NEW ms \in Seq(Messages) PROVE Sent(ms) = Selected(ms, Successes)
<1>1. \A m \in ToSet(ms) : m \in {x \in ToSet(ms) : ~Failed(x)} <=> m \in Successes
  BY Elements DEF Successes
<1> QED
  BY <1>1, SelectedSame DEF Sent

LEMMA UsersIs == ASSUME NEW ms \in Seq(Messages) PROVE Users(ms) = Selected(ms, UserMessages)
<1>1. \A m \in ToSet(ms) : m \in {x \in ToSet(ms) : x.role = "user"} <=> m \in UserMessages
  BY Elements DEF UserMessages
<1> QED
  BY <1>1, SelectedSame DEF Users

LEMMA ToldIs == ASSUME NEW ms \in Seq(Messages) PROVE Told(ms) = Selected(ms, NoSummaries)
<1>1. \A m \in ToSet(ms) : m \in {x \in ToSet(ms) : x.role # "compaction"} <=> m \in NoSummaries
  BY Elements DEF NoSummaries
<1> QED
  BY <1>1, SelectedSame DEF Told

\* What the events of the ends of messages say.
MessagesOf(events) == [i \in 1..Len(events) |-> events[i].msg]
EndedIn(events) == MessagesOf(Selected(events, Ends))

LEMMA EndedMessagesIs == session.events \in Seq(Events) => EndedMessages = EndedIn(session.events)
<1> SUFFICES ASSUME session.events \in Seq(Events) PROVE EndedMessages = EndedIn(session.events)
  OBVIOUS
<1>1. \A e \in ToSet(session.events) :
        e \in {x \in ToSet(session.events) : x.type = "end"} <=> e \in Ends
  BY Elements DEF Ends
<1>2. Selected(session.events, {x \in ToSet(session.events) : x.type = "end"}) = Selected(session.events, Ends)
  BY <1>1, SelectedSame
<1> QED
  BY <1>2 DEF EndedMessages, EndedIn, MessagesOf

LEMMA MessagesOfType ==
  ASSUME NEW events \in Seq(Events)
  PROVE  /\ MessagesOf(events) \in Seq(Messages)
         /\ Len(MessagesOf(events)) = Len(events)
         /\ \A i \in 1..Len(events) : MessagesOf(events)[i] = events[i].msg
<1>1. Len(events) \in Nat /\ \A i \in 1..Len(events) : events[i].msg \in Messages
  <2>1. \A i \in 1..Len(events) : events[i] \in Events
    OBVIOUS
  <2> QED
    BY <2>1 DEF Events
<1>2. MessagesOf(events) \in [1..Len(events) -> Messages]
  BY <1>1 DEF MessagesOf
<1> QED
  BY <1>1, <1>2 DEF MessagesOf

LEMMA MessagesOfConcat ==
  ASSUME NEW s \in Seq(Events), NEW t \in Seq(Events)
  PROVE  MessagesOf(s \o t) = MessagesOf(s) \o MessagesOf(t)
<1> DEFINE st == s \o t
           u == MessagesOf(st)
           a == MessagesOf(s)
           b == MessagesOf(t)
<1>1. /\ st \in Seq(Events) /\ Len(st) = Len(s) + Len(t) /\ Len(s) \in Nat /\ Len(t) \in Nat
      /\ \A i \in 1..Len(s) : st[i] = s[i]
      /\ \A i \in 1..(Len(s) + Len(t)) : i > Len(s) => st[i] = t[i - Len(s)]
  BY ConcatTyped
<1> HIDE DEF st
<1>2. u \in Seq(Messages) /\ Len(u) = Len(s) + Len(t) /\ \A i \in 1..Len(st) : u[i] = st[i].msg
  BY <1>1, MessagesOfType
<1>3. /\ a \in Seq(Messages) /\ Len(a) = Len(s) /\ \A i \in 1..Len(s) : a[i] = s[i].msg
      /\ b \in Seq(Messages) /\ Len(b) = Len(t) /\ \A i \in 1..Len(t) : b[i] = t[i].msg
  BY MessagesOfType
<1> HIDE DEF u, a, b
<1> DEFINE v == a \o b
<1>4. /\ v \in Seq(Messages) /\ Len(v) = Len(s) + Len(t)
      /\ \A i \in 1..Len(s) : v[i] = a[i]
      /\ \A i \in 1..(Len(s) + Len(t)) : i > Len(s) => v[i] = b[i - Len(s)]
  <2>1. /\ v \in Seq(Messages) /\ Len(v) = Len(a) + Len(b)
        /\ \A i \in 1..Len(a) : v[i] = a[i]
        /\ \A i \in 1..(Len(a) + Len(b)) : i > Len(a) => v[i] = b[i - Len(a)]
    <3>1. a \in Seq(Messages) /\ b \in Seq(Messages)
      BY <1>3
    <3> QED
      BY <3>1, ConcatTyped
  <2> HIDE DEF v
  <2> QED
    BY <1>3, <2>1
<1> HIDE DEF v
<1>5. ASSUME NEW i \in 1..(Len(s) + Len(t)) PROVE u[i] = v[i]
  <2>1. CASE i \in 1..Len(s)
    BY <1>1, <1>2, <1>3, <1>4, <2>1
  <2>2. CASE i > Len(s)
    <3>1. i - Len(s) \in 1..Len(t)
      BY <1>1, <2>2
    <3> QED
      BY <1>1, <1>2, <1>3, <1>4, <2>2, <3>1
  <2>3. i \in 1..Len(s) \/ i > Len(s)
    BY <1>1
  <2> QED
    BY <2>1, <2>2, <2>3
<1>6. u = v
  BY <1>2, <1>4, <1>5, SeqEqual
<1> QED
  BY <1>6 DEF u, v, st, a, b

LEMMA EndedType == \A events \in Seq(Events) : EndedIn(events) \in Seq(Messages)
  BY SelectedIsSeq, MessagesOfType DEF EndedIn

LEMMA EndedConcat ==
  ASSUME NEW s \in Seq(Events), NEW t \in Seq(Events)
  PROVE  EndedIn(s \o t) = EndedIn(s) \o EndedIn(t)
<1>1. Selected(s \o t, Ends) = Selected(s, Ends) \o Selected(t, Ends)
  BY SelectedConcat
<1>2. Selected(s, Ends) \in Seq(Events) /\ Selected(t, Ends) \in Seq(Events)
  BY SelectedIsSeq
<1> QED
  BY <1>1, <1>2, MessagesOfConcat DEF EndedIn

LEMMA EndedNone ==
  ASSUME NEW s \in Seq(Events), \A i \in 1..Len(s) : s[i].type # "end"
  PROVE  EndedIn(s) = <<>>
<1>1. ToSet(s) \cap Ends = {}
  BY Elements DEF Ends
<1>2. Selected(s, Ends) = <<>>
  BY <1>1, SelectedNone
<1>3. MessagesOf(<<>>) = <<>>
  BY DEF MessagesOf
<1> QED
  BY <1>2, <1>3 DEF EndedIn

LEMMA EndedOne ==
  ASSUME NEW e \in Events
  PROVE  EndedIn(<<e>>) = IF e.type = "end" THEN <<e.msg>> ELSE <<>>
<1>1. CASE e.type = "end"
  <2>1. Selected(<<e>>, Ends) = <<e>>
    BY <1>1, SelectedOne DEF Ends
  <2>2. MessagesOf(<<e>>) = <<e.msg>>
    BY DEF MessagesOf
  <2> QED
    BY <1>1, <2>1, <2>2 DEF EndedIn
<1>2. CASE e.type # "end"
  <2>1. <<e>> \in Seq(Events) /\ \A i \in 1..Len(<<e>>) : <<e>>[i] = e
    OBVIOUS
  <2> QED
    BY <1>2, <2>1, EndedNone
<1> QED
  BY <1>1, <1>2

LEMMA EndedTail ==
  ASSUME NEW s \in Seq(Events), s # <<>>
  PROVE  EndedIn(s) = (IF Head(s).type = "end" THEN <<Head(s).msg>> ELSE <<>>) \o EndedIn(Tail(s))
<1>1. Head(s) \in Events /\ Tail(s) \in Seq(Events) /\ <<Head(s)>> \in Seq(Events)
      /\ s = <<Head(s)>> \o Tail(s)
  BY HeadAndTail
<1> DEFINE e == Head(s)
           r == Tail(s)
<1> HIDE DEF e, r
<1>2. EndedIn(<<e>> \o r) = EndedIn(<<e>>) \o EndedIn(r)
  BY <1>1, EndedConcat DEF e, r
<1>3. EndedIn(<<e>>) = IF e.type = "end" THEN <<e.msg>> ELSE <<>>
  BY <1>1, EndedOne DEF e
<1> QED
  BY <1>1, <1>2, <1>3 DEF e, r

LEMMA EndedElements ==
  ASSUME NEW s \in Seq(Events)
  PROVE  ToSet(EndedIn(s)) = {e.msg : e \in {x \in ToSet(s) : x.type = "end"}}
<1> DEFINE v == Selected(s, Ends)
<1>1. v \in Seq(Events) /\ ToSet(v) = ToSet(s) \cap Ends
  BY SelectedIsSeq, ElementsSelected
<1>2. ToSet(s) \cap Ends = {x \in ToSet(s) : x.type = "end"}
  BY Elements DEF Ends
<1>3. /\ MessagesOf(v) \in Seq(Messages) /\ Len(MessagesOf(v)) = Len(v)
      /\ \A i \in 1..Len(v) : MessagesOf(v)[i] = v[i].msg
  BY <1>1, MessagesOfType
<1> HIDE DEF v
<1>4. ASSUME NEW m PROVE m \in ToSet(MessagesOf(v)) <=> \E e \in ToSet(v) : m = e.msg
  <2>1. m \in ToSet(MessagesOf(v)) <=> \E i \in 1..Len(v) : m = v[i].msg
    BY <1>3, Elements
  <2>2. \A e : e \in ToSet(v) <=> \E i \in 1..Len(v) : e = v[i]
    BY <1>1, Elements
  <2> QED
    BY <2>1, <2>2
<1>5. ToSet(MessagesOf(v)) = {e.msg : e \in ToSet(v)}
  BY <1>4
<1> QED
  BY <1>1, <1>2, <1>5 DEF EndedIn, v

\* What is said is started and ended, one message after the other.
LEMMA EndedSpoken == \A ms \in Seq(Said) : EndedIn(Spoken(ms)) = ms
<1> DEFINE T == {ms \in Seq(Said) : EndedIn(Spoken(ms)) = ms}
<1>1. <<>> \in T
  <2> DEFINE none == <<>>
  <2>1. none \in Seq(Said) /\ Len(none) = 0
    OBVIOUS
  <2>4. none = <<>>
    OBVIOUS
  <2> HIDE DEF none
  <2>2. Spoken(none) \in Seq(Events) /\ Len(Spoken(none)) = 0
    <3>1. Spoken(none) \in Seq(Events) /\ Len(Spoken(none)) = 2 * Len(none)
      BY <2>1, SpokenType
    <3> QED
      BY <2>1, <3>1
  <2>3. EndedIn(Spoken(none)) = <<>>
    <3>1. \A i \in 1..Len(Spoken(none)) : Spoken(none)[i].type # "end"
      BY <2>2
    <3> QED
      BY <2>2, <3>1, EndedNone
  <2> QED
    BY <2>1, <2>3, <2>4
<1>2. \A ms \in Seq(Said), m \in Said : ms \in T => Append(ms, m) \in T
  <2> SUFFICES ASSUME NEW ms \in Seq(Said), NEW m \in Said, ms \in T PROVE Append(ms, m) \in T
    OBVIOUS
  <2> DEFINE r == Append(ms, m)
             n == Len(ms)
             s == Event("start", m)
             e == Event("end", m)
             u == Spoken(r)
             w == Spoken(ms) \o <<s, e>>
  <2>1. /\ r \in Seq(Said) /\ Len(r) = n + 1 /\ n \in Nat /\ r[n + 1] = m
        /\ \A i \in 1..n : r[i] = ms[i]
    BY AppendProperties, LenProperties
  <2>2. s \in Events /\ e \in Events /\ s.type = "start" /\ e.type = "end" /\ e.msg = m
    BY SaidTypes DEF Event, Events
  <2>3. <<s, e>> \in Seq(Events) /\ <<s>> \in Seq(Events) /\ <<e>> \in Seq(Events) /\ <<s, e>> = <<s>> \o <<e>>
    BY <2>2
  <2>4. /\ Spoken(ms) \in Seq(Events) /\ Len(Spoken(ms)) = 2 * n
        /\ u \in Seq(Events) /\ Len(u) = 2 * (n + 1)
    BY <2>1, SpokenType
  <2>5. /\ w \in Seq(Events) /\ Len(w) = 2 * n + 2
        /\ \A i \in 1..(2 * n) : w[i] = Spoken(ms)[i]
        /\ w[2 * n + 1] = s /\ w[2 * n + 2] = e
    <3> DEFINE p == Spoken(ms)
               q == <<s, e>>
    <3>1. p \in Seq(Events) /\ q \in Seq(Events) /\ Len(p) = 2 * n /\ Len(q) = 2 /\ q[1] = s /\ q[2] = e
      BY <2>3, <2>4
    <3> HIDE DEF p, q, s, e
    <3>2. /\ p \o q \in Seq(Events) /\ Len(p \o q) = 2 * n + 2
          /\ \A i \in 1..(2 * n) : (p \o q)[i] = p[i]
          /\ \A i \in 1..2 : (p \o q)[i + 2 * n] = q[i]
      <4>1. p \in Seq(Events) /\ q \in Seq(Events)
        BY <3>1
      <4>2. /\ p \o q \in Seq(Events) /\ Len(p \o q) = Len(p) + Len(q)
            /\ \A i \in 1..Len(p) : (p \o q)[i] = p[i]
            /\ \A i \in 1..Len(q) : (p \o q)[i + Len(p)] = q[i]
        BY <4>1, ConcatTyped
      <4> QED
        BY <3>1, <4>2
    <3> QED
      BY <2>1, <3>1, <3>2 DEF p, q
  <2>6. ASSUME NEW i \in 1..(2 * n + 2) PROVE u[i] = w[i]
    <3>1. u[i] = Event(IF i % 2 = 1 THEN "start" ELSE "end", r[(i + 1) \div 2])
      BY <2>1 DEF Spoken
    <3>2. CASE i \in 1..(2 * n)
      <4>1. Spoken(ms)[i] = Event(IF i % 2 = 1 THEN "start" ELSE "end", ms[(i + 1) \div 2])
        BY <3>2 DEF Spoken
      <4>2. (i + 1) \div 2 \in 1..n
        BY <2>1, <3>2
      <4> HIDE DEF u, w, r
      <4> QED
        BY <2>1, <2>5, <3>1, <3>2, <4>1, <4>2
    <3>3. CASE i = 2 * n + 1
      <4>1. i % 2 = 1 /\ (i + 1) \div 2 = n + 1
        BY <2>1, <3>3
      <4> HIDE DEF u, w, r
      <4> QED
        BY <2>1, <2>5, <3>1, <3>3, <4>1
    <3>4. CASE i = 2 * n + 2
      <4>1. i % 2 # 1 /\ (i + 1) \div 2 = n + 1
        BY <2>1, <3>4
      <4> HIDE DEF u, w, r
      <4> QED
        BY <2>1, <2>5, <3>1, <3>4, <4>1
    <3>5. i \in 1..(2 * n) \/ i = 2 * n + 1 \/ i = 2 * n + 2
      BY <2>1
    <3> HIDE DEF u, w, r, n, s, e
    <3> QED
      BY <3>2, <3>3, <3>4, <3>5
  <2>7. u = w
    <3>1. 2 * (n + 1) = 2 * n + 2
      BY <2>1
    <3>2. u \in Seq(Events) /\ w \in Seq(Events) /\ Len(u) = Len(w) /\ Len(u) = 2 * n + 2
      BY <2>4, <2>5, <3>1
    <3> HIDE DEF u, w, n
    <3>3. \A i \in 1..Len(u) : u[i] = w[i]
      BY <2>6, <3>2
    <3> QED
      BY <3>2, <3>3, SeqEqual
  <2>8. EndedIn(w) = EndedIn(Spoken(ms)) \o EndedIn(<<s, e>>)
    BY <2>3, <2>4, EndedConcat
  <2>9. EndedIn(<<s, e>>) = <<m>>
    <3>1. EndedIn(<<s>> \o <<e>>) = EndedIn(<<s>>) \o EndedIn(<<e>>)
      BY <2>3, EndedConcat
    <3>2. EndedIn(<<s>>) = <<>> /\ EndedIn(<<e>>) = <<m>>
      BY <2>2, EndedOne
    <3>3. <<>> \o <<m>> = <<m>>
      OBVIOUS
    <3> HIDE DEF s, e
    <3> QED
      BY <2>3, <3>1, <3>2, <3>3
  <2>10. EndedIn(u) = ms \o <<m>>
    BY <2>7, <2>8, <2>9
  <2> HIDE DEF u
  <2>11. ms \o <<m>> = r
    BY AppendIsConcat
  <2> QED
    BY <2>1, <2>10, <2>11 DEF u
<1> HIDE DEF T
<1>3. \A ms \in Seq(Said) : ms \in T
  BY <1>1, <1>2, SeqSetInduction
<1> QED
  BY <1>3 DEF T

\* The messages that are started.
StartsIn(events) == {e.msg : e \in {x \in ToSet(events) : x.type = "start"}}

LEMMA StartingIs == Starting = StartsIn(session.events)
  BY DEF Starting, StartsIn

LEMMA StartsConcat ==
  ASSUME NEW s \in Seq(Events), NEW t \in Seq(Events)
  PROVE  StartsIn(s \o t) = StartsIn(s) \cup StartsIn(t)
<1>1. ToSet(s \o t) = ToSet(s) \cup ToSet(t)
  BY ElementsOfConcat
<1> QED
  BY <1>1 DEF StartsIn

LEMMA StartsOne == \A e : StartsIn(<<e>>) = IF e.type = "start" THEN {e.msg} ELSE {}
  BY ElementsOfOne DEF StartsIn

LEMMA StartsNone == StartsIn(<<>>) = {}
  BY ElementsOfNone DEF StartsIn

LEMMA StartsSpoken ==
  ASSUME NEW ms \in Seq(Said)
  PROVE  StartsIn(Spoken(ms)) = ToSet(ms)
<1>1. /\ Spoken(ms) \in Seq(Events) /\ Len(Spoken(ms)) = 2 * Len(ms) /\ Len(ms) \in Nat
      /\ \A i \in 1..Len(Spoken(ms)) : \E j \in 1..Len(ms) : Spoken(ms)[i].msg = ms[j]
  BY SpokenType
<1>2. ASSUME NEW m \in StartsIn(Spoken(ms)) PROVE m \in ToSet(ms)
  <2>1. PICK e \in ToSet(Spoken(ms)) : m = e.msg
    BY DEF StartsIn
  <2>2. PICK i \in 1..Len(Spoken(ms)) : e = Spoken(ms)[i]
    BY <1>1, Elements
  <2>3. PICK j \in 1..Len(ms) : Spoken(ms)[i].msg = ms[j]
    BY <1>1
  <2> QED
    BY <2>1, <2>2, <2>3, Elements
<1>3. ASSUME NEW m \in ToSet(ms) PROVE m \in StartsIn(Spoken(ms))
  <2>1. PICK j \in 1..Len(ms) : m = ms[j]
    BY Elements
  <2> DEFINE i == 2 * j - 1
  <2>2. i \in 1..(2 * Len(ms)) /\ i % 2 = 1 /\ (i + 1) \div 2 = j
    BY <1>1
  <2>3. Spoken(ms)[i] = Event("start", m)
    BY <2>1, <2>2 DEF Spoken
  <2> HIDE DEF i
  <2>4. Spoken(ms)[i] \in ToSet(Spoken(ms))
    BY <1>1, <2>2, Elements
  <2> QED
    BY <2>3, <2>4 DEF StartsIn, Event
<1> QED
  BY <1>2, <1>3

-----------------------------------------------------------------------------
(* The context.                                                            *)

\* Numbers up to a bound have a greatest and a least.
LEMMA GreatestIs ==
  ASSUME NEW n \in Nat, NEW I \in SUBSET (1..n), I # {}
  PROVE  Max(I) \in I /\ \A y \in I : Max(I) >= y
<1> DEFINE T == {k \in Nat : \A J \in SUBSET (1..k) : J # {} => \E x \in J : \A y \in J : x >= y}
<1>1. 0 \in T
  <2>1. 1..0 = {}
    OBVIOUS
  <2> QED
    BY <2>1
<1>2. \A k \in Nat : k \in T => k + 1 \in T
  <2> SUFFICES ASSUME NEW k \in Nat, k \in T PROVE k + 1 \in T
    OBVIOUS
  <2> SUFFICES ASSUME NEW J \in SUBSET (1..(k + 1)), J # {}
               PROVE  \E x \in J : \A y \in J : x >= y
    OBVIOUS
  <2>1. CASE k + 1 \in J
    BY <2>1
  <2>2. CASE k + 1 \notin J
    <3>1. J \in SUBSET (1..k)
      BY <2>2
    <3> QED
      BY <3>1
  <2> QED
    BY <2>1, <2>2
<1> HIDE DEF T
<1>3. n \in T
  BY <1>1, <1>2, NatSetInduction
<1>4. \E x \in I : \A y \in I : x >= y
  BY <1>3 DEF T
<1> QED
  BY <1>4 DEF Max

LEMMA LeastIs ==
  ASSUME NEW n \in Nat, NEW I \in SUBSET (1..n), I # {}
  PROVE  Min(I) \in I /\ \A y \in I : Min(I) <= y
<1> DEFINE T == {k \in Nat : \A J \in SUBSET (1..k) : J # {} => \E x \in J : \A y \in J : x <= y}
<1>1. 0 \in T
  <2>1. 1..0 = {}
    OBVIOUS
  <2> QED
    BY <2>1
<1>2. \A k \in Nat : k \in T => k + 1 \in T
  <2> SUFFICES ASSUME NEW k \in Nat, k \in T PROVE k + 1 \in T
    OBVIOUS
  <2> SUFFICES ASSUME NEW J \in SUBSET (1..(k + 1)), J # {}
               PROVE  \E x \in J : \A y \in J : x <= y
    OBVIOUS
  <2>1. CASE J \cap (1..k) = {}
    BY <2>1
  <2>2. CASE J \cap (1..k) # {}
    <3>1. PICK x \in J \cap (1..k) : \A y \in J \cap (1..k) : x <= y
      BY <2>2
    <3>2. \A y \in J : x <= y
      BY <3>1
    <3> QED
      BY <3>1, <3>2
  <2> QED
    BY <2>1, <2>2
<1> HIDE DEF T
<1>3. n \in T
  BY <1>1, <1>2, NatSetInduction
<1>4. \E x \in I : \A y \in I : x <= y
  BY <1>3 DEF T
<1> QED
  BY <1>4 DEF Min

\* The place of the latest compaction.
LEMMA LatestIs ==
  ASSUME NEW s \in Seq(Messages)
  PROVE  /\ LatestCompaction(s) \in 0..Len(s)
         /\ LatestCompaction(s) # 0 => s[LatestCompaction(s)].role = "compaction"
         /\ \A i \in 1..Len(s) : s[i].role = "compaction" => i <= LatestCompaction(s)
<1> DEFINE I == {i \in 1..Len(s) : s[i].role = "compaction"}
           c == LatestCompaction(s)
<1>0. Len(s) \in Nat /\ I \in SUBSET (1..Len(s))
  OBVIOUS
<1>1. c = IF I # {} THEN Max(I) ELSE 0
  BY DEF LatestCompaction, SelectLastInSeq
<1>2. \A i : i \in I <=> i \in 1..Len(s) /\ s[i].role = "compaction"
  OBVIOUS
<1> HIDE DEF I, c
<1>3. CASE I = {}
  BY <1>0, <1>1, <1>2, <1>3 DEF c
<1>4. CASE I # {}
  <2>1. Max(I) \in I /\ \A y \in I : Max(I) >= y
    BY <1>0, <1>4, GreatestIs
  <2>2. c = Max(I)
    BY <1>1, <1>4
  <2> QED
    BY <1>0, <1>2, <2>1, <2>2 DEF c
<1> QED
  BY <1>3, <1>4

\* It is the only number of which that holds.
LEMMA LatestIsOnly ==
  ASSUME NEW s \in Seq(Messages), NEW c \in 0..Len(s),
         c # 0 => s[c].role = "compaction",
         \A i \in 1..Len(s) : s[i].role = "compaction" => i <= c
  PROVE  LatestCompaction(s) = c
<1> DEFINE d == LatestCompaction(s)
<1>1. /\ d \in 0..Len(s)
      /\ d # 0 => s[d].role = "compaction"
      /\ \A i \in 1..Len(s) : s[i].role = "compaction" => i <= d
  BY LatestIs
<1>2. Len(s) \in Nat
  OBVIOUS
<1> HIDE DEF d
<1>3. d <= c
  BY <1>1, <1>2
<1>4. c <= d
  BY <1>1, <1>2
<1>5. d = c
  BY <1>1, <1>2, <1>3, <1>4
<1> QED
  BY <1>5 DEF d

\* The first entry with an id.
FirstWith(s, id) == SelectInSeq(s, LAMBDA e : e.id = id)

LEMMA FirstIs ==
  ASSUME NEW s \in Seq(Messages), NEW id
  PROVE  /\ FirstWith(s, id) \in 0..Len(s)
         /\ FirstWith(s, id) # 0 => s[FirstWith(s, id)].id = id
         /\ \A i \in 1..Len(s) : s[i].id = id => FirstWith(s, id) \in 1..i
<1> DEFINE I == {i \in 1..Len(s) : s[i].id = id}
           c == FirstWith(s, id)
<1>0. Len(s) \in Nat /\ I \in SUBSET (1..Len(s))
  OBVIOUS
<1>1. c = IF I # {} THEN Min(I) ELSE 0
  BY DEF FirstWith, SelectInSeq
<1>2. \A i : i \in I <=> i \in 1..Len(s) /\ s[i].id = id
  OBVIOUS
<1> HIDE DEF I, c
<1>3. CASE I = {}
  BY <1>0, <1>1, <1>2, <1>3 DEF c
<1>4. CASE I # {}
  <2>1. Min(I) \in I /\ \A y \in I : Min(I) <= y
    BY <1>0, <1>4, LeastIs
  <2>2. c = Min(I)
    BY <1>1, <1>4
  <2> QED
    BY <1>0, <1>2, <2>1, <2>2 DEF c
<1> QED
  BY <1>3, <1>4

\* Where the kept part of a context starts.
KeptFrom(s) ==
  LET c == LatestCompaction(s)
      k == FirstWith(s, s[c].ref)
  IN IF k \in 1..(c - 1) THEN k ELSE c + 1

LEMMA ContextIs ==
  ASSUME NEW s \in Seq(Messages)
  PROVE  Context(s) = IF LatestCompaction(s) = 0 THEN s
                      ELSE <<s[LatestCompaction(s)]>> \o Told(SubSeq(s, KeptFrom(s), Len(s)))
<1> DEFINE c == LatestCompaction(s)
           k == SelectInSeq(s, LAMBDA e : e.id = s[c].ref)
<1>1. Context(s) = IF c = 0 THEN s
                   ELSE <<s[c]>> \o Told(SubSeq(s, IF k \in 1..(c - 1) THEN k ELSE c + 1, Len(s)))
  BY DEF Context
<1>2. KeptFrom(s) = IF k \in 1..(c - 1) THEN k ELSE c + 1
  BY DEF KeptFrom, FirstWith
<1> QED
  BY <1>1, <1>2

LEMMA KeptFromIs ==
  ASSUME NEW s \in Seq(Messages), LatestCompaction(s) # 0
  PROVE  KeptFrom(s) \in 1..(Len(s) + 1) /\ LatestCompaction(s) \in 1..Len(s)
<1> DEFINE c == LatestCompaction(s)
           k == FirstWith(s, s[c].ref)
<1>1. c \in 1..Len(s) /\ Len(s) \in Nat
  BY LatestIs
<1>2. KeptFrom(s) = IF k \in 1..(c - 1) THEN k ELSE c + 1
  BY DEF KeptFrom
<1> HIDE DEF c, k
<1> QED
  BY <1>1, <1>2 DEF c

\* What is no compaction goes to the end of the context.
LEMMA ContextGrows ==
  ASSUME NEW s \in Seq(Messages), NEW t \in Seq(Messages),
         \A i \in 1..Len(t) : t[i].role # "compaction"
  PROVE  Context(s \o t) = Context(s) \o t
<1> DEFINE u == s \o t
           c == LatestCompaction(s)
<1>1. /\ u \in Seq(Messages) /\ Len(s) \in Nat /\ Len(t) \in Nat
      /\ Len(u) = Len(s) + Len(t)
      /\ \A i \in 1..Len(s) : u[i] = s[i]
      /\ \A i \in 1..Len(t) : u[i + Len(s)] = t[i]
      /\ \A i \in 1..(Len(s) + Len(t)) : i > Len(s) => u[i] = t[i - Len(s)]
  BY ConcatTyped
<1> HIDE DEF u
<1>2. /\ c \in 0..Len(s)
      /\ c # 0 => s[c].role = "compaction"
      /\ \A i \in 1..Len(s) : s[i].role = "compaction" => i <= c
  BY LatestIs
<1> HIDE DEF c
<1>3. LatestCompaction(u) = c
  <2>1. ASSUME NEW i \in 1..Len(u), u[i].role = "compaction" PROVE i <= c
    <3>1. CASE i \in 1..Len(s)
      BY <1>1, <1>2, <2>1, <3>1
    <3>2. CASE i > Len(s)
      <4>1. i - Len(s) \in 1..Len(t) /\ u[i] = t[i - Len(s)]
        BY <1>1, <3>2
      <4> QED
        BY <2>1, <4>1
    <3> QED
      BY <1>1, <3>1, <3>2
  <2>2. c \in 0..Len(u)
    BY <1>1, <1>2
  <2>3. c # 0 => u[c].role = "compaction"
    BY <1>1, <1>2
  <2> QED
    BY <1>1, <2>1, <2>2, <2>3, LatestIsOnly
<1>4. CASE c = 0
  BY <1>1, <1>3, <1>4, ContextIs DEF c, u
<1>5. CASE c # 0
  <2> DEFINE k == FirstWith(s, s[c].ref)
             l == FirstWith(u, s[c].ref)
             a == KeptFrom(s)
             x == SubSeq(s, a, Len(s))
  <2>1. u[c] = s[c] /\ c \in 1..Len(s)
    BY <1>1, <1>2, <1>5
  <2>2. k \in 1..(c - 1) => l = k
    <3>1. /\ k \in 0..Len(s)
          /\ k # 0 => s[k].id = s[c].ref
          /\ \A i \in 1..Len(s) : s[i].id = s[c].ref => k \in 1..i
      BY FirstIs
    <3>2. /\ l \in 0..Len(u)
          /\ l # 0 => u[l].id = s[c].ref
          /\ \A i \in 1..Len(u) : u[i].id = s[c].ref => l \in 1..i
      BY <1>1, FirstIs
    <3> HIDE DEF k, l
    <3> SUFFICES ASSUME k \in 1..(c - 1) PROVE l = k
      OBVIOUS
    <3>3. l \in 1..k
      BY <1>1, <3>1, <3>2
    <3>4. k \in 1..l
      BY <1>1, <3>1, <3>2, <3>3
    <3> QED
      BY <3>3, <3>4
  <2>3. l \in 1..(c - 1) => k \in 1..(c - 1)
    <3>1. \A i \in 1..Len(s) : s[i].id = s[c].ref => k \in 1..i
      BY FirstIs
    <3>2. l # 0 => u[l].id = s[c].ref
      BY <1>1, FirstIs
    <3> HIDE DEF k, l
    <3> SUFFICES ASSUME l \in 1..(c - 1) PROVE k \in 1..(c - 1)
      OBVIOUS
    <3>3. l \in 1..Len(s) /\ s[l].id = s[c].ref
      BY <1>1, <2>1, <3>2
    <3> QED
      BY <1>2, <2>1, <3>1, <3>3
  <2>4. KeptFrom(u) = a
    <3>1. KeptFrom(s) = IF k \in 1..(c - 1) THEN k ELSE c + 1
      BY DEF KeptFrom, c
    <3>2. KeptFrom(u) = IF l \in 1..(c - 1) THEN l ELSE c + 1
      BY <1>3, <2>1 DEF KeptFrom
    <3> QED
      BY <2>2, <2>3, <3>1, <3>2
  <2>5. a \in 1..(Len(s) + 1)
    BY <1>5, KeptFromIs DEF c
  <2> HIDE DEF a, k, l
  <2>6. x \in Seq(Messages) /\ Len(x) = Len(s) + 1 - a /\ \A i \in 1..Len(x) : x[i] = s[a + i - 1]
    BY <1>1, <2>5
  <2> DEFINE y == SubSeq(u, a, Len(u))
  <2>7. y \in Seq(Messages) /\ Len(y) = Len(u) + 1 - a /\ \A i \in 1..Len(y) : y[i] = u[a + i - 1]
    BY <1>1, <2>5
  <2> HIDE DEF x, y
  <2> DEFINE z == x \o t
  <2>8. /\ z \in Seq(Messages) /\ Len(z) = Len(x) + Len(t)
        /\ \A i \in 1..Len(x) : z[i] = x[i]
        /\ \A i \in 1..(Len(x) + Len(t)) : i > Len(x) => z[i] = t[i - Len(x)]
    <3>1. x \in Seq(Messages)
      BY <2>6
    <3> QED
      BY <3>1, ConcatTyped
  <2> HIDE DEF z
  <2>9. Len(y) = Len(z) /\ Len(z) \in Nat /\ Len(x) \in Nat
    BY <1>1, <2>5, <2>6, <2>7, <2>8
  <2>10. ASSUME NEW i \in 1..Len(y) PROVE y[i] = z[i]
    <3>1. CASE i \in 1..Len(x)
      <4>1. a + i - 1 \in 1..Len(s)
        BY <1>1, <2>5, <2>6, <3>1
      <4>2. y[i] = u[a + i - 1] /\ u[a + i - 1] = s[a + i - 1]
        BY <1>1, <2>7, <4>1
      <4>3. z[i] = x[i] /\ x[i] = s[a + i - 1]
        BY <2>6, <2>8, <3>1
      <4> QED
        BY <4>2, <4>3
    <3>2. CASE i > Len(x)
      <4>1. a + i - 1 \in 1..(Len(s) + Len(t)) /\ a + i - 1 > Len(s)
        BY <1>1, <2>5, <2>6, <2>7, <3>2
      <4>2. a + i - 1 - Len(s) = i - Len(x) /\ i \in 1..(Len(x) + Len(t))
        BY <1>1, <2>5, <2>6, <2>8, <2>9, <3>2
      <4>3. y[i] = u[a + i - 1] /\ u[a + i - 1] = t[a + i - 1 - Len(s)]
        <5>1. PICK j : j = a + i - 1
          OBVIOUS
        <5>2. y[i] = u[j]
          BY <2>7, <5>1
        <5>3. j \in 1..(Len(s) + Len(t)) /\ j > Len(s)
          BY <4>1, <5>1
        <5>4. u[j] = t[j - Len(s)]
          BY <1>1, <5>3
        <5> QED
          BY <1>1, <2>5, <2>9, <5>1, <5>2, <5>4
      <4>4. z[i] = t[i - Len(x)]
        BY <2>8, <3>2, <4>2
      <4> QED
        BY <4>2, <4>3, <4>4
    <3> QED
      BY <2>9, <3>1, <3>2
  <2>11. y = z
    BY <2>7, <2>8, <2>9, <2>10, SeqEqual
  <2>12. Told(y) = Told(x) \o t
    <3>1. Told(y) = Selected(x \o t, NoSummaries) /\ Told(x) = Selected(x, NoSummaries)
      BY <2>6, <2>7, <2>11, ToldIs DEF z
    <3>2. Selected(x \o t, NoSummaries) = Selected(x, NoSummaries) \o Selected(t, NoSummaries)
      BY <2>6, SelectedConcat
    <3>3. ToSet(t) \subseteq NoSummaries
      BY Elements DEF NoSummaries
    <3>4. Selected(t, NoSummaries) = t
      BY <3>3, SelectedAll
    <3> QED
      BY <3>1, <3>2, <3>4
  <2>13. Context(s) = <<s[c]>> \o Told(x)
    BY <1>5, ContextIs DEF c, x, a
  <2>14. Context(u) = <<s[c]>> \o Told(y)
    BY <1>1, <1>3, <1>5, <2>1, <2>4, ContextIs DEF y
  <2>15. Told(x) \in Seq(Messages) /\ <<s[c]>> \in Seq(Messages)
    BY <2>1, <2>6, ToldIs, SelectedIsSeq
  <2> DEFINE v == <<s[c]>>
             w == Told(x)
  <2> HIDE DEF v, w
  <2>16. v \o (w \o t) = (v \o w) \o t
    <3>1. v \in Seq(Messages) /\ w \in Seq(Messages) /\ t \in Seq(Messages)
      BY <2>15 DEF v, w
    <3> QED
      BY <3>1, ConcatAssociative
  <2> QED
    BY <2>12, <2>13, <2>14, <2>16 DEF u, v, w
<1> QED
  BY <1>4, <1>5

LEMMA ContextType == \A s \in Seq(Messages) : Context(s) \in Seq(Messages)
<1> TAKE s \in Seq(Messages)
<1> DEFINE c == LatestCompaction(s)
<1>1. CASE c = 0
  BY <1>1, ContextIs
<1>2. CASE c # 0
  <2> DEFINE a == KeptFrom(s)
             x == SubSeq(s, a, Len(s))
  <2>1. a \in 1..(Len(s) + 1) /\ c \in 1..Len(s)
    BY <1>2, KeptFromIs
  <2>2. Context(s) = <<s[c]>> \o Told(x)
    BY <1>2, ContextIs
  <2> HIDE DEF a
  <2>3. x \in Seq(Messages)
    BY <2>1
  <2> HIDE DEF x
  <2>4. Told(x) \in Seq(Messages)
    BY <2>3, ToldIs, SelectedIsSeq
  <2>5. s[c] \in Messages
    BY <2>1
  <2> QED
    BY <2>2, <2>4, <2>5
<1> QED
  BY <1>1, <1>2

-----------------------------------------------------------------------------
(* What the agent says.                                                    *)

LEMMA FirstAndRest ==
  ASSUME NEW S, NEW s \in Seq(S), s # <<>>
  PROVE  SubSeq(s, 1, 1) = <<Head(s)>> /\ SubSeq(s, 2, Len(s)) = Tail(s)
<1>1. Len(s) \in Nat \ {0} /\ s[1] \in S /\ Head(s) = s[1]
  OBVIOUS
<1>2. SubSeq(s, 1, 1) = <<Head(s)>>
  <2> DEFINE u == SubSeq(s, 1, 1)
             w == <<Head(s)>>
  <2>1. u \in Seq(S) /\ Len(u) = 1 /\ u[1] = s[1]
    BY <1>1
  <2>2. w \in Seq(S) /\ Len(w) = 1 /\ w[1] = s[1]
    BY <1>1
  <2> HIDE DEF u, w
  <2>3. u = w
    BY <2>1, <2>2, SeqEqual
  <2> QED
    BY <2>3 DEF u, w
<1>3. SubSeq(s, 2, Len(s)) = Tail(s)
  BY TailIsSubSeq
<1> QED
  BY <1>2, <1>3

\* The agent has taken messages from the front of a queue, or none.
DrawnBy(b, q) ==
  \/ agent.steering = q \o b.steering /\ b.followUp = agent.followUp
  \/ agent.followUp = q \o b.followUp /\ b.steering = agent.steering

LEMMA PolledFacts ==
  ASSUME Types, NEW after \in BOOLEAN, NEW q, q = Polled(after), NEW b, b = Unqueue(agent, q)
  PROVE  /\ q \in Seq(Inputs)
         /\ IsAgent(b) /\ b.steering \in Seq(Inputs) /\ b.followUp \in Seq(Inputs)
         /\ b.messages = agent.messages
         /\ DrawnBy(b, q)
         /\ q = <<>> => b = agent
         /\ q # <<>> /\ agent.steering = <<>> => b.steering = <<>>
<1>1. /\ agent.steering \in Seq(Inputs) /\ agent.followUp \in Seq(Inputs) /\ IsAgent(agent)
  BY DEF Types, AgentTypes
<1>2. q \in Seq(Inputs)
  BY QueueTypes
<1>3. q = <<>> \/ agent.steering # <<>> \/ agent.followUp # <<>>
  BY DEF Polled
<1>4. /\ IsAgent(b) /\ b.steering \in Seq(Inputs) /\ b.followUp \in Seq(Inputs)
      /\ b.messages = agent.messages
  BY <1>3, UnqueueType DEF Types
<1>5. CASE q = <<>>
  <2>1. b = agent
    BY <1>5 DEF Unqueue
  <2>2. agent.steering = <<>> \o agent.steering
    BY <1>1
  <2> QED
    BY <1>2, <1>4, <1>5, <2>1, <2>2 DEF DrawnBy
<1>6. CASE q # <<>> /\ agent.steering # <<>>
  <2>1. q = <<Head(agent.steering)>>
    BY <1>6 DEF Polled
  <2>2. b = [agent EXCEPT !.steering = Tail(@)]
    BY <1>6 DEF Unqueue
  <2>3. b.steering = Tail(agent.steering) /\ b.followUp = agent.followUp
    BY <1>1, <2>2 DEF IsAgent
  <2>4. agent.steering = <<Head(agent.steering)>> \o Tail(agent.steering)
    BY <1>1, <1>6, HeadAndTail
  <2> QED
    BY <1>2, <1>4, <1>6, <2>1, <2>3, <2>4 DEF DrawnBy
<1>7. CASE q # <<>> /\ agent.steering = <<>>
  <2>1. q = <<Head(agent.followUp)>> /\ agent.followUp # <<>>
    BY <1>7 DEF Polled
  <2>2. b = [agent EXCEPT !.followUp = Tail(@)]
    BY <1>7 DEF Unqueue
  <2>3. b.steering = agent.steering /\ b.followUp = Tail(agent.followUp)
    BY <1>1, <2>2 DEF IsAgent
  <2>4. agent.followUp = <<Head(agent.followUp)>> \o Tail(agent.followUp)
    BY <1>1, <2>1, HeadAndTail
  <2> QED
    BY <1>2, <1>4, <1>7, <2>1, <2>3, <2>4 DEF DrawnBy
<1> QED
  BY <1>5, <1>6, <1>7

\* What is emitted changes the events and the promise of a retry.
Hears(new) ==
  /\ session'.events = (IF session.connected THEN session.events \o new ELSE session.events)
  /\ session'.connected = session.connected
  /\ session'.handler = session.handler
  /\ session'.pendingBash = session.pendingBash
  /\ session'.nextTurn = session.nextTurn
  /\ session'.steering = session.steering
  /\ session'.followUp = session.followUp

LEMMA EmittedHeard ==
  ASSUME Inv, NEW new, session' = Emitted(session, new)
  PROVE  Hears(new)
<1>1. IsSession(session)
  BY DEF Inv, Types, SessionTypes
<1>2. CASE session.connected
  <2> DEFINE p == session.promise \/ \E e \in ToSet(new) : e.type = "agent_end" /\ Retryable(e.msg)
             l == session.events \o new
  <2>1. Emitted(session, new) = [session EXCEPT !.events = l, !.promise = p]
    BY <1>2 DEF Emitted
  <2> HIDE DEF p, l
  <2>2. session' = [session EXCEPT !.events = l, !.promise = p]
    BY <2>1
  <2>3. /\ session'.events = l /\ session'.connected = session.connected
        /\ session'.handler = session.handler
        /\ session'.pendingBash = session.pendingBash
        /\ session'.nextTurn = session.nextTurn
        /\ session'.steering = session.steering
        /\ session'.followUp = session.followUp
    BY <1>1, <2>2 DEF IsSession
  <2> QED
    BY <1>2, <2>3 DEF l, Hears
<1>3. CASE ~session.connected
  BY <1>3 DEF Emitted, Hears
<1> QED
  BY <1>2, <1>3

\* The agent says `ms`, of which `q` was queued, and emits `new`.
Says(ms, q, new) ==
  /\ ms \in Seq(NoSummaries) /\ q \in Seq(Inputs) /\ new \in Seq(Events)
  /\ agent'.messages = agent.messages \o ms
  /\ DrawnBy(agent', q) /\ ToSet(q) \subseteq ToSet(ms)
  /\ agent'.steering \in Seq(Inputs) /\ agent'.followUp \in Seq(Inputs)
  /\ Hears(new)
  /\ Sent(EndedIn(new)) = Sent(ms)
  /\ StartsIn(new) \subseteq ToSet(ms)
  /\ \A i \in 1..Len(new) : new[i].msg \in ToSet(ms)
  /\ \A m \in ToSet(ms) : m.role = "user" =>
       /\ m \in StartsIn(new)
       /\ m \in ToSet(q) \/ \E p \in Prompts : m \in ToSet(calls[p].msgs)
  /\ missed \ {"overlap"} \subseteq missed' /\ Unseen(new) \subseteq missed'
  /\ UNCHANGED <<stored, current, jobs, command>>

LEMMA SaidIsPlain == Said \subseteq NoSummaries
  BY DEF Said, NoSummaries, Messages, Roles, Kinds

\* What is said between two answers is started and ended.
LEMMA SpokenFacts ==
  ASSUME NEW ms \in Seq(Said)
  PROVE  /\ ms \in Seq(NoSummaries) /\ Spoken(ms) \in Seq(Events)
         /\ EndedIn(Spoken(ms)) = ms /\ StartsIn(Spoken(ms)) = ToSet(ms)
         /\ \A i \in 1..Len(Spoken(ms)) : Spoken(ms)[i].msg \in ToSet(ms)
<1>1. ms \in Seq(NoSummaries)
  BY SaidIsPlain, SeqMonotonic
<1>2. \A i \in 1..Len(Spoken(ms)) : \E j \in 1..Len(ms) : Spoken(ms)[i].msg = ms[j]
  BY SpokenType
<1>3. \A i \in 1..Len(Spoken(ms)) : Spoken(ms)[i].msg \in ToSet(ms)
  BY <1>2, Elements
<1> QED
  BY <1>1, <1>3, SpokenType, EndedSpoken, StartsSpoken

LEMMA ToolsSay == ASSUME Inv, ToolsDone PROVE
  /\ agent'.phase = "llm" /\ agent'.asked = clock + 1 /\ agent'.call = 0
  /\ \E q \in Seq(Inputs) :
       Says(<<ToolResult(clock, agent.call)>> \o q, q, Spoken(<<ToolResult(clock, agent.call)>> \o q))
<1> DEFINE q == Polled(TRUE)
           m == ToolResult(clock, agent.call)
           said == <<m>> \o q
           new == Spoken(said)
           b == Unqueue(agent, q)
<1>1. /\ agent' = [b EXCEPT !.messages = @ \o said, !.phase = "llm", !.asked = clock + 1, !.call = 0]
      /\ session' = Emitted(session, new)
      /\ missed' = missed \cup Unseen(new)
      /\ UNCHANGED <<stored, current, jobs, command, calls>>
  BY DEF ToolsDone
<1>2. /\ q \in Seq(Inputs)
      /\ IsAgent(b) /\ b.steering \in Seq(Inputs) /\ b.followUp \in Seq(Inputs)
      /\ b.messages = agent.messages
      /\ DrawnBy(b, q)
  BY PolledFacts DEF Inv
<1> HIDE DEF q, b
<1>3. m \in Said /\ q \in Seq(Said)
  BY <1>2, SaidTypes, SeqMonotonic DEF Inv, Types, AgentTypes
<1>9. m.role = "toolResult"
  BY DEF ToolResult, Message
<1> HIDE DEF m
<1>4. said \in Seq(Said) /\ ToSet(said) = {m} \cup ToSet(q)
  <2>1. <<m>> \in Seq(Said)
    BY <1>3
  <2>2. <<m>> \o q \in Seq(Said)
    BY <1>3, <2>1, ConcatTyped
  <2>3. ToSet(<<m>> \o q) = ToSet(<<m>>) \cup ToSet(q)
    BY <1>3, <2>1, ElementsOfConcat
  <2> QED
    BY <2>2, <2>3, ElementsOfOne
<1> HIDE DEF said
<1>5. /\ agent'.messages = agent.messages \o said
      /\ agent'.phase = "llm" /\ agent'.asked = clock + 1 /\ agent'.call = 0
      /\ agent'.steering = b.steering /\ agent'.followUp = b.followUp
  BY <1>1, <1>2 DEF IsAgent
<1>6. DrawnBy(agent', q)
  BY <1>2, <1>5 DEF DrawnBy
<1>7. Hears(new)
  BY <1>1, EmittedHeard
<1>8. /\ said \in Seq(NoSummaries) /\ new \in Seq(Events)
      /\ EndedIn(new) = said /\ StartsIn(new) = ToSet(said)
      /\ \A i \in 1..Len(new) : new[i].msg \in ToSet(said)
  BY <1>4, SpokenFacts
<1> HIDE DEF new
<1>10. Says(said, q, new)
  BY <1>1, <1>2, <1>4, <1>5, <1>6, <1>7, <1>8, <1>9 DEF Says
<1> QED
  BY <1>2, <1>5, <1>10 DEF said, m, new

LEMMA RunSays ==
  ASSUME Inv, NEW prompts \in Seq(Inputs), NEW skipPoll, NEW a, NEW known, NEW d \in Seq(Inputs),
         IsAgent(a), a.steering \in Seq(Inputs), a.followUp \in Seq(Inputs),
         a.messages = agent.messages, missed \ {"overlap"} \subseteq known,
         StartRun(prompts, skipPoll, a, known),
         DrawnBy(a, d), d = <<>> \/ skipPoll \/ a.steering = <<>>,
         d # <<>> => prompts = d,
         \A m \in ToSet(prompts) : m.role = "user" =>
           m \in ToSet(d) \/ \E p \in Prompts : m \in ToSet(calls[p].msgs),
         UNCHANGED <<stored, current, jobs, command>>
  PROVE  /\ agent'.phase = "llm" /\ agent'.asked = clock /\ agent'.call = 0 /\ clock' = clock + 1
         /\ \E ms \in Seq(Inputs), q \in Seq(Inputs) : Says(ms, q, Spoken(ms))
<1> DEFINE opened == Opened(a, prompts, skipPoll)
           k == IF skipPoll \/ a.steering = <<>> THEN 0 ELSE 1
           taken == SubSeq(a.steering, 1, k)
           left == SubSeq(a.steering, k + 1, Len(a.steering))
           new == Spoken(opened)
<1>1. k \in {0, 1} /\ k <= Len(a.steering) /\ Len(a.steering) \in Nat
  OBVIOUS
<1>2. (skipPoll \/ a.steering = <<>>) => k = 0
  OBVIOUS
<1> HIDE DEF k
<1>3. /\ taken \in Seq(Inputs) /\ Len(taken) = k /\ left \in Seq(Inputs)
      /\ a.steering = taken \o left
  <2>1. CASE k = 0
    <3>1. taken = <<>> /\ left = a.steering
      BY <2>1
    <3> QED
      BY <2>1, <3>1
  <2>2. CASE k = 1
    <3>1. a.steering # <<>>
      BY <1>1, <2>2
    <3>2. taken = <<Head(a.steering)>> /\ left = Tail(a.steering)
      BY <2>2, <3>1, FirstAndRest
    <3> QED
      BY <2>2, <3>1, <3>2, HeadAndTail
  <2> QED
    BY <1>1, <2>1, <2>2
<1>4. k = 0 => taken = <<>>
  BY <1>1
<1> HIDE DEF taken
<1>5. opened = prompts \o taken
  BY DEF Opened, taken, k
<1>6. opened \in Seq(Inputs) /\ Len(opened) = Len(prompts) + k /\ ToSet(opened) = ToSet(prompts) \cup ToSet(taken)
  <2>1. taken \in Seq(Inputs)
    BY <1>3
  <2>2. prompts \o taken \in Seq(Inputs) /\ Len(prompts \o taken) = Len(prompts) + Len(taken)
    BY <2>1, ConcatTyped
  <2>3. ToSet(prompts \o taken) = ToSet(prompts) \cup ToSet(taken)
    BY <2>1, ElementsOfConcat
  <2> QED
    BY <1>3, <1>5, <2>2, <2>3
<1> HIDE DEF opened
<1>7. Len(opened) - Len(prompts) = k
  BY <1>1, <1>6, LenProperties
<1>8. /\ agent' = [a EXCEPT !.messages = @ \o opened, !.steering = left,
                            !.phase = "llm", !.asked = clock, !.stopping = FALSE, !.call = 0]
      /\ clock' = clock + 1
      /\ session' = Emitted(session, new)
      /\ missed' = known \cup Unseen(new) \cup (IF InSync THEN {} ELSE {"overlap"})
  BY <1>7 DEF StartRun, opened
<1> HIDE DEF left
<1>9. /\ agent'.messages = agent.messages \o opened
      /\ agent'.phase = "llm" /\ agent'.asked = clock /\ agent'.call = 0
      /\ agent'.steering = left /\ agent'.followUp = a.followUp
  BY <1>8 DEF IsAgent
<1>10. Hears(new)
  BY <1>8, EmittedHeard
<1>11. opened \in Seq(Said)
  BY <1>6, SaidTypes, SeqMonotonic
<1>12. /\ opened \in Seq(NoSummaries) /\ new \in Seq(Events)
       /\ EndedIn(new) = opened /\ StartsIn(new) = ToSet(opened)
       /\ \A i \in 1..Len(new) : new[i].msg \in ToSet(opened)
  BY <1>11, SpokenFacts
<1> HIDE DEF new
<1>13. \E q \in Seq(Inputs) :
         /\ DrawnBy(agent', q) /\ ToSet(q) \subseteq ToSet(opened)
         /\ \A m \in ToSet(opened) : m.role = "user" =>
              m \in ToSet(q) \/ \E p \in Prompts : m \in ToSet(calls[p].msgs)
  <2>1. CASE d = <<>>
    <3>1. /\ agent.steering = a.steering /\ agent.followUp = a.followUp
      <4>1. <<>> \o a.steering = a.steering /\ <<>> \o a.followUp = a.followUp
        OBVIOUS
      <4> QED
        BY <2>1, <4>1 DEF DrawnBy
    <3>2. DrawnBy(agent', taken)
      BY <1>3, <1>9, <3>1 DEF DrawnBy
    <3>3. ToSet(d) = {}
      BY <2>1, ElementsOfNone
    <3> QED
      BY <1>3, <1>6, <3>2, <3>3
  <2>2. CASE d # <<>>
    <3>1. k = 0 /\ prompts = d
      BY <1>2, <2>2
    <3>2. taken = <<>> /\ ToSet(taken) = {}
      BY <1>4, <3>1, ElementsOfNone
    <3>3. left = a.steering
      <4>1. <<>> \o left = left
        BY <1>3
      <4> QED
        BY <1>3, <3>2, <4>1
    <3>4. DrawnBy(agent', d)
      BY <1>9, <3>3 DEF DrawnBy
    <3> QED
      BY <1>6, <3>1, <3>2, <3>4
  <2> QED
    BY <2>1, <2>2
<1>14. PICK q \in Seq(Inputs) :
         /\ DrawnBy(agent', q) /\ ToSet(q) \subseteq ToSet(opened)
         /\ \A m \in ToSet(opened) : m.role = "user" =>
              m \in ToSet(q) \/ \E p \in Prompts : m \in ToSet(calls[p].msgs)
  BY <1>13
<1>15. missed \ {"overlap"} \subseteq missed' /\ Unseen(new) \subseteq missed'
  BY <1>8
<1>16. Says(opened, q, new)
  BY <1>3, <1>9, <1>10, <1>12, <1>14, <1>15 DEF Says
<1> QED
  BY <1>6, <1>8, <1>9, <1>16 DEF new

LEMMA ContinueSays ==
  ASSUME Inv, NEW kind, Continue(kind)
  PROVE  /\ UNCHANGED <<stored, current, calls, jobs, command>>
         /\ missed \ {"overlap"} \subseteq missed'
         /\ \/ UNCHANGED <<agent, clock, session>>
            \/ /\ ~Streaming
               /\ agent'.phase = "llm" /\ agent'.asked = clock /\ agent'.call = 0 /\ clock' = clock + 1
               /\ \E ms \in Seq(Inputs), q \in Seq(Inputs) : Says(ms, q, Spoken(ms))
<1> DEFINE ms == agent.messages
           resumed == IF ms # <<>> /\ ~LastIsAnswer(ms) THEN <<>> ELSE Polled(FALSE)
           skipPoll == resumed # <<>> /\ agent.steering # <<>>
           rest == Unqueue(agent, resumed)
<1>1. UNCHANGED <<stored, current, calls, jobs, command>>
  BY DEF Continue
<1>2. CASE UNCHANGED <<agent, clock, session>> /\ missed \subseteq missed'
  BY <1>1, <1>2
<1>3. CASE ~Streaming /\ StartRun(resumed, skipPoll, rest, missed)
  <2>1. /\ resumed \in Seq(Inputs) /\ IsAgent(rest)
        /\ rest.steering \in Seq(Inputs) /\ rest.followUp \in Seq(Inputs)
        /\ rest.messages = agent.messages /\ DrawnBy(rest, resumed)
        /\ resumed # <<>> /\ agent.steering = <<>> => rest.steering = <<>>
    <3>1. CASE resumed = Polled(FALSE)
      BY <3>1, PolledFacts DEF Inv
    <3>2. CASE resumed = <<>>
      <4>1. rest = agent
        BY <3>2 DEF Unqueue
      <4>2. IsAgent(agent) /\ agent.steering \in Seq(Inputs) /\ agent.followUp \in Seq(Inputs)
        BY DEF Inv, Types, AgentTypes
      <4>3. <<>> \in Seq(Inputs) /\ agent.steering = <<>> \o agent.steering
        BY <4>2
      <4> HIDE DEF resumed, rest
      <4> QED
        BY <3>2, <4>1, <4>2, <4>3 DEF DrawnBy
    <3> QED
      BY <3>1, <3>2
  <2> HIDE DEF resumed
  <2>2. resumed = <<>> \/ skipPoll \/ rest.steering = <<>>
    BY <2>1
  <2> HIDE DEF skipPoll, rest
  <2>3. /\ agent'.phase = "llm" /\ agent'.asked = clock /\ agent'.call = 0 /\ clock' = clock + 1
        /\ \E said \in Seq(Inputs), q \in Seq(Inputs) : Says(said, q, Spoken(said))
    BY <1>1, <1>3, <2>1, <2>2, RunSays
  <2>4. missed \ {"overlap"} \subseteq missed'
    BY <1>3 DEF StartRun
  <2> QED
    BY <1>1, <1>3, <2>3, <2>4
<1> QED
  BY <1>2, <1>3 DEF Continue

LEMMA PromptSays ==
  ASSUME Inv, NEW p \in Prompts, PromptRuns(p)
  PROVE  /\ UNCHANGED <<stored, current, jobs, command>>
         /\ missed \ {"overlap"} \subseteq missed'
         /\ \E place \in {"thrown", "running"} : calls' = At(p, place)
         /\ \/ UNCHANGED <<agent, clock, session>>
            \/ /\ ~Streaming
               /\ agent'.phase = "llm" /\ agent'.asked = clock /\ agent'.call = 0 /\ clock' = clock + 1
               /\ \E ms \in Seq(Inputs), q \in Seq(Inputs) : Says(ms, q, Spoken(ms))
<1>1. UNCHANGED <<stored, current, jobs, command>>
  BY DEF PromptRuns
<1>2. CASE Streaming
  BY <1>1, <1>2 DEF PromptRuns
<1>3. CASE ~Streaming
  <2>1. StartRun(calls[p].msgs, FALSE, agent, missed \ {"overlap"}) /\ calls' = At(p, "running")
    BY <1>3 DEF PromptRuns
  <2>2. IsAgent(agent) /\ agent.steering \in Seq(Inputs) /\ agent.followUp \in Seq(Inputs)
    BY DEF Inv, Types, AgentTypes
  <2>3. calls[p].msgs \in Seq(Inputs)
    BY DEF Inv, Types
  <2>4. <<>> \in Seq(Inputs) /\ agent.steering = <<>> \o agent.steering
    BY <2>2
  <2>5. DrawnBy(agent, <<>>)
    BY <2>4 DEF DrawnBy
  <2>6. /\ agent'.phase = "llm" /\ agent'.asked = clock /\ agent'.call = 0 /\ clock' = clock + 1
        /\ \E said \in Seq(Inputs), q \in Seq(Inputs) : Says(said, q, Spoken(said))
    BY <1>1, <2>1, <2>2, <2>3, <2>4, <2>5, RunSays
  <2>7. missed \ {"overlap"} \subseteq missed'
    BY <2>1 DEF StartRun
  <2> QED
    BY <1>1, <1>3, <2>1, <2>6, <2>7
<1> QED
  BY <1>2, <1>3

\* An answer that failed is not sent again.
LEMMA SentOne ==
  ASSUME NEW m \in Messages
  PROVE  Sent(<<m>>) = IF Failed(m) THEN <<>> ELSE <<m>>
<1>1. <<m>> \in Seq(Messages)
  OBVIOUS
<1>2. Sent(<<m>>) = Selected(<<m>>, Successes)
  BY <1>1, SentIs
<1> QED
  BY <1>2, SelectedOne DEF Successes

LEMMA ThrownSays ==
  ASSUME Inv, agent.messages \in Seq(Messages), NEW thrown, RunThrows(thrown)
  PROVE  LET m == Message("assistant", agent.asked, IF thrown = "throws" THEN "throws" ELSE "error")
         IN /\ agent'.phase = "idle" /\ agent'.asked = 0 /\ agent'.call = agent.call /\ agent.phase = "llm"
            /\ clock' = clock /\ calls' = EndedCalls
            /\ Says(<<m>>, <<>>, <<Event("agent_end", m)>>)
<1> DEFINE m == Message("assistant", agent.asked, IF thrown = "throws" THEN "throws" ELSE "error")
           ms == <<m>>
           new == <<Event("agent_end", m)>>
<1>1. /\ agent' = [agent EXCEPT !.messages = Append(@, m), !.phase = "idle", !.asked = 0,
                                !.stopping = FALSE]
      /\ agent.phase = "llm"
      /\ session' = Emitted(session, new)
      /\ missed' = (IF session'.promise THEN missed \cup {"retry"} ELSE missed)
      /\ calls' = EndedCalls
      /\ UNCHANGED <<stored, current, jobs, command, clock>>
  BY DEF RunThrows
<1>2. m \in Messages /\ m.role = "assistant" /\ m.kind \in {"throws", "error"}
  <2>1. agent.asked \in Nat
    BY DEF Inv, Types, AgentTypes
  <2> QED
    BY <2>1, MessageType DEF Roles, Kinds
<1> HIDE DEF m
<1>3. Failed(m) /\ m \in NoSummaries
  BY <1>2 DEF Failed, IsAnswer, NoSummaries
<1>4. /\ new \in Seq(Events) /\ Len(new) = 1
      /\ \A i \in 1..Len(new) : new[i].type = "agent_end" /\ new[i].msg = m
  BY <1>2 DEF Event, Events
<1>5. ms \in Seq(NoSummaries) /\ ToSet(ms) = {m}
  BY <1>3, ElementsOfOne
<1> HIDE DEF new
<1>6. EndedIn(new) = <<>> /\ Sent(ms) = <<>>
  BY <1>2, <1>3, <1>4, EndedNone, SentOne
<1>7. Sent(<<>>) = <<>>
  BY SelectedEmpty DEF Sent
<1>8. StartsIn(new) = {} /\ Unseen(new) = {}
  <2>1. \A e \in ToSet(new) : e.type = "agent_end"
    BY <1>4, Elements
  <2> QED
    BY <2>1 DEF StartsIn, Unseen
<1>9. IsAgent(agent) /\ agent.steering \in Seq(Inputs) /\ agent.followUp \in Seq(Inputs)
  BY DEF Inv, Types, AgentTypes
<1> HIDE DEF ms
<1>10. /\ agent'.messages = Append(agent.messages, m) /\ agent'.phase = "idle" /\ agent'.asked = 0
       /\ agent'.call = agent.call
       /\ agent'.steering = agent.steering /\ agent'.followUp = agent.followUp
  BY <1>1, <1>9 DEF IsAgent
<1>11. DrawnBy(agent', <<>>) /\ <<>> \in Seq(Inputs) /\ ToSet(<<>>) = {}
  <2>1. <<>> \in Seq(Inputs) /\ agent.steering = <<>> \o agent.steering
    BY <1>9
  <2> QED
    BY <1>10, <2>1, ElementsOfNone DEF DrawnBy
<1>12. Append(agent.messages, m) = agent.messages \o ms
  BY <1>2, AppendIsConcat DEF ms
<1>13. Hears(new)
  BY <1>1, EmittedHeard
<1>14. missed \ {"overlap"} \subseteq missed'
  BY <1>1
<1>15. /\ StartsIn(new) \subseteq ToSet(ms)
       /\ \A i \in 1..Len(new) : new[i].msg \in ToSet(ms)
       /\ \A x \in ToSet(ms) : x.role # "user"
  BY <1>2, <1>4, <1>5, <1>8
<1>16. Says(ms, <<>>, new)
  BY <1>1, <1>4, <1>5, <1>6, <1>7, <1>8, <1>9, <1>10, <1>11, <1>12, <1>13, <1>14, <1>15 DEF Says
<1> QED
  BY <1>1, <1>10, <1>16 DEF m, ms, new

LEMMA AnswerSays ==
  ASSUME Inv, agent.messages \in Seq(Messages), NEW kind \in {"stop", "aborted"} \cup Outcomes, Answer(kind)
  PROVE  LET m == Message("assistant", agent.asked, kind)
             ends == Failed(m) \/ (kind # "toolUse" /\ Polled(FALSE) = <<>>)
             last == IF ends THEN <<Event("agent_end", m)>> ELSE <<>>
         IN /\ agent.phase = "llm" /\ clock' = clock + 1
            /\ agent'.phase = (IF ends THEN "idle" ELSE IF kind = "toolUse" THEN "tools" ELSE "llm")
            /\ agent'.asked = (IF ends THEN 0 ELSE clock)
            /\ agent'.call = (IF kind = "toolUse" THEN m.id ELSE 0)
            /\ calls' = (IF ends THEN EndedCalls ELSE calls)
            /\ m \in Messages /\ m.role = "assistant" /\ m.id = agent.asked /\ m.kind = kind
            /\ \E q \in Seq(Inputs) :
                 /\ ends \/ kind = "toolUse" => q = <<>>
                 /\ Says(<<m>> \o q, q, (<<Event("end", m)>> \o last) \o Spoken(q))
<1> DEFINE m == Message("assistant", agent.asked, kind)
           ends == Failed(m) \/ (kind # "toolUse" /\ Polled(FALSE) = <<>>)
           q == IF ends \/ kind = "toolUse" THEN <<>> ELSE Polled(FALSE)
           first == <<Event("end", m)>>
           last == IF ends THEN <<Event("agent_end", m)>> ELSE <<>>
           new == (first \o last) \o Spoken(q)
           one == <<m>>
           ms == one \o q
           b == Unqueue(agent, q)
           place == CASE ends -> "idle" [] kind = "toolUse" -> "tools" [] OTHER -> "llm"
           asked == IF ends THEN 0 ELSE clock
           call == IF kind = "toolUse" THEN m.id ELSE 0
           stops == agent.stopping /\ ~ends
<1>1. /\ agent.phase = "llm" /\ clock' = clock + 1
      /\ agent' = [b EXCEPT !.messages = Append(@, m) \o q, !.phase = place, !.asked = asked,
                            !.stopping = @ /\ ~ends, !.call = call]
      /\ session' = Emitted(session, new)
      /\ missed' = missed \cup Unseen(new)
      /\ calls' = (IF ends THEN EndedCalls ELSE calls)
      /\ UNCHANGED <<stored, current, jobs, command>>
  BY DEF Answer
<1>2. m \in Messages /\ m.role = "assistant" /\ m.id = agent.asked /\ m.kind = kind
  <2>1. agent.asked \in Nat /\ kind \in Kinds \cup {"throwsRetryable"} /\ kind # "throwsRetryable"
    BY OutcomesAssumption DEF Inv, Types, AgentTypes, Kinds, Answer
  <2> QED
    BY <2>1, MessageType DEF Roles, Message
<1>3. place = IF ends THEN "idle" ELSE IF kind = "toolUse" THEN "tools" ELSE "llm"
  <2>4. kind = "toolUse" => ~ends
    BY <1>2 DEF Failed
  <2> HIDE DEF ends
  <2>1. CASE ends
    BY <2>1, <2>4
  <2>2. CASE ~ends /\ kind = "toolUse"
    BY <2>2
  <2>3. CASE ~ends /\ kind # "toolUse"
    BY <2>3
  <2> QED
    BY <2>1, <2>2, <2>3
<1>4. /\ q \in Seq(Inputs)
      /\ IsAgent(b) /\ b.steering \in Seq(Inputs) /\ b.followUp \in Seq(Inputs)
      /\ b.messages = agent.messages /\ DrawnBy(b, q)
  <2>1. CASE q = Polled(FALSE)
    BY <2>1, PolledFacts DEF Inv
  <2>2. CASE q = <<>>
    <3>1. b = agent
      BY <2>2 DEF Unqueue
    <3>2. IsAgent(agent) /\ agent.steering \in Seq(Inputs) /\ agent.followUp \in Seq(Inputs)
      BY DEF Inv, Types, AgentTypes
    <3>3. <<>> \in Seq(Inputs) /\ agent.steering = <<>> \o agent.steering
      BY <3>2
    <3> HIDE DEF q, b
    <3> QED
      BY <2>2, <3>1, <3>2, <3>3 DEF DrawnBy
  <2> QED
    BY <2>1, <2>2
<1>5. ends \/ kind = "toolUse" => q = <<>>
  OBVIOUS
<1>6. first \in Seq(Events) /\ last \in Seq(Events) /\ EndedIn(first) = one /\ EndedIn(last) = <<>>
      /\ StartsIn(first) = {} /\ StartsIn(last) = {}
      /\ (\A e \in ToSet(first) \cup ToSet(last) : e.msg = m)
  <2> DEFINE e1 == Event("end", m)
             e2 == Event("agent_end", m)
  <2>1. /\ e1 \in Events /\ e1.type = "end" /\ e1.msg = m
        /\ e2 \in Events /\ e2.type = "agent_end" /\ e2.msg = m
    BY <1>2 DEF Event, Events
  <2>2. first = <<e1>> /\ (last = <<e2>> \/ last = <<>>)
    OBVIOUS
  <2> HIDE DEF e1, e2, first, last, m
  <2>3. EndedIn(<<e1>>) = <<m>> /\ EndedIn(<<e2>>) = <<>>
    BY <2>1, EndedOne
  <2>4. StartsIn(<<e1>>) = {} /\ StartsIn(<<e2>>) = {} /\ StartsIn(<<>>) = {}
    BY <2>1, StartsOne, StartsNone
  <2>5. ToSet(<<e1>>) = {e1} /\ ToSet(<<e2>>) = {e2} /\ ToSet(<<>>) = {}
    BY ElementsOfOne, ElementsOfNone
  <2>6. EndedIn(<<>>) = <<>>
    <3> DEFINE none == <<>>
    <3>1. none \in Seq(Events) /\ \A i \in 1..Len(none) : none[i].type # "end"
      OBVIOUS
    <3> HIDE DEF none
    <3>2. EndedIn(none) = <<>>
      BY <3>1, EndedNone
    <3> QED
      BY <3>2 DEF none
  <2>7. <<e1>> \in Seq(Events) /\ <<e2>> \in Seq(Events) /\ <<>> \in Seq(Events)
    BY <2>1
  <2>8. CASE last = <<e2>>
    BY <2>1, <2>2, <2>3, <2>4, <2>5, <2>7, <2>8
  <2>9. CASE last = <<>>
    BY <2>1, <2>2, <2>3, <2>4, <2>5, <2>6, <2>7, <2>9
  <2> QED
    BY <2>2, <2>8, <2>9
<1>7. one \in Seq(NoSummaries) /\ one \in Seq(Messages) /\ ToSet(one) = {m}
  <2>1. m \in NoSummaries
    BY <1>2 DEF NoSummaries
  <2> HIDE DEF m
  <2> QED
    BY <1>2, <2>1, ElementsOfOne
<1> HIDE DEF m, first, last, q, b, ends, place, asked, call, one
<1>8. q \in Seq(Said) /\ q \in Seq(NoSummaries) /\ q \in Seq(Messages)
  BY <1>4, SaidTypes, SaidIsPlain, SeqMonotonic
<1>9. ms \in Seq(NoSummaries) /\ ToSet(ms) = {m} \cup ToSet(q)
  <2>1. ms \in Seq(NoSummaries)
    BY <1>7, <1>8, ConcatTyped
  <2>2. ToSet(ms) = ToSet(one) \cup ToSet(q)
    BY <1>7, <1>8, ElementsOfConcat
  <2> QED
    BY <1>7, <2>1, <2>2
<1> DEFINE start == first \o last
           sq == Spoken(q)
<1>10. /\ start \in Seq(Events) /\ EndedIn(start) = one /\ StartsIn(start) = {}
       /\ \A e \in ToSet(start) : e.msg = m
  <2>1. start \in Seq(Events)
    BY <1>6, ConcatTyped
  <2>2. EndedIn(start) = EndedIn(first) \o EndedIn(last)
    BY <1>6, EndedConcat
  <2>3. one \o <<>> = one
    BY <1>7
  <2>4. StartsIn(start) = StartsIn(first) \cup StartsIn(last)
    BY <1>6, StartsConcat
  <2>5. ToSet(start) = ToSet(first) \cup ToSet(last)
    BY <1>6, ElementsOfConcat
  <2> HIDE DEF start
  <2> QED
    BY <1>6, <2>1, <2>2, <2>3, <2>4, <2>5
<1>11. /\ sq \in Seq(Events) /\ EndedIn(sq) = q /\ StartsIn(sq) = ToSet(q)
       /\ \A i \in 1..Len(sq) : sq[i].msg \in ToSet(q)
  BY <1>8, SpokenFacts
<1> HIDE DEF start, sq
<1>12. /\ new \in Seq(Events) /\ EndedIn(new) = ms /\ StartsIn(new) = ToSet(q)
       /\ \A i \in 1..Len(new) : new[i].msg \in ToSet(ms)
  <2>1. new = start \o sq
    BY DEF start, sq
  <2>2. new \in Seq(Events)
    BY <1>10, <1>11, <2>1, ConcatTyped
  <2>3. EndedIn(new) = EndedIn(start) \o EndedIn(sq)
    BY <1>10, <1>11, <2>1, EndedConcat
  <2>4. StartsIn(new) = StartsIn(start) \cup StartsIn(sq)
    BY <1>10, <1>11, <2>1, StartsConcat
  <2>5. ToSet(new) = ToSet(start) \cup ToSet(sq)
    BY <1>10, <1>11, <2>1, ElementsOfConcat
  <2> HIDE DEF new, ms
  <2>6. \A e \in ToSet(sq) : e.msg \in ToSet(q)
    BY <1>11, Elements
  <2>7. \A i \in 1..Len(new) : new[i] \in ToSet(new)
    BY <2>2, Elements
  <2>8. \A i \in 1..Len(new) : new[i].msg \in ToSet(ms)
    BY <1>9, <1>10, <2>5, <2>6, <2>7
  <2> QED
    BY <1>10, <1>11, <2>2, <2>3, <2>4, <2>8 DEF ms
<1> HIDE DEF new
<1>13. /\ agent'.messages = Append(agent.messages, m) \o q
       /\ agent'.phase = place /\ agent'.asked = asked /\ agent'.call = call
       /\ agent'.steering = b.steering /\ agent'.followUp = b.followUp
  BY <1>1, <1>4 DEF IsAgent
<1>14. Append(agent.messages, m) \o q = agent.messages \o ms
  <2>1. Append(agent.messages, m) = agent.messages \o one
    BY <1>2, AppendIsConcat DEF one
  <2>2. (agent.messages \o one) \o q = agent.messages \o (one \o q)
    <3>1. one \in Seq(Messages) /\ q \in Seq(Messages)
      BY <1>7, <1>8
    <3>2. \A s, t, u \in Seq(Messages) : (s \o t) \o u = s \o (t \o u)
      BY ConcatAssociative
    <3> HIDE DEF ms
    <3> QED
      BY <3>1, <3>2, Zenon
  <2> QED
    BY <2>1, <2>2
<1> HIDE DEF ms
<1>15. Hears(new)
  BY <1>1, EmittedHeard
<1>16. DrawnBy(agent', q)
  BY <1>4, <1>13 DEF DrawnBy
<1>17. missed \ {"overlap"} \subseteq missed' /\ Unseen(new) \subseteq missed'
  BY <1>1
<1>18. \A x \in ToSet(ms) : x.role = "user" => x \in ToSet(q)
  BY <1>2, <1>9
<1>19. Says(ms, q, new)
  BY <1>1, <1>4, <1>9, <1>12, <1>13, <1>14, <1>15, <1>16, <1>17, <1>18 DEF Says
<1>20. Says(<<m>> \o q, q, (<<Event("end", m)>> \o last) \o Spoken(q))
  BY <1>19 DEF ms, one, new, first
<1> QED
  BY <1>1, <1>2, <1>3, <1>4, <1>5, <1>13, <1>20 DEF place, ends, last, asked, call, m

-----------------------------------------------------------------------------
(* What the other steps do to the fields of the records.                   *)

SameMessages == agent'.messages = agent.messages
SameRun == agent'.phase = agent.phase /\ agent'.asked = agent.asked /\ agent'.call = agent.call
SameQueues == agent'.steering = agent.steering /\ agent'.followUp = agent.followUp
SameLists == session'.steering = session.steering /\ session'.followUp = session.followUp
SameNext == session'.nextTurn = session.nextTurn
SamePending == session'.pendingBash = session.pendingBash
SameEvents == session'.events = session.events
SameLink == session'.connected = session.connected
SameHandler == session'.handler = session.handler

WholeAgent == SameMessages /\ SameRun /\ SameQueues
WholeSession ==
  SameLists /\ SameNext /\ SamePending /\ SameEvents /\ SameLink /\ SameHandler

LEMMA RecordsAre == Inv => IsAgent(agent) /\ IsSession(session)
  BY DEF Inv, Types, AgentTypes, SessionTypes

LEMMA WholeWhenUnchanged ==
  /\ agent' = agent => WholeAgent
  /\ session' = session => WholeSession
  BY DEF WholeAgent, WholeSession, SameMessages, SameRun, SameQueues, SameLists, SameNext,
         SamePending, SameEvents, SameLink, SameHandler

LEMMA PromptQueuesDoes ==
  ASSUME Inv, NEW p, PromptQueues(p)
  PROVE  LET m == Message("user", clock, "none")
         IN /\ SameMessages /\ SameRun /\ SameNext /\ SamePending /\ SameEvents /\ SameLink /\ SameHandler
            /\ \/ /\ agent'.steering = Append(agent.steering, m) /\ agent'.followUp = agent.followUp
                  /\ session'.steering = Append(session.steering, m) /\ session'.followUp = session.followUp
               \/ /\ agent'.followUp = Append(agent.followUp, m) /\ agent'.steering = agent.steering
                  /\ session'.followUp = Append(session.followUp, m) /\ session'.steering = session.steering
<1> DEFINE m == Message("user", clock, "none")
<1>1. IsAgent(agent) /\ IsSession(session)
  BY RecordsAre
<1>2. \/ /\ agent' = [agent EXCEPT !.steering = Append(@, m)]
         /\ session' = [session EXCEPT !.steering = Append(@, m)]
      \/ /\ agent' = [agent EXCEPT !.followUp = Append(@, m)]
         /\ session' = [session EXCEPT !.followUp = Append(@, m)]
  BY DEF PromptQueues
<1> HIDE DEF m
<1>3. CASE /\ agent' = [agent EXCEPT !.steering = Append(@, m)]
           /\ session' = [session EXCEPT !.steering = Append(@, m)]
  <2>1. SameMessages /\ SameRun /\ agent'.steering = Append(agent.steering, m) /\ agent'.followUp = agent.followUp
    BY <1>1, <1>3 DEF IsAgent, SameMessages, SameRun
  <2>2. /\ SameNext /\ SamePending /\ SameEvents /\ SameLink /\ SameHandler
        /\ session'.steering = Append(session.steering, m) /\ session'.followUp = session.followUp
    BY <1>1, <1>3 DEF IsSession, SameNext, SamePending, SameEvents, SameLink, SameHandler
  <2> QED
    BY <2>1, <2>2 DEF m
<1>4. CASE /\ agent' = [agent EXCEPT !.followUp = Append(@, m)]
           /\ session' = [session EXCEPT !.followUp = Append(@, m)]
  <2>1. SameMessages /\ SameRun /\ agent'.followUp = Append(agent.followUp, m) /\ agent'.steering = agent.steering
    BY <1>1, <1>4 DEF IsAgent, SameMessages, SameRun
  <2>2. /\ SameNext /\ SamePending /\ SameEvents /\ SameLink /\ SameHandler
        /\ session'.followUp = Append(session.followUp, m) /\ session'.steering = session.steering
    BY <1>1, <1>4 DEF IsSession, SameNext, SamePending, SameEvents, SameLink, SameHandler
  <2> QED
    BY <2>1, <2>2 DEF m
<1> QED
  BY <1>2, <1>3, <1>4

\* The transcript alone is replaced.
LEMMA Replaces ==
  ASSUME Inv, NEW ms, agent' = [agent EXCEPT !.messages = ms]
  PROVE  agent'.messages = ms /\ SameRun /\ SameQueues
  BY RecordsAre DEF IsAgent, SameRun, SameQueues

LEMMA PromptStartsDoes ==
  ASSUME Inv, NEW p, PromptStarts(p)
  PROVE  /\ agent'.messages = agent.messages \o session.pendingBash /\ SameRun /\ SameQueues
         /\ SameLists /\ SameNext /\ SameEvents /\ SameLink /\ SameHandler
         /\ session'.pendingBash = <<>>
<1>1. agent' = [agent EXCEPT !.messages = agent.messages \o session.pendingBash]
  BY DEF PromptStarts
<1>2. session' = [session EXCEPT !.pendingBash = <<>>]
  BY DEF PromptStarts
<1>3. /\ SameLists /\ SameNext /\ SameEvents /\ SameLink /\ SameHandler
      /\ session'.pendingBash = <<>>
  BY <1>2, RecordsAre DEF IsSession, SameLists, SameNext, SameEvents, SameLink, SameHandler
<1> QED
  BY <1>1, <1>3, Replaces

\* An answer may be taken off the transcript; when it was no failure, that is noted.
Trims ==
  /\ SameRun /\ SameQueues
  /\ \/ SameMessages /\ missed \subseteq missed'
     \/ agent'.messages = WithoutLastAnswer(agent.messages) /\ Cut \subseteq missed'

LEMMA TrimmedTrims ==
  ASSUME Inv, NEW v, agent' = Trimmed(agent, v),
         v # "overflow" => missed \subseteq missed', v = "overflow" => Cut \subseteq missed'
  PROVE  Trims
<1>1. CASE v = "overflow"
  <2> DEFINE ms == WithoutLastAnswer(agent.messages)
  <2>1. agent' = [agent EXCEPT !.messages = ms]
    BY <1>1 DEF Trimmed
  <2> HIDE DEF ms
  <2>2. agent'.messages = ms /\ SameRun /\ SameQueues
    BY <2>1, Replaces
  <2> QED
    BY <1>1, <2>2 DEF ms, Trims
<1>2. CASE v # "overflow"
  <2>1. agent' = agent
    BY <1>2 DEF Trimmed
  <2> QED
    BY <1>2, <2>1 DEF Trims, SameRun, SameQueues, SameMessages
<1> QED
  BY <1>1, <1>2

LEMMA PromptChecksDoes ==
  ASSUME Inv, NEW p, PromptChecks(p)
  PROVE  /\ Trims
         /\ SameLists /\ SamePending /\ SameEvents /\ SameLink /\ SameHandler
         /\ \/ SameNext /\ calls' = At(p, "compacting")
            \/ session'.nextTurn = <<>> /\ calls' = [calls EXCEPT ![p] = Built(@, session)]
         /\ jobs' = jobs \/ \E b \in BOOLEAN : jobs' = [jobs EXCEPT ![Owner(p)] = [pc |-> "key", overflow |-> b, kept |-> 0]]
<1> DEFINE l == SelectLastInSeq(agent.messages, IsAnswer)
           v == IF l = 0 THEN "none" ELSE Verdict(agent.messages[l], FALSE)
<1>1. /\ IF Compacts(v)
         THEN calls' = At(p, "compacting") /\ session' = Attempted(session, v)
         ELSE /\ calls' = [calls EXCEPT ![p] = Built(@, session)]
              /\ session' = [session EXCEPT !.nextTurn = <<>>]
      /\ jobs' = JobsWith(Owner(p), v)
      /\ agent' = Trimmed(agent, v)
      /\ missed' = IF v # "overflow" THEN missed ELSE Cut \cup (IF InSync THEN {} ELSE {"overlap"})
  BY DEF PromptChecks
<1> HIDE DEF v, l
<1>2. Trims
  BY <1>1, TrimmedTrims
<1>3. IsSession(session)
  BY RecordsAre
<1>4. jobs' = jobs \/ \E b \in BOOLEAN : jobs' = [jobs EXCEPT ![Owner(p)] = [pc |-> "key", overflow |-> b, kept |-> 0]]
  BY <1>1 DEF JobsWith
<1>5. CASE Compacts(v)
  <2>1. session' = session \/ session' = [session EXCEPT !.overflowed = TRUE]
    BY <1>1, <1>5 DEF Attempted
  <2>2. SameLists /\ SamePending /\ SameEvents /\ SameLink /\ SameHandler /\ SameNext
    BY <1>3, <2>1 DEF IsSession, SameLists, SamePending, SameEvents, SameLink, SameHandler, SameNext
  <2> QED
    BY <1>1, <1>2, <1>4, <1>5, <2>2
<1>6. CASE ~Compacts(v)
  <2>1. session' = [session EXCEPT !.nextTurn = <<>>]
    BY <1>1, <1>6
  <2>2. SameLists /\ SamePending /\ SameEvents /\ SameLink /\ SameHandler /\ session'.nextTurn = <<>>
    BY <1>3, <2>1 DEF IsSession, SameLists, SamePending, SameEvents, SameLink, SameHandler
  <2> QED
    BY <1>1, <1>2, <1>4, <1>6, <2>2
<1> QED
  BY <1>5, <1>6

\* A compaction returns: to the handler, to the command, which subscribes again, or to a
\* prompt, which takes the messages kept for it.
LEMMA ReturnDoes ==
  ASSUME Inv, NEW o \in Owners, Return(o, session)
  PROVE  /\ SameLists /\ SamePending /\ SameEvents
         /\ jobs' = [jobs EXCEPT ![o] = NoJob]
         /\ \/ /\ SameNext /\ SameLink /\ session'.handler = "ready" /\ o = Handler
               /\ UNCHANGED <<calls, command>>
            \/ /\ SameNext /\ session'.connected = TRUE /\ SameHandler /\ o = Command
               /\ calls' = calls /\ command' = [command EXCEPT !.name = "none", !.pc = "none"]
            \/ /\ session'.nextTurn = <<>> /\ SameLink /\ SameHandler /\ command' = command
               /\ \E p \in Prompts : o = Owner(p) /\ calls' = [calls EXCEPT ![p] = Built(@, session)]
<1>1. IsSession(session)
  BY RecordsAre
<1>2. jobs' = [jobs EXCEPT ![o] = NoJob]
  BY DEF Return
<1>3. CASE o = Handler
  <2>1. session' = [session EXCEPT !.handler = "ready"] /\ calls' = calls /\ command' = command
    BY <1>3 DEF Return, Handler, Command
  <2>2. SameLists /\ SamePending /\ SameEvents /\ SameNext /\ SameLink /\ session'.handler = "ready"
    BY <1>1, <2>1 DEF IsSession, SameLists, SamePending, SameEvents, SameNext, SameLink
  <2> QED
    BY <1>2, <1>3, <2>1, <2>2
<1>4. CASE o = Command
  <2>1. /\ session' = [session EXCEPT !.connected = TRUE] /\ calls' = calls
        /\ command' = [command EXCEPT !.name = "none", !.pc = "none"]
    BY <1>4 DEF Return, Handler, Command
  <2>2. SameLists /\ SamePending /\ SameEvents /\ SameNext /\ session'.connected = TRUE /\ SameHandler
    BY <1>1, <2>1 DEF IsSession, SameLists, SamePending, SameEvents, SameNext, SameHandler
  <2> QED
    BY <1>2, <1>4, <2>1, <2>2
<1>5. CASE \E p \in Prompts : o = Owner(p)
  <2>1. PICK p \in Prompts : o = Owner(p)
    BY <1>5
  <2>2. o # Handler /\ o # Command /\ o[1] = "prompt" /\ o[2] = p
    BY <2>1 DEF Owner, Handler, Command
  <2>3. /\ session' = [session EXCEPT !.nextTurn = <<>>] /\ command' = command
        /\ calls' = [calls EXCEPT ![p] = Built(@, session)]
    BY <2>2 DEF Return
  <2>4. SameLists /\ SamePending /\ SameEvents /\ session'.nextTurn = <<>> /\ SameLink /\ SameHandler
    BY <1>1, <2>3 DEF IsSession, SameLists, SamePending, SameEvents, SameLink, SameHandler
  <2> QED
    BY <1>2, <2>1, <2>3, <2>4
<1> QED
  BY <1>3, <1>4, <1>5 DEF Owners

LEMMA JobDoneDoes ==
  ASSUME Inv, NEW o \in Owners, JobDone(o)
  PROVE  LET entry == Compaction(clock, jobs[o].kept)
             rebuilt == Context(Append(path, entry))
         IN /\ SameRun /\ SameQueues
            /\ \/ agent'.messages = rebuilt
               \/ /\ LastIsAnswer(rebuilt) /\ Failed(Last(rebuilt))
                  /\ agent'.messages = Front(rebuilt)
<1> DEFINE entry == Compaction(clock, jobs[o].kept)
           rebuilt == Context(Append(path, entry))
           resumed == IF jobs[o].overflow /\ LastIsAnswer(rebuilt) /\ Failed(Last(rebuilt)) /\ Last(rebuilt).kind # "aborted"
                      THEN Front(rebuilt) ELSE rebuilt
<1>1. agent' = [agent EXCEPT !.messages = resumed]
  BY DEF JobDone
<1>2. resumed = rebuilt \/ (LastIsAnswer(rebuilt) /\ Failed(Last(rebuilt)) /\ resumed = Front(rebuilt))
  OBVIOUS
<1> HIDE DEF resumed
<1>3. agent'.messages = resumed /\ SameRun /\ SameQueues
  BY <1>1, Replaces
<1> QED
  BY <1>2, <1>3

\* The event at the head is taken.
LEMMA TakenDoes ==
  ASSUME Inv, Ready
  PROVE  /\ session.events \in Seq(Events) /\ session.events # <<>> /\ NextEvent \in Events
         /\ NextEvent = Head(session.events)
         /\ IsSession(Taken) /\ Taken.events = Tail(session.events)
         /\ Taken.steering = session.steering /\ Taken.followUp = session.followUp
         /\ Taken.nextTurn = session.nextTurn /\ Taken.pendingBash = session.pendingBash
         /\ Taken.connected = session.connected /\ Taken.handler = session.handler
         /\ session.handler = "ready"
<1>1. IsSession(session)
  BY RecordsAre
<1>2. session.events \in Seq(Events) /\ session.events # <<>> /\ session.handler = "ready"
  BY DEF Ready, Inv, Types, SessionTypes
<1> DEFINE left == Tail(session.events)
<1>3. Taken = [session EXCEPT !.events = left]
  BY DEF Taken
<1> HIDE DEF left
<1>4. /\ IsSession(Taken) /\ Taken.events = left
      /\ Taken.steering = session.steering /\ Taken.followUp = session.followUp
      /\ Taken.nextTurn = session.nextTurn /\ Taken.pendingBash = session.pendingBash
      /\ Taken.connected = session.connected /\ Taken.handler = session.handler
  BY <1>1, <1>3 DEF IsSession
<1> QED
  BY <1>2, <1>4, HeadAndTail DEF left, NextEvent

TakesNext == session'.events = Tail(session.events)

LEMMA MessageStartsDoes ==
  ASSUME Inv, MessageStarts
  PROVE  LET m == NextEvent.msg
         IN /\ SameNext /\ SamePending /\ SameLink /\ SameHandler /\ TakesNext
            /\ NextEvent.type = "start"
            /\ \/ m.role # "user" /\ SameLists
               \/ /\ m.role = "user" /\ Contains(session.steering, m)
                  /\ session'.steering = RemoveFirst(session.steering, m)
                  /\ session'.followUp = session.followUp
               \/ /\ m.role = "user" /\ ~Contains(session.steering, m)
                  /\ session'.followUp = RemoveFirst(session.followUp, m)
                  /\ session'.steering = session.steering
<1> DEFINE m == NextEvent.msg
           left1 == RemoveFirst(session.steering, m)
           left2 == RemoveFirst(session.followUp, m)
<1>1. Ready /\ NextEvent.type = "start"
      /\ session' = IF m.role = "user" THEN [Unshown(Taken, m) EXCEPT !.overflowed = FALSE] ELSE Taken
  BY DEF MessageStarts
<1>2. /\ IsSession(Taken) /\ Taken.events = Tail(session.events)
      /\ Taken.steering = session.steering /\ Taken.followUp = session.followUp
      /\ Taken.nextTurn = session.nextTurn /\ Taken.pendingBash = session.pendingBash
      /\ Taken.connected = session.connected /\ Taken.handler = session.handler
  BY <1>1, TakenDoes
<1> HIDE DEF m
<1>3. CASE m.role # "user"
  <2>1. session' = Taken
    BY <1>1, <1>3
  <2> QED
    BY <1>1, <1>2, <1>3, <2>1 DEF m, SameNext, SamePending, SameLink, SameHandler, TakesNext, SameLists
<1>4. CASE m.role = "user" /\ Contains(session.steering, m)
  <2>1. session' = [[Taken EXCEPT !.steering = left1] EXCEPT !.overflowed = FALSE]
    BY <1>1, <1>2, <1>4 DEF Unshown
  <2> HIDE DEF left1
  <2>2. /\ session'.steering = left1 /\ session'.followUp = session.followUp
        /\ SameNext /\ SamePending /\ SameLink /\ SameHandler /\ TakesNext
    BY <1>2, <2>1 DEF IsSession, SameNext, SamePending, SameLink, SameHandler, TakesNext
  <2> QED
    BY <1>1, <1>4, <2>2 DEF m, left1
<1>5. CASE m.role = "user" /\ ~Contains(session.steering, m)
  <2>1. session' = [[Taken EXCEPT !.followUp = left2] EXCEPT !.overflowed = FALSE]
    BY <1>1, <1>2, <1>5 DEF Unshown
  <2> HIDE DEF left2
  <2>2. /\ session'.followUp = left2 /\ session'.steering = session.steering
        /\ SameNext /\ SamePending /\ SameLink /\ SameHandler /\ TakesNext
    BY <1>2, <2>1 DEF IsSession, SameNext, SamePending, SameLink, SameHandler, TakesNext
  <2> QED
    BY <1>1, <1>5, <2>2 DEF m, left2
<1> QED
  BY <1>3, <1>4, <1>5

LEMMA MessageEndsDoes ==
  ASSUME Inv, MessageEnds
  PROVE  /\ SameLists /\ SameNext /\ SamePending /\ SameLink /\ SameHandler /\ TakesNext
         /\ NextEvent.type = "end" /\ Ready
         /\ stored' = [stored EXCEPT ![current] = @ \o <<NextEvent.msg>>]
         /\ UNCHANGED <<agent, current, calls, jobs, command, clock, missed>>
<1> DEFINE m == NextEvent.msg
<1>1. /\ Ready /\ NextEvent.type = "end"
      /\ \/ session' = Taken
         \/ session' = [Taken EXCEPT !.lastAnswer = m]
         \/ session' = [Taken EXCEPT !.lastAnswer = m, !.overflowed = FALSE, !.attempt = 0]
      /\ stored' = [stored EXCEPT ![current] = @ \o <<NextEvent.msg>>]
      /\ UNCHANGED <<agent, current, calls, jobs, command, clock, missed>>
  BY DEF MessageEnds, Save
<1> HIDE DEF m
<1>2. /\ IsSession(Taken) /\ Taken.events = Tail(session.events)
      /\ Taken.steering = session.steering /\ Taken.followUp = session.followUp
      /\ Taken.nextTurn = session.nextTurn /\ Taken.pendingBash = session.pendingBash
      /\ Taken.connected = session.connected /\ Taken.handler = session.handler
  BY <1>1, TakenDoes
<1>3. SameLists /\ SameNext /\ SamePending /\ SameLink /\ SameHandler /\ TakesNext
  BY <1>1, <1>2 DEF IsSession, SameLists, SameNext, SamePending, SameLink, SameHandler, TakesNext
<1> QED
  BY <1>1, <1>3

\* The end of an agent_end.
LEMMA SettleDoes ==
  ASSUME Inv, NEW s, NEW m, IsSession(s), Settle(s, m)
  PROVE  /\ Trims
         /\ session'.steering = s.steering /\ session'.followUp = s.followUp
         /\ session'.nextTurn = s.nextTurn /\ session'.pendingBash = s.pendingBash
         /\ session'.events = s.events /\ session'.connected = s.connected
         /\ session'.handler \in {"ready", "compacting"}
         /\ calls' = Released
         /\ jobs' = jobs \/ \E b \in BOOLEAN : jobs' = [jobs EXCEPT ![Handler] = [pc |-> "key", overflow |-> b, kept |-> 0]]
<1> DEFINE v == Verdict(m, TRUE)
           place == IF Compacts(v) THEN "compacting" ELSE "ready"
<1>1. /\ session' = [Attempted(Resolved(s), v) EXCEPT !.handler = place]
      /\ calls' = Released
      /\ jobs' = JobsWith(Handler, v)
      /\ agent' = Trimmed(agent, v)
      /\ missed' = IF v = "overflow" THEN Cut ELSE missed
  BY DEF Settle
<1>2. place \in {"ready", "compacting"}
  OBVIOUS
<1> HIDE DEF v, place
<1>3. Trims
  BY <1>1, TrimmedTrims
<1>4. jobs' = jobs \/ \E b \in BOOLEAN : jobs' = [jobs EXCEPT ![Handler] = [pc |-> "key", overflow |-> b, kept |-> 0]]
  BY <1>1 DEF JobsWith
<1>5. \/ session' = [[s EXCEPT !.promise = FALSE] EXCEPT !.handler = place]
      \/ session' = [[[s EXCEPT !.promise = FALSE] EXCEPT !.overflowed = TRUE] EXCEPT !.handler = place]
  BY <1>1 DEF Attempted, Resolved
<1>6. /\ session'.steering = s.steering /\ session'.followUp = s.followUp
      /\ session'.nextTurn = s.nextTurn /\ session'.pendingBash = s.pendingBash
      /\ session'.events = s.events /\ session'.connected = s.connected
      /\ session'.handler = place
  BY <1>5 DEF IsSession
<1> QED
  BY <1>1, <1>2, <1>3, <1>4, <1>6

HandlerSteps ==
  /\ Trims /\ SameLists /\ SameNext /\ SamePending /\ SameLink
  /\ calls' = calls \/ calls' = Released
  /\ jobs' = jobs \/ \E b \in BOOLEAN : jobs' = [jobs EXCEPT ![Handler] = [pc |-> "key", overflow |-> b, kept |-> 0]]
  /\ UNCHANGED <<stored, current, command, clock>>

LEMMA AgentEndsDoes ==
  ASSUME Inv, AgentEnds
  PROVE  /\ HandlerSteps /\ TakesNext /\ Ready /\ NextEvent.type = "agent_end"
         /\ session'.handler \in {"ready", "compacting", "backoff"}
<1> DEFINE m == session.lastAnswer
           s == [Taken EXCEPT !.lastAnswer = NoMessage]
           t == IF Retryable(m) THEN [s EXCEPT !.attempt = 0] ELSE s
           cut == WithoutLastAnswer(agent.messages)
<1>1. /\ Ready /\ NextEvent.type = "agent_end"
      /\ UNCHANGED <<stored, current, command, clock>>
      /\ \/ session' = Taken /\ UNCHANGED <<agent, calls, jobs, missed>>
         \/ /\ session' = [s EXCEPT !.handler = "backoff", !.handling = m,
                                    !.attempt = @ + 1, !.promise = TRUE]
            /\ agent' = [agent EXCEPT !.messages = cut]
            /\ missed' = Cut
            /\ UNCHANGED <<calls, jobs>>
         \/ Settle(t, m)
  BY DEF AgentEnds
<1>2. /\ IsSession(Taken) /\ Taken.events = Tail(session.events)
      /\ Taken.steering = session.steering /\ Taken.followUp = session.followUp
      /\ Taken.nextTurn = session.nextTurn /\ Taken.pendingBash = session.pendingBash
      /\ Taken.connected = session.connected /\ Taken.handler = session.handler
      /\ session.handler = "ready"
  BY <1>1, TakenDoes
<1> HIDE DEF m, cut
<1>3. CASE session' = Taken /\ UNCHANGED <<agent, calls, jobs, missed>>
  <2>1. Trims
    BY <1>3 DEF Trims, SameRun, SameQueues, SameMessages
  <2>2. SameLists /\ SameNext /\ SamePending /\ SameLink /\ TakesNext /\ session'.handler = "ready"
    BY <1>2, <1>3 DEF SameLists, SameNext, SamePending, SameLink, TakesNext
  <2> QED
    BY <1>1, <1>3, <2>1, <2>2 DEF HandlerSteps
<1>4. CASE /\ session' = [s EXCEPT !.handler = "backoff", !.handling = m,
                                   !.attempt = @ + 1, !.promise = TRUE]
           /\ agent' = [agent EXCEPT !.messages = cut]
           /\ missed' = Cut
           /\ UNCHANGED <<calls, jobs>>
  <2>1. agent'.messages = cut /\ SameRun /\ SameQueues
    BY <1>4, Replaces
  <2>2. Trims
    BY <1>4, <2>1 DEF Trims, cut
  <2>3. /\ SameLists /\ SameNext /\ SamePending /\ SameLink /\ TakesNext
        /\ session'.handler = "backoff"
    BY <1>2, <1>4 DEF IsSession, SameLists, SameNext, SamePending, SameLink, TakesNext
  <2> QED
    BY <1>1, <1>4, <2>2, <2>3 DEF HandlerSteps
<1>5. CASE Settle(t, m)
  <2>1. /\ IsSession(t) /\ t.events = Tail(session.events)
        /\ t.steering = session.steering /\ t.followUp = session.followUp
        /\ t.nextTurn = session.nextTurn /\ t.pendingBash = session.pendingBash
        /\ t.connected = session.connected
    BY <1>2 DEF IsSession
  <2> HIDE DEF t
  <2>2. /\ Trims
        /\ session'.steering = t.steering /\ session'.followUp = t.followUp
        /\ session'.nextTurn = t.nextTurn /\ session'.pendingBash = t.pendingBash
        /\ session'.events = t.events /\ session'.connected = t.connected
        /\ session'.handler \in {"ready", "compacting"}
        /\ calls' = Released
        /\ jobs' = jobs \/ \E b \in BOOLEAN : jobs' = [jobs EXCEPT ![Handler] = [pc |-> "key", overflow |-> b, kept |-> 0]]
    BY <1>5, <2>1, SettleDoes
  <2>3. SameLists /\ SameNext /\ SamePending /\ SameLink /\ TakesNext
    BY <2>1, <2>2 DEF SameLists, SameNext, SamePending, SameLink, TakesNext
  <2> QED
    BY <1>1, <2>2, <2>3 DEF HandlerSteps
<1> QED
  BY <1>1, <1>3, <1>4, <1>5

LEMMA BackoffCancelledDoes ==
  ASSUME Inv, BackoffCancelled
  PROVE  /\ HandlerSteps /\ SameEvents
         /\ session.handler = "cancelled" /\ session'.handler \in {"ready", "compacting"}
<1> DEFINE t == [session EXCEPT !.attempt = 0, !.handling = NoMessage]
           m == session.handling
<1>1. /\ Settle(t, m) /\ UNCHANGED <<stored, current, command, clock>>
      /\ session.handler = "cancelled"
  BY DEF BackoffCancelled
<1>2. /\ IsSession(t) /\ t.events = session.events
      /\ t.steering = session.steering /\ t.followUp = session.followUp
      /\ t.nextTurn = session.nextTurn /\ t.pendingBash = session.pendingBash
      /\ t.connected = session.connected
  <2>1. IsSession(session)
    BY RecordsAre
  <2>2. PICK none : none = NoMessage
    OBVIOUS
  <2>3. t = [session EXCEPT !.attempt = 0, !.handling = none]
    BY <2>2
  <2> HIDE DEF t
  <2> QED
    BY <2>1, <2>3 DEF IsSession
<1> HIDE DEF t, m
<1>3. /\ Trims
      /\ session'.steering = t.steering /\ session'.followUp = t.followUp
      /\ session'.nextTurn = t.nextTurn /\ session'.pendingBash = t.pendingBash
      /\ session'.events = t.events /\ session'.connected = t.connected
      /\ session'.handler \in {"ready", "compacting"}
      /\ calls' = Released
      /\ jobs' = jobs \/ \E b \in BOOLEAN : jobs' = [jobs EXCEPT ![Handler] = [pc |-> "key", overflow |-> b, kept |-> 0]]
  BY <1>1, <1>2, SettleDoes
<1>4. SameLists /\ SameNext /\ SamePending /\ SameLink /\ SameEvents
  BY <1>2, <1>3 DEF SameLists, SameNext, SamePending, SameLink, SameEvents
<1> QED
  BY <1>1, <1>3, <1>4 DEF HandlerSteps

LEMMA BackoffElapsesDoes ==
  ASSUME Inv, BackoffElapses
  PROVE  /\ SameLists /\ SameNext /\ SamePending /\ SameEvents /\ SameLink
         /\ session.handler = "backoff" /\ session'.handler = "ready"
         /\ UNCHANGED <<agent, stored, current, calls, jobs, command, clock, missed>>
<1>1. /\ session' = [session EXCEPT !.handler = "ready", !.handling = NoMessage]
      /\ session.handler = "backoff"
      /\ UNCHANGED <<agent, stored, current, calls, jobs, command, clock, missed>>
  BY DEF BackoffElapses
<1> QED
  BY <1>1, RecordsAre DEF IsSession, SameLists, SameNext, SamePending, SameEvents, SameLink

\* What is recorded goes to the transcript and to the session.
Records(m) ==
  /\ agent'.messages = Append(agent.messages, m) /\ SameRun /\ SameQueues
  /\ stored' = [stored EXCEPT ![current] = @ \o <<m>>]
  /\ missed' = (IF session.events = <<>> THEN missed ELSE missed \cup {"log"})
  /\ session' = session /\ ~Streaming

LEMMA RecordRecords == ASSUME Inv, NEW m, Record(m), session' = session, ~Streaming PROVE Records(m)
<1> DEFINE ms == Append(agent.messages, m)
<1>1. agent' = [agent EXCEPT !.messages = ms] /\ stored' = [stored EXCEPT ![current] = @ \o <<m>>]
      /\ missed' = IF session.events = <<>> THEN missed ELSE missed \cup {"log"}
  BY DEF Record, Save
<1> HIDE DEF ms
<1>2. agent'.messages = ms /\ SameRun /\ SameQueues
  BY <1>1, Replaces
<1> QED
  BY <1>1, <1>2 DEF ms, Records

LEMMA RecordBashDoes ==
  ASSUME Inv, RecordBash
  PROVE  LET m == Message("bash", clock, "none")
         IN /\ UNCHANGED <<current, calls, jobs, command>> /\ clock' = clock + 1
            /\ \/ /\ UNCHANGED <<agent, stored, missed>>
                  /\ SameLists /\ SameNext /\ SameEvents /\ SameLink /\ SameHandler
                  /\ session'.pendingBash = Append(session.pendingBash, m)
               \/ Records(m)
<1> DEFINE m == Message("bash", clock, "none")
           l == Append(session.pendingBash, m)
<1>1. UNCHANGED <<current, calls, jobs, command>> /\ clock' = clock + 1
  BY DEF RecordBash
<1>2. CASE Streaming
  <2>1. session' = [session EXCEPT !.pendingBash = l] /\ UNCHANGED <<agent, stored, missed>>
    BY <1>2 DEF RecordBash
  <2> HIDE DEF l
  <2>2. /\ SameLists /\ SameNext /\ SameEvents /\ SameLink /\ SameHandler
        /\ session'.pendingBash = l
    BY <2>1, RecordsAre DEF IsSession, SameLists, SameNext, SameEvents, SameLink, SameHandler
  <2> QED
    BY <1>1, <2>1, <2>2 DEF l
<1>3. CASE ~Streaming
  <2>1. Record(m) /\ session' = session
    BY <1>3 DEF RecordBash
  <2> HIDE DEF m
  <2>2. Records(m)
    BY <1>3, <2>1, RecordRecords
  <2> QED
    BY <1>1, <2>2 DEF m
<1> QED
  BY <1>2, <1>3

LEMMA SendCustomDoes ==
  ASSUME Inv, SendCustom
  PROVE  LET m == Message("custom", clock, "none")
         IN /\ UNCHANGED <<current, calls, jobs, command>> /\ clock' = clock + 1
            /\ \/ /\ UNCHANGED <<agent, stored, missed>>
                  /\ SameLists /\ SamePending /\ SameEvents /\ SameLink /\ SameHandler
                  /\ session'.nextTurn = Append(session.nextTurn, m)
               \/ /\ UNCHANGED <<session, stored, missed>> /\ SameMessages /\ SameRun
                  /\ \/ agent'.steering = Append(agent.steering, m) /\ agent'.followUp = agent.followUp
                     \/ agent'.followUp = Append(agent.followUp, m) /\ agent'.steering = agent.steering
               \/ Records(m)
<1> DEFINE m == Message("custom", clock, "none")
           l == Append(session.nextTurn, m)
           l1 == Append(agent.steering, m)
           l2 == Append(agent.followUp, m)
<1>1. /\ UNCHANGED <<current, calls, jobs, command>> /\ clock' = clock + 1
      /\ \/ session' = [session EXCEPT !.nextTurn = l] /\ UNCHANGED <<agent, stored, missed>>
         \/ /\ agent' = [agent EXCEPT !.steering = l1] \/ agent' = [agent EXCEPT !.followUp = l2]
            /\ UNCHANGED <<session, stored, missed>>
         \/ ~Streaming /\ Record(m) /\ session' = session
  BY DEF SendCustom
<1> HIDE DEF l, l1, l2, m
<1>2. CASE session' = [session EXCEPT !.nextTurn = l] /\ UNCHANGED <<agent, stored, missed>>
  <2>1. /\ SameLists /\ SamePending /\ SameEvents /\ SameLink /\ SameHandler
        /\ session'.nextTurn = l
    BY <1>2, RecordsAre DEF IsSession, SameLists, SamePending, SameEvents, SameLink, SameHandler
  <2> QED
    BY <1>1, <1>2, <2>1 DEF l, m
<1>3. CASE agent' = [agent EXCEPT !.steering = l1] /\ UNCHANGED <<session, stored, missed>>
  <2>1. SameMessages /\ SameRun /\ agent'.steering = l1 /\ agent'.followUp = agent.followUp
    BY <1>3, RecordsAre DEF IsAgent, SameMessages, SameRun
  <2> QED
    BY <1>1, <1>3, <2>1 DEF l1, m
<1>4. CASE agent' = [agent EXCEPT !.followUp = l2] /\ UNCHANGED <<session, stored, missed>>
  <2>1. SameMessages /\ SameRun /\ agent'.followUp = l2 /\ agent'.steering = agent.steering
    BY <1>4, RecordsAre DEF IsAgent, SameMessages, SameRun
  <2> QED
    BY <1>1, <1>4, <2>1 DEF l2, m
<1>5. CASE ~Streaming /\ Record(m) /\ session' = session
  <2>1. Records(m)
    BY <1>5, RecordRecords
  <2> QED
    BY <1>1, <2>1 DEF m
<1> QED
  BY <1>1, <1>2, <1>3, <1>4, <1>5

LEMMA EscapeBackoffDoes ==
  ASSUME Inv, EscapeBackoff
  PROVE  /\ UNCHANGED <<agent, stored, current, jobs, command, clock, missed>> /\ calls' = Released
         /\ SameLists /\ SameNext /\ SamePending /\ SameEvents /\ SameLink
         /\ session.handler = "backoff" /\ session'.handler = "cancelled"
<1>1. /\ session' = [[session EXCEPT !.promise = FALSE] EXCEPT !.handler = IF @ = "backoff" THEN "cancelled" ELSE @]
      /\ session.handler = "backoff" /\ calls' = Released
      /\ UNCHANGED <<agent, stored, current, jobs, command, clock, missed>>
  BY DEF EscapeBackoff, RetryAborted, Resolved
<1> QED
  BY <1>1, RecordsAre DEF IsSession, SameLists, SameNext, SamePending, SameEvents, SameLink

LEMMA EscapeRunDoes ==
  ASSUME Inv, EscapeRun
  PROVE  /\ UNCHANGED <<stored, current, calls, jobs, command, clock>>
         /\ missed' = missed \ {"mirror"}
         /\ SameMessages /\ SameRun /\ agent'.steering = <<>> /\ agent'.followUp = <<>>
         /\ SameNext /\ SamePending /\ SameEvents /\ SameLink /\ SameHandler
         /\ session'.steering = <<>> /\ session'.followUp = <<>>
<1>1. /\ agent' = [agent EXCEPT !.stopping = TRUE, !.steering = <<>>, !.followUp = <<>>]
      /\ session' = [session EXCEPT !.steering = <<>>, !.followUp = <<>>]
      /\ missed' = missed \ {"mirror"}
      /\ UNCHANGED <<stored, current, calls, jobs, command, clock>>
  BY DEF EscapeRun
<1>2. SameMessages /\ SameRun /\ agent'.steering = <<>> /\ agent'.followUp = <<>>
  BY <1>1, RecordsAre DEF IsAgent, SameMessages, SameRun
<1>3. /\ SameNext /\ SamePending /\ SameEvents /\ SameLink /\ SameHandler
      /\ session'.steering = <<>> /\ session'.followUp = <<>>
  BY <1>1, RecordsAre DEF IsSession, SameNext, SamePending, SameEvents, SameLink, SameHandler
<1> QED
  BY <1>1, <1>2, <1>3

LEMMA CommandStartsDoes ==
  ASSUME Inv, NEW name, CommandStarts(name)
  PROVE  /\ UNCHANGED <<stored, current, jobs, clock, missed>> /\ calls' = Released
         /\ name \in {"new", "switch", "compact"} /\ command.pc = "none"
         /\ command' = [command EXCEPT !.name = name, !.pc = "idle"]
         /\ WholeAgent
         /\ SameLists /\ SameNext /\ SamePending /\ SameEvents
         /\ session'.connected = FALSE
         /\ session'.handler = (IF session.handler = "backoff" THEN "cancelled" ELSE session.handler)
<1>1. /\ session' = [[[session EXCEPT !.connected = FALSE] EXCEPT !.promise = FALSE] EXCEPT !.handler = IF @ = "backoff" THEN "cancelled" ELSE @]
      /\ agent' = IF agent.phase = "idle" THEN agent ELSE [agent EXCEPT !.stopping = TRUE]
      /\ UNCHANGED <<stored, current, jobs, clock, missed>> /\ calls' = Released
      /\ name \in {"new", "switch", "compact"} /\ command.pc = "none"
      /\ command' = [command EXCEPT !.name = name, !.pc = "idle"]
  BY DEF CommandStarts, Commanded, AbortEffects, RetryAborted, Resolved
<1>2. WholeAgent
  BY <1>1, RecordsAre DEF IsAgent, WholeAgent, SameMessages, SameRun, SameQueues
<1>3. /\ SameLists /\ SameNext /\ SamePending /\ SameEvents
      /\ session'.connected = FALSE
      /\ session'.handler = (IF session.handler = "backoff" THEN "cancelled" ELSE session.handler)
  BY <1>1, RecordsAre DEF IsSession, SameLists, SameNext, SamePending, SameEvents
<1> QED
  BY <1>1, <1>2, <1>3

LEMMA NewSessionDoes ==
  ASSUME Inv, NewSession
  PROVE  /\ UNCHANGED <<stored, calls, jobs, clock>> /\ ~Streaming
         /\ current' \in Unused /\ missed' = Rebuilt \ {"mirror"} /\ command' = NoCommand
         /\ SameRun /\ agent'.messages = <<>> /\ agent'.steering = <<>> /\ agent'.followUp = <<>>
         /\ SamePending /\ SameEvents /\ SameHandler /\ session'.connected = TRUE
         /\ session'.steering = <<>> /\ session'.followUp = <<>> /\ session'.nextTurn = <<>>
<1>1. /\ UNCHANGED <<stored, calls, jobs, clock>> /\ ~Streaming
      /\ current' \in Unused /\ missed' = Rebuilt \ {"mirror"} /\ command' = NoCommand
      /\ agent' = [agent EXCEPT !.messages = <<>>, !.steering = <<>>, !.followUp = <<>>]
      /\ session' = [session EXCEPT !.steering = <<>>, !.followUp = <<>>, !.nextTurn = <<>>, !.connected = TRUE]
  BY DEF NewSession
<1>2. SameRun /\ agent'.messages = <<>> /\ agent'.steering = <<>> /\ agent'.followUp = <<>>
  BY <1>1, RecordsAre DEF IsAgent, SameRun
<1>3. /\ SamePending /\ SameEvents /\ SameHandler /\ session'.connected = TRUE
      /\ session'.steering = <<>> /\ session'.followUp = <<>> /\ session'.nextTurn = <<>>
  BY <1>1, RecordsAre DEF IsSession, SamePending, SameEvents, SameHandler
<1> QED
  BY <1>1, <1>2, <1>3

LEMMA SwitchOpensDoes ==
  ASSUME Inv, SwitchOpens
  PROVE  /\ UNCHANGED <<agent, stored, calls, jobs, clock>> /\ ~Streaming
         /\ current' \in Files \ {current} /\ command.pc = "idle"
         /\ command' = [command EXCEPT !.pc = "restore", !.context = Context(stored[current'])]
         /\ missed' = IF Queued(agent) THEN missed \cup {"mirror"} ELSE missed \ {"mirror"}
         /\ SamePending /\ SameEvents /\ SameLink /\ SameHandler
         /\ session'.steering = <<>> /\ session'.followUp = <<>> /\ session'.nextTurn = <<>>
<1>1. /\ UNCHANGED <<agent, stored, calls, jobs, clock>> /\ ~Streaming
      /\ current' \in Files \ {current} /\ command.pc = "idle"
      /\ command' = [command EXCEPT !.pc = "restore", !.context = Context(stored[current'])]
      /\ missed' = IF Queued(agent) THEN missed \cup {"mirror"} ELSE missed \ {"mirror"}
      /\ session' = [session EXCEPT !.steering = <<>>, !.followUp = <<>>, !.nextTurn = <<>>]
  BY DEF SwitchOpens, CommandAt
<1>2. /\ SamePending /\ SameEvents /\ SameLink /\ SameHandler
      /\ session'.steering = <<>> /\ session'.followUp = <<>> /\ session'.nextTurn = <<>>
  BY <1>1, RecordsAre DEF IsSession, SamePending, SameEvents, SameLink, SameHandler
<1> QED
  BY <1>1, <1>2

LEMMA SwitchRestoresDoes ==
  ASSUME Inv, SwitchRestores
  PROVE  /\ UNCHANGED <<stored, current, calls, jobs, clock>> /\ command.pc = "restore"
         /\ command' = NoCommand
         /\ missed' = IF command.context = Context(path) THEN Rebuilt ELSE missed \cup {"log"}
         /\ SameRun /\ SameQueues /\ agent'.messages = command.context
         /\ SameLists /\ SameNext /\ SamePending /\ SameEvents /\ SameHandler /\ session'.connected = TRUE
<1>1. /\ UNCHANGED <<stored, current, calls, jobs, clock>> /\ command.pc = "restore"
      /\ command' = NoCommand
      /\ missed' = IF command.context = Context(path) THEN Rebuilt ELSE missed \cup {"log"}
      /\ agent' = [agent EXCEPT !.messages = command.context]
      /\ session' = [session EXCEPT !.connected = TRUE]
  BY DEF SwitchRestores, CommandAt
<1>2. SameRun /\ SameQueues /\ agent'.messages = command.context
  BY <1>1, Replaces
<1>3. SameLists /\ SameNext /\ SamePending /\ SameEvents /\ SameHandler /\ session'.connected = TRUE
  BY <1>1, RecordsAre DEF IsSession, SameLists, SameNext, SamePending, SameEvents, SameHandler
<1> QED
  BY <1>1, <1>2, <1>3

LEMMA NavigateTreeDoes ==
  ASSUME Inv, NavigateTree
  PROVE  /\ UNCHANGED <<session, current, calls, jobs, command, clock>> /\ command.pc = "none"
         /\ missed' = Rebuilt /\ SameRun /\ SameQueues
         /\ \E i \in 0..(Len(path) - 1) :
              /\ stored' = [stored EXCEPT ![current] = SubSeq(path, 1, i)]
              /\ agent'.messages = Context(SubSeq(path, 1, i))
<1>1. PICK i \in 1..(Len(path) - 1) :
        LET leaf == IF path[i].role \in {"user", "custom"} THEN i - 1 ELSE i
            kept == SubSeq(path, 1, leaf)
        IN /\ Commanded("tree")
           /\ stored' = [stored EXCEPT ![current] = kept]
           /\ agent' = [agent EXCEPT !.messages = Context(kept)]
           /\ missed' = Rebuilt
           /\ UNCHANGED <<session, current, calls, jobs, command, timers, clock, again>>
  BY DEF NavigateTree
<1> DEFINE leaf == IF path[i].role \in {"user", "custom"} THEN i - 1 ELSE i
           ms == Context(SubSeq(path, 1, leaf))
<1>2. agent' = [agent EXCEPT !.messages = ms]
  BY <1>1
<1>3. leaf \in 0..(Len(path) - 1)
  OBVIOUS
<1> HIDE DEF ms
<1>4. agent'.messages = ms /\ SameRun /\ SameQueues
  BY <1>2, Replaces
<1> QED
  BY <1>1, <1>3, <1>4 DEF ms, Commanded

LEMMA ForkDoes ==
  ASSUME Inv, Fork
  PROVE  /\ UNCHANGED <<calls, jobs, command, clock>> /\ command.pc = "none"
         /\ missed' = Rebuilt /\ SameRun /\ SameQueues
         /\ SameLists /\ SamePending /\ SameEvents /\ SameLink /\ SameHandler /\ session'.nextTurn = <<>>
         /\ current' \in Unused
         /\ \E i \in 1..Len(path) :
              /\ stored' = [stored EXCEPT ![current'] = SubSeq(path, 1, i - 1)]
              /\ agent'.messages = Context(SubSeq(path, 1, i - 1))
<1>1. PICK i \in 1..Len(path) :
        /\ Commanded("fork")
        /\ current' \in Unused
        /\ stored' = [stored EXCEPT ![current'] = SubSeq(path, 1, i - 1)]
        /\ session' = [session EXCEPT !.nextTurn = <<>>]
        /\ agent' = [agent EXCEPT !.messages = Context(SubSeq(path, 1, i - 1))]
        /\ missed' = Rebuilt
        /\ UNCHANGED <<calls, jobs, command, clock>>
  BY DEF Fork
<1> DEFINE ms == Context(SubSeq(path, 1, i - 1))
<1>2. agent' = [agent EXCEPT !.messages = ms]
  BY <1>1
<1> HIDE DEF ms
<1>3. agent'.messages = ms /\ SameRun /\ SameQueues
  BY <1>2, Replaces
<1>4. SameLists /\ SamePending /\ SameEvents /\ SameLink /\ SameHandler /\ session'.nextTurn = <<>>
  BY <1>1, RecordsAre DEF IsSession, SameLists, SamePending, SameEvents, SameLink, SameHandler
<1> QED
  BY <1>1, <1>3, <1>4 DEF ms, Commanded

-----------------------------------------------------------------------------
(* The types of what RecoveryBounded does not need.                        *)

BashMessages == {m \in Messages : m.role = "bash"}
UserInputs == {m \in Inputs : m.role = "user"}
CustomInputs == {m \in Inputs : m.role = "custom"}
PlainEvents == {e \in Events : e.msg \in NoSummaries}

SessionData ==
  /\ session.events \in Seq(PlainEvents)
  /\ session.pendingBash \in Seq(BashMessages)
  /\ session.nextTurn \in Seq(CustomInputs)
  /\ session.steering \in Seq(UserInputs)
  /\ session.followUp \in Seq(UserInputs)
StoredData ==
  /\ stored \in [Files -> Seq(Messages)]
  /\ current \in Files
  /\ agent.messages \in Seq(Messages)
JobData ==
  /\ jobs \in [Owners -> [pc: {"none", "key", "summary"}, overflow: BOOLEAN, kept: Nat]]
  /\ command \in [name: {"none", "new", "switch", "compact"},
                  pc: {"none", "idle", "restore", "compacting"}, context: Seq(Messages)]
  /\ jobs[Command].pc # "none" => command.pc = "compacting"
Data == SessionData /\ StoredData /\ JobData

LEMMA DataSets ==
  /\ BashMessages \subseteq NoSummaries /\ NoSummaries \subseteq Messages
  /\ BashMessages \subseteq Messages /\ UserInputs \subseteq Inputs /\ CustomInputs \subseteq Inputs
  /\ Inputs \subseteq NoSummaries /\ Inputs \subseteq Messages /\ PlainEvents \subseteq Events
  BY SaidTypes DEF BashMessages, NoSummaries, UserInputs, CustomInputs, PlainEvents, Inputs, Messages, Roles, Kinds

LEMMA PlainEnded ==
  ASSUME NEW s \in Seq(PlainEvents)
  PROVE  s \in Seq(Events) /\ EndedIn(s) \in Seq(NoSummaries)
<1>1. s \in Seq(Events)
  BY DataSets, SeqMonotonic
<1>2. EndedIn(s) \in Seq(Messages) /\ ToSet(EndedIn(s)) = {e.msg : e \in {x \in ToSet(s) : x.type = "end"}}
  BY <1>1, EndedType, EndedElements
<1>3. ToSet(s) \subseteq PlainEvents
  BY Elements
<1> DEFINE v == EndedIn(s)
<1>4. ToSet(v) \subseteq NoSummaries
  BY <1>2, <1>3 DEF PlainEvents
<1> HIDE DEF v
<1>5. \A i \in 1..Len(v) : v[i] \in ToSet(v)
  BY <1>2, Elements DEF v
<1>6. \A i \in 1..Len(v) : v[i] \in NoSummaries
  BY <1>4, <1>5
<1>7. v \in Seq(Messages)
  BY <1>2 DEF v
<1>8. v \in Seq(NoSummaries)
  BY <1>6, <1>7
<1> QED
  BY <1>1, <1>8 DEF v

LEMMA PathType == StoredData => path \in Seq(Messages)
  BY DEF StoredData, path

LEMMA EndedMessagesType ==
  ASSUME SessionData
  PROVE  EndedMessages \in Seq(NoSummaries) /\ EndedMessages = EndedIn(session.events)
<1>1. session.events \in Seq(PlainEvents)
  BY DEF SessionData
<1>2. session.events \in Seq(Events) /\ EndedIn(session.events) \in Seq(NoSummaries)
  BY <1>1, PlainEnded
<1> QED
  BY <1>2, EndedMessagesIs

\* A sequence without the first of its elements that is m.
IsWithout(r, s, m, S) ==
  \/ (\A i \in 1..Len(s) : s[i] # m) /\ r = s
  \/ m \in S /\ \E a, b \in Seq(S) : s = (a \o <<m>>) \o b /\ r = a \o b

LEMMA RemovedIs ==
  ASSUME NEW S, NEW s \in Seq(S), NEW m
  PROVE  IsWithout(RemoveFirst(s, m), s, m, S)
<1> SUFFICES \/ (\A i \in 1..Len(s) : s[i] # m) /\ RemoveFirst(s, m) = s
             \/ m \in S /\ \E a, b \in Seq(S) : s = (a \o <<m>>) \o b /\ RemoveFirst(s, m) = a \o b
  BY DEF IsWithout
<1>0. Len(s) \in Nat
  OBVIOUS
<1>1. CASE \A i \in 1..Len(s) : s[i] # m
  BY <1>1 DEF RemoveFirst
<1>2. CASE \E i \in 1..Len(s) : s[i] = m
  <2> DEFINE I == {i \in 1..Len(s) : s[i] = m}
             k == SelectInSeq(s, LAMBDA v : v = m)
  <2>1. I # {} /\ I \in SUBSET (1..Len(s))
    BY <1>2
  <2>2. k = IF I # {} THEN Min(I) ELSE 0
    BY DEF SelectInSeq
  <2>3. Min(I) \in I
    BY <1>0, <2>1, LeastIs
  <2>4. k \in 1..Len(s) /\ s[k] = m
    BY <2>1, <2>2, <2>3
  <2>5. RemoveFirst(s, m) = SubSeq(s, 1, k - 1) \o SubSeq(s, k + 1, Len(s))
    BY <1>2 DEF RemoveFirst, RemoveAt
  <2> HIDE DEF k
  <2> DEFINE a == SubSeq(s, 1, k - 1)
             b == SubSeq(s, k + 1, Len(s))
             c == SubSeq(s, k, Len(s))
  <2>6. a \in Seq(S) /\ b \in Seq(S) /\ m \in S
    BY <1>0, <2>4
  <2>7. SubSeq(s, 1, k) = a \o <<m>>
    BY <1>0, <2>4, SubSeqRecursiveSecond
  <2>8. s = SubSeq(s, 1, k) \o b
    <3> DEFINE w == SubSeq(s, 1, k)
               u == w \o b
    <3>1. w \in Seq(S) /\ Len(w) = k /\ \A i \in 1..k : w[i] = s[i]
      BY <1>0, <2>4
    <3>2. b \in Seq(S) /\ Len(b) = Len(s) - k
      BY <1>0, <2>4
    <3>3. \A i \in 1..(Len(s) - k) : b[i] = s[k + i]
      <4>1. \A i \in 1..(Len(s) - (k + 1) + 1) : b[i] = s[(k + 1) + i - 1]
        <5>1. \A i \in (k + 1)..Len(s) : s[i] \in S
          BY <1>0, <2>4
        <5>2. k + 1 \in Int /\ Len(s) \in Int
          BY <1>0, <2>4
        <5> QED
          BY <5>1, <5>2, SubSeqProperties
      <4>2. \A i \in 1..(Len(s) - k) : i \in 1..(Len(s) - (k + 1) + 1) /\ (k + 1) + i - 1 = k + i
        BY <1>0, <2>4
      <4> HIDE DEF b
      <4> QED
        BY <4>1, <4>2
    <3> HIDE DEF w, b
    <3>4. /\ u \in Seq(S) /\ Len(u) = Len(w) + Len(b)
          /\ \A i \in 1..Len(w) : u[i] = w[i]
          /\ \A i \in 1..(Len(w) + Len(b)) : i > Len(w) => u[i] = b[i - Len(w)]
      <4>1. w \in Seq(S) /\ b \in Seq(S)
        BY <3>1, <3>2
      <4> QED
        BY <4>1, ConcatTyped
    <3> HIDE DEF u
    <3>5. Len(u) = Len(s)
      BY <1>0, <2>4, <3>1, <3>2, <3>4
    <3>6. ASSUME NEW i \in 1..Len(s) PROVE u[i] = s[i]
      <4>1. CASE i \in 1..k
        BY <3>1, <3>4, <4>1
      <4>2. CASE i > k
        <5>1. i - k \in 1..(Len(s) - k) /\ k + (i - k) = i
          BY <1>0, <2>4, <4>2
        <5>2. b[i - k] = s[i]
          BY <3>3, <5>1
        <5>3. u[i] = b[i - k]
          BY <1>0, <2>4, <3>1, <3>2, <3>4, <4>2
        <5> QED
          BY <5>2, <5>3
      <4> QED
        BY <1>0, <2>4, <4>1, <4>2
    <3>7. s = u
      BY <3>4, <3>5, <3>6, SeqEqual
    <3> QED
      BY <3>7 DEF u, w
  <2> HIDE DEF a, b
  <2>9. s = (a \o <<m>>) \o b
    BY <2>7, <2>8
  <2> QED
    BY <2>5, <2>6, <2>9 DEF a, b
<1> QED
  BY <1>1, <1>2

LEMMA RemovedType ==
  ASSUME NEW S, NEW s \in Seq(S), NEW m
  PROVE  RemoveFirst(s, m) \in Seq(S)
<1> DEFINE r == RemoveFirst(s, m)
<1>1. IsWithout(r, s, m, S)
  BY RemovedIs
<1> HIDE DEF r
<1>3. ASSUME NEW a \in Seq(S), NEW b \in Seq(S), r = a \o b PROVE r \in Seq(S)
  BY <1>3, ConcatTyped
<1>4. r \in Seq(S)
  BY <1>1, <1>3 DEF IsWithout
<1> QED
  BY <1>4 DEF r

LEMMA TrimmedIs ==
  ASSUME NEW ms \in Seq(Messages)
  PROVE  \/ WithoutLastAnswer(ms) = ms
         \/ LastIsAnswer(ms) /\ \E rest \in Seq(Messages) : ms = Append(rest, Last(ms)) /\ WithoutLastAnswer(ms) = rest /\ Last(ms) \in Messages
<1>1. CASE ~LastIsAnswer(ms)
  BY <1>1 DEF WithoutLastAnswer
<1>2. CASE LastIsAnswer(ms)
  <2>1. ms # <<>> /\ Len(ms) \in Nat \ {0}
    BY <1>2 DEF LastIsAnswer
  <2> DEFINE n == Len(ms)
  <2>2. SubSeq(ms, 1, n) = SubSeq(ms, 1, n - 1) \o <<ms[n]>>
    BY <2>1, SubSeqRecursiveSecond
  <2>3. SubSeq(ms, 1, n) = ms /\ SubSeq(ms, 1, n - 1) \in Seq(Messages) /\ ms[n] \in Messages
    BY <2>1
  <2>4. SubSeq(ms, 1, n - 1) \o <<ms[n]>> = Append(SubSeq(ms, 1, n - 1), ms[n])
    BY <2>3, AppendIsConcat
  <2>5. WithoutLastAnswer(ms) = SubSeq(ms, 1, n - 1) /\ Last(ms) = ms[n]
    BY <1>2 DEF WithoutLastAnswer, Front, Last
  <2> HIDE DEF n
  <2> QED
    BY <1>2, <2>2, <2>3, <2>4, <2>5
<1> QED
  BY <1>1, <1>2

LEMMA TrimsType ==
  ASSUME agent.messages \in Seq(Messages), Trims
  PROVE  agent'.messages \in Seq(Messages)
<1>1. WithoutLastAnswer(agent.messages) \in Seq(Messages)
  BY TrimmedIs
<1> QED
  BY <1>1 DEF Trims, SameMessages

\* Every step keeps the types of the session's lists and events.
LEMMA ListsKept ==
  ASSUME SessionData, SameLists, SameNext, SamePending, SameEvents
  PROVE  SessionData'
  BY DEF SessionData, SameLists, SameNext, SamePending, SameEvents

LEMMA SaysSessionData ==
  ASSUME SessionData, NEW ms, NEW q, NEW new, Says(ms, q, new)
  PROVE  SessionData'
<1>1. /\ new \in Seq(Events) /\ ms \in Seq(NoSummaries)
      /\ \A i \in 1..Len(new) : new[i].msg \in ToSet(ms)
      /\ Hears(new)
  BY DEF Says
<1>2. ToSet(ms) \subseteq NoSummaries
  BY <1>1, Elements
<1>3. \A i \in 1..Len(new) : new[i] \in PlainEvents
  BY <1>1, <1>2 DEF PlainEvents
<1>4. new \in Seq(PlainEvents)
  BY <1>1, <1>3
<1>5. session.events \in Seq(PlainEvents)
  BY DEF SessionData
<1>6. session.events \o new \in Seq(PlainEvents)
  BY <1>4, <1>5, ConcatTyped
<1> QED
  BY <1>1, <1>5, <1>6 DEF SessionData, Hears

LEMMA TakenType ==
  ASSUME SessionData, session.events # <<>>, TakesNext
  PROVE  session'.events \in Seq(PlainEvents)
<1>1. session.events \in Seq(PlainEvents)
  BY DEF SessionData
<1>2. Tail(session.events) \in Seq(PlainEvents)
  BY <1>1, HeadAndTail
<1> QED
  BY <1>2 DEF TakesNext

LEMMA MessageInputs ==
  ASSUME NEW id \in Nat
  PROVE  /\ Message("user", id, "none") \in UserInputs
         /\ Message("custom", id, "none") \in CustomInputs
         /\ Message("bash", id, "none") \in BashMessages
         /\ \A kept \in Nat : Compaction(id, kept) \in Messages /\ Compaction(id, kept).role = "compaction"
  BY DEF Message, Compaction, UserInputs, CustomInputs, BashMessages, Inputs, Messages, Roles, Kinds

LEMMA NextSessionData == Inv /\ agent.messages \in Seq(Messages) /\ SessionData /\ [Next]_vars => SessionData'
<1> SUFFICES ASSUME Inv, agent.messages \in Seq(Messages), SessionData, [Next]_vars PROVE SessionData'
  OBVIOUS
<1>0. clock \in Nat
  BY DEF Inv, Types
<1>e. <<>> \in Seq(CustomInputs) /\ <<>> \in Seq(UserInputs) /\ <<>> \in Seq(BashMessages)
  OBVIOUS
<1>u. session' = session => SessionData'
  BY DEF SessionData
<1>1. CASE AgentStep
  <2>1. ASSUME NEW k \in {"stop", "aborted"} \cup Outcomes, Answer(k) PROVE SessionData'
    BY <2>1, AnswerSays, SaysSessionData
  <2>2. ASSUME NEW t \in {"throws", "throwsRetryable"}, RunThrows(t) PROVE SessionData'
    BY <2>2, ThrownSays, SaysSessionData
  <2>3. CASE ToolsDone
    BY <2>3, ToolsSay, SaysSessionData
  <2> QED
    BY <1>1, <2>1, <2>2, <2>3 DEF AgentStep
<1>2. CASE HandlerStep
  <2>1. CASE MessageStarts
    <3>1. SessionData
      OBVIOUS
    <3>2. /\ SameNext /\ SamePending /\ TakesNext
          /\ session'.steering \in {session.steering, RemoveFirst(session.steering, NextEvent.msg)}
          /\ session'.followUp \in {session.followUp, RemoveFirst(session.followUp, NextEvent.msg)}
      BY <2>1, MessageStartsDoes DEF SameLists
    <3>3. session.events # <<>>
      BY <2>1 DEF MessageStarts, Ready
    <3>4. session'.events \in Seq(PlainEvents)
      BY <3>2, <3>3, TakenType
    <3>5. /\ RemoveFirst(session.steering, NextEvent.msg) \in Seq(UserInputs)
          /\ RemoveFirst(session.followUp, NextEvent.msg) \in Seq(UserInputs)
      <4>1. session.steering \in Seq(UserInputs) /\ session.followUp \in Seq(UserInputs)
        BY DEF SessionData
      <4> QED
        BY <4>1, RemovedType
    <3> QED
      BY <3>2, <3>4, <3>5 DEF SessionData, SameNext, SamePending
  <2>2. CASE MessageEnds
    <3>1. SameLists /\ SameNext /\ SamePending /\ TakesNext /\ session.events # <<>>
      BY <2>2, MessageEndsDoes DEF Ready
    <3>2. session'.events \in Seq(PlainEvents)
      BY <3>1, TakenType
    <3> QED
      BY <3>1, <3>2 DEF SessionData, SameLists, SameNext, SamePending
  <2>3. CASE AgentEnds
    <3>1. SameLists /\ SameNext /\ SamePending /\ TakesNext /\ session.events # <<>>
      BY <2>3, AgentEndsDoes DEF Ready, HandlerSteps
    <3>2. session'.events \in Seq(PlainEvents)
      BY <3>1, TakenType
    <3> QED
      BY <3>1, <3>2 DEF SessionData, SameLists, SameNext, SamePending
  <2>4. CASE BackoffElapses
    BY <2>4, BackoffElapsesDoes, ListsKept
  <2>5. CASE BackoffCancelled
    BY <2>5, BackoffCancelledDoes, ListsKept DEF HandlerSteps
  <2> QED
    BY <1>2, <2>1, <2>2, <2>3, <2>4, <2>5 DEF HandlerStep
<1>3. CASE CommandStep
  <2>1. CASE NewSession
    BY <1>e, <2>1, NewSessionDoes DEF SessionData, SamePending, SameEvents
  <2>2. CASE SwitchOpens
    BY <1>e, <2>2, SwitchOpensDoes DEF SessionData, SamePending, SameEvents
  <2>3. CASE SwitchRestores
    BY <2>3, SwitchRestoresDoes, ListsKept
  <2>4. CASE CompactStarts
    BY <1>u, <2>4 DEF CompactStarts
  <2> QED
    BY <1>3, <2>1, <2>2, <2>3, <2>4 DEF CommandStep
<1>4. CASE TimerStep
  <2>1. ASSUME NEW k \in {"retry", "resume"}, Continue(k) PROVE SessionData'
    BY <1>u, <2>1, ContinueSays, SaysSessionData
  <2> QED
    BY <1>4, <2>1 DEF TimerStep
<1>5. CASE HostStep
  <2>1. ASSUME NEW p \in Prompts, PromptQueues(p) PROVE SessionData'
    <3> DEFINE m == Message("user", clock, "none")
    <3>1. m \in UserInputs
      BY <1>0, MessageInputs
    <3> HIDE DEF m
    <3>2. /\ SameNext /\ SamePending /\ SameEvents
          /\ session'.steering \in {session.steering, Append(session.steering, m)}
          /\ session'.followUp \in {session.followUp, Append(session.followUp, m)}
      BY <2>1, PromptQueuesDoes DEF m
    <3>3. \A s \in Seq(UserInputs) : Append(s, m) \in Seq(UserInputs)
      BY <3>1
    <3> QED
      BY <3>2, <3>3 DEF SessionData, SameNext, SamePending, SameEvents
  <2>2. ASSUME NEW p \in Prompts, PromptStarts(p) PROVE SessionData'
    BY <1>e, <2>2, PromptStartsDoes DEF SessionData, SameLists, SameNext, SameEvents
  <2>3. ASSUME NEW name \in Commands, CommandStarts(name) PROVE SessionData'
    BY <2>3, CommandStartsDoes, ListsKept
  <2>4. CASE RecordBash
    <3> DEFINE m == Message("bash", clock, "none")
    <3>1. m \in BashMessages
      BY <1>0, MessageInputs
    <3> HIDE DEF m
    <3>2. \/ session' = session
          \/ /\ SameLists /\ SameNext /\ SameEvents
             /\ session'.pendingBash = Append(session.pendingBash, m)
      BY <2>4, RecordBashDoes DEF m, Records
    <3>3. \A s \in Seq(BashMessages) : Append(s, m) \in Seq(BashMessages)
      BY <3>1
    <3> QED
      BY <1>u, <3>2, <3>3 DEF SessionData, SameLists, SameNext, SameEvents
  <2>5. CASE SendCustom
    <3> DEFINE m == Message("custom", clock, "none")
    <3>1. m \in CustomInputs
      BY <1>0, MessageInputs
    <3> HIDE DEF m
    <3>2. \/ session' = session
          \/ /\ SameLists /\ SamePending /\ SameEvents
             /\ session'.nextTurn = Append(session.nextTurn, m)
      BY <2>5, SendCustomDoes DEF m, Records
    <3>3. \A s \in Seq(CustomInputs) : Append(s, m) \in Seq(CustomInputs)
      BY <3>1
    <3> QED
      BY <1>u, <3>2, <3>3 DEF SessionData, SameLists, SamePending, SameEvents
  <2>6. CASE EscapeBackoff
    BY <2>6, EscapeBackoffDoes, ListsKept
  <2>7. CASE EscapeRun
    BY <1>e, <2>7, EscapeRunDoes DEF SessionData, SameNext, SamePending, SameEvents
  <2>8. CASE NavigateTree
    BY <1>u, <2>8, NavigateTreeDoes
  <2>9. CASE Fork
    BY <1>e, <2>9, ForkDoes DEF SessionData, SameLists, SamePending, SameEvents
  <2> QED
    BY <1>5, <2>1, <2>2, <2>3, <2>4, <2>5, <2>6, <2>7, <2>8, <2>9 DEF HostStep
<1>6. ASSUME NEW o \in Owners, JobStep(o) PROVE SessionData'
  <2>1. CASE JobAsks(o)
    BY <1>u, <2>1 DEF JobAsks
  <2>2. CASE Return(o, session)
    BY <1>e, <2>2, ReturnDoes DEF SessionData, SameLists, SamePending, SameEvents, SameNext
  <2> QED
    BY <1>6, <2>1, <2>2 DEF JobStep, JobFails, JobDone
<1>7. ASSUME NEW p \in Prompts, PromptStep(p) PROVE SessionData'
  <2>1. CASE PromptHasNoKey(p) \/ PromptWaits(p)
    BY <1>u, <2>1 DEF PromptHasNoKey, PromptWaits
  <2>2. CASE PromptChecks(p)
    BY <1>e, <2>2, PromptChecksDoes DEF SessionData, SameLists, SamePending, SameEvents, SameNext
  <2>3. CASE PromptRuns(p)
    BY <1>u, <2>3, PromptSays, SaysSessionData
  <2> QED
    BY <1>7, <2>1, <2>2, <2>3 DEF PromptStep
<1>8. CASE UNCHANGED vars
  BY <1>u, <1>8 DEF vars
<1> QED
  BY <1>1, <1>2, <1>3, <1>4, <1>5, <1>6, <1>7, <1>8 DEF Next

-----------------------------------------------------------------------------
(* The transcript, the stored paths, the compactions under way.            *)

LEMMA SaidStored ==
  ASSUME StoredData, NEW ms, NEW q, NEW new, Says(ms, q, new)
  PROVE  StoredData'
<1>1. ms \in Seq(NoSummaries) /\ agent'.messages = agent.messages \o ms /\ UNCHANGED <<stored, current>>
  BY DEF Says
<1>2. ms \in Seq(Messages)
  BY <1>1, DataSets, SeqMonotonic
<1>3. agent.messages \in Seq(Messages)
  BY DEF StoredData
<1>4. agent.messages \o ms \in Seq(Messages)
  BY <1>2, <1>3, ConcatTyped
<1> QED
  BY <1>1, <1>4 DEF StoredData

LEMMA SavedType ==
  ASSUME StoredData, NEW f \in Files, NEW s \in Seq(Messages),
         stored' = [stored EXCEPT ![f] = s], current' \in Files,
         agent'.messages \in Seq(Messages)
  PROVE  StoredData'
  BY DEF StoredData

LEMMA SavesOne ==
  ASSUME StoredData, NEW m \in Messages,
         stored' = [stored EXCEPT ![current] = @ \o <<m>>], current' = current,
         agent'.messages \in Seq(Messages)
  PROVE  StoredData' /\ path' = path \o <<m>>
<1>1. stored[current] \in Seq(Messages) /\ <<m>> \in Seq(Messages) /\ current \in Files
      /\ stored \in [Files -> Seq(Messages)]
  BY DEF StoredData
<1> DEFINE s == stored[current] \o <<m>>
<1>2. s \in Seq(Messages)
  BY <1>1, ConcatTyped
<1>3. stored' = [stored EXCEPT ![current] = s]
  OBVIOUS
<1> HIDE DEF s
<1>4. StoredData'
  BY <1>1, <1>2, <1>3, SavedType
<1>5. path' = s
  BY <1>1, <1>3 DEF path
<1> QED
  BY <1>4, <1>5 DEF s, path

LEMMA SameStored ==
  ASSUME StoredData, UNCHANGED <<stored, current>>, agent'.messages \in Seq(Messages)
  PROVE  StoredData'
  BY DEF StoredData

LEMMA TrimsStored ==
  ASSUME StoredData, Trims, UNCHANGED <<stored, current>>
  PROVE  StoredData'
<1>1. agent.messages \in Seq(Messages)
  BY DEF StoredData
<1> QED
  BY <1>1, TrimsType, SameStored

LEMMA RecordsStored ==
  ASSUME StoredData, NEW m \in Messages, Records(m), current' = current
  PROVE  StoredData'
<1>1. Append(agent.messages, m) \in Seq(Messages)
  BY DEF StoredData
<1> QED
  BY <1>1, SavesOne DEF Records

LEMMA PrefixType ==
  ASSUME StoredData, NEW i \in Nat, i <= Len(path)
  PROVE  SubSeq(path, 1, i) \in Seq(Messages) /\ Context(SubSeq(path, 1, i)) \in Seq(Messages)
<1>1. path \in Seq(Messages)
  BY PathType
<1>2. SubSeq(path, 1, i) \in Seq(Messages)
  BY <1>1
<1> QED
  BY <1>2, ContextType

\* The transcript rebuilt at the end of a compaction.
LEMMA RebuiltType ==
  ASSUME Inv, StoredData, JobData, NEW o \in Owners
  PROVE  /\ Compaction(clock, jobs[o].kept) \in Messages
         /\ Compaction(clock, jobs[o].kept).role = "compaction"
         /\ path \o <<Compaction(clock, jobs[o].kept)>> \in Seq(Messages)
         /\ Append(path, Compaction(clock, jobs[o].kept)) = path \o <<Compaction(clock, jobs[o].kept)>>
         /\ Context(Append(path, Compaction(clock, jobs[o].kept))) \in Seq(Messages)
<1>1. clock \in Nat /\ jobs[o].kept \in Nat
  BY DEF Inv, Types, JobData
<1> DEFINE e == Compaction(clock, jobs[o].kept)
<1>2. e \in Messages /\ e.role = "compaction"
  BY <1>1, MessageInputs
<1> HIDE DEF e
<1>3. path \in Seq(Messages)
  BY PathType
<1>4. Append(path, e) = path \o <<e>>
  BY <1>2, <1>3, AppendIsConcat
<1>5. Append(path, e) \in Seq(Messages)
  BY <1>2, <1>3
<1>6. Context(Append(path, e)) \in Seq(Messages)
  BY <1>5, ContextType
<1> QED
  BY <1>2, <1>4, <1>5, <1>6 DEF e

LEMMA FrontType == \A ms \in Seq(Messages) : ms # <<>> => Front(ms) \in Seq(Messages)
  BY DEF Front

LEMMA NextStoredData == Inv /\ SessionData /\ StoredData /\ JobData /\ [Next]_vars => StoredData'
<1> SUFFICES ASSUME Inv, SessionData, StoredData, JobData, [Next]_vars PROVE StoredData'
  OBVIOUS
<1>m. agent.messages \in Seq(Messages) /\ path \in Seq(Messages) /\ current \in Files
      /\ stored \in [Files -> Seq(Messages)] /\ clock \in Nat
  BY PathType DEF StoredData, Inv, Types
<1>e. <<>> \in Seq(Messages)
  OBVIOUS
<1>u. UNCHANGED <<agent, stored, current>> => StoredData'
  BY DEF StoredData
<1>v. SameMessages /\ UNCHANGED <<stored, current>> => StoredData'
  BY DEF StoredData, SameMessages
<1>1. CASE AgentStep
  <2>1. ASSUME NEW k \in {"stop", "aborted"} \cup Outcomes, Answer(k) PROVE StoredData'
    BY <1>m, <2>1, AnswerSays, SaidStored
  <2>2. ASSUME NEW t \in {"throws", "throwsRetryable"}, RunThrows(t) PROVE StoredData'
    BY <1>m, <2>2, ThrownSays, SaidStored
  <2>3. CASE ToolsDone
    BY <2>3, ToolsSay, SaidStored
  <2> QED
    BY <1>1, <2>1, <2>2, <2>3 DEF AgentStep
<1>2. CASE HandlerStep
  <2>1. CASE MessageStarts
    BY <1>u, <2>1 DEF MessageStarts
  <2>2. CASE MessageEnds
    <3>1. /\ Ready /\ stored' = [stored EXCEPT ![current] = @ \o <<NextEvent.msg>>]
          /\ current' = current /\ agent' = agent
      BY <2>2, MessageEndsDoes
    <3>2. NextEvent.msg \in Messages
      BY <3>1, TakenDoes DEF Events
    <3> QED
      BY <1>m, <3>1, <3>2, SavesOne
  <2>3. CASE AgentEnds
    BY <2>3, AgentEndsDoes, TrimsStored DEF HandlerSteps
  <2>4. CASE BackoffElapses
    BY <1>u, <2>4, BackoffElapsesDoes
  <2>5. CASE BackoffCancelled
    BY <2>5, BackoffCancelledDoes, TrimsStored DEF HandlerSteps
  <2> QED
    BY <1>2, <2>1, <2>2, <2>3, <2>4, <2>5 DEF HandlerStep
<1>3. CASE CommandStep
  <2>1. CASE NewSession
    <3>1. current' \in Files /\ stored' = stored /\ agent'.messages = <<>>
      BY <2>1, NewSessionDoes DEF Unused
    <3> QED
      BY <1>m, <1>e, <3>1 DEF StoredData
  <2>2. CASE SwitchOpens
    <3>1. current' \in Files /\ stored' = stored /\ agent' = agent
      BY <2>2, SwitchOpensDoes
    <3> QED
      BY <1>m, <3>1 DEF StoredData
  <2>3. CASE SwitchRestores
    <3>1. UNCHANGED <<stored, current>> /\ agent'.messages = command.context
      BY <2>3, SwitchRestoresDoes
    <3>2. command.context \in Seq(Messages)
      BY DEF JobData
    <3> QED
      BY <3>1, <3>2, SameStored
  <2>4. CASE CompactStarts
    BY <1>u, <2>4 DEF CompactStarts
  <2> QED
    BY <1>3, <2>1, <2>2, <2>3, <2>4 DEF CommandStep
<1>4. CASE TimerStep
  <2>1. ASSUME NEW k \in {"retry", "resume"}, Continue(k) PROVE StoredData'
    <3>1. /\ UNCHANGED <<stored, current>>
          /\ agent' = agent \/ \E ms \in Seq(Inputs), q \in Seq(Inputs) : Says(ms, q, Spoken(ms))
      BY <2>1, ContinueSays
    <3> QED
      BY <1>u, <3>1, SaidStored
  <2> QED
    BY <1>4, <2>1 DEF TimerStep
<1>5. CASE HostStep
  <2>1. ASSUME NEW p \in Prompts, PromptQueues(p) PROVE StoredData'
    <3>1. SameMessages /\ UNCHANGED <<stored, current>>
      <4>1. SameMessages
        BY <2>1, PromptQueuesDoes
      <4> QED
        BY <2>1, <4>1 DEF PromptQueues
    <3> QED
      BY <1>v, <3>1
  <2>2. ASSUME NEW p \in Prompts, PromptStarts(p) PROVE StoredData'
    <3>1. /\ agent'.messages = agent.messages \o session.pendingBash
          /\ stored' = [stored EXCEPT ![current] = stored[current] \o session.pendingBash]
          /\ current' = current
      <4>1. agent'.messages = agent.messages \o session.pendingBash
        BY <2>2, PromptStartsDoes
      <4> QED
        BY <2>2, <4>1 DEF PromptStarts, Save
    <3>2. session.pendingBash \in Seq(Messages) /\ stored[current] \in Seq(Messages)
      <4>1. session.pendingBash \in Seq(BashMessages)
        BY DEF SessionData
      <4> QED
        BY <1>m, <4>1, DataSets, SeqMonotonic
    <3> DEFINE s == stored[current] \o session.pendingBash
               t == agent.messages \o session.pendingBash
    <3>3. s \in Seq(Messages) /\ t \in Seq(Messages)
      BY <1>m, <3>2, ConcatTyped
    <3>4. stored' = [stored EXCEPT ![current] = s] /\ agent'.messages = t
      BY <3>1
    <3> HIDE DEF s, t
    <3> QED
      BY <1>m, <3>1, <3>3, <3>4, SavedType
  <2>3. ASSUME NEW name \in Commands, CommandStarts(name) PROVE StoredData'
    <3>1. SameMessages /\ UNCHANGED <<stored, current>>
      BY <2>3, CommandStartsDoes DEF WholeAgent
    <3> QED
      BY <1>v, <3>1
  <2>4. CASE RecordBash
    <3>1. Message("bash", clock, "none") \in Messages
      BY <1>m, MessageInputs, DataSets
    <3> QED
      BY <1>u, <2>4, <3>1, RecordBashDoes, RecordsStored
  <2>5. CASE SendCustom
    <3>1. Message("custom", clock, "none") \in Messages
      BY <1>m, MessageInputs, DataSets
    <3>2. /\ current' = current
          /\ \/ SameMessages /\ stored' = stored
             \/ Records(Message("custom", clock, "none"))
      BY <2>5, SendCustomDoes DEF SameMessages
    <3> QED
      BY <1>v, <3>1, <3>2, RecordsStored
  <2>6. CASE EscapeBackoff
    BY <1>u, <2>6, EscapeBackoffDoes
  <2>7. CASE EscapeRun
    BY <1>v, <2>7, EscapeRunDoes
  <2>8. CASE NavigateTree
    <3>1. current' = current
      BY <2>8, NavigateTreeDoes
    <3>2. PICK i \in 0..(Len(path) - 1) :
            /\ stored' = [stored EXCEPT ![current] = SubSeq(path, 1, i)]
            /\ agent'.messages = Context(SubSeq(path, 1, i))
      BY <2>8, NavigateTreeDoes
    <3>3. SubSeq(path, 1, i) \in Seq(Messages) /\ Context(SubSeq(path, 1, i)) \in Seq(Messages)
      <4>1. i \in Nat /\ i <= Len(path)
        BY <1>m
      <4> QED
        BY <4>1, PrefixType
    <3> QED
      BY <1>m, <3>1, <3>2, <3>3, SavedType
  <2>9. CASE Fork
    <3>1. current' \in Files
      BY <2>9, ForkDoes DEF Unused
    <3>2. PICK i \in 1..Len(path) :
            /\ stored' = [stored EXCEPT ![current'] = SubSeq(path, 1, i - 1)]
            /\ agent'.messages = Context(SubSeq(path, 1, i - 1))
      BY <2>9, ForkDoes
    <3>3. SubSeq(path, 1, i - 1) \in Seq(Messages) /\ Context(SubSeq(path, 1, i - 1)) \in Seq(Messages)
      <4>1. i - 1 \in Nat /\ i - 1 <= Len(path)
        BY <1>m
      <4> QED
        BY <4>1, PrefixType
    <3> QED
      BY <1>m, <3>1, <3>2, <3>3 DEF StoredData
  <2> QED
    BY <1>5, <2>1, <2>2, <2>3, <2>4, <2>5, <2>6, <2>7, <2>8, <2>9 DEF HostStep
<1>6. ASSUME NEW o \in Owners, JobStep(o) PROVE StoredData'
  <2>1. CASE JobAsks(o) \/ JobFails(o)
    BY <1>u, <2>1 DEF JobAsks, JobFails
  <2>2. CASE JobDone(o)
    <3> DEFINE e == Compaction(clock, jobs[o].kept)
               r == Context(Append(path, e))
    <3>1. e \in Messages /\ r \in Seq(Messages)
      BY RebuiltType
    <3>2. agent'.messages = r \/ (LastIsAnswer(r) /\ agent'.messages = Front(r))
      BY <2>2, JobDoneDoes
    <3>3. stored' = [stored EXCEPT ![current] = @ \o <<e>>] /\ current' = current
      BY <2>2 DEF JobDone, Save
    <3> HIDE DEF e, r
    <3>4. agent'.messages \in Seq(Messages)
      BY <3>1, <3>2, FrontType DEF LastIsAnswer
    <3> QED
      BY <3>1, <3>3, <3>4, SavesOne
  <2> QED
    BY <1>6, <2>1, <2>2 DEF JobStep
<1>7. ASSUME NEW p \in Prompts, PromptStep(p) PROVE StoredData'
  <2>1. CASE PromptHasNoKey(p) \/ PromptWaits(p)
    BY <1>u, <2>1 DEF PromptHasNoKey, PromptWaits
  <2>2. CASE PromptChecks(p)
    <3>1. Trims
      BY <2>2, PromptChecksDoes
    <3>2. UNCHANGED <<stored, current>>
      BY <2>2 DEF PromptChecks
    <3> QED
      BY <3>1, <3>2, TrimsStored
  <2>3. CASE PromptRuns(p)
    <3>1. /\ UNCHANGED <<stored, current>>
          /\ agent' = agent \/ \E ms \in Seq(Inputs), q \in Seq(Inputs) : Says(ms, q, Spoken(ms))
      BY <2>3, PromptSays
    <3> QED
      BY <1>u, <3>1, SaidStored
  <2> QED
    BY <1>7, <2>1, <2>2, <2>3 DEF PromptStep
<1>8. CASE UNCHANGED vars
  BY <1>u, <1>8 DEF vars
<1> QED
  BY <1>1, <1>2, <1>3, <1>4, <1>5, <1>6, <1>7, <1>8 DEF Next

LEMMA OwnersDiffer ==
  /\ Handler \in Owners /\ Command \in Owners /\ Handler # Command
  /\ \A p \in Prompts : Owner(p) \in Owners /\ Owner(p) # Command /\ Owner(p) # Handler
<1>1. "handler" # "command" /\ "prompt" # "command" /\ "prompt" # "handler"
  OBVIOUS
<1>2. Handler[1] = "handler" /\ Command[1] = "command" /\ \A p \in Prompts : Owner(p)[1] = "prompt"
  BY DEF Handler, Command, Owner
<1> QED
  BY <1>1, <1>2 DEF Owners

\* What a compaction keeps from is an entry of the session.
LEMMA KeepableIsNat ==
  ASSUME StoredData, Preparable, NEW id \in Keepable
  PROVE  id \in Nat /\ \E i \in 1..Len(path) : path[i].id = id
<1>1. path \in Seq(Messages)
  BY PathType
<1> DEFINE c == LatestCompaction(path)
           n == Len(path)
           new == SubSeq(path, c + 1, n)
<1>2. n \in Nat \ {0} /\ Last(path) = path[n] /\ path[n].role # "compaction"
  BY <1>1 DEF Preparable, Last
<1>3. c \in 0..n /\ (c # 0 => path[c].role = "compaction")
  BY <1>1, LatestIs
<1>4. c < n
  BY <1>2, <1>3
<1> HIDE DEF c
<1>5. Len(new) = n - c /\ new \in Seq(Messages) /\ \A i \in 1..(n - c) : new[i] = path[c + i]
  BY <1>1, <1>2, <1>3, <1>4
<1> HIDE DEF new
<1>6. \A e \in ToSet(new) : \E i \in 1..n : e = path[i]
  <2>1. \A e \in ToSet(new) : \E j \in 1..Len(new) : e = new[j]
    BY <1>5, Elements
  <2>2. \A j \in 1..(n - c) : c + j \in 1..n
    BY <1>2, <1>3
  <2> QED
    BY <1>5, <2>1, <2>2
<1>7. Head(new) = new[1] /\ new[1] = path[c + 1] /\ c + 1 \in 1..n
  BY <1>2, <1>3, <1>4, <1>5
<1> DEFINE starts == {e \in ToSet(new) : e.role # "toolResult"}
           from == IF starts = {} THEN {Head(new)} ELSE starts
<1>8. Keepable = {e.id : e \in from}
  BY DEF Keepable, c, n, new
<1>9. \A e \in from : \E i \in 1..n : e = path[i]
  BY <1>6, <1>7
<1> HIDE DEF from
<1>10. PICK i \in 1..n : id = path[i].id
  BY <1>8, <1>9
<1>12. path[i] \in Messages
  BY <1>1, <1>2
<1>11. path[i].id \in Nat
  BY <1>12 DEF Messages
<1> QED
  BY <1>10, <1>11

JobsType == [Owners -> [pc: {"none", "key", "summary"}, overflow: BOOLEAN, kept: Nat]]

LEMMA NextJobData == Inv /\ StoredData /\ JobData /\ [Next]_vars => JobData'
<1> SUFFICES ASSUME Inv, StoredData, JobData, [Next]_vars PROVE JobData'
  OBVIOUS
<1> DEFINE Link == jobs[Command].pc # "none" => command.pc = "compacting"
<1>j. /\ jobs \in JobsType /\ Link
      /\ command \in [name: {"none", "new", "switch", "compact"},
                      pc: {"none", "idle", "restore", "compacting"}, context: Seq(Messages)]
  BY DEF JobData, JobsType
<1>u. UNCHANGED <<jobs, command>> => JobData'
  BY DEF JobData
<1>c. ASSUME NEW o \in Owners, o # Command, NEW x \in [pc: {"none", "key", "summary"}, overflow: BOOLEAN, kept: Nat],
             jobs' = jobs \/ jobs' = [jobs EXCEPT ![o] = x], command' = command
      PROVE JobData'
  <2>1. jobs' \in JobsType /\ jobs'[Command] = jobs[Command]
    BY <1>j, <1>c, OwnersDiffer DEF JobsType
  <2> QED
    BY <1>c, <1>j, <2>1 DEF JobData, JobsType
<1>k. \A b \in BOOLEAN : [pc |-> "key", overflow |-> b, kept |-> 0] \in [pc: {"none", "key", "summary"}, overflow: BOOLEAN, kept: Nat]
  OBVIOUS
<1>n. NoJob \in [pc: {"none", "key", "summary"}, overflow: BOOLEAN, kept: Nat] /\ NoJob.pc = "none"
  BY DEF NoJob
<1>1. CASE AgentStep
  <2>1. ASSUME NEW k \in {"stop", "aborted"} \cup Outcomes, Answer(k) PROVE JobData'
    BY <1>u, <2>1 DEF Answer
  <2>2. ASSUME NEW t \in {"throws", "throwsRetryable"}, RunThrows(t) PROVE JobData'
    BY <1>u, <2>2 DEF RunThrows
  <2>3. CASE ToolsDone
    BY <1>u, <2>3 DEF ToolsDone
  <2> QED
    BY <1>1, <2>1, <2>2, <2>3 DEF AgentStep
<1>2. CASE HandlerStep
  <2>1. CASE MessageStarts \/ MessageEnds \/ BackoffElapses
    BY <1>u, <2>1 DEF MessageStarts, MessageEnds, BackoffElapses
  <2>2. CASE AgentEnds \/ BackoffCancelled
    <3>1. HandlerSteps
      BY <2>2, AgentEndsDoes, BackoffCancelledDoes
    <3> QED
      BY <1>u, <1>c, <1>k, <3>1, OwnersDiffer DEF HandlerSteps
  <2> QED
    BY <1>2, <2>1, <2>2 DEF HandlerStep
<1>3. CASE CommandStep
  <2>1. ASSUME command.pc \in {"idle", "restore"}, jobs' = jobs,
               \/ command' = NoCommand
               \/ \E x \in Seq(Messages) : command' = [command EXCEPT !.pc = "restore", !.context = x]
        PROVE JobData'
    <3>1. jobs[Command].pc = "none"
      BY <1>j, <2>1
    <3> DEFINE Commandings == [name: {"none", "new", "switch", "compact"},
                               pc: {"none", "idle", "restore", "compacting"}, context: Seq(Messages)]
               none == <<>>
    <3>3. none \in Seq(Messages)
      OBVIOUS
    <3>4. NoCommand = [command EXCEPT !.name = "none", !.pc = "none", !.context = none]
      BY DEF NoCommand
    <3> HIDE DEF none
    <3>5. NoCommand \in Commandings
      BY <1>j, <3>3, <3>4
    <3>6. \A x \in Seq(Messages) : [command EXCEPT !.pc = "restore", !.context = x] \in Commandings
      BY <1>j
    <3>2. command' \in Commandings
      BY <2>1, <3>5, <3>6
    <3> QED
      BY <1>j, <2>1, <3>1, <3>2 DEF JobData, JobsType
  <2>2. CASE NewSession
    BY <2>1, <2>2 DEF NewSession, CommandAt
  <2>3. CASE SwitchOpens
    <3>1. Context(stored[current']) \in Seq(Messages)
      <4>1. current' \in Files
        BY <2>3, SwitchOpensDoes
      <4>2. stored[current'] \in Seq(Messages)
        BY <4>1 DEF StoredData
      <4> QED
        BY <4>2, ContextType
    <3>2. jobs' = jobs /\ command.pc = "idle"
          /\ command' = [command EXCEPT !.pc = "restore", !.context = Context(stored[current'])]
      BY <2>3, SwitchOpensDoes
    <3> QED
      BY <2>1, <3>1, <3>2
  <2>4. CASE SwitchRestores
    BY <2>1, <2>4, SwitchRestoresDoes
  <2>5. CASE CompactStarts
    <3> DEFINE x == [pc |-> "key", overflow |-> FALSE, kept |-> 0]
    <3>1. jobs' = [jobs EXCEPT ![Command] = x] /\ command' = [command EXCEPT !.pc = "compacting"]
      BY <2>5 DEF CompactStarts
    <3>2. x \in [pc: {"none", "key", "summary"}, overflow: BOOLEAN, kept: Nat]
      OBVIOUS
    <3> HIDE DEF x
    <3>3. jobs' \in JobsType
      BY <1>j, <3>1, <3>2 DEF JobsType
    <3> QED
      BY <1>j, <3>1, <3>3 DEF JobData, JobsType
  <2> QED
    BY <1>3, <2>2, <2>3, <2>4, <2>5 DEF CommandStep
<1>4. CASE TimerStep
  <2>1. ASSUME NEW k \in {"retry", "resume"}, Continue(k) PROVE JobData'
    BY <1>u, <2>1 DEF Continue
  <2> QED
    BY <1>4, <2>1 DEF TimerStep
<1>5. CASE HostStep
  <2>1. ASSUME NEW name \in Commands, CommandStarts(name) PROVE JobData'
    <3>1. /\ name \in {"new", "switch", "compact"} /\ command.pc = "none" /\ jobs' = jobs
          /\ command' = [command EXCEPT !.name = name, !.pc = "idle"]
      BY <2>1, CommandStartsDoes
    <3>2. jobs[Command].pc = "none"
      BY <1>j, <3>1
    <3>3. command' \in [name: {"none", "new", "switch", "compact"},
                        pc: {"none", "idle", "restore", "compacting"}, context: Seq(Messages)]
      BY <1>j, <3>1
    <3> QED
      BY <1>j, <3>1, <3>2, <3>3 DEF JobData, JobsType
  <2>2. ASSUME NEW p \in Prompts, PromptQueues(p) \/ PromptStarts(p) PROVE JobData'
    BY <1>u, <2>2 DEF PromptQueues, PromptStarts
  <2>3. CASE RecordBash \/ SendCustom \/ EscapeBackoff \/ EscapeRun \/ NavigateTree \/ Fork
    BY <1>u, <2>3 DEF RecordBash, SendCustom, EscapeBackoff, EscapeRun, NavigateTree, Fork
  <2> QED
    BY <1>5, <2>1, <2>2, <2>3 DEF HostStep
<1>6. ASSUME NEW o \in Owners, JobStep(o) PROVE JobData'
  <2>1. CASE JobAsks(o)
    <3>1. jobs[o].pc = "key" /\ Preparable /\ command' = command
      BY <2>1 DEF JobAsks
    <3>2. PICK id \in Keepable : jobs' = [jobs EXCEPT ![o].pc = "summary", ![o].kept = id]
      BY <2>1 DEF JobAsks
    <3>3. id \in Nat
      BY <3>1, <3>2, KeepableIsNat
    <3>4. jobs' \in JobsType /\ jobs'[Command].pc \in {jobs[Command].pc, IF o = Command THEN "summary" ELSE jobs[Command].pc}
      BY <1>j, <3>2, <3>3, OwnersDiffer DEF JobsType
    <3>5. o = Command => command.pc = "compacting"
      BY <1>j, <3>1
    <3> QED
      BY <1>j, <3>1, <3>4, <3>5 DEF JobData, JobsType
  <2>2. CASE Return(o, session)
    <3>1. /\ jobs' = [jobs EXCEPT ![o] = NoJob]
          /\ \/ o # Command /\ command' = command
             \/ o = Command /\ command' = [command EXCEPT !.name = "none", !.pc = "none"]
      BY <2>2, ReturnDoes, OwnersDiffer
    <3>2. CASE o # Command /\ command' = command
      BY <1>c, <1>n, <3>1, <3>2
    <3>3. CASE o = Command /\ command' = [command EXCEPT !.name = "none", !.pc = "none"]
      <4>1. jobs' \in JobsType /\ jobs'[Command].pc = "none"
        BY <1>j, <1>n, <3>1, <3>3, OwnersDiffer DEF JobsType
      <4> QED
        BY <1>j, <3>3, <4>1 DEF JobData, JobsType
    <3> QED
      BY <3>1, <3>2, <3>3
  <2> QED
    BY <1>6, <2>1, <2>2 DEF JobStep, JobFails, JobDone
<1>7. ASSUME NEW p \in Prompts, PromptStep(p) PROVE JobData'
  <2>1. CASE PromptHasNoKey(p) \/ PromptWaits(p) \/ PromptRuns(p)
    BY <1>u, <2>1 DEF PromptHasNoKey, PromptWaits, PromptRuns
  <2>2. CASE PromptChecks(p)
    <3>1. command' = command
      BY <2>2 DEF PromptChecks
    <3>2. jobs' = jobs \/ \E b \in BOOLEAN : jobs' = [jobs EXCEPT ![Owner(p)] = [pc |-> "key", overflow |-> b, kept |-> 0]]
      BY <2>2, PromptChecksDoes
    <3> QED
      BY <1>u, <1>c, <1>k, <3>1, <3>2, OwnersDiffer
  <2> QED
    BY <1>7, <2>1, <2>2 DEF PromptStep
<1>8. CASE UNCHANGED vars
  BY <1>u, <1>8 DEF vars
<1> QED
  BY <1>1, <1>2, <1>3, <1>4, <1>5, <1>6, <1>7, <1>8 DEF Next

LEMMA InitData == Init => Data
<1> SUFFICES ASSUME Init PROVE Data
  OBVIOUS
<1>1. SessionData
  BY DEF Init, SessionData
<1>2. current \in Files
  BY FilesAssumption DEF Init
<1>3. StoredData
  BY <1>2 DEF Init, StoredData
<1>4. JobData
  BY OwnersDiffer DEF Init, JobData, NoJob
<1> QED
  BY <1>1, <1>3, <1>4 DEF Data

LEMMA NextData == Inv /\ Data /\ [Next]_vars => Data'
<1> SUFFICES ASSUME Inv, Data, [Next]_vars PROVE Data'
  OBVIOUS
<1>1. SessionData /\ StoredData /\ JobData /\ agent.messages \in Seq(Messages)
  BY DEF Data, StoredData
<1>2. SessionData' /\ StoredData' /\ JobData'
  BY <1>1, NextSessionData, NextStoredData, NextJobData
<1> QED
  BY <1>2 DEF Data

-----------------------------------------------------------------------------
(* What the agent would send is what the session would restore.            *)

LEMMA SentType == \A ms \in Seq(Messages) : Sent(ms) \in Seq(Messages)
  BY SentIs, SelectedIsSeq

LEMMA MessagesRegroup ==
  \A s, t, u \in Seq(Messages) : (s \o t) \o u = s \o (t \o u)
  BY ConcatAssociative

LEMMA SentConcat ==
  ASSUME NEW s \in Seq(Messages), NEW t \in Seq(Messages)
  PROVE  Sent(s \o t) = Sent(s) \o Sent(t)
<1>1. s \o t \in Seq(Messages)
  BY ConcatTyped
<1> DEFINE u == s \o t
<1>2. Sent(u) = Selected(u, Successes)
  BY <1>1, SentIs
<1>3. Sent(s) = Selected(s, Successes) /\ Sent(t) = Selected(t, Successes)
  BY SentIs
<1>4. Selected(u, Successes) = Selected(s, Successes) \o Selected(t, Successes)
  BY SelectedConcat
<1> HIDE DEF u
<1>5. Sent(u) = Sent(s) \o Sent(t)
  BY <1>2, <1>3, <1>4
<1> QED
  BY <1>5 DEF u

LEMMA SentNone == Sent(<<>>) = <<>>
<1> DEFINE none == <<>>
<1>1. none \in Seq(Messages)
  OBVIOUS
<1>2. Selected(none, Successes) = none
  BY SelectedEmpty
<1> HIDE DEF none
<1>3. Sent(none) = none
  BY <1>1, <1>2, SentIs
<1> QED
  BY <1>3 DEF none

\* The transcript is the context of the path and what has still to be written.
Matched(ms, p, events) == Sent(ms) = Sent(Context(p)) \o Sent(EndedIn(events))

LEMMA MatchedIs ==
  ASSUME NEW ms, NEW p \in Seq(Messages), NEW events \in Seq(PlainEvents)
  PROVE  Matched(ms, p, events) <=> Sent(ms) = Sent(Context(p \o EndedIn(events)))
<1> DEFINE e == EndedIn(events)
<1>1. e \in Seq(NoSummaries)
  BY PlainEnded
<1>2. e \in Seq(Messages)
  BY <1>1, DataSets, SeqMonotonic
<1>3. \A i \in 1..Len(e) : e[i].role # "compaction"
  <2>1. \A i \in 1..Len(e) : e[i] \in NoSummaries
    BY <1>1
  <2> QED
    BY <2>1 DEF NoSummaries
<1> HIDE DEF e
<1>4. Context(p \o e) = Context(p) \o e
  BY <1>2, <1>3, ContextGrows
<1> DEFINE c == Context(p)
<1>5. c \in Seq(Messages)
  BY ContextType
<1> HIDE DEF c
<1>6. Sent(c \o e) = Sent(c) \o Sent(e)
  BY <1>2, <1>5, SentConcat
<1>7. Matched(ms, p, events) <=> Sent(ms) = Sent(c) \o Sent(e)
  BY DEF Matched, c, e
<1>8. Sent(Context(p \o e)) = Sent(c) \o Sent(e)
  BY <1>4, <1>6 DEF c
<1> QED
  BY <1>7, <1>8 DEF e

LEMMA LogNow ==
  ASSUME Data, ContextMatchesLog, "log" \notin missed, command.pc # "restore"
  PROVE  Matched(agent.messages, path, session.events)
<1>1. path \in Seq(Messages) /\ session.events \in Seq(PlainEvents)
  BY PathType DEF Data, SessionData
<1>2. EndedMessages = EndedIn(session.events)
  BY EndedMessagesType DEF Data
<1>3. Sent(agent.messages) = Sent(Context(path \o EndedIn(session.events)))
  BY <1>2 DEF ContextMatchesLog
<1> QED
  BY <1>1, <1>3, MatchedIs

LEMMA LogNext ==
  ASSUME Data', "log" \notin missed' /\ command'.pc # "restore" => Matched(agent'.messages, path', session'.events)
  PROVE  ContextMatchesLog'
<1>1. path' \in Seq(Messages) /\ session'.events \in Seq(PlainEvents)
  BY DEF Data, SessionData, StoredData, path
<1>2. session'.events \in Seq(Events)
  BY <1>1, PlainEnded
<1> DEFINE ev == session'.events
<1>3. EndedMessages' = EndedIn(ev)
  <2>1. Selected(ev, {e \in ToSet(ev) : e.type = "end"}) = Selected(ev, Ends)
    <3>1. \A e \in ToSet(ev) : e \in Events
      BY <1>2, Elements
    <3>2. \A e \in ToSet(ev) : e \in {x \in ToSet(ev) : x.type = "end"} <=> e \in Ends
      BY <3>1 DEF Ends
    <3> QED
      BY <1>2, <3>2, SelectedSame
  <2> QED
    BY <2>1 DEF EndedMessages, EndedIn, MessagesOf
<1> HIDE DEF ev
<1>4. ASSUME "log" \notin missed', command'.pc # "restore"
      PROVE  Sent(agent'.messages) = Sent(Context(path' \o EndedMessages'))
  <2>1. Matched(agent'.messages, path', session'.events)
    BY <1>4
  <2>2. Sent(agent'.messages) = Sent(Context(path' \o EndedIn(session'.events)))
    BY <1>1, <2>1, MatchedIs
  <2> QED
    BY <1>3, <2>2 DEF ev
<1> QED
  BY <1>4 DEF ContextMatchesLog

LEMMA MatchedSaid ==
  ASSUME NEW ms \in Seq(Messages), NEW p \in Seq(Messages), NEW events \in Seq(Events),
         Matched(ms, p, events), NEW more \in Seq(Messages), NEW new \in Seq(Events),
         Sent(EndedIn(new)) = Sent(more)
  PROVE  Matched(ms \o more, p, events \o new)
<1>1. EndedIn(events) \in Seq(Messages) /\ EndedIn(new) \in Seq(Messages) /\ Context(p) \in Seq(Messages)
  BY EndedType, ContextType
<1>2. PICK c \in Seq(Messages) : c = Sent(Context(p))
  BY <1>1, SentType
<1>3. PICK e \in Seq(Messages) : e = Sent(EndedIn(events))
  BY <1>1, SentType
<1>4. PICK m \in Seq(Messages) : m = Sent(more)
  BY SentType
<1>5. Sent(EndedIn(events \o new)) = e \o m
  <2>1. EndedIn(events \o new) = EndedIn(events) \o EndedIn(new)
    BY EndedConcat
  <2>2. Sent(EndedIn(events) \o EndedIn(new)) = Sent(EndedIn(events)) \o Sent(EndedIn(new))
    BY <1>1, SentConcat
  <2> QED
    BY <1>3, <1>4, <2>1, <2>2
<1>6. Sent(ms \o more) = (c \o e) \o m
  <2>1. Sent(ms \o more) = Sent(ms) \o m
    BY <1>4, SentConcat
  <2> QED
    BY <1>2, <1>3, <2>1 DEF Matched
<1>7. (c \o e) \o m = c \o (e \o m)
  BY MessagesRegroup
<1>8. Sent(ms \o more) = c \o Sent(EndedIn(events \o new))
  BY <1>5, <1>6, <1>7
<1> QED
  BY <1>2, <1>8 DEF Matched

LEMMA PlainAppended ==
  ASSUME NEW p \in Seq(Messages), NEW m \in NoSummaries
  PROVE  Context(p \o <<m>>) = Context(p) \o <<m>>
<1> DEFINE t == <<m>>
<1>1. t \in Seq(Messages) /\ \A i \in 1..Len(t) : t[i].role # "compaction"
  BY DEF NoSummaries
<1> HIDE DEF t
<1>2. Context(p \o t) = Context(p) \o t
  BY <1>1, ContextGrows
<1> QED
  BY <1>2 DEF t

\* A message_end is written to the session.
LEMMA MatchedEnd ==
  ASSUME NEW ms \in Seq(Messages), NEW p \in Seq(Messages), NEW events \in Seq(PlainEvents),
         events # <<>>, Head(events).type = "end", Matched(ms, p, events)
  PROVE  Matched(ms, p \o <<Head(events).msg>>, Tail(events))
<1>1. Head(events) \in PlainEvents /\ Tail(events) \in Seq(PlainEvents)
  BY HeadAndTail
<1>2. events \in Seq(Events) /\ Tail(events) \in Seq(Events)
  BY <1>1, PlainEnded
<1> DEFINE m == Head(events).msg
           t == <<m>>
           r == EndedIn(Tail(events))
           c == Context(p)
<1>3. m \in NoSummaries /\ t \in Seq(Messages)
  BY <1>1 DEF PlainEvents, NoSummaries
<1>4. EndedIn(events) = t \o r
  BY <1>2, EndedTail
<1>5. Context(p \o t) = c \o t
  BY <1>3, PlainAppended
<1>6. r \in Seq(Messages) /\ c \in Seq(Messages)
  BY <1>2, EndedType, ContextType
<1>7. Sent(ms) = Sent(c) \o Sent(EndedIn(events))
  BY DEF Matched
<1>8. SUFFICES Sent(ms) = Sent(Context(p \o t)) \o Sent(r)
  BY DEF Matched
<1> HIDE DEF m, t, r, c
<1>9. Sent(t \o r) = Sent(t) \o Sent(r) /\ Sent(c \o t) = Sent(c) \o Sent(t)
  BY <1>3, <1>6, SentConcat
<1>10. Sent(t) \in Seq(Messages) /\ Sent(r) \in Seq(Messages) /\ Sent(c) \in Seq(Messages)
  BY <1>3, <1>6, SentType
<1>11. (Sent(c) \o Sent(t)) \o Sent(r) = Sent(c) \o (Sent(t) \o Sent(r))
  BY <1>10, MessagesRegroup, Zenon
<1> QED
  BY <1>4, <1>5, <1>7, <1>9, <1>11

\* Other events are not.
LEMMA MatchedSkip ==
  ASSUME NEW ms, NEW p, NEW events \in Seq(PlainEvents),
         events # <<>>, Head(events).type # "end", Matched(ms, p, events)
  PROVE  Matched(ms, p, Tail(events))
<1>1. Head(events) \in PlainEvents /\ Tail(events) \in Seq(PlainEvents)
  BY HeadAndTail
<1>2. events \in Seq(Events) /\ Tail(events) \in Seq(Events)
  BY <1>1, PlainEnded
<1> DEFINE r == EndedIn(Tail(events))
           none == <<>>
<1>3. EndedIn(events) = none \o r /\ r \in Seq(Messages)
  BY <1>2, EndedTail, EndedType
<1>4. none \o r = r
  BY <1>3
<1> HIDE DEF r, none
<1>5. EndedIn(events) = r
  BY <1>3, <1>4
<1> QED
  BY <1>5 DEF Matched, r

\* What is recorded while nothing waits to be written.
LEMMA MatchedRecorded ==
  ASSUME NEW ms \in Seq(Messages), NEW p \in Seq(Messages), NEW t \in Seq(NoSummaries),
         Matched(ms, p, <<>>)
  PROVE  Matched(ms \o t, p \o t, <<>>)
<1> DEFINE none == <<>>
           ended == EndedIn(none)
           c == Context(p)
<1>1. none \in Seq(Events) /\ \A i \in 1..Len(none) : none[i].type # "end"
  OBVIOUS
<1>2. Matched(ms, p, none)
  OBVIOUS
<1>3. SUFFICES Matched(ms \o t, p \o t, none)
  OBVIOUS
<1>4. ended = none
  <2> HIDE DEF none
  <2>1. EndedIn(none) = <<>>
    BY <1>1, EndedNone
  <2> QED
    BY <2>1 DEF none
<1>5. Sent(none) = none
  BY SentNone
<1>6. \A s \in Seq(Messages) : s \o none = s
  OBVIOUS
<1> HIDE DEF none
<1>7. t \in Seq(Messages) /\ \A i \in 1..Len(t) : t[i].role # "compaction"
  <2>1. \A i \in 1..Len(t) : t[i] \in NoSummaries
    OBVIOUS
  <2> QED
    BY <2>1, DataSets, SeqMonotonic DEF NoSummaries
<1>8. Context(p \o t) = c \o t
  BY <1>7, ContextGrows
<1>9. c \in Seq(Messages)
  BY ContextType
<1>10. Sent(ms) = Sent(c) \o Sent(ended)
  BY <1>2 DEF Matched
<1>11. SUFFICES Sent(ms \o t) = Sent(Context(p \o t)) \o Sent(ended)
  BY DEF Matched
<1> HIDE DEF ended, c
<1>12. Sent(ms \o t) = Sent(ms) \o Sent(t) /\ Sent(c \o t) = Sent(c) \o Sent(t)
  BY <1>7, <1>9, SentConcat
<1>13. Sent(c) \in Seq(Messages) /\ Sent(c) \o Sent(t) \in Seq(Messages)
  <2>1. Sent(c) \in Seq(Messages) /\ Sent(t) \in Seq(Messages)
    BY <1>7, <1>9, SentType
  <2> QED
    BY <2>1, ConcatTyped
<1>14. Sent(c) \o none = Sent(c) /\ (Sent(c) \o Sent(t)) \o none = Sent(c) \o Sent(t)
  BY <1>6, <1>13
<1> QED
  BY <1>4, <1>5, <1>8, <1>10, <1>12, <1>14

LEMMA MatchedRebuilt ==
  ASSUME NEW p \in Seq(Messages), NEW events, EndedIn(events) = <<>>
  PROVE  Matched(Context(p), p, events)
<1> DEFINE none == <<>>
           s == Sent(Context(p))
<1>1. s \in Seq(Messages)
  BY ContextType, SentType
<1>2. Sent(EndedIn(events)) = none
  BY SentNone
<1>3. s \o none = s
  BY <1>1
<1> HIDE DEF none
<1> QED
  BY <1>2, <1>3 DEF Matched

LEMMA FrontAndLast ==
  ASSUME NEW S, NEW ms \in Seq(S), ms # <<>>
  PROVE  /\ Last(ms) \in S /\ Front(ms) \in Seq(S)
         /\ ms = Append(Front(ms), Last(ms))
<1>1. Len(ms) \in Nat \ {0}
  OBVIOUS
<1> DEFINE n == Len(ms)
<1>2. SubSeq(ms, 1, n) = SubSeq(ms, 1, n - 1) \o <<ms[n]>>
  BY <1>1, SubSeqRecursiveSecond
<1>3. SubSeq(ms, 1, n) = ms /\ SubSeq(ms, 1, n - 1) \in Seq(S) /\ ms[n] \in S
  BY <1>1
<1>4. SubSeq(ms, 1, n - 1) \o <<ms[n]>> = Append(SubSeq(ms, 1, n - 1), ms[n])
  BY <1>3, AppendIsConcat
<1>5. Front(ms) = SubSeq(ms, 1, n - 1) /\ Last(ms) = ms[n]
  BY DEF Front, Last
<1> HIDE DEF n
<1> QED
  BY <1>2, <1>3, <1>4, <1>5

\* An answer that failed is not sent.
LEMMA SentFront ==
  ASSUME NEW ms \in Seq(Messages), LastIsAnswer(ms), Failed(Last(ms))
  PROVE  Sent(Front(ms)) = Sent(ms)
<1>1. /\ ms # <<>> /\ Last(ms) \in Messages /\ Front(ms) \in Seq(Messages)
      /\ ms = Append(Front(ms), Last(ms))
  BY FrontAndLast DEF LastIsAnswer
<1> DEFINE f == Front(ms)
           l == Last(ms)
<1>2. f \in Seq(Messages) /\ l \in Messages /\ ms = Append(f, l)
  BY <1>1
<1>3. l \notin Successes
  BY DEF Successes
<1> HIDE DEF f, l
<1>4. Selected(Append(f, l), Successes) = Selected(f, Successes)
  BY <1>2, <1>3, SelectedAppend
<1>5. Sent(f) = Sent(ms)
  BY <1>2, <1>4, SentIs
<1> QED
  BY <1>5 DEF f

LEMMA TrimsSent ==
  ASSUME StoredData, Trims, "log" \notin missed'
  PROVE  "log" \notin missed /\ Sent(agent'.messages) = Sent(agent.messages)
<1>1. agent.messages \in Seq(Messages)
  BY DEF StoredData
<1>2. CASE SameMessages /\ missed \subseteq missed'
  BY <1>2 DEF SameMessages
<1>3. CASE agent'.messages = WithoutLastAnswer(agent.messages) /\ Cut \subseteq missed'
  <2>1. "log" \notin Cut
    BY <1>3
  <2>2. "log" \notin missed /\ (LastIsAnswer(agent.messages) => Failed(Last(agent.messages)))
    BY <2>1 DEF Cut
  <2>3. CASE LastIsAnswer(agent.messages)
    BY <1>1, <1>3, <2>2, <2>3, SentFront DEF WithoutLastAnswer
  <2>4. CASE ~LastIsAnswer(agent.messages)
    BY <1>3, <2>2, <2>4 DEF WithoutLastAnswer
  <2> QED
    BY <2>3, <2>4
<1> QED
  BY <1>2, <1>3 DEF Trims

LEMMA SaidMatched ==
  ASSUME Data, Matched(agent.messages, path, session.events),
         NEW ms, NEW q, NEW new, Says(ms, q, new), "log" \notin missed'
  PROVE  Matched(agent'.messages, path', session'.events)
<1>1. /\ ms \in Seq(NoSummaries) /\ new \in Seq(Events)
      /\ agent'.messages = agent.messages \o ms
      /\ Sent(EndedIn(new)) = Sent(ms)
      /\ Unseen(new) \subseteq missed' /\ Hears(new)
      /\ UNCHANGED <<stored, current>>
  BY DEF Says
<1>2. ms \in Seq(Messages) /\ agent.messages \in Seq(Messages) /\ path \in Seq(Messages)
  BY <1>1, DataSets, SeqMonotonic, PathType DEF Data, StoredData
<1>3. session.events \in Seq(Events)
  BY PlainEnded DEF Data, SessionData
<1>4. path' = path
  BY <1>1 DEF path
<1>5. CASE session.connected
  <2>1. session'.events = session.events \o new
    BY <1>1, <1>5 DEF Hears
  <2>2. Matched(agent.messages \o ms, path, session.events \o new)
    BY <1>1, <1>2, <1>3, MatchedSaid
  <2> QED
    BY <1>1, <1>4, <2>1, <2>2
<1>6. CASE ~session.connected
  <2>1. \A e \in ToSet(new) : e.type # "end"
    BY <1>1, <1>6 DEF Unseen
  <2>2. \A i \in 1..Len(new) : new[i] \in ToSet(new)
    BY <1>1, Elements
  <2>3. EndedIn(new) = <<>>
    BY <1>1, <2>1, <2>2, EndedNone
  <2>4. Sent(ms) = <<>>
    BY <1>1, <2>3, SentNone
  <2>5. Sent(agent.messages \o ms) = Sent(agent.messages)
    <3>1. Sent(agent.messages \o ms) = Sent(agent.messages) \o Sent(ms)
      BY <1>2, SentConcat
    <3>2. Sent(agent.messages) \in Seq(Messages)
      BY <1>2, SentType
    <3>3. \A s \in Seq(Messages) : s \o <<>> = s
      OBVIOUS
    <3> QED
      BY <2>4, <3>1, <3>2, <3>3
  <2>6. session'.events = session.events
    BY <1>1, <1>6 DEF Hears
  <2> QED
    BY <1>1, <1>4, <2>5, <2>6 DEF Matched
<1> QED
  BY <1>5, <1>6

LEMMA RecordsMatched ==
  ASSUME Data, NEW m \in NoSummaries, Records(m), current' = current, "log" \notin missed',
         Matched(agent.messages, path, session.events)
  PROVE  Matched(agent'.messages, path', session'.events)
<1>1. /\ agent'.messages = Append(agent.messages, m)
      /\ stored' = [stored EXCEPT ![current] = @ \o <<m>>]
      /\ session.events = <<>> /\ session' = session
  BY DEF Records
<1>2. m \in Messages /\ agent.messages \in Seq(Messages) /\ path \in Seq(Messages) /\ StoredData
  BY DataSets, PathType DEF Data, StoredData
<1>3. agent'.messages = agent.messages \o <<m>> /\ Append(agent.messages, m) \in Seq(Messages)
  BY <1>1, <1>2, AppendIsConcat
<1>4. path' = path \o <<m>>
  BY <1>1, <1>2, <1>3, SavesOne
<1> DEFINE t == <<m>>
<1>5. t \in Seq(NoSummaries)
  OBVIOUS
<1>6. Matched(agent.messages, path, <<>>)
  BY <1>1
<1> HIDE DEF t
<1>7. Matched(agent.messages \o t, path \o t, <<>>)
  BY <1>2, <1>5, <1>6, MatchedRecorded
<1> QED
  BY <1>1, <1>3, <1>4, <1>7 DEF t

LEMMA RebuiltFacts ==
  ASSUME Data, "log" \notin Rebuilt
  PROVE  EndedIn(session.events) = <<>>
<1>1. EndedMessages = EndedIn(session.events)
  BY EndedMessagesType DEF Data
<1> QED
  BY <1>1 DEF Rebuilt

\* Neither the transcript, what is sent of it, nor what waits to be written changes.
LEMMA StillMatched ==
  ASSUME Matched(agent.messages, path, session.events),
         Sent(agent'.messages) = Sent(agent.messages), UNCHANGED <<stored, current>>,
         session'.events = session.events
  PROVE  Matched(agent'.messages, path', session'.events)
<1>1. path' = path
  BY DEF path
<1> QED
  BY <1>1 DEF Matched

LEMMA ContextOfNone == Context(<<>>) = <<>>
<1>1. PICK none \in Seq(Messages) : none = <<>>
  BY EmptySeq, Zenon
<1>2. Len(none) = 0
  BY <1>1
<1>3. LatestCompaction(none) = 0
  <2>1. LatestCompaction(none) \in 0..Len(none)
    BY LatestIs
  <2> DEFINE c == LatestCompaction(none)
  <2> HIDE DEF c
  <2>2. c \in 0..0
    BY <1>2, <2>1 DEF c
  <2>3. c = 0
    BY <2>2
  <2> QED
    BY <2>3 DEF c
<1>4. Context(none) = none
  BY <1>3, ContextIs
<1> QED
  BY <1>1, <1>4

LEMMA NextContextMatchesLog == Inv /\ Data /\ ContextMatchesLog /\ [Next]_vars => ContextMatchesLog'
<1> SUFFICES ASSUME Inv, Data, ContextMatchesLog, [Next]_vars PROVE ContextMatchesLog'
  OBVIOUS
<1> DEFINE Goal == Matched(agent'.messages, path', session'.events)
<1>d. Data'
  BY NextData
<1>t. SessionData /\ StoredData /\ JobData
  BY DEF Data
<1>m. /\ agent.messages \in Seq(Messages) /\ path \in Seq(Messages) /\ current \in Files
      /\ stored \in [Files -> Seq(Messages)] /\ clock \in Nat
      /\ session.events \in Seq(PlainEvents) /\ session.events \in Seq(Events)
  BY <1>t, PathType, PlainEnded DEF StoredData, SessionData, Inv, Types
<1> SUFFICES ASSUME "log" \notin missed', command'.pc # "restore" PROVE Goal
  BY <1>d, LogNext
<1> HIDE DEF Goal
<1>o. "log" \notin missed /\ command.pc # "restore" => Matched(agent.messages, path, session.events)
  BY LogNow
\* What neither opens a session nor rebuilds the transcript.
<1>p. ASSUME command' = command, "log" \notin missed PROVE Matched(agent.messages, path, session.events)
  BY <1>o, <1>p
<1>q. ASSUME UNCHANGED <<stored, current, command>>, "log" \notin missed,
             Sent(agent'.messages) = Sent(agent.messages), session'.events = session.events
      PROVE  Goal
  BY <1>p, <1>q, StillMatched DEF Goal
<1>s. ASSUME NEW ms, NEW q, NEW new, Says(ms, q, new) PROVE Goal
  <2>1. command' = command /\ "log" \notin missed
    BY <1>s DEF Says
  <2> QED
    BY <1>p, <1>s, <2>1, SaidMatched DEF Goal
<1>1. CASE AgentStep
  <2>1. ASSUME NEW k \in {"stop", "aborted"} \cup Outcomes, Answer(k) PROVE Goal
    BY <1>m, <1>s, <2>1, AnswerSays
  <2>2. ASSUME NEW t \in {"throws", "throwsRetryable"}, RunThrows(t) PROVE Goal
    BY <1>m, <1>s, <2>2, ThrownSays
  <2>3. CASE ToolsDone
    BY <1>s, <2>3, ToolsSay
  <2> QED
    BY <1>1, <2>1, <2>2, <2>3 DEF AgentStep
<1>2. CASE HandlerStep
  <2>1. CASE MessageStarts
    <3>1. UNCHANGED <<agent, stored, current, command, missed>>
      BY <2>1 DEF MessageStarts
    <3>2. TakesNext /\ NextEvent.type = "start" /\ session.events # <<>> /\ NextEvent = Head(session.events)
      BY <2>1, MessageStartsDoes, TakenDoes DEF MessageStarts
    <3>3. Matched(agent.messages, path, session.events)
      BY <1>p, <3>1
    <3>4. Matched(agent.messages, path, Tail(session.events))
      BY <1>m, <3>2, <3>3, MatchedSkip
    <3>5. path' = path
      BY <3>1 DEF path
    <3> QED
      BY <3>1, <3>2, <3>4, <3>5 DEF Goal, TakesNext
  <2>2. CASE MessageEnds
    <3>1. /\ UNCHANGED <<agent, current, command, missed>>
          /\ TakesNext /\ Ready /\ NextEvent.type = "end"
          /\ stored' = [stored EXCEPT ![current] = @ \o <<NextEvent.msg>>]
      BY <2>2, MessageEndsDoes
    <3>2. session.events # <<>> /\ NextEvent = Head(session.events) /\ NextEvent.msg \in Messages
      BY <3>1, TakenDoes DEF Events
    <3>3. Matched(agent.messages, path, session.events)
      BY <1>p, <3>1
    <3>4. Matched(agent.messages, path \o <<NextEvent.msg>>, Tail(session.events))
      BY <1>m, <3>1, <3>2, <3>3, MatchedEnd
    <3>5. path' = path \o <<NextEvent.msg>>
      BY <1>m, <1>t, <3>1, <3>2, SavesOne
    <3> QED
      BY <3>1, <3>4, <3>5 DEF Goal, TakesNext
  <2>3. CASE AgentEnds
    <3>1. Trims /\ UNCHANGED <<stored, current, command>> /\ TakesNext /\ Ready /\ NextEvent.type = "agent_end"
      BY <2>3, AgentEndsDoes DEF HandlerSteps
    <3>2. session.events # <<>> /\ NextEvent = Head(session.events)
      BY <3>1, TakenDoes
    <3>3. "log" \notin missed /\ Sent(agent'.messages) = Sent(agent.messages)
      BY <1>t, <3>1, TrimsSent
    <3>4. Matched(agent.messages, path, session.events)
      BY <1>p, <3>1, <3>3
    <3>5. Matched(agent.messages, path, Tail(session.events))
      BY <1>m, <3>1, <3>2, <3>4, MatchedSkip
    <3>6. path' = path
      BY <3>1 DEF path
    <3> QED
      BY <3>1, <3>3, <3>5, <3>6 DEF Goal, TakesNext, Matched
  <2>4. CASE BackoffElapses
    <3>1. SameEvents /\ UNCHANGED <<agent, stored, current, command, missed>>
      BY <2>4, BackoffElapsesDoes
    <3> QED
      BY <1>q, <3>1 DEF SameEvents
  <2>5. CASE BackoffCancelled
    <3>1. Trims /\ UNCHANGED <<stored, current, command>> /\ SameEvents
      BY <2>5, BackoffCancelledDoes DEF HandlerSteps
    <3>2. "log" \notin missed /\ Sent(agent'.messages) = Sent(agent.messages)
      BY <1>t, <3>1, TrimsSent
    <3> QED
      BY <1>q, <3>1, <3>2 DEF SameEvents
  <2> QED
    BY <1>2, <2>1, <2>2, <2>3, <2>4, <2>5 DEF HandlerStep
<1>3. CASE CommandStep
  <2>1. CASE NewSession
    <3>1. /\ current' \in Unused /\ stored' = stored /\ agent'.messages = <<>>
          /\ session'.events = session.events
          /\ missed' = Rebuilt \ {"mirror"}
      BY <2>1, NewSessionDoes DEF SameEvents
    <3>2. EndedIn(session.events) = <<>>
      BY <3>1, RebuiltFacts
    <3> DEFINE none == <<>>
    <3>3. path' = none
      BY <3>1 DEF path, Unused
    <3>4. none \in Seq(Messages)
      OBVIOUS
    <3>7. Context(none) = none
      BY ContextOfNone
    <3>5. agent'.messages = none
      BY <3>1
    <3> HIDE DEF none
    <3>8. Matched(Context(none), none, session.events)
      BY <3>2, <3>4, MatchedRebuilt
    <3> QED
      BY <3>1, <3>3, <3>5, <3>7, <3>8 DEF Goal
  <2>2. CASE SwitchOpens
    <3>1. command' = [command EXCEPT !.pc = "restore", !.context = Context(stored[current'])]
      BY <2>2, SwitchOpensDoes
    <3>2. command'.pc = "restore"
      BY <1>t, <3>1 DEF JobData
    <3> QED
      BY <3>2
  <2>3. CASE SwitchRestores
    <3>1. /\ UNCHANGED <<stored, current>> /\ agent'.messages = command.context
          /\ session'.events = session.events
          /\ missed' = IF command.context = Context(path) THEN Rebuilt ELSE missed \cup {"log"}
      BY <2>3, SwitchRestoresDoes DEF SameEvents
    <3>2. command.context = Context(path) /\ "log" \notin Rebuilt
      BY <3>1
    <3>3. Matched(Context(path), path, session.events)
      BY <1>m, <3>2, RebuiltFacts, MatchedRebuilt
    <3>4. path' = path
      BY <3>1 DEF path
    <3> QED
      BY <3>1, <3>2, <3>3, <3>4 DEF Goal
  <2>4. CASE CompactStarts
    <3>1. UNCHANGED <<agent, session, stored, current, missed>> /\ command.pc = "idle"
      BY <2>4 DEF CompactStarts, CommandAt
    <3> QED
      BY <1>o, <3>1, StillMatched DEF Goal
  <2> QED
    BY <1>3, <2>1, <2>2, <2>3, <2>4 DEF CommandStep
<1>4. CASE TimerStep
  <2>1. ASSUME NEW k \in {"retry", "resume"}, Continue(k) PROVE Goal
    <3>1. /\ UNCHANGED <<stored, current, command>> /\ "log" \notin missed
          /\ UNCHANGED <<agent, session>> \/ \E ms \in Seq(Inputs), q \in Seq(Inputs) : Says(ms, q, Spoken(ms))
      BY <2>1, ContinueSays
    <3> QED
      BY <1>q, <1>s, <3>1
  <2> QED
    BY <1>4, <2>1 DEF TimerStep
<1>5. CASE HostStep
  <2>1. ASSUME NEW p \in Prompts, PromptQueues(p) PROVE Goal
    <3>1. SameMessages /\ SameEvents
      BY <2>1, PromptQueuesDoes
    <3>2. UNCHANGED <<stored, current, command, missed>>
      BY <2>1 DEF PromptQueues
    <3> QED
      BY <1>q, <3>1, <3>2 DEF SameMessages, SameEvents
  <2>2. ASSUME NEW p \in Prompts, PromptStarts(p) PROVE Goal
    <3>1. /\ agent'.messages = agent.messages \o session.pendingBash
          /\ session'.events = session.events
      BY <2>2, PromptStartsDoes DEF SameEvents
    <3>2. /\ stored' = [stored EXCEPT ![current] = stored[current] \o session.pendingBash]
          /\ current' = current /\ command' = command
          /\ missed' = IF session.pendingBash = <<>> \/ session.events = <<>> THEN missed ELSE missed \cup {"log"}
      BY <2>2 DEF PromptStarts, Save
    <3>3. path' = path \o session.pendingBash
      BY <1>m, <3>2 DEF path
    <3>4. Matched(agent.messages, path, session.events)
      BY <1>p, <3>2
    <3>5. session.pendingBash \in Seq(NoSummaries)
      <4>1. session.pendingBash \in Seq(BashMessages)
        BY <1>t DEF SessionData
      <4> QED
        BY <4>1, DataSets, SeqMonotonic
    <3>6. CASE session.events = <<>>
      <4>1. Matched(agent.messages, path, <<>>)
        BY <3>4, <3>6
      <4>2. Matched(agent.messages \o session.pendingBash, path \o session.pendingBash, <<>>)
        BY <1>m, <3>5, <4>1, MatchedRecorded
      <4> QED
        BY <3>1, <3>3, <3>6, <4>2 DEF Goal
    <3>7. CASE session.pendingBash = <<>>
      <4>1. \A s \in Seq(Messages) : s \o <<>> = s
        OBVIOUS
      <4>2. agent'.messages = agent.messages /\ path' = path
        BY <1>m, <3>1, <3>3, <3>7, <4>1
      <4> QED
        BY <3>1, <3>4, <4>2 DEF Goal
    <3> QED
      BY <3>2, <3>6, <3>7
  <2>3. ASSUME NEW name \in Commands, CommandStarts(name) PROVE Goal
    <3>1. UNCHANGED <<stored, current, missed>> /\ SameMessages /\ SameEvents /\ command.pc = "none"
      BY <2>3, CommandStartsDoes DEF WholeAgent
    <3> QED
      BY <1>o, <3>1, StillMatched DEF Goal, SameMessages, SameEvents
  <2>4. CASE RecordBash
    <3>1. Message("bash", clock, "none") \in NoSummaries
      BY <1>m, MessageInputs, DataSets
    <3>2. /\ UNCHANGED <<current, command>>
          /\ \/ UNCHANGED <<agent, stored, missed>> /\ SameEvents
             \/ Records(Message("bash", clock, "none"))
      BY <2>4, RecordBashDoes
    <3>3. "log" \notin missed
      BY <3>2 DEF Records
    <3>4. Matched(agent.messages, path, session.events)
      BY <1>p, <3>2, <3>3
    <3> QED
      BY <1>q, <3>1, <3>2, <3>3, <3>4, RecordsMatched DEF Goal, SameEvents
  <2>5. CASE SendCustom
    <3>1. Message("custom", clock, "none") \in NoSummaries
      BY <1>m, MessageInputs, DataSets
    <3>2. /\ UNCHANGED <<current, command>>
          /\ \/ SameMessages /\ UNCHANGED <<stored, missed>> /\ SameEvents
             \/ Records(Message("custom", clock, "none"))
      BY <2>5, SendCustomDoes DEF SameMessages, SameEvents
    <3>3. "log" \notin missed
      BY <3>2 DEF Records
    <3>4. Matched(agent.messages, path, session.events)
      BY <1>p, <3>2, <3>3
    <3> QED
      BY <1>q, <3>1, <3>2, <3>3, <3>4, RecordsMatched DEF Goal, SameEvents, SameMessages
  <2>6. CASE EscapeBackoff
    <3>1. SameEvents /\ UNCHANGED <<agent, stored, current, command, missed>>
      <4>1. command' = command
        BY <2>6 DEF EscapeBackoff
      <4> QED
        BY <2>6, <4>1, EscapeBackoffDoes
    <3> QED
      BY <1>q, <3>1 DEF SameEvents
  <2>7. CASE EscapeRun
    <3>1. SameEvents /\ SameMessages /\ UNCHANGED <<stored, current, command>> /\ missed' = missed \ {"mirror"}
      BY <2>7, EscapeRunDoes
    <3>2. "log" \notin missed
      BY <3>1
    <3> QED
      BY <1>q, <3>1, <3>2 DEF SameEvents, SameMessages
  <2>8. CASE NavigateTree
    <3>1. session' = session /\ current' = current /\ missed' = Rebuilt
      BY <2>8, NavigateTreeDoes
    <3>2. PICK i \in 0..(Len(path) - 1) :
            /\ stored' = [stored EXCEPT ![current] = SubSeq(path, 1, i)]
            /\ agent'.messages = Context(SubSeq(path, 1, i))
      BY <2>8, NavigateTreeDoes
    <3>3. i \in Nat /\ i <= Len(path)
      BY <1>m
    <3>4. SubSeq(path, 1, i) \in Seq(Messages)
      BY <1>t, <3>3, PrefixType
    <3>5. Matched(Context(SubSeq(path, 1, i)), SubSeq(path, 1, i), session.events)
      BY <3>1, <3>4, RebuiltFacts, MatchedRebuilt
    <3>6. stored'[current'] = SubSeq(path, 1, i)
      BY <1>m, <3>1, <3>2
    <3>7. path' = SubSeq(path, 1, i)
      BY <3>6 DEF path
    <3> QED
      BY <3>1, <3>2, <3>5, <3>7 DEF Goal
  <2>9. CASE Fork
    <3>1. SameEvents /\ current' \in Files /\ missed' = Rebuilt
      BY <2>9, ForkDoes DEF Unused
    <3>2. PICK i \in 1..Len(path) :
            /\ stored' = [stored EXCEPT ![current'] = SubSeq(path, 1, i - 1)]
            /\ agent'.messages = Context(SubSeq(path, 1, i - 1))
      BY <2>9, ForkDoes
    <3>3. i - 1 \in Nat /\ i - 1 <= Len(path)
      BY <1>m
    <3>4. SubSeq(path, 1, i - 1) \in Seq(Messages)
      BY <1>t, <3>3, PrefixType
    <3>5. Matched(Context(SubSeq(path, 1, i - 1)), SubSeq(path, 1, i - 1), session.events)
      BY <3>1, <3>4, RebuiltFacts, MatchedRebuilt
    <3>6. stored'[current'] = SubSeq(path, 1, i - 1)
      BY <1>m, <3>1, <3>2
    <3>7. path' = SubSeq(path, 1, i - 1)
      BY <3>6 DEF path
    <3> QED
      BY <3>1, <3>2, <3>5, <3>7 DEF Goal, SameEvents
  <2> QED
    BY <1>5, <2>1, <2>2, <2>3, <2>4, <2>5, <2>6, <2>7, <2>8, <2>9 DEF HostStep
<1>6. ASSUME NEW o \in Owners, JobStep(o) PROVE Goal
  <2>1. CASE JobAsks(o)
    BY <1>q, <2>1 DEF JobAsks
  <2>2. CASE JobFails(o)
    <3>1. UNCHANGED <<agent, stored, current, missed>> /\ jobs[o].pc \in {"key", "summary"} /\ Return(o, session)
      BY <2>2 DEF JobFails
    <3>2. SameEvents /\ (command' = command \/ o = Command)
      BY <3>1, ReturnDoes
    <3>3. command.pc # "restore"
      BY <1>t, <3>1, <3>2 DEF JobData
    <3> QED
      BY <1>o, <3>1, <3>2, <3>3, StillMatched DEF Goal, SameEvents
  <2>3. CASE JobDone(o)
    <3> DEFINE e == Compaction(clock, jobs[o].kept)
               p == path \o <<e>>
               r == Context(Append(path, e))
    <3>1. e \in Messages /\ r \in Seq(Messages) /\ p \in Seq(Messages) /\ Append(path, e) = p
      BY <1>t, RebuiltType
    <3>2. agent'.messages = r \/ (LastIsAnswer(r) /\ Failed(Last(r)) /\ agent'.messages = Front(r))
      BY <2>3, JobDoneDoes
    <3>3. stored' = [stored EXCEPT ![current] = @ \o <<e>>] /\ current' = current /\ missed' = Rebuilt
      BY <2>3 DEF JobDone, Save
    <3>4. session'.events = session.events
      BY <2>3, ReturnDoes DEF JobDone, SameEvents
    <3> HIDE DEF e
    <3>5. agent'.messages \in Seq(Messages)
      BY <1>d DEF Data, StoredData
    <3>6. path' = p
      BY <1>t, <3>1, <3>3, <3>5, SavesOne
    <3>7. r = Context(p)
      BY <3>1
    <3> HIDE DEF p, r
    <3>8. Matched(r, p, session.events)
      BY <3>1, <3>3, <3>7, RebuiltFacts, MatchedRebuilt
    <3>9. Sent(agent'.messages) = Sent(r)
      BY <3>1, <3>2, SentFront
    <3> QED
      BY <3>4, <3>6, <3>8, <3>9 DEF Goal, Matched
  <2> QED
    BY <1>6, <2>1, <2>2, <2>3 DEF JobStep
<1>7. ASSUME NEW p \in Prompts, PromptStep(p) PROVE Goal
  <2>1. CASE PromptHasNoKey(p) \/ PromptWaits(p)
    BY <1>q, <2>1 DEF PromptHasNoKey, PromptWaits
  <2>2. CASE PromptChecks(p)
    <3>1. Trims /\ SameEvents
      BY <2>2, PromptChecksDoes
    <3>2. UNCHANGED <<stored, current, command>>
      BY <2>2 DEF PromptChecks
    <3>3. "log" \notin missed /\ Sent(agent'.messages) = Sent(agent.messages)
      BY <1>t, <3>1, TrimsSent
    <3> QED
      BY <1>q, <3>1, <3>2, <3>3 DEF SameEvents
  <2>3. CASE PromptRuns(p)
    <3>1. /\ UNCHANGED <<stored, current, command>> /\ "log" \notin missed
          /\ UNCHANGED <<agent, session>> \/ \E ms \in Seq(Inputs), q \in Seq(Inputs) : Says(ms, q, Spoken(ms))
      BY <2>3, PromptSays
    <3> QED
      BY <1>q, <1>s, <3>1
  <2> QED
    BY <1>7, <2>1, <2>2, <2>3 DEF PromptStep
<1>8. CASE UNCHANGED vars
  BY <1>q, <1>8 DEF vars
<1> QED
  BY <1>1, <1>2, <1>3, <1>4, <1>5, <1>6, <1>7, <1>8 DEF Next

LEMMA InitContextMatchesLog == Init => ContextMatchesLog
<1> SUFFICES ASSUME Init PROVE ContextMatchesLog
  OBVIOUS
<1>1. Data
  BY InitData
<1>2. stored[current] = <<>>
  <2>1. current \in Files
    BY <1>1 DEF Data, StoredData
  <2> QED
    BY <2>1 DEF Init
<1>3. agent.messages = <<>> /\ path = <<>> /\ session.events = <<>>
  BY <1>2 DEF Init, path
<1>4. PICK p \in Seq(Messages) : p = <<>>
  BY EmptySeq, Zenon
<1>5. PICK ev \in Seq(PlainEvents) : ev = <<>>
  BY EmptySeq, Zenon
<1>6. EndedIn(ev) = <<>>
  <2>1. ev \in Seq(Events) /\ \A i \in 1..Len(ev) : ev[i].type # "end"
    BY <1>5, PlainEnded
  <2> QED
    BY <2>1, EndedNone
<1>7. Matched(Context(p), p, ev)
  BY <1>6, MatchedRebuilt
<1>8. Sent(Context(p)) = Sent(Context(p \o EndedIn(ev)))
  BY <1>7, MatchedIs
<1>9. Context(p) = p
  BY <1>4, ContextOfNone
<1>10. EndedMessages = EndedIn(ev)
  BY <1>1, <1>3, <1>5, EndedMessagesType DEF Data
<1> QED
  BY <1>3, <1>4, <1>8, <1>9, <1>10 DEF ContextMatchesLog

\* What the model is sent is what the session will restore, in every reachable state: the
\* transcript of the agent and the session file, written to by different steps, agree
\* (agent-session.ts _processAgentEvent, _runAutoCompaction, newSession, switchSession,
\* navigateTree, fork).
THEOREM ContextMatchesTheLog == Spec => []ContextMatchesLog
<1>1. Init => Inv /\ Data /\ ContextMatchesLog
  BY InitInv, InitData, InitContextMatchesLog
<1>2. (Inv /\ Data /\ ContextMatchesLog) /\ [Next]_vars => (Inv /\ Data /\ ContextMatchesLog)'
  BY NextInv, NextData, NextContextMatchesLog
<1> QED
  BY <1>1, <1>2, PTL DEF Spec
=============================================================================
