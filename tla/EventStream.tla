----------------------------- MODULE EventStream -----------------------------
(***************************************************************************)
(* The push-based event stream of packages/ai/src/utils/event-stream.ts.   *)
(*                                                                         *)
(* A producer calls push() and end(); consumers pull with `for await`.     *)
(* JavaScript runs each call to completion, so push() and end() are one    *)
(* action each, and the iterator is cut exactly where it suspends: at a    *)
(* `yield` (the consumer's loop body runs) and at the `await` of a waiter  *)
(* that push() or end() resolves in some later task.                       *)
(***************************************************************************)
EXTENDS Naturals, Sequences

CONSTANTS
  Consumers,    \* the iterators obtained with [Symbol.asyncIterator]()
  Quitters,     \* the consumers that may break out of their loop early
  Events,       \* the events a producer may push
  Terminal,     \* the events for which isComplete() holds
  Results,      \* the values end(result) may be given
  Nil,          \* undefined: no result, no resolution
  MaxEvents     \* bound on the number of accepted events

ASSUME ConsumersAssumption == Quitters \subseteq Consumers
ASSUME EventsAssumption == /\ Terminal \subseteq Events
                           /\ Nil \notin Events \cup Results
                           /\ MaxEvents \in Nat

VARIABLES
  queue,        \* events pushed and not yet taken
  waiting,      \* consumers whose waiter push() has not resolved, oldest first
  done,         \* no further event is accepted
  finalResult,  \* what finalResultPromise is resolved with, Nil while pending
  state,        \* where each consumer is suspended
  box,          \* what a resolved waiter holds for its consumer
  accepted,     \* history: the events push() accepted, in order
  yielded       \* history: the events each consumer's loop body has seen

vars == <<queue, waiting, done, finalResult, state, box, accepted, yielded>>

\* "ready": the loop body runs, the generator will be resumed;
\* "waiting": awaiting its waiter; "resolved": the waiter is resolved and the
\* generator's continuation is a pending microtask; "returned": loop left.
ConsumerStates == {"ready", "waiting", "resolved", "returned"}

\* The IteratorResult end() hands to a waiter: {value: undefined, done: true}.
EndMark == Nil

\* Every variable has its type; in particular no loop body is ever given the
\* undefined value that ends the iteration.
TypeOK ==
  /\ queue \in Seq(Events)
  /\ waiting \in Seq(Consumers)
  /\ done \in BOOLEAN
  /\ finalResult \in Events \cup Results \cup {Nil}
  /\ state \in [Consumers -> ConsumerStates]
  /\ box \in [Consumers -> Events \cup {Nil}]
  /\ accepted \in Seq(Events)
  /\ yielded \in [Consumers -> Seq(Events)]

Init ==
  /\ queue = <<>>
  /\ waiting = <<>>
  /\ done = FALSE
  /\ finalResult = Nil
  /\ state = [c \in Consumers |-> "ready"]
  /\ box = [c \in Consumers |-> Nil]
  /\ accepted = <<>>
  /\ yielded = [c \in Consumers |-> <<>>]

\* Definitions named X_... are faulty variants of X, one plausible slip each:
\* with one of them in the place of X a property below must fail.
Resolve_LastWins(result) == result

\* Resolving a promise a second time has no effect.
Resolve(result) == IF finalResult = Nil THEN result ELSE finalResult

-----------------------------------------------------------------------------
(* The producer.                                                           *)

\* push(event) after completion is ignored: no action models it.
\* Here the oldest waiter takes the event, past the queue.
PushToWaiter(e) ==
  /\ ~done
  /\ Len(accepted) < MaxEvents
  /\ waiting # <<>>
  /\ done' = (e \in Terminal)
  /\ finalResult' = IF e \in Terminal THEN Resolve(e) ELSE finalResult
  /\ waiting' = Tail(waiting)
  /\ state' = [state EXCEPT ![Head(waiting)] = "resolved"]
  /\ box' = [box EXCEPT ![Head(waiting)] = e]
  /\ accepted' = Append(accepted, e)
  /\ UNCHANGED <<queue, yielded>>

PushToQueue_IgnoresWaiters(e) ==
  /\ ~done
  /\ Len(accepted) < MaxEvents
  /\ done' = (e \in Terminal)
  /\ finalResult' = IF e \in Terminal THEN Resolve(e) ELSE finalResult
  /\ queue' = Append(queue, e)
  /\ accepted' = Append(accepted, e)
  /\ UNCHANGED <<waiting, state, box, yielded>>

\* push(event) with no consumer waiting.
PushToQueue(e) ==
  /\ ~done
  /\ Len(accepted) < MaxEvents
  /\ waiting = <<>>
  /\ done' = (e \in Terminal)
  /\ finalResult' = IF e \in Terminal THEN Resolve(e) ELSE finalResult
  /\ queue' = Append(queue, e)
  /\ accepted' = Append(accepted, e)
  /\ UNCHANGED <<waiting, state, box, yielded>>

Push(e) == PushToWaiter(e) \/ PushToQueue(e)

End_NotifiesNobody(result) ==
  /\ done' = TRUE
  /\ finalResult' = Resolve(result)
  /\ UNCHANGED <<queue, waiting, state, box, accepted, yielded>>

\* end(result): every waiter is told that the stream is over.
End(result) ==
  /\ done' = TRUE
  /\ finalResult' = Resolve(result)
  /\ waiting' = <<>>
  /\ state' = [c \in Consumers |-> IF state[c] = "waiting" THEN "resolved" ELSE state[c]]
  /\ UNCHANGED <<queue, box, accepted, yielded>>

-----------------------------------------------------------------------------
(* A consumer.                                                             *)

Take_Newest(c) ==
  /\ state[c] = "ready"
  /\ queue # <<>>
  /\ queue' = SubSeq(queue, 1, Len(queue) - 1)
  /\ yielded' = [yielded EXCEPT ![c] = Append(@, queue[Len(queue)])]
  /\ UNCHANGED <<waiting, done, finalResult, state, box, accepted>>

\* The generator finds a queued event and yields it.
Take(c) ==
  /\ state[c] = "ready"
  /\ queue # <<>>
  /\ queue' = Tail(queue)
  /\ yielded' = [yielded EXCEPT ![c] = Append(@, Head(queue))]
  /\ UNCHANGED <<waiting, done, finalResult, state, box, accepted>>

Return_DoneFirst(c) ==
  /\ state[c] = "ready"
  /\ done
  /\ state' = [state EXCEPT ![c] = "returned"]
  /\ UNCHANGED <<queue, waiting, done, finalResult, box, accepted, yielded>>

\* The generator finds the queue empty and the stream done, and returns.
Return(c) ==
  /\ state[c] = "ready"
  /\ queue = <<>>
  /\ done
  /\ state' = [state EXCEPT ![c] = "returned"]
  /\ UNCHANGED <<queue, waiting, done, finalResult, box, accepted, yielded>>

\* The generator registers a waiter and suspends.
Wait(c) ==
  /\ state[c] = "ready"
  /\ queue = <<>>
  /\ ~done
  /\ waiting' = Append(waiting, c)
  /\ state' = [state EXCEPT ![c] = "waiting"]
  /\ UNCHANGED <<queue, done, finalResult, box, accepted, yielded>>

\* The continuation of a resolved waiter runs: it returns or yields the value.
Resume(c) ==
  /\ state[c] = "resolved"
  /\ IF box[c] = EndMark
       THEN /\ state' = [state EXCEPT ![c] = "returned"]
            /\ UNCHANGED yielded
       ELSE /\ state' = [state EXCEPT ![c] = "ready"]
            /\ yielded' = [yielded EXCEPT ![c] = Append(@, box[c])]
  /\ box' = [box EXCEPT ![c] = Nil]
  /\ UNCHANGED <<queue, waiting, done, finalResult, accepted>>

\* The consumer leaves its `for await` loop while the generator is at a yield,
\* as streamAssistantResponse does on the done event.
Break(c) ==
  /\ c \in Quitters
  /\ state[c] = "ready"
  /\ state' = [state EXCEPT ![c] = "returned"]
  /\ UNCHANGED <<queue, waiting, done, finalResult, box, accepted, yielded>>

ConsumerStep(c) == Take(c) \/ Return(c) \/ Wait(c) \/ Resume(c)

Next ==
  \/ \E e \in Events : Push(e)
  \/ \E r \in Results \cup {Nil} : End(r)
  \/ \E c \in Consumers : ConsumerStep(c) \/ Break(c)

\* The event loop runs every consumer's continuation, and every producer calls
\* end() last: the providers in both branches of their try/catch, agentLoop when
\* the run returns.
Fairness ==
  /\ \A c \in Consumers : WF_vars(ConsumerStep(c))
  /\ WF_vars(\E r \in Results \cup {Nil} : End(r))

Spec == Init /\ [][Next]_vars /\ Fairness

-----------------------------------------------------------------------------
(* Properties.                                                             *)

\* What a consumer has been handed: seen by its loop body or on its way there.
HandedTo(c) == IF box[c] = Nil THEN yielded[c] ELSE Append(yielded[c], box[c])

\* A waiter is registered for exactly the waiting consumers, once each, and no
\* event sits in the queue while one of them waits: push() and the iterator
\* never miss one another.
WaitersMatch ==
  /\ waiting # <<>> => queue = <<>>
  /\ \A c \in Consumers : state[c] = "waiting" <=> \E i \in DOMAIN waiting : waiting[i] = c
  /\ \A i, j \in DOMAIN waiting : waiting[i] = waiting[j] => i = j

\* The queue is the tail of the accepted events that nobody was handed, and only
\* a resolved waiter holds an event.
QueueIsSuffix ==
  /\ Len(queue) <= Len(accepted)
  /\ \A i \in 1..Len(queue) : queue[i] = accepted[Len(accepted) - Len(queue) + i]
BoxesAreResolved == \A c \in Consumers : box[c] # Nil => state[c] = "resolved"

\* result() and the iterator agree: a terminal event is the last one accepted,
\* completes the stream and is what result() resolves with, whatever value a
\* later end(result) carries.
ResultIsTerminalEvent ==
  \A i \in DOMAIN accepted :
    accepted[i] \in Terminal =>
      i = Len(accepted) /\ done /\ finalResult = accepted[i]

\* Every accepted event is handed over exactly once, in order, and a done
\* stream accepts none: push, end and the iterator implement the channel.
Channel == INSTANCE EventChannel WITH
  sent <- accepted,
  handed <- Len(accepted) - Len(queue),
  got <- [c \in Consumers |-> HandedTo(c)],
  closed <- done
ImplementsChannel == Channel!Spec

\* No consumer is left hanging: each one eventually leaves its loop, also when
\* several wait and only one of them receives the terminal event.
ConsumersReturn == \A c \in Consumers : <>(state[c] = "returned")

\* Nothing accepted before the end is lost to it: as long as one consumer does
\* not break out of its loop, every event reaches a loop body.
EventsReachConsumers ==
  Quitters # Consumers =>
    <>[](queue = <<>> /\ \A c \in Consumers : box[c] = Nil)
=============================================================================
