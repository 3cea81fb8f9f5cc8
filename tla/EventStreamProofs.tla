------------------------- MODULE EventStreamProofs -------------------------
(***************************************************************************)
(* The event stream implements EventChannel, for any number of consumers   *)
(* and events. The refinement rests on an inductive invariant: the type    *)
(* invariant, the match between waiters and suspended consumers, and the   *)
(* fact that the queue is the part of the history nobody was handed.       *)
(***************************************************************************)
EXTENDS EventStream, TLAPS

StreamInv == TypeOK /\ WaitersMatch /\ QueueIsSuffix /\ BoxesAreResolved

\* The type invariant: at every step of every consumer and of the producer the
\* variables keep their types, so no undefined value ever reaches a loop body.
THEOREM StreamTypeOK == Spec => []TypeOK
<1>1. Init => TypeOK
  <2> SUFFICES ASSUME Init PROVE TypeOK
    OBVIOUS
  <2>1. queue \in Seq(Events) /\ waiting \in Seq(Consumers) /\ accepted \in Seq(Events)
    BY DEF Init
  <2>2. yielded \in [Consumers -> Seq(Events)]
    BY DEF Init
  <2>3. state \in [Consumers -> ConsumerStates]
    BY DEF Init, ConsumerStates
  <2>4. box \in [Consumers -> Events \cup {Nil}]
    BY DEF Init
  <2> QED
    BY <2>1, <2>2, <2>3, <2>4 DEF Init, TypeOK
<1>2. TypeOK /\ [Next]_vars => TypeOK'
  <2> SUFFICES ASSUME TypeOK, [Next]_vars PROVE TypeOK'
    OBVIOUS
  <2>1. ASSUME NEW e \in Events, PushToWaiter(e) PROVE TypeOK'
    BY <2>1, EventsAssumption DEF TypeOK, ConsumerStates, PushToWaiter, Resolve
  <2>2. ASSUME NEW e \in Events, PushToQueue(e) PROVE TypeOK'
    BY <2>2, EventsAssumption DEF TypeOK, ConsumerStates, PushToQueue, Resolve
  <2>3. ASSUME NEW r \in Results \cup {Nil}, End(r) PROVE TypeOK'
    BY <2>3, EventsAssumption DEF TypeOK, ConsumerStates, End, Resolve
  <2>4. ASSUME NEW c \in Consumers, Take(c) PROVE TypeOK'
    BY <2>4, EventsAssumption DEF TypeOK, ConsumerStates, Take
  <2>5. ASSUME NEW c \in Consumers, Return(c) PROVE TypeOK'
    BY <2>5, EventsAssumption DEF TypeOK, ConsumerStates, Return
  <2>6. ASSUME NEW c \in Consumers, Wait(c) PROVE TypeOK'
    BY <2>6, EventsAssumption DEF TypeOK, ConsumerStates, Wait
  <2>7. ASSUME NEW c \in Consumers, Resume(c) PROVE TypeOK'
    <3>1. box' \in [Consumers -> Events \cup {Nil}]
      BY <2>7 DEF TypeOK, Resume
    <3>2. state' \in [Consumers -> ConsumerStates]
      BY <2>7 DEF TypeOK, Resume, ConsumerStates
    <3>3. yielded' \in [Consumers -> Seq(Events)]
      <4>1. CASE box[c] = EndMark
        BY <2>7, <4>1 DEF TypeOK, Resume
      <4>2. CASE box[c] # EndMark
        <5>1. box[c] \in Events
          BY <4>2 DEF TypeOK, EndMark
        <5>2. Append(yielded[c], box[c]) \in Seq(Events)
          BY <5>1 DEF TypeOK
        <5> QED
          BY <2>7, <4>2, <5>2 DEF TypeOK, Resume
      <4> QED
        BY <4>1, <4>2
    <3> QED
      BY <2>7, <3>1, <3>2, <3>3 DEF TypeOK, Resume
  <2>8. ASSUME NEW c \in Consumers, Break(c) PROVE TypeOK'
    BY <2>8, EventsAssumption DEF TypeOK, ConsumerStates, Break
  <2>9. CASE UNCHANGED vars
    BY <2>9, EventsAssumption DEF TypeOK, ConsumerStates, vars
  <2> QED
    BY <2>1, <2>2, <2>3, <2>4, <2>5, <2>6, <2>7, <2>8, <2>9
       DEF Next, Push, ConsumerStep
<1> QED
  BY <1>1, <1>2, PTL DEF Spec

-----------------------------------------------------------------------------
LEMMA StreamInvInit == Init => StreamInv
<1> SUFFICES ASSUME Init PROVE StreamInv
  OBVIOUS
<1>1. TypeOK
  <2>1. queue \in Seq(Events) /\ waiting \in Seq(Consumers) /\ accepted \in Seq(Events)
    BY DEF Init
  <2>2. yielded \in [Consumers -> Seq(Events)]
    BY DEF Init
  <2>3. state \in [Consumers -> ConsumerStates]
    BY DEF Init, ConsumerStates
  <2> QED
    BY <2>1, <2>2, <2>3 DEF Init, TypeOK
<1>2. WaitersMatch
  BY DEF Init, WaitersMatch
<1>3. QueueIsSuffix /\ BoxesAreResolved
  BY DEF Init, QueueIsSuffix, BoxesAreResolved
<1> QED
  BY <1>1, <1>2, <1>3 DEF StreamInv

\* Sequences: what appending and taking the tail do to positions.
LEMMA AppendFacts ==
  ASSUME NEW S, NEW s \in Seq(S), NEW x \in S
  PROVE  /\ Append(s, x) \in Seq(S)
         /\ Len(Append(s, x)) = Len(s) + 1
         /\ \A i \in 1..Len(s) : Append(s, x)[i] = s[i]
         /\ Append(s, x)[Len(s) + 1] = x
  OBVIOUS

LEMMA TailFacts ==
  ASSUME NEW S, NEW s \in Seq(S), s # <<>>
  PROVE  /\ Head(s) = s[1]
         /\ Head(s) \in S
         /\ Tail(s) \in Seq(S)
         /\ Len(Tail(s)) = Len(s) - 1
         /\ Len(s) >= 1
         /\ \A i \in 1..Len(Tail(s)) : Tail(s)[i] = s[i + 1]
  OBVIOUS

LEMMA WaitersMatchStep ==
  TypeOK /\ TypeOK' /\ WaitersMatch /\ [Next]_vars => WaitersMatch'
<1> SUFFICES ASSUME TypeOK, TypeOK', WaitersMatch, [Next]_vars PROVE WaitersMatch'
  OBVIOUS
<1>1. ASSUME NEW e \in Events, PushToWaiter(e) PROVE WaitersMatch'
  <2>1. waiting \in Seq(Consumers) /\ waiting # <<>> /\ waiting' = Tail(waiting)
    BY <1>1 DEF TypeOK, PushToWaiter
  <2>2. queue' = <<>>
    BY <1>1 DEF PushToWaiter, WaitersMatch
  <2>3. /\ Head(waiting) = waiting[1]
        /\ Head(waiting) \in Consumers
        /\ DOMAIN waiting = 1..Len(waiting)
        /\ DOMAIN Tail(waiting) = 1..Len(waiting) - 1
        /\ 1 \in DOMAIN waiting
        /\ \A i \in 1..Len(waiting) - 1 : Tail(waiting)[i] = waiting[i + 1]
    BY <2>1, TailFacts
  <2>4. \A i, j \in DOMAIN waiting' : waiting'[i] = waiting'[j] => i = j
    <3> SUFFICES ASSUME NEW i \in DOMAIN waiting', NEW j \in DOMAIN waiting',
                        waiting'[i] = waiting'[j]
                 PROVE  i = j
      OBVIOUS
    <3>1. /\ i \in Nat /\ j \in Nat
          /\ i + 1 \in DOMAIN waiting /\ j + 1 \in DOMAIN waiting
          /\ waiting[i + 1] = waiting[j + 1]
      BY <2>1, <2>3
    <3>2. i + 1 = j + 1
      BY <3>1 DEF WaitersMatch
    <3> QED
      BY <3>1, <3>2
  <2>5. ASSUME NEW c \in Consumers
        PROVE  state'[c] = "waiting" <=> \E i \in DOMAIN waiting' : waiting'[i] = c
    <3>1. CASE c = Head(waiting)
      <4>1. state'[c] = "resolved"
        BY <1>1, <2>3, <3>1 DEF PushToWaiter, TypeOK
      <4>2. ASSUME NEW i \in DOMAIN waiting', waiting'[i] = c PROVE FALSE
        <5>1. i + 1 \in DOMAIN waiting /\ i + 1 # 1 /\ waiting[i + 1] = waiting[1]
          BY <2>1, <2>3, <3>1, <4>2
        <5> QED
          BY <2>3, <5>1 DEF WaitersMatch
      <4> QED
        BY <4>1, <4>2
    <3>2. CASE c # Head(waiting)
      <4>1. state'[c] = state[c]
        BY <1>1, <2>3, <3>2 DEF PushToWaiter, TypeOK
      <4>2. ASSUME NEW i \in DOMAIN waiting, waiting[i] = c
            PROVE  \E j \in DOMAIN waiting' : waiting'[j] = c
        <5>1. i # 1 /\ i - 1 \in 1..Len(waiting) - 1 /\ (i - 1) + 1 = i
          BY <2>1, <2>3, <3>2, <4>2
        <5> QED
          BY <2>1, <2>3, <4>2, <5>1
      <4>3. ASSUME NEW j \in DOMAIN waiting', waiting'[j] = c
            PROVE  \E i \in DOMAIN waiting : waiting[i] = c
        <5>1. j + 1 \in DOMAIN waiting /\ waiting[j + 1] = c
          BY <2>1, <2>3, <4>3
        <5> QED
          BY <5>1
      <4> QED
        BY <4>1, <4>2, <4>3 DEF WaitersMatch
    <3> QED
      BY <3>1, <3>2
  <2> QED
    BY <2>2, <2>4, <2>5 DEF WaitersMatch
<1>2. ASSUME NEW e \in Events, PushToQueue(e) PROVE WaitersMatch'
  BY <1>2 DEF PushToQueue, WaitersMatch
<1>3. ASSUME NEW r \in Results \cup {Nil}, End(r) PROVE WaitersMatch'
  <2>1. waiting' = <<>> /\ \A c \in Consumers : state'[c] # "waiting"
    BY <1>3 DEF End, TypeOK
  <2> QED
    BY <2>1 DEF WaitersMatch
<1>4. ASSUME NEW c \in Consumers, Take(c) PROVE WaitersMatch'
  <2>1. waiting = <<>> /\ waiting' = <<>> /\ state' = state
    BY <1>4 DEF Take, WaitersMatch
  <2> QED
    BY <2>1 DEF WaitersMatch
<1>5. ASSUME NEW c \in Consumers, Return(c) PROVE WaitersMatch'
  BY <1>5 DEF Return, WaitersMatch, TypeOK
<1>6. ASSUME NEW c \in Consumers, Wait(c) PROVE WaitersMatch'
  <2>1. /\ waiting \in Seq(Consumers)
        /\ waiting' = Append(waiting, c)
        /\ queue' = <<>>
        /\ state[c] # "waiting"
        /\ state' = [state EXCEPT ![c] = "waiting"]
    BY <1>6 DEF Wait, TypeOK
  <2>2. /\ DOMAIN waiting = 1..Len(waiting)
        /\ DOMAIN waiting' = 1..Len(waiting) + 1
        /\ \A i \in 1..Len(waiting) : waiting'[i] = waiting[i]
        /\ waiting'[Len(waiting) + 1] = c
        /\ Len(waiting) \in Nat
    BY <2>1, AppendFacts
  <2>3. \A i \in DOMAIN waiting : waiting[i] # c
    BY <2>1 DEF WaitersMatch
  <2>4. \A i, j \in DOMAIN waiting' : waiting'[i] = waiting'[j] => i = j
    <3> SUFFICES ASSUME NEW i \in 1..Len(waiting) + 1, NEW j \in 1..Len(waiting) + 1,
                        waiting'[i] = waiting'[j]
                 PROVE  i = j
      BY <2>2
    <3>1. CASE i \in 1..Len(waiting) /\ j \in 1..Len(waiting)
      BY <2>2, <3>1 DEF WaitersMatch
    <3>2. CASE ~(i \in 1..Len(waiting)) \/ ~(j \in 1..Len(waiting))
      BY <2>2, <2>3, <3>2
    <3> QED
      BY <3>1, <3>2
  <2>5. ASSUME NEW d \in Consumers
        PROVE  state'[d] = "waiting" <=> \E i \in DOMAIN waiting' : waiting'[i] = d
    <3>1. CASE d = c
      <4>1. state'[c] = "waiting"
        BY <2>1 DEF TypeOK
      <4>2. Len(waiting) + 1 \in DOMAIN waiting'
        BY <2>2
      <4> QED
        BY <2>2, <3>1, <4>1, <4>2
    <3>2. CASE d # c
      <4>1. state'[d] = state[d]
        BY <2>1, <3>2 DEF TypeOK
      <4>2. (\E i \in DOMAIN waiting' : waiting'[i] = d) <=> (\E i \in DOMAIN waiting : waiting[i] = d)
        BY <2>2, <3>2
      <4> QED
        BY <4>1, <4>2 DEF WaitersMatch
    <3> QED
      BY <3>1, <3>2
  <2> QED
    BY <2>1, <2>4, <2>5 DEF WaitersMatch
<1>7. ASSUME NEW c \in Consumers, Resume(c) PROVE WaitersMatch'
  <2>1. /\ waiting' = waiting /\ queue' = queue
        /\ \A d \in Consumers : state'[d] = "waiting" <=> state[d] = "waiting"
    BY <1>7 DEF Resume, TypeOK
  <2> QED
    BY <2>1 DEF WaitersMatch
<1>8. ASSUME NEW c \in Consumers, Break(c) PROVE WaitersMatch'
  BY <1>8 DEF Break, WaitersMatch, TypeOK
<1>9. CASE UNCHANGED vars
  BY <1>9 DEF vars, WaitersMatch
<1> QED
  BY <1>1, <1>2, <1>3, <1>4, <1>5, <1>6, <1>7, <1>8, <1>9 DEF Next, Push, ConsumerStep

LEMMA QueueIsSuffixStep ==
  TypeOK /\ TypeOK' /\ WaitersMatch /\ QueueIsSuffix /\ [Next]_vars => QueueIsSuffix'
<1> SUFFICES ASSUME TypeOK, TypeOK', WaitersMatch, QueueIsSuffix, [Next]_vars PROVE QueueIsSuffix'
  OBVIOUS
<1>0. /\ queue \in Seq(Events) /\ accepted \in Seq(Events)
      /\ Len(queue) \in Nat /\ Len(accepted) \in Nat
  BY DEF TypeOK
<1>1. ASSUME NEW e \in Events, PushToWaiter(e) PROVE QueueIsSuffix'
  <2>1. queue' = <<>> /\ Len(accepted') = Len(accepted) + 1
    BY <1>0, <1>1, AppendFacts DEF PushToWaiter, WaitersMatch
  <2> QED
    BY <1>0, <2>1 DEF QueueIsSuffix
<1>2. ASSUME NEW e \in Events, PushToQueue(e) PROVE QueueIsSuffix'
  <2>1. /\ Len(queue') = Len(queue) + 1
        /\ Len(accepted') = Len(accepted) + 1
        /\ \A i \in 1..Len(queue) : queue'[i] = queue[i]
        /\ \A i \in 1..Len(accepted) : accepted'[i] = accepted[i]
        /\ queue'[Len(queue) + 1] = e /\ accepted'[Len(accepted) + 1] = e
    BY <1>0, <1>2, AppendFacts DEF PushToQueue
  <2>2. ASSUME NEW i \in 1..Len(queue')
        PROVE  queue'[i] = accepted'[Len(accepted') - Len(queue') + i]
    <3>1. CASE i = Len(queue) + 1
      BY <1>0, <2>1, <3>1
    <3>2. CASE i \in 1..Len(queue)
      <4>1. Len(accepted) - Len(queue) + i \in 1..Len(accepted)
        BY <1>0, <3>2 DEF QueueIsSuffix
      <4>2. Len(accepted') - Len(queue') + i = Len(accepted) - Len(queue) + i
        BY <1>0, <2>1
      <4>3. queue'[i] = queue[i] /\ queue[i] = accepted[Len(accepted) - Len(queue) + i]
        BY <2>1, <3>2 DEF QueueIsSuffix
      <4> QED
        BY <2>1, <4>1, <4>2, <4>3
    <3> QED
      BY <1>0, <2>1, <3>1, <3>2
  <2> QED
    BY <1>0, <2>1, <2>2 DEF QueueIsSuffix
<1>3. ASSUME NEW c \in Consumers, Take(c) PROVE QueueIsSuffix'
  <2>1. /\ Len(queue') = Len(queue) - 1
        /\ accepted' = accepted
        /\ \A i \in 1..Len(queue') : queue'[i] = queue[i + 1]
    BY <1>0, <1>3, TailFacts DEF Take
  <2>2. ASSUME NEW i \in 1..Len(queue')
        PROVE  queue'[i] = accepted'[Len(accepted') - Len(queue') + i]
    <3>1. i + 1 \in 1..Len(queue)
      BY <1>0, <2>1
    <3>2. Len(accepted) - Len(queue) + (i + 1) = Len(accepted') - Len(queue') + i
      BY <1>0, <2>1
    <3> QED
      BY <2>1, <3>1, <3>2 DEF QueueIsSuffix
  <2> QED
    BY <1>0, <2>1, <2>2 DEF QueueIsSuffix
<1>4. CASE UNCHANGED <<queue, accepted>>
  BY <1>4 DEF QueueIsSuffix
<1> QED
  BY <1>1, <1>2, <1>3, <1>4
     DEF Next, vars, Push, ConsumerStep, End, Return, Wait, Resume, Break

LEMMA BoxesAreResolvedStep ==
  TypeOK /\ BoxesAreResolved /\ WaitersMatch /\ [Next]_vars => BoxesAreResolved'
<1> SUFFICES ASSUME TypeOK, BoxesAreResolved, WaitersMatch, [Next]_vars, NEW d \in Consumers,
                    box'[d] # Nil
             PROVE  state'[d] = "resolved"
  BY DEF BoxesAreResolved
<1>1. ASSUME NEW e \in Events, PushToWaiter(e) PROVE state'[d] = "resolved"
  <2>1. Head(waiting) \in Consumers
    BY <1>1, TailFacts DEF PushToWaiter, TypeOK
  <2> QED
    BY <1>1, <2>1 DEF PushToWaiter, BoxesAreResolved, TypeOK
<1>2. ASSUME NEW r \in Results \cup {Nil}, End(r) PROVE state'[d] = "resolved"
  BY <1>2 DEF End, BoxesAreResolved, TypeOK
<1>3. ASSUME NEW c \in Consumers, Resume(c) PROVE state'[d] = "resolved"
  BY <1>3 DEF Resume, BoxesAreResolved, TypeOK
<1>4. ASSUME NEW c \in Consumers, Return(c) \/ Wait(c) \/ Break(c)
      PROVE  state'[d] = "resolved"
  BY <1>4 DEF Return, Wait, Break, BoxesAreResolved, TypeOK
<1>5. CASE UNCHANGED <<box, state>>
  BY <1>5 DEF BoxesAreResolved
<1> QED
  BY <1>1, <1>2, <1>3, <1>4, <1>5 DEF Next, vars, Push, ConsumerStep, PushToQueue, Take

\* The inductive invariant holds at every step: a waiter never sleeps over a
\* queued event, and the queue is always the unread end of what was accepted.
THEOREM StreamInvariant == Spec => []StreamInv
<1>1. StreamInv /\ TypeOK' /\ [Next]_vars => StreamInv'
  BY WaitersMatchStep, QueueIsSuffixStep, BoxesAreResolvedStep DEF StreamInv
<1> QED
  BY <1>1, StreamInvInit, StreamTypeOK, PTL DEF Spec

\* No lost wake-up, for any number of consumers: the waiters are exactly the
\* suspended consumers and none of them waits while an event is queued.
THEOREM NoLostWakeup == Spec => []WaitersMatch
  BY StreamInvariant, PTL DEF StreamInv

-----------------------------------------------------------------------------
LEMMA ChannelStep ==
  StreamInv /\ StreamInv' /\ [Next]_vars => [Channel!Next]_(Channel!chan)
<1> SUFFICES ASSUME StreamInv, StreamInv', [Next]_vars
             PROVE  Channel!Next \/ UNCHANGED Channel!chan
  OBVIOUS
<1> DEFINE handed == Len(accepted) - Len(queue)
           got == [c \in Consumers |-> HandedTo(c)]
<1>0. /\ queue \in Seq(Events) /\ accepted \in Seq(Events)
      /\ Len(queue) \in Nat /\ Len(accepted) \in Nat
      /\ box \in [Consumers -> Events \cup {Nil}]
      /\ yielded \in [Consumers -> Seq(Events)]
      /\ state \in [Consumers -> ConsumerStates]
  BY DEF StreamInv, TypeOK
<1>1. ASSUME NEW e \in Events, PushToWaiter(e) PROVE Channel!Next
  <2>1. Head(waiting) \in Consumers /\ state[Head(waiting)] = "waiting" /\ queue = <<>>
    <3>1. waiting[1] = Head(waiting) /\ Head(waiting) \in Consumers /\ 1 \in DOMAIN waiting
      BY <1>1, TailFacts DEF PushToWaiter, StreamInv, TypeOK
    <3> QED
      BY <1>1, <3>1 DEF PushToWaiter, StreamInv, WaitersMatch
  <2>2. box[Head(waiting)] = Nil
    BY <2>1 DEF StreamInv, BoxesAreResolved
  <2>3. got' = [got EXCEPT ![Head(waiting)] = Append(@, e)]
    BY <1>0, <1>1, <2>1, <2>2, EventsAssumption DEF PushToWaiter, HandedTo
  <2>4. handed = Len(accepted) /\ handed' = handed + 1
    BY <1>0, <1>1, <2>1, AppendFacts DEF PushToWaiter
  <2>5. done' \in BOOLEAN
    BY DEF StreamInv, TypeOK
  <2>6. Channel!Rendezvous(e, Head(waiting))
    BY <1>1, <2>3, <2>4, <2>5 DEF PushToWaiter, Channel!Rendezvous
  <2> QED
    BY <2>1, <2>6 DEF Channel!Next
<1>2. ASSUME NEW e \in Events, PushToQueue(e) PROVE Channel!Next
  <2>1. handed' = handed
    BY <1>0, <1>2, AppendFacts DEF PushToQueue
  <2>2. got' = got
    BY <1>2 DEF PushToQueue, HandedTo
  <2>3. done' \in BOOLEAN
    BY DEF StreamInv, TypeOK
  <2>4. Channel!Put(e)
    BY <1>2, <2>1, <2>2, <2>3 DEF PushToQueue, Channel!Put
  <2> QED
    BY <2>4 DEF Channel!Next
<1>3. ASSUME NEW r \in Results \cup {Nil}, End(r) PROVE Channel!Next
  <2>1. Channel!Close
    BY <1>3 DEF End, HandedTo, Channel!Close
  <2> QED
    BY <2>1 DEF Channel!Next
<1>4. ASSUME NEW c \in Consumers, Take(c) PROVE Channel!Next
  <2>1. /\ queue # <<>> /\ Head(queue) = queue[1] /\ Len(queue') = Len(queue) - 1
        /\ Len(queue) >= 1
    BY <1>0, <1>4, TailFacts DEF Take
  <2>2. handed < Len(accepted) /\ handed' = handed + 1
    BY <1>0, <1>4, <2>1 DEF Take
  <2>3. accepted[handed + 1] = Head(queue)
    BY <1>0, <2>1 DEF StreamInv, QueueIsSuffix
  <2>4. box[c] = Nil
    BY <1>4 DEF Take, StreamInv, BoxesAreResolved
  <2>5. got' = [got EXCEPT ![c] = Append(@, accepted[handed + 1])]
    BY <1>0, <1>4, <2>3, <2>4 DEF Take, HandedTo
  <2>6. Channel!Get(c)
    BY <1>4, <2>2, <2>5 DEF Take, Channel!Get
  <2> QED
    BY <2>6 DEF Channel!Next
<1>5. ASSUME NEW c \in Consumers, Resume(c) PROVE UNCHANGED Channel!chan
  <2>1. ASSUME NEW d \in Consumers PROVE HandedTo(d)' = HandedTo(d)
    <3>1. CASE d # c
      BY <1>0, <1>5, <3>1 DEF Resume, HandedTo
    <3>2. CASE d = c /\ box[c] = EndMark
      BY <1>0, <1>5, <3>2 DEF Resume, HandedTo, EndMark
    <3>3. CASE d = c /\ box[c] # EndMark
      BY <1>0, <1>5, <3>3 DEF Resume, HandedTo, EndMark
    <3> QED
      BY <3>1, <3>2, <3>3
  <2> QED
    BY <1>5, <2>1 DEF Resume, Channel!chan
<1>6. ASSUME NEW c \in Consumers, Return(c) \/ Wait(c) \/ Break(c)
      PROVE  UNCHANGED Channel!chan
  BY <1>6 DEF Return, Wait, Break, HandedTo, Channel!chan
<1>7. CASE UNCHANGED vars
  BY <1>7 DEF vars, HandedTo, Channel!chan
<1> QED
  BY <1>1, <1>2, <1>3, <1>4, <1>5, <1>6, <1>7 DEF Next, Push, ConsumerStep

\* The stream implements the channel: whatever the interleaving of push, end and
\* any number of iterators, every accepted event is handed over exactly once,
\* in order, and nothing is accepted after completion.
THEOREM StreamImplementsChannel == Spec => ImplementsChannel
<1>1. Init => Channel!Init
  BY DEF Init, HandedTo, Channel!Init
<1> QED
  BY <1>1, ChannelStep, StreamInvariant, PTL DEF Spec, ImplementsChannel, Channel!Spec

-----------------------------------------------------------------------------
\* A stream that has a result is done: no terminal event can follow it.
ResultInv == ResultIsTerminalEvent /\ (finalResult # Nil => done)

LEMMA ResultStep ==
  TypeOK /\ ResultInv /\ [Next]_vars => ResultInv'
<1> SUFFICES ASSUME TypeOK, ResultInv, [Next]_vars PROVE ResultInv'
  OBVIOUS
<1>0. accepted \in Seq(Events)
  BY DEF TypeOK
<1>1. ASSUME NEW e \in Events, PushToWaiter(e) \/ PushToQueue(e) PROVE ResultInv'
  <2>1. /\ ~done /\ finalResult = Nil
        /\ accepted' = Append(accepted, e)
        /\ done' = (e \in Terminal)
        /\ finalResult' = IF e \in Terminal THEN e ELSE Nil
    BY <1>1 DEF PushToWaiter, PushToQueue, ResultInv, Resolve
  <2>2. \A i \in 1..Len(accepted) : accepted[i] \notin Terminal
    BY <1>0, <2>1 DEF ResultInv, ResultIsTerminalEvent
  <2>3. /\ DOMAIN accepted' = 1..(Len(accepted) + 1)
        /\ \A i \in 1..Len(accepted) : accepted'[i] = accepted[i]
        /\ accepted'[Len(accepted) + 1] = e
        /\ Len(accepted') = Len(accepted) + 1
    BY <1>0, <2>1, AppendFacts
  <2>4. ASSUME NEW i \in DOMAIN accepted', accepted'[i] \in Terminal
        PROVE  i = Len(accepted') /\ done' /\ finalResult' = accepted'[i]
    <3>1. i = Len(accepted) + 1
      BY <1>0, <2>2, <2>3, <2>4
    <3>2. e \in Terminal
      BY <2>3, <2>4, <3>1
    <3> QED
      BY <2>1, <2>3, <3>1, <3>2, Zenon
  <2>5. finalResult' # Nil => done'
    BY <2>1, Zenon
  <2> QED
    BY <2>4, <2>5 DEF ResultInv, ResultIsTerminalEvent
<1>2. ASSUME NEW r \in Results \cup {Nil}, End(r) PROVE ResultInv'
  <2>1. done' /\ accepted' = accepted
    BY <1>2 DEF End
  <2>2. ASSUME NEW i \in DOMAIN accepted, accepted[i] \in Terminal
        PROVE  i = Len(accepted) /\ finalResult' = accepted[i]
    <3>1. i = Len(accepted) /\ finalResult = accepted[i] /\ accepted[i] # Nil
      BY <1>0, <2>2, EventsAssumption DEF ResultInv, ResultIsTerminalEvent
    <3> QED
      BY <1>2, <3>1 DEF End, Resolve
  <2> QED
    BY <2>1, <2>2 DEF ResultInv, ResultIsTerminalEvent
<1>3. CASE UNCHANGED <<accepted, done, finalResult>>
  BY <1>3 DEF ResultInv, ResultIsTerminalEvent
<1> QED
  BY <1>1, <1>2, <1>3
     DEF Next, vars, Push, ConsumerStep, Take, Return, Wait, Resume, Break

\* result() and the iterator agree, for any number of consumers: a terminal event
\* is the last one accepted, and result() resolves with it whatever value a later
\* end(result) carries.
THEOREM ResultIsTerminal == Spec => []ResultIsTerminalEvent
<1>1. Init => ResultInv
  BY DEF Init, ResultInv, ResultIsTerminalEvent
<1>2. ResultInv => ResultIsTerminalEvent
  BY DEF ResultInv
<1> QED
  BY <1>1, <1>2, ResultStep, StreamTypeOK, PTL DEF Spec
=============================================================================
