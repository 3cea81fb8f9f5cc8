---------------------------- MODULE EventChannel ----------------------------
(***************************************************************************)
(* What an event stream promises: the events form one sequence, every      *)
(* event is handed to exactly one consumer, hand-over follows the order of *)
(* the sequence, and a closed stream accepts nothing more.                 *)
(***************************************************************************)
EXTENDS Naturals, Sequences

CONSTANTS Consumers, Events

VARIABLES
  sent,    \* the events accepted so far
  handed,  \* how many of them have been handed to a consumer
  got,     \* what each consumer was handed, in order
  closed   \* the stream accepts no more events

chan == <<sent, handed, got, closed>>

Init ==
  /\ sent = <<>>
  /\ handed = 0
  /\ got = [c \in Consumers |-> <<>>]
  /\ closed = FALSE

\* An event is accepted and buffered; it may close the stream.
Put(e) ==
  /\ ~closed
  /\ sent' = Append(sent, e)
  /\ closed' \in BOOLEAN
  /\ UNCHANGED <<handed, got>>

\* The oldest buffered event goes to a consumer.
Get(c) ==
  /\ handed < Len(sent)
  /\ handed' = handed + 1
  /\ got' = [got EXCEPT ![c] = Append(@, sent[handed + 1])]
  /\ UNCHANGED <<sent, closed>>

\* Nothing is buffered and a consumer is waiting: it gets the event at once.
Rendezvous(e, c) ==
  /\ ~closed
  /\ handed = Len(sent)
  /\ sent' = Append(sent, e)
  /\ handed' = handed + 1
  /\ got' = [got EXCEPT ![c] = Append(@, e)]
  /\ closed' \in BOOLEAN

Close ==
  /\ closed' = TRUE
  /\ UNCHANGED <<sent, handed, got>>

Next ==
  \/ \E e \in Events : Put(e)
  \/ \E c \in Consumers : Get(c)
  \/ \E e \in Events, c \in Consumers : Rendezvous(e, c)
  \/ Close

Spec == Init /\ [][Next]_chan
=============================================================================
