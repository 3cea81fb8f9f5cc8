---------------------------- MODULE TurnProtocol ----------------------------
(***************************************************************************)
(* The shape of a conversation that a provider accepts. A response that    *)
(* calls tools owes one result per call, and until each result has been    *)
(* given once, in whatever order, nobody else speaks. A run that fails     *)
(* says so in a message of its own and writes off what is still owed.      *)
(***************************************************************************)
EXTENDS Naturals, Sequences

VARIABLES
  transcript,  \* the messages so far
  owed         \* the results still owed to the last response that calls tools

protocol == <<transcript, owed>>

\* The results a message asks for: an error or aborted response asks for none.
Asked(m) ==
  IF m.role = "assistant" /\ m.stop = "ok"
    THEN {[role |-> "toolResult", run |-> m.run, turn |-> m.turn, call |-> i] : i \in 1..m.calls}
    ELSE {}

Init == transcript = <<>> /\ owed = {}

\* A user message is added.
Say ==
  /\ owed = {} /\ owed' = {}
  /\ \E p \in DOMAIN transcript' :
       /\ transcript' = Append(transcript, transcript'[p])
       /\ transcript'[p].role = "user"

\* The model responds.
Respond ==
  /\ owed = {}
  /\ \E p \in DOMAIN transcript' :
       /\ transcript' = Append(transcript, transcript'[p])
       /\ transcript'[p].role = "assistant"
       /\ owed' = Asked(transcript'[p])

\* A tool call is answered.
Answer ==
  \E result \in owed :
    /\ transcript' = Append(transcript, result)
    /\ owed' = owed \ {result}

\* The run fails, with calls unanswered perhaps.
Fail ==
  /\ owed' = {}
  /\ \E p \in DOMAIN transcript' :
       /\ transcript' = Append(transcript, transcript'[p])
       /\ transcript'[p].role = "assistant"
       /\ transcript'[p].stop # "ok"

\* Between runs the conversation may be cut back.
CutBack ==
  /\ owed = {} /\ owed' = {}
  /\ \E n \in 0..Len(transcript) : transcript' = SubSeq(transcript, 1, n)

Next == Say \/ Respond \/ Answer \/ Fail \/ CutBack

Spec == Init /\ [][Next]_protocol
=============================================================================
