-------------------------------- MODULE MCQueues --------------------------------
(***************************************************************************)
(* The components of Queues, checked by one run. The behaviour picks one   *)
(* of them, the other stays where it starts.                               *)
(***************************************************************************)
EXTENDS Queues

CONSTANT Familiar  \* the texts whose author the bot knows at first

VARIABLE part  \* the component that moves

MCInit ==
  /\ part \in {"files", "channel"}
  /\ Init /\ Channel!Init
  /\ part = "channel" => \A f \in Files : disk[f] = Absent
  \* The bot knows who says one text, and not yet who says the other one.
  /\ c_known = Familiar
MCNext ==
  \/ part = "files" /\ Next /\ UNCHANGED <<part, cvars>>
  \/ part = "channel" /\ Channel!Next /\ UNCHANGED <<part, vars>>
MCSpec == MCInit /\ [][MCNext]_<<part, vars, cvars>> /\ Fairness

\* "link" is a symbolic link to "f".
LinkedTo == [n \in Names |-> "f"]
=============================================================================
