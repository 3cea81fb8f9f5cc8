------------------------------ MODULE MCSharedFiles -----------------------------
(***************************************************************************)
(* The components of SharedFiles, checked by one run. The behaviour picks  *)
(* one of them, the others stay where they start.                          *)
(***************************************************************************)
EXTENDS SharedFiles, TLC

CONSTANTS i1, i2

VARIABLE part  \* the component that moves

MCInit ==
  /\ part \in {"auth", "settings", "events"}
  /\ Init /\ Shared!Init /\ Events!Init
  /\ part # "settings" => s_disk.is = "fine"
  /\ part # "auth" => exists
MCNext ==
  \/ part = "auth" /\ Next /\ UNCHANGED <<part, svars, evars>>
  \/ part = "settings" /\ Shared!Next /\ UNCHANGED <<part, vars, evars>>
  \/ part = "events" /\ Events!Next /\ UNCHANGED <<part, vars, svars>>
MCSpec == MCInit /\ [][MCNext]_<<part, vars, svars, evars>> /\ Events!Fairness

\* The programs differ in nothing but their names; the only liveness property is about the
\* events, where they do not occur.
Interchangeable == Permutations(Instances)
=============================================================================
