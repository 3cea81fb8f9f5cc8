----------------------------- MODULE SessionTree -----------------------------
(***************************************************************************)
(* What a session promises: a conversation tree to which entries are only  *)
(* added, one by one, below any entry, and in which the user moves freely. *)
(* Opening a file, starting over, forking or dying replaces the tree by    *)
(* another part of what was ever said, but never by one with an entry      *)
(* whose past is missing. (The label entries a fork writes anew are not    *)
(* part of the promise.)                                                   *)
(***************************************************************************)
EXTENDS Naturals

VARIABLES
  past,   \* past[e] is the entry before e in its conversation, for every entry
          \* ever added; 0 before the first
  nodes,  \* the entries of the tree at hand
  leaf    \* the entry the conversation continues from; 0 at the very start

tree == <<past, nodes, leaf>>

\* No entry without the entries before it.
Rooted(set) == \A e \in set : past[e] \in set \cup {0}

Init == past = [e \in {} |-> 0] /\ nodes = {} /\ leaf = 0

\* A new entry below an entry of the tree.
Added(e, parent) ==
  /\ e \notin DOMAIN past /\ parent \in nodes \cup {0}
  /\ past' = [d \in DOMAIN past \cup {e} |-> IF d = e THEN parent ELSE past[d]]

\* It becomes the leaf.
Grow ==
  \E e \in DOMAIN past', parent \in nodes \cup {0} :
    /\ Added(e, parent)
    /\ nodes' = nodes \cup {e}
    /\ leaf' = e

\* The process dies while the entry is written.
Lose ==
  /\ \E e \in DOMAIN past', parent \in nodes \cup {0} : Added(e, parent)
  /\ nodes' = {} /\ leaf' = 0

\* Navigation.
Move ==
  /\ leaf' \in nodes \cup {0}
  /\ UNCHANGED <<past, nodes>>

\* Another tree: a file read back, a fork, an empty session.
Restore ==
  /\ nodes' \subseteq DOMAIN past /\ Rooted(nodes')
  /\ leaf' \in nodes' \cup {0}
  /\ UNCHANGED past

Next == Grow \/ Lose \/ Move \/ Restore

Spec == Init /\ [][Next]_tree
=============================================================================
