----------------------------- MODULE MCCompaction -----------------------------
(* Small instances of Compaction for model checking: every message has one   *)
(* token or two, and recent work is three tokens.                            *)
EXTENDS Compaction

OneOrTwo == {1, 2}
=============================================================================
