--------------------------- MODULE MCSessionManager ---------------------------
(* Small instances of SessionManager for model checking. *)
EXTENDS SessionManager

CONSTANTS f1, f2

\* Paths differ in nothing but their names, and only safety is checked.
Paths == Permutations({f1, f2})
=============================================================================
