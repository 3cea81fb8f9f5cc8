------------------------------- MODULE MCAgent -------------------------------
(* Small agents for TLC, with the requests they make. The configurations     *)
(* choose the bounds and which of the host's liberties are in play.          *)
EXTENDS ProviderRequest
=============================================================================
