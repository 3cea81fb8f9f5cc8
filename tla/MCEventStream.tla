--------------------------- MODULE MCEventStream ---------------------------
(* Two consumers, one of which may break out of its loop, and a producer    *)
(* of at most three events. One of the three kinds of event completes the   *)
(* stream.                                                                  *)
EXTENDS EventStream

CONSTANTS reader, quitter, delta, update, finish, fallback

MCConsumers == {reader, quitter}
MCQuitters == {quitter}
MCEvents == {delta, update, finish}
MCTerminal == {finish}
MCResults == {fallback}
=============================================================================
