--------------------------------- MODULE Queues ---------------------------------
(***************************************************************************)
(* The two components in which work waits in line, side by side: the tool  *)
(* calls that write a file (FileMutationQueue), and the messages and       *)
(* events of a channel of the Slack bot (MomChannel).                      *)
(***************************************************************************)
EXTENDS FileMutationQueue

CONSTANTS Texts, MaxMessages, MaxLostAcks, MaxCrashes, QueueLimit

ASSUME TextsAssumption == Texts # {}

VARIABLES
  c_posted, c_inbox, c_up, c_startup, c_known, c_log, c_context, c_file, c_run, c_waiting,
  c_lostAcks, c_crashes, c_answered, c_repeated

Channel == INSTANCE MomChannel WITH
  posted <- c_posted, inbox <- c_inbox, up <- c_up, startup <- c_startup, known <- c_known,
  log <- c_log, context <- c_context, file <- c_file, run <- c_run, waiting <- c_waiting,
  lostAcks <- c_lostAcks, crashes <- c_crashes, answered <- c_answered, repeated <- c_repeated

cvars == <<c_posted, c_inbox, c_up, c_startup, c_known, c_log, c_context, c_file, c_run,
           c_waiting, c_lostAcks, c_crashes, c_answered, c_repeated>>

\* The properties of MomChannel: no message is in the context twice, and what was logged when
\* an answered run read the log is there.
EachMessageOnce == Channel!EachMessageOnce
NothingMissed == Channel!NothingMissed
=============================================================================
