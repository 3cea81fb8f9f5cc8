------------------------------- MODULE SharedFiles ------------------------------
(***************************************************************************)
(* The three components whose files several programs write, side by side:  *)
(* credentials (AuthStorage), settings (SettingsManager), and the event    *)
(* files of the Slack bot (MomEvents). They share the programs and nothing *)
(* else.                                                                   *)
(***************************************************************************)
EXTENDS AuthStorage

CONSTANTS Settings, User, MaxChanges, MaxFaults,
          EventFiles, Kinds, MaxWrites, MaxRestarts, MaxCalls, QueueLimit

VARIABLES
  s_disk, s_prog, s_changes, s_faults, s_setter, s_wanted, s_lost,
  e_disk, e_up, e_boot, e_known, e_changed, e_readers, e_armed, e_entry, e_pending, e_written,
  e_due, e_restarts, e_runs, e_given, e_overlapped

Shared == INSTANCE SettingsManager WITH
  Programs <- Instances, disk <- s_disk, prog <- s_prog, changes <- s_changes,
  faults <- s_faults, setter <- s_setter, wanted <- s_wanted, lost <- s_lost
Events == INSTANCE MomEvents WITH
  Names <- EventFiles, disk <- e_disk, up <- e_up, boot <- e_boot, known <- e_known,
  changed <- e_changed, readers <- e_readers, armed <- e_armed, entry <- e_entry,
  pending <- e_pending, written <- e_written, due <- e_due, restarts <- e_restarts,
  runs <- e_runs, given <- e_given, overlapped <- e_overlapped

svars == <<s_disk, s_prog, s_changes, s_faults, s_setter, s_wanted, s_lost>>
evars == <<e_disk, e_up, e_boot, e_known, e_changed, e_readers, e_armed, e_entry, e_pending,
           e_written, e_due, e_restarts, e_runs, e_given, e_overlapped>>

\* The property of SettingsManager: what one program alone has set is in the file or will be
\* written.
SettingsSurvive == Shared!SettingsSurvive
\* The properties of MomEvents: the schedule is what the directory says, and what is to run
\* at once does.
ScheduleMatchesDirectory == Events!ScheduleMatchesDirectory
ImmediateEventsRun == Events!ImmediateEventsRun
=============================================================================
