---------------------------- MODULE SettingsManager ----------------------------
(***************************************************************************)
(* SettingsManager of packages/coding-agent/src/core/settings-manager.ts:  *)
(* several programs and a user who edits by hand share one settings.json.  *)
(* A setter changes memory, marks the field and queues a write of what is  *)
(* marked; the write merges into the file under a lock. One of the two     *)
(* scopes is modelled: the other has its own fields, marks and file, and   *)
(* shares only the queue.                                                  *)
(*                                                                         *)
(* A field is a setting, or a key of a nested one, which is merged alike.  *)
(* Its value is a number that grows with every change; 0 is unset. The     *)
(* queue is a promise chain, so several setters, and a reload, may come    *)
(* before the write of the first. The steps of other processes come at any *)
(* time.                                                                   *)
(***************************************************************************)
EXTENDS Naturals, FiniteSets, Sequences

CONSTANTS
  Programs,   \* the running programs
  Settings,   \* the fields
  User,       \* the user, who edits the file; no program
  MaxChanges, \* bound on the values set
  MaxFaults   \* bound on the writes that fail and the edits that break the file

VARIABLES
  disk,    \* settings.json: whether it is there and parses, and its fields
  prog,    \* SettingsManager of every program, and its write queue
  changes, \* how much of MaxChanges is used
  faults,  \* how much of MaxFaults is used
  setter,  \* history: who has set a field: nobody, one, or "several"
  wanted,  \* history: the value a field was set to last
  lost     \* history: fields set last by a change that was dropped with its mark, or that was
           \* in a file created by two programs at once

vars == <<disk, prog, changes, faults, setter, wanted, lost>>

Unset == [f \in Settings |-> 0]
Fresh == [pc |-> "idle", settings |-> Unset, marks |-> {}, loadError |-> FALSE, queue |-> <<>>]

Init ==
  /\ disk \in [is : {"absent", "fine"}, has : {Unset}]
  /\ prog = [p \in Programs |-> Fresh]
  /\ changes = 0 /\ faults = 0
  /\ setter = [f \in Settings |-> {}]
  /\ wanted = Unset
  /\ lost = {}

Queued(p, f) == \E i \in DOMAIN prog[p].queue : f \in prog[p].queue[i].marks
Changed(who, f) ==
  /\ changes < MaxChanges /\ changes' = changes + 1
  /\ setter' = [setter EXCEPT ![f] = @ \cup {who}]
  /\ wanted' = [wanted EXCEPT ![f] = changes + 1]
  /\ lost' = lost \ {f}

\* A setter: memory, the mark, and save(), which queues a copy of both unless the file
\* could not be loaded.
Set(p, f) ==
  LET m == [prog[p] EXCEPT !.settings[f] = changes + 1, !.marks = @ \cup {f}]
      task == [settings |-> m.settings, marks |-> m.marks]
  IN /\ prog[p].pc = "idle"
     /\ Changed(p, f)
     /\ prog' = [prog EXCEPT ![p] =
                  IF m.loadError THEN m ELSE [m EXCEPT !.queue = Append(@, task)]]
     /\ UNCHANGED <<disk, faults>>

\* The marked fields whose value is in no queued write: it is dropped with the mark.
Forgotten(p) ==
  {f \in prog[p].marks :
     \A i \in DOMAIN prog[p].queue :
       LET task == prog[p].queue[i]
       IN ~(f \in task.marks /\ task.settings[f] = prog[p].settings[f])}

\* Faulty variant: memory is written as a whole.
Merged_Whole(has, task) == task.settings
\* persistScopedSettings: the marked fields go over those of the file.
Merged(has, task) == [f \in Settings |-> IF f \in task.marks THEN task.settings[f] ELSE has[f]]

\* clearModifiedScope follows a write that succeeded only.
MarksAfter(p, written) == IF written THEN {} ELSE prog[p].marks
TaskDone(p, written) ==
  prog' = [prog EXCEPT ![p].pc = "idle", ![p].queue = Tail(@), ![p].marks = MarksAfter(p, written)]
\* What a failed write was to write and no other will.
GoneWith(p) ==
  {f \in Head(prog[p].queue).marks :
     f \notin prog[p].marks /\ ~\E i \in 2..Len(prog[p].queue) : f \in prog[p].queue[i].marks}

\* The write of a file that is there.
WriteFile(p) ==
  /\ prog[p].pc = "idle" /\ prog[p].queue # <<>>
  /\ disk.is = "fine"
  /\ disk' = [disk EXCEPT !.has = Merged(@, Head(prog[p].queue))]
  /\ TaskDone(p, TRUE)
  /\ lost' = lost \cup Forgotten(p)
  /\ UNCHANGED <<changes, faults, setter, wanted>>

\* Without a file the merge is with nothing, and the lock is taken after it was made.
FindNoFile(p) ==
  /\ prog[p].pc = "idle" /\ prog[p].queue # <<>>
  /\ disk.is = "absent"
  /\ prog' = [prog EXCEPT ![p].pc = "creating"]
  /\ UNCHANGED <<disk, changes, faults, setter, wanted, lost>>
CreateFile(p) ==
  LET task == Head(prog[p].queue)
  IN /\ prog[p].pc = "creating"
     /\ disk' = [is |-> "fine", has |-> Merged(Unset, task)]
     /\ lost' = lost \cup Forgotten(p) \cup {f \in Settings \ task.marks : disk.has[f] # 0}
     /\ TaskDone(p, TRUE)
     /\ UNCHANGED <<changes, faults, setter, wanted>>

\* The lock is not to be had, the disk fails, or the file does not parse: an error is
\* recorded and the marks stay for the next write.
WriteFails(p) ==
  /\ prog[p].queue # <<>>
  /\ \/ disk.is = "broken" /\ prog[p].pc = "idle" /\ UNCHANGED faults
     \/ faults < MaxFaults /\ faults' = faults + 1
  /\ TaskDone(p, FALSE)
  /\ lost' = lost \cup GoneWith(p)
  /\ UNCHANGED <<disk, changes, setter, wanted>>

\* reload: what the file has, and no marks.
Reloaded(p) ==
  IF disk.is = "broken" THEN [prog[p] EXCEPT !.loadError = TRUE, !.marks = {}]
  ELSE [prog[p] EXCEPT !.settings = disk.has, !.loadError = FALSE, !.marks = {}]
Reload(p) ==
  /\ prog[p].pc = "idle"
  /\ prog' = [prog EXCEPT ![p] = Reloaded(p)]
  /\ lost' = lost \cup Forgotten(p)
  /\ UNCHANGED <<disk, changes, faults, setter, wanted>>

\* The user edits a field, breaks the file or repairs it.
Edit(f) ==
  /\ disk.is # "broken"
  /\ Changed(User, f)
  /\ disk' = [is |-> "fine", has |-> [disk.has EXCEPT ![f] = changes + 1]]
  /\ UNCHANGED <<prog, faults>>
Break ==
  /\ disk.is = "fine" /\ faults < MaxFaults
  /\ faults' = faults + 1
  /\ disk' = [disk EXCEPT !.is = "broken"]
  /\ UNCHANGED <<prog, changes, setter, wanted, lost>>
Repair ==
  /\ disk.is = "broken"
  /\ disk' = [disk EXCEPT !.is = "fine"]
  /\ UNCHANGED <<prog, changes, faults, setter, wanted, lost>>

Next ==
  \/ \E p \in Programs :
       \/ \E f \in Settings : Set(p, f)
       \/ WriteFile(p) \/ FindNoFile(p) \/ CreateFile(p) \/ WriteFails(p) \/ Reload(p)
  \/ (\E f \in Settings : Edit(f)) \/ Break \/ Repair
Spec == Init /\ [][Next]_vars

-----------------------------------------------------------------------------
(* Properties.                                                             *)

\* A setting that one program alone, or the user, has set is in the file whatever the
\* others set, or that program has still to write it or keeps it marked, to be written with
\* its next change unless a load has failed (settings-manager-bug.test.ts, "should preserve
\* file changes to packages array when changing unrelated setting"). Not when its mark was cleared by a write queued before
\* it was set, or before the one that failed (:435), nor when two programs created the file at once (:184).
SettingsSurvive ==
  \A f \in Settings \ lost, who \in Programs \cup {User} :
    setter[f] = {who} =>
      \/ disk.has[f] = wanted[f]
      \/ who \in Programs /\ (f \in prog[who].marks \/ Queued(who, f))
=============================================================================
