------------------------------- MODULE MomEvents -------------------------------
(***************************************************************************)
(* The events of the Slack bot: EventsWatcher of packages/mom/src/         *)
(* events.ts and the queue of the channel they go to (ChannelQueue and     *)
(* enqueueEvent of slack.ts). Programs write, rewrite and delete event     *)
(* files; the watcher hears of it 100 ms after the last change, reads the  *)
(* file, with retries while it does not parse, and runs the event at once, *)
(* sets a timer or starts a cron job.                                      *)
(*                                                                         *)
(* A content is its kind and a number that grows with every write, which   *)
(* stands for its mtime too; "half" is a file that does not parse yet,     *)
(* "far" a one-shot more than 2^31 ms ahead. handleFile waits for readFile *)
(* and between its attempts: several calls may be under way for one file,  *)
(* and what one has read may not be what the file holds when it goes on.   *)
(***************************************************************************)
EXTENDS Naturals, FiniteSets

CONSTANTS
  Names,       \* the event files
  Kinds,       \* the kinds of events written: "immediate", "oneShot", "far", "periodic"
  MaxWrites,   \* bound on the events and halves of events written
  MaxRestarts, \* bound on the restarts of the bot
  MaxCalls,    \* bound on the calls of handleFile under way for a file
  QueueLimit   \* how many events wait in a channel at most; the code has 5

VARIABLES
  disk,      \* the content of every file
  up,        \* the bot runs
  boot,      \* startTime: the last write before it
  known,     \* knownFiles
  changed,   \* debounceTimers
  readers,   \* the calls of handleFile under way: at which attempt, and what was read
  armed,     \* the timers and cron jobs that will fire
  entry,     \* timers and crons: what can be cancelled, per file
  pending,   \* the events that run or wait in the channel
  written,   \* how many events were written
  due,       \* the one-shots whose time has come
  restarts,  \* how much of MaxRestarts is used
  runs,      \* history: how often an event was queued to run, periodic ones aside
  given,     \* history: events discarded by a full queue, taken away by their writer or
             \* deleted unread, for what the file held before
  overlapped \* history: files a change of which was handled in the midst of a handleFile

vars == <<disk, up, boot, known, changed, readers, armed, entry, pending, written, due,
          restarts, runs, given, overlapped>>

MaxAttempts == 3
Attempts == 1..MaxAttempts
Versions == 1..MaxWrites
NoFile == [kind |-> "none", id |-> 0]
Unread == [kind |-> "unread", id |-> 0]
Exists(n) == disk[n].kind # "none"
Parses(content) == content.kind \notin {"none", "half", "unread"}
NoEntry == [timer |-> 0, cron |-> 0]
CallsFor(n) == {r \in readers : r.file = n}
UnderWay(n) == CallsFor(n) # {}
\* A number none of them has.
FreeNo(numbered) == CHOOSE k \in 1..(Cardinality(numbered) + 1) : \A x \in numbered : x.no # k

Init ==
  /\ disk = [n \in Names |-> NoFile]
  /\ up = TRUE /\ boot = 0
  /\ known = {} /\ changed = {} /\ armed = {} /\ due = {}
  /\ readers = {}
  /\ entry = [n \in Names |-> NoEntry]
  /\ pending = 0 /\ written = 0 /\ restarts = 0
  /\ runs = [v \in Versions |-> 0]
  /\ given = {} /\ overlapped = {}

-----------------------------------------------------------------------------
(* The programs that write events.                                         *)

\* fs.watch restarts the debounce timer of the file.
Heard(n) == changed' = IF up THEN changed \cup {n} ELSE changed
Replace(n, content) ==
  /\ disk' = [disk EXCEPT ![n] = content]
  /\ given' = IF Parses(disk[n]) THEN given \cup {disk[n].id} ELSE given
  /\ Heard(n)
  /\ UNCHANGED <<up, boot, known, readers, armed, entry, pending, due, restarts, runs, overlapped>>

\* An event, or the first part of one.
Write(n, kind) ==
  /\ written < MaxWrites
  /\ written' = written + 1
  /\ Replace(n, [kind |-> kind, id |-> written + 1])
Remove(n) ==
  /\ Exists(n)
  /\ Replace(n, NoFile)
  /\ UNCHANGED written

TimeComes(v) ==
  /\ v \notin due
  /\ \/ \E n \in Names : disk[n].id = v /\ disk[n].kind \in {"oneShot", "far"}
     \/ \E t \in armed : t.id = v /\ t.kind \in {"oneShot", "far"}
  /\ due' = due \cup {v}
  /\ UNCHANGED <<disk, up, boot, known, changed, readers, armed, entry, pending, written,
                 restarts, runs, given, overlapped>>

-----------------------------------------------------------------------------
(* The watcher.                                                            *)

\* Faulty variant: the timer is forgotten, not cleared.
Cancelled_Forgotten(n) == {}
\* cancelScheduled: what the maps hold for the file.
Cancelled(n) == {t \in armed : t.no \in {entry[n].timer, entry[n].cron} \ {0}}

\* handleFile is called, and asks for the file.
Call(n) == [file |-> n, attempt |-> 1, read |-> Unread, no |-> FreeNo(CallsFor(n))]
\* A call is under way when another is started, or has read what is now deleted.
Overlaps(n) == \E r \in CallsFor(n) : Exists(n) \/ Parses(r.read)

\* Faulty variant: a file that is known is not read again.
Rereads_NewOnly(n) == Exists(n) /\ n \notin known
\* The file is there: new or modified.
Rereads(n) == Exists(n)

\* handleFileChange, when the file has been quiet for a while.
HandleChange(n) ==
  /\ up /\ n \in changed /\ Cardinality(CallsFor(n)) < MaxCalls
  /\ changed' = changed \ {n}
  /\ IF n \in known
     THEN /\ armed' = armed \ Cancelled(n)
          /\ entry' = [entry EXCEPT ![n] = NoEntry]
     ELSE UNCHANGED <<armed, entry>>
  /\ overlapped' = IF Overlaps(n) THEN overlapped \cup {n} ELSE overlapped
  /\ IF Rereads(n)
     THEN /\ readers' = readers \cup {Call(n)}
          /\ UNCHANGED known
     ELSE /\ known' = known \ {n}
          /\ UNCHANGED readers
  /\ UNCHANGED <<disk, up, boot, pending, written, due, restarts, runs, given>>

\* deleteFile; the watcher hears of it like of any other change.
DeleteFile(n) ==
  /\ disk' = [disk EXCEPT ![n] = NoFile]
  /\ known' = known \ {n}
  /\ changed' = IF Exists(n) THEN changed \cup {n} ELSE changed

Ended(r) == readers \ {r}
Continued(r, attempt, content) == Ended(r) \cup {[r EXCEPT !.attempt = attempt, !.read = content]}

\* readFile: what the file holds now is what the call goes on with, later.
Fetch(r) ==
  /\ r.read = Unread
  /\ readers' = Continued(r, r.attempt, disk[r.file])
  /\ UNCHANGED <<disk, up, boot, known, changed, armed, entry, pending, written, due, restarts,
                 runs, given, overlapped>>

\* What deleteFile takes away unread when it is the end of another content.
Newer(n, content) == IF Parses(disk[n]) THEN {disk[n].id} \ {content.id} ELSE {}

\* An attempt has found no file or half of one; after the last one the file is deleted.
ReadFails(r) ==
  /\ r.read # Unread /\ ~Parses(r.read)
  /\ IF r.attempt < MaxAttempts
     THEN /\ readers' = Continued(r, r.attempt + 1, Unread)
          /\ UNCHANGED <<disk, known, changed, given>>
     ELSE /\ readers' = Ended(r)
          /\ DeleteFile(r.file)
          /\ given' = given \cup Newer(r.file, r.read)
  /\ UNCHANGED <<up, boot, armed, entry, pending, written, due, restarts, runs, overlapped>>

\* execute: the channel runs one event and holds QueueLimit more, or the event is lost;
\* `others` are lost with it.
Execute(e, others) ==
  IF pending <= QueueLimit
  THEN /\ pending' = pending + 1
       /\ runs' = IF e.kind = "periodic" THEN runs ELSE [runs EXCEPT ![e.id] = @ + 1]
       /\ given' = given \cup others
  ELSE /\ given' = given \cup others \cup {e.id}
       /\ UNCHANGED <<pending, runs>>

Armed(n, e) == [file |-> n, kind |-> e.kind, id |-> e.id, no |-> FreeNo(armed)]

\* What was read parses, and the file is known: an immediate event runs unless the file is
\* gone or older than the bot, a one-shot gets a timer unless its time is past, a periodic
\* one a cron job unless its schedule is invalid. The file looked at, and deleted, is the
\* one that is there by now.
HandleImmediate(n, e) ==
  /\ e.kind = "immediate"
  /\ \/ /\ ~Exists(n)
        /\ known' = known \cup {n}
        /\ UNCHANGED <<disk, changed, pending, runs, given>>
     \/ /\ Exists(n) /\ DeleteFile(n)
        /\ IF disk[n].id > boot
           THEN Execute(e, Newer(n, e))
           ELSE given' = given \cup Newer(n, e) /\ UNCHANGED <<pending, runs>>
  /\ UNCHANGED <<armed, entry>>
Dropped(n, e) ==
  /\ DeleteFile(n)
  /\ given' = given \cup Newer(n, e)
  /\ UNCHANGED <<armed, entry, pending, runs>>
Scheduled(n, e, map) ==
  /\ armed' = armed \cup {Armed(n, e)}
  /\ entry' = [entry EXCEPT ![n][map] = FreeNo(armed)]
  /\ known' = known \cup {n}
  /\ UNCHANGED <<disk, changed, pending, runs, given>>
HandleOneShot(n, e) ==
  /\ e.kind \in {"oneShot", "far"}
  /\ IF e.id \in due THEN Dropped(n, e) ELSE Scheduled(n, e, "timer")
HandlePeriodic(n, e) ==
  /\ e.kind = "periodic"
  /\ Scheduled(n, e, "cron") \/ Dropped(n, e)
Read(r) ==
  /\ Parses(r.read)
  /\ \/ HandleImmediate(r.file, r.read)
     \/ HandleOneShot(r.file, r.read)
     \/ HandlePeriodic(r.file, r.read)
  /\ readers' = Ended(r)
  /\ UNCHANGED <<up, boot, written, due, restarts, overlapped>>

\* A timer fires when its time has come; setTimeout fires at once when told to wait for
\* more than 2^31 ms. The entry that goes is that of the file, whatever timer it holds,
\* and the content deleted is the present one, though it may be newer.
TimerFires(t) ==
  /\ t.kind = "far" \/ (t.kind = "oneShot" /\ t.id \in due)
  /\ armed' = armed \ {t}
  /\ entry' = [entry EXCEPT ![t.file].timer = 0]
  /\ Execute(t, Newer(t.file, t))
  /\ DeleteFile(t.file)
  /\ UNCHANGED <<up, boot, readers, written, due, restarts, overlapped>>

CronFires(t) ==
  /\ t.kind = "periodic"
  /\ Execute(t, {})
  /\ UNCHANGED <<disk, up, boot, known, changed, readers, armed, entry, written, due,
                 restarts, overlapped>>

\* ChannelQueue: the event that runs is done, the next one starts.
EventDone ==
  /\ pending > 0
  /\ pending' = pending - 1
  /\ UNCHANGED <<disk, up, boot, known, changed, readers, armed, entry, written, due,
                 restarts, runs, given, overlapped>>

\* The bot goes down; everything but the files is gone.
Stop ==
  /\ up /\ restarts < MaxRestarts
  /\ up' = FALSE
  /\ restarts' = restarts + 1
  /\ known' = {} /\ changed' = {} /\ armed' = {} /\ pending' = 0
  /\ readers' = {}
  /\ entry' = [n \in Names |-> NoEntry]
  /\ overlapped' = {}
  /\ UNCHANGED <<disk, boot, written, due, runs, given>>

\* scanExisting
Start ==
  /\ ~up
  /\ up' = TRUE
  /\ boot' = written
  /\ readers' = {Call(n) : n \in {m \in Names : Exists(m)}}
  /\ UNCHANGED <<disk, known, changed, armed, entry, pending, written, due, restarts, runs,
                 given, overlapped>>

ReadStep(n) == \E r \in CallsFor(n) : Fetch(r) \/ ReadFails(r) \/ Read(r)
Fire == \E t \in armed : TimerFires(t) \/ CronFires(t)
Next ==
  \/ \E n \in Names :
       \/ \E kind \in Kinds \cup {"half"} : Write(n, kind)
       \/ Remove(n) \/ HandleChange(n) \/ ReadStep(n)
  \/ \E v \in Versions : TimeComes(v)
  \/ Fire \/ EventDone \/ Stop \/ Start

\* Debounce timers fire and reads end.
Fairness == \A n \in Names : WF_vars(HandleChange(n)) /\ WF_vars(ReadStep(n))
Spec == Init /\ [][Next]_vars /\ Fairness

-----------------------------------------------------------------------------
(* Properties.                                                             *)

Quiet(n) == up /\ n \notin changed /\ ~UnderWay(n)
Timed == {"oneShot", "far", "periodic"}

\* When nothing is heard of a file any more, what will fire for it is exactly what it
\* says: one timer or cron job for its present content, none for a deleted file
\* (docs/events.md, "Cancel any existing timer/cron for this file"). Not for files a change
\* of which was handled while a handleFile was under way: two calls handle them at once, or
\* one arms a timer for what was deleted since it was read.
ScheduleMatchesDirectory ==
  \A n \in Names \ overlapped :
    Quiet(n) =>
      LET firing == {t \in armed : t.file = n}
      IN IF disk[n].kind \in Timed
         THEN \E t \in firing : firing = {t} /\ t.id = disk[n].id
         ELSE firing = {}

\* An immediate event written while the bot runs is queued, unless the queue is full, its
\* writer takes it away, the bot goes down, the watcher deletes the file for the sake of an
\* older content (read before this one was written, or that of a timer), or a change of the
\* file was handled while a handleFile was under way.
ImmediateEventsRun ==
  \A n \in Names, v \in Versions :
    up /\ disk[n] = [kind |-> "immediate", id |-> v] /\ v > boot
      ~> runs[v] > 0 \/ v \in given \/ ~up \/ n \in overlapped

=============================================================================
