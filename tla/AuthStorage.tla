------------------------------ MODULE AuthStorage ------------------------------
(***************************************************************************)
(* AuthStorage of packages/coding-agent/src/core/auth-storage.ts: several  *)
(* instances of the program keep their credentials in one auth.json. A     *)
(* change is merged into the file under a lock; an expired OAuth token is  *)
(* refreshed under the same lock, held while the provider is asked.        *)
(*                                                                         *)
(* The file has an OAuth credential, a number that grows, and an API key,  *)
(* 0 or 1; 0 is none. The provider takes a refresh token once. The lock is *)
(* proper-lockfile's: a directory that counts as stale when it has not     *)
(* been touched for a while and may then be taken over; its owner learns   *)
(* of it later (onCompromised). An action is the code between two awaits;  *)
(* an instance refreshes one token at a time. The first instance to find   *)
(* no file creates it before it has the lock (ensureFileExists).           *)
(***************************************************************************)
EXTENDS Naturals, FiniteSets

CONSTANTS
  Instances,  \* the running programs
  Nobody,     \* the lock is free; no instance
  MaxIssued,  \* bound on the OAuth credentials issued
  MaxBreaks   \* bound on the locks that go stale under a live owner

VARIABLES
  exists,   \* there is an auth.json
  file,     \* its content
  inst,     \* AuthStorage of every instance, and where its refresh is
  lock,     \* who holds the lock
  stale,    \* the lock counts as stale
  issued,   \* the last OAuth credential issued
  expired,  \* those up to this one have expired
  spent,    \* those the provider has exchanged
  breaks,   \* how much of MaxBreaks is used
  saved,    \* history: what was last saved or removed
  \* history: a lock was taken from an instance still at it; the answer to an exchange got
  \* lost, or died with its process; the file was created over what it had already
  taken, lostAnswer, wiped

vars == <<exists, file, inst, lock, stale, issued, expired, spent, breaks, saved,
          taken, lostAnswer, wiped>>

Places == {"starting", "creating", "idle", "locking", "asking", "answered", "failing", "dead"}
Empty == [oauth |-> 0, key |-> 0]
\* `knows` is data's OAuth credential, `read` the file as read under the lock, `own` a key
\* set by this instance meanwhile, `told` lockCompromised.
Settled == [pc |-> "idle", knows |-> 0, loadError |-> FALSE, read |-> Empty, own |-> FALSE,
            answer |-> 0, told |-> FALSE]
Alive(i) == inst[i].pc # "dead"
Running(i) == inst[i].pc \notin {"starting", "creating", "dead"}
Refreshing(i) == inst[i].pc \in {"asking", "answered"}

Init ==
  /\ exists \in BOOLEAN /\ file = IF exists THEN [oauth |-> 1, key |-> 0] ELSE Empty
  /\ inst = [i \in Instances |-> [Settled EXCEPT !.pc = "starting"]]
  /\ lock = Nobody /\ stale = FALSE
  /\ issued = file.oauth /\ expired = 0 /\ spent = {} /\ breaks = 0
  /\ saved = file /\ taken = FALSE /\ lostAnswer = FALSE /\ wiped = FALSE

-----------------------------------------------------------------------------
(* The file and its lock.                                                  *)

\* ensureFileExists, when the constructor loads the file: it looks, and it writes an empty
\* object, both before the lock is asked for. Another program may come between the two.
FindNoFile(i) ==
  /\ inst[i].pc = "starting" /\ ~exists
  /\ inst' = [inst EXCEPT ![i].pc = "creating"]
  /\ UNCHANGED <<exists, file, lock, stale, issued, expired, spent, breaks, saved,
                 taken, lostAnswer, wiped>>
Create(i) ==
  /\ inst[i].pc = "creating"
  /\ inst' = [inst EXCEPT ![i].pc = "starting"]
  /\ exists' = TRUE /\ file' = Empty
  /\ wiped' = (wiped \/ file # Empty)
  /\ UNCHANGED <<lock, stale, issued, expired, spent, breaks, saved, taken, lostAnswer>>

\* lockSync and lock take a lock that is free or stale.
Takeable == lock = Nobody \/ stale
TakenOver == taken \/ (lock # Nobody /\ Refreshing(lock))
\* A synchronous section takes the lock and is done with it before anybody else moves.
PassThrough ==
  /\ Takeable
  /\ lock' = Nobody /\ stale' = FALSE
  /\ taken' = TakenOver

\* Faulty variant: the entry is written without the lock.
Persist_Unlocked(i, entry, value) ==
  /\ file' = [file EXCEPT ![entry] = value]
  /\ saved' = [saved EXCEPT ![entry] = value]
  /\ UNCHANGED <<lock, stale, taken>>
\* persistProviderChange merges one entry into the file, unless the last load failed or
\* the lock cannot be had (recordError).
Persist(i, entry, value) ==
  \/ /\ ~inst[i].loadError
     /\ PassThrough
     /\ file' = [file EXCEPT ![entry] = value]
     /\ saved' = [saved EXCEPT ![entry] = value]
  \/ /\ inst[i].loadError \/ ~Takeable
     /\ UNCHANGED <<file, saved, lock, stale, taken>>

\* login, logout: memory first, then the file.
Login(i) ==
  /\ Running(i) /\ issued < MaxIssued
  /\ issued' = issued + 1
  /\ inst' = [inst EXCEPT ![i].knows = issued + 1]
  /\ Persist(i, "oauth", issued + 1)
  /\ UNCHANGED <<exists, expired, spent, breaks, lostAnswer, wiped>>
Logout(i) ==
  /\ Running(i) /\ inst[i].knows # 0
  /\ inst' = [inst EXCEPT ![i].knows = 0]
  /\ Persist(i, "oauth", 0)
  /\ UNCHANGED <<exists, issued, expired, spent, breaks, lostAnswer, wiped>>

\* set and remove of an API key. During a refresh the data in memory is the object that
\* was read under the lock, so the refresh writes the change.
SetKey(i, value) ==
  /\ Running(i)
  /\ inst' = IF Refreshing(i) THEN [inst EXCEPT ![i].read.key = value, ![i].own = TRUE] ELSE inst
  /\ Persist(i, "key", value)
  /\ UNCHANGED <<exists, issued, expired, spent, breaks, lostAnswer, wiped>>

\* reload: the file is read under the lock; without the lock the load has failed.
Reloaded(i, place) ==
  \/ /\ PassThrough
     /\ inst' = [inst EXCEPT ![i] = [Settled EXCEPT !.pc = place, !.knows = file.oauth]]
  \/ /\ ~Takeable
     /\ inst' = [inst EXCEPT ![i] = [Settled EXCEPT !.pc = place, !.knows = inst[i].knows, !.loadError = TRUE]]
     /\ UNCHANGED <<lock, stale, taken>>
\* By the constructor, or later by the program.
Reload(i) ==
  /\ inst[i].pc \in {"starting", "idle", "locking"} /\ exists
  /\ Reloaded(i, IF inst[i].pc = "locking" THEN "locking" ELSE "idle")
  /\ UNCHANGED <<exists, file, issued, expired, spent, breaks, saved, lostAnswer, wiped>>

-----------------------------------------------------------------------------
(* refreshOAuthTokenWithLock.                                              *)

\* getApiKey finds the token it knows expired.
GetApiKey(i) ==
  /\ inst[i].pc = "idle"
  /\ inst[i].knows \in 1..expired
  /\ inst' = [inst EXCEPT ![i].pc = "locking"]
  /\ UNCHANGED <<exists, file, lock, stale, issued, expired, spent, breaks, saved,
                 taken, lostAnswer, wiped>>

\* Faulty variant: the token to be refreshed is the one known before the lock was there.
Current_Known(i) == inst[i].knows
\* The lock is there and the file is read again: somebody may have refreshed the token,
\* or removed it, and then the lock is given back; otherwise the provider is asked.
Current(i) == file.oauth
Lock(i) ==
  /\ inst[i].pc = "locking"
  /\ Takeable
  /\ taken' = TakenOver
  /\ stale' = FALSE
  /\ IF Current(i) \in 1..expired
     THEN /\ inst' = [inst EXCEPT ![i] = [Settled EXCEPT !.pc = "asking", !.knows = Current(i),
                                                         !.read = [file EXCEPT !.oauth = Current(i)]]]
          /\ lock' = i
     ELSE /\ inst' = [inst EXCEPT ![i] = [Settled EXCEPT !.knows = Current(i)]]
          /\ lock' = Nobody
  /\ UNCHANGED <<exists, file, issued, expired, spent, breaks, saved, lostAnswer, wiped>>

\* All retries found the lock held.
LockFails(i) ==
  /\ inst[i].pc = "locking" /\ ~Takeable
  /\ inst' = [inst EXCEPT ![i].pc = "failing"]
  /\ UNCHANGED <<exists, file, lock, stale, issued, expired, spent, breaks, saved,
                 taken, lostAnswer, wiped>>

\* The provider exchanges a token it has not exchanged before, and refuses every other;
\* the request may also fail on the way, and so may the answer of an exchange.
ProviderAnswers(i) ==
  /\ inst[i].pc = "asking"
  /\ \/ /\ inst[i].read.oauth \notin spent /\ issued < MaxIssued
        /\ issued' = issued + 1
        /\ inst' = [inst EXCEPT ![i].pc = "answered", ![i].answer = issued + 1]
        /\ spent' = spent \cup {inst[i].read.oauth}
        /\ UNCHANGED lostAnswer
     \/ /\ inst[i].read.oauth \notin spent
        /\ inst' = [inst EXCEPT ![i].pc = "answered"]
        /\ spent' = spent \cup {inst[i].read.oauth}
        /\ lostAnswer' = TRUE
        /\ UNCHANGED issued
     \/ /\ inst' = [inst EXCEPT ![i].pc = "answered"]
        /\ UNCHANGED <<issued, spent, lostAnswer>>
  /\ UNCHANGED <<exists, file, lock, stale, expired, breaks, saved, taken, wiped>>

\* Unlocking takes the lock away only from its owner.
Unlocked(i) == /\ lock' = IF lock = i THEN Nobody ELSE lock
               /\ stale' = (stale /\ lock # i)

\* The answer is merged into what was read, in memory at once and in the file unless the
\* lock is known to be lost.
Store(i) ==
  /\ inst[i].pc = "answered" /\ inst[i].answer # 0
  /\ IF inst[i].told
     THEN /\ inst' = [inst EXCEPT ![i] = [Settled EXCEPT !.pc = "failing", !.knows = inst[i].answer]]
          /\ UNCHANGED <<file, saved>>
     ELSE /\ inst' = [inst EXCEPT ![i] = [Settled EXCEPT !.knows = inst[i].answer]]
          /\ file' = [inst[i].read EXCEPT !.oauth = inst[i].answer]
          /\ saved' = [oauth |-> inst[i].answer,
                       key |-> IF inst[i].own THEN inst[i].read.key ELSE saved.key]
  /\ Unlocked(i)
  /\ UNCHANGED <<exists, issued, expired, spent, breaks, taken, lostAnswer, wiped>>

\* The provider refused, or was not heard.
Refused(i) ==
  /\ inst[i].pc = "answered" /\ inst[i].answer = 0
  /\ inst' = [inst EXCEPT ![i] = [Settled EXCEPT !.pc = "failing", !.knows = inst[i].knows]]
  /\ Unlocked(i)
  /\ UNCHANGED <<exists, file, issued, expired, spent, breaks, saved, taken, lostAnswer, wiped>>

\* The refresh threw: the file is read again in case another instance has succeeded.
Recover(i) ==
  /\ inst[i].pc = "failing"
  /\ Reloaded(i, "idle")
  /\ UNCHANGED <<exists, file, issued, expired, spent, breaks, saved, lostAnswer, wiped>>

-----------------------------------------------------------------------------
(* The world: time passes, processes stall and die.                        *)

Expire ==
  /\ expired < issued /\ expired' = issued
  /\ UNCHANGED <<exists, file, inst, lock, stale, issued, spent, breaks, saved,
                 taken, lostAnswer, wiped>>

\* The lock has not been touched for too long: its owner hangs, or has died.
GoStale ==
  /\ lock # Nobody /\ ~stale /\ (Alive(lock) => breaks < MaxBreaks)
  /\ stale' = TRUE
  /\ breaks' = IF Alive(lock) THEN breaks + 1 ELSE breaks
  /\ UNCHANGED <<exists, file, inst, lock, issued, expired, spent, saved,
                 taken, lostAnswer, wiped>>

\* onCompromised: the lock is no longer this instance's.
Compromised(i) ==
  /\ Refreshing(i) /\ lock # i /\ ~inst[i].told
  /\ inst' = [inst EXCEPT ![i].told = TRUE]
  /\ UNCHANGED <<exists, file, lock, stale, issued, expired, spent, breaks, saved,
                 taken, lostAnswer, wiped>>

\* The process dies; a lock it holds stays.
Die(i) ==
  /\ Alive(i)
  /\ inst' = [inst EXCEPT ![i] = [Settled EXCEPT !.pc = "dead"]]
  /\ lostAnswer' = (lostAnswer \/ inst[i].answer # 0)
  /\ UNCHANGED <<exists, file, lock, stale, issued, expired, spent, breaks, saved, taken, wiped>>

RefreshStep(i) ==
  Lock(i) \/ LockFails(i) \/ ProviderAnswers(i) \/ Store(i) \/ Refused(i) \/ Recover(i)
Next ==
  \/ \E i \in Instances :
       \/ FindNoFile(i) \/ Create(i)
       \/ Login(i) \/ Logout(i) \/ \E value \in 0..1 : SetKey(i, value)
       \/ Reload(i) \/ GetApiKey(i) \/ RefreshStep(i) \/ Compromised(i) \/ Die(i)
  \/ Expire \/ GoStale

Spec == Init /\ [][Next]_vars

-----------------------------------------------------------------------------
(* Properties.                                                             *)

\* No two refreshes use the same refresh token (auth-storage.ts:366, "locking to prevent
\* race conditions"), as long as no lock is taken from an instance that is still at it and
\* no answer of the provider is lost on its way or with the process that asked: then the
\* file keeps a token that has been exchanged, and the next refresh uses it again.
TokenUsedOnce ==
  ~taken /\ ~lostAnswer =>
    \A i \in Instances : inst[i].pc = "asking" => inst[i].read.oauth \notin spent

\* No change that was saved is undone by the change of another entry or of another
\* instance, as long as no lock is taken from an instance that is still at it and no
\* instance creates the file over what another has saved in it.
NoLostUpdate == ~taken /\ ~wiped => file = saved
=============================================================================
