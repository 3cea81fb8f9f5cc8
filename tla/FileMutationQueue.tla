--------------------------- MODULE FileMutationQueue ---------------------------
(***************************************************************************)
(* withFileMutationQueue of packages/coding-agent/src/core/tools/          *)
(* file-mutation-queue.ts with the bodies of the edit and write tools      *)
(* (edit.ts, write.ts) that run under it. Every tool call joins a chain of *)
(* promises kept per key, the key being the real path of the file when     *)
(* there is one and the path as given otherwise.                           *)
(*                                                                         *)
(* A file's content is the sequence of calls whose text is in it. An       *)
(* action is the code between two awaits. An abort settles a call at once  *)
(* while what it has asked of the disk goes on.                            *)
(***************************************************************************)
EXTENDS Naturals, Sequences

CONSTANTS
  MaxCalls, \* bound on the tool calls
  Names,    \* the paths they give
  FileOf,   \* the file each path leads to; a file is one of its own names
  Absent    \* the file does not exist

ASSUME NamesAssumption ==
  /\ Names # {}
  /\ FileOf \in [Names -> Names]
  /\ \A n \in Names : FileOf[FileOf[n]] = FileOf[n]
ASSUME MaxCallsAssumption == MaxCalls \in Nat
ASSUME AbsentAssumption == Absent \notin Seq(1..MaxCalls)

Calls == 1..MaxCalls
NoCall == 0
Files == {FileOf[n] : n \in Names}

VARIABLES
  calls,     \* every call: where it is, what it does, whom it waits for
  tail,      \* fileMutationQueues: the last call that joined, per key
  disk,      \* the content of every file
  flying,    \* writes under way whose call was aborted
  turn,      \* history: when every call joined
  clock,     \* history: the next turn
  promised,  \* history: the content the successful calls stand for, since a write that
             \* failed halfway what it left
  disturbed  \* history: files written by an aborted call, or asked for under
             \* another name while they did not exist

vars == <<calls, tail, disk, flying, turn, clock, promised, disturbed>>

Places == {"idle", "resolving", "waiting", "reading", "writing", "done", "failed"}
NewCall == [pc |-> "idle", op |-> "edit", name |-> CHOOSE n \in Names : TRUE,
            key |-> CHOOSE n \in Names : TRUE, prev |-> NoCall, seen |-> <<>>]

\* Faulty variant: a call that fails does not release the next one.
Open_WhenFailed(c) == calls[c].pc \in {"waiting", "reading", "writing", "failed"}
\* The call has joined its chain and not released the next one.
Open(c) == calls[c].pc \in {"waiting", "reading", "writing"}
\* fn() is running.
Inside(c) == calls[c].pc \in {"reading", "writing"}
FileAt(c) == FileOf[calls[c].name]

Init ==
  /\ calls = [c \in Calls |-> NewCall]
  /\ tail = [k \in Names |-> NoCall]
  /\ disk \in [Files -> {Absent, <<>>}]
  /\ flying = {}
  /\ turn = [c \in Calls |-> 0]
  /\ clock = 0
  /\ promised = disk
  /\ disturbed = {}

\* Faulty variant: the key is the path as given.
KeyOf_Path(n) == n
\* getMutationQueueKey: the real path, or the path itself while there is no such file.
KeyOf(n) == IF disk[FileOf[n]] = Absent THEN n ELSE FileOf[n]

\* The tool is called: realpath is asked for.
Start(c) ==
  /\ calls[c].pc = "idle"
  /\ c > 1 => calls[c - 1].pc # "idle"
  /\ \E op \in {"edit", "write"}, n \in Names :
       /\ calls' = [calls EXCEPT ![c] = [NewCall EXCEPT !.pc = "resolving", !.op = op, !.name = n, !.key = KeyOf(n)]]
       /\ disturbed' = IF disk[FileOf[n]] = Absent /\ n # FileOf[n] THEN disturbed \cup {FileOf[n]} ELSE disturbed
  /\ UNCHANGED <<tail, disk, flying, turn, clock, promised>>

\* The call appends itself to the chain of its key, which realpath has found out at some
\* time since it was asked.
Join(c) ==
  \E k \in {calls[c].key, KeyOf(calls[c].name)} :
    /\ calls[c].pc = "resolving"
    /\ calls' = [calls EXCEPT ![c].pc = "waiting", ![c].key = k, ![c].prev = tail[k]]
    /\ tail' = [tail EXCEPT ![k] = c]
    /\ turn' = [turn EXCEPT ![c] = clock]
    /\ clock' = clock + 1
    /\ UNCHANGED <<disk, flying, promised, disturbed>>

\* The previous call of the chain has released this one: edit reads, write makes the
\* directory.
Enter(c) ==
  /\ calls[c].pc = "waiting"
  /\ calls[c].prev # NoCall => ~Open(calls[c].prev)
  /\ calls' = [calls EXCEPT ![c].pc = "reading"]
  /\ UNCHANGED <<tail, disk, flying, turn, clock, promised, disturbed>>

\* Faulty variant: the chain is dropped though somebody has joined behind.
Release_Dropped(S) ==
  tail' = [k \in Names |-> IF \E c \in S : Open(c) /\ calls[c].key = k THEN NoCall ELSE tail[k]]
\* releaseNext, and the chain is dropped when nobody has joined behind.
Release(S) ==
  tail' = [k \in Names |-> IF tail[k] \in S THEN NoCall ELSE tail[k]]

\* A call that is settled is left with its place only.
Settled(place) == [NewCall EXCEPT !.pc = place]

\* What the call will write: an edit appends to what it has read, a write replaces it.
Contents(c) == IF calls[c].op = "edit" THEN Append(calls[c].seen, c) ELSE <<c>>

\* The file has been read, or the directory made, and the write is asked for.
Read(c) ==
  /\ calls[c].pc = "reading"
  /\ calls[c].op = "edit" => disk[FileAt(c)] # Absent
  /\ calls' = [calls EXCEPT ![c].pc = "writing",
                            ![c].seen = IF disk[FileAt(c)] = Absent THEN <<>> ELSE disk[FileAt(c)]]
  /\ UNCHANGED <<tail, disk, flying, turn, clock, promised, disturbed>>

\* What a write of s that fails halfway leaves: the file is emptied when it is opened.
Cuts(s) == {SubSeq(s, 1, k) : k \in 0..Len(s)}

\* There is no such file, its text does not match, the directory cannot be made or the file
\* not be opened.
Fail(c) ==
  /\ Inside(c)
  /\ calls' = [calls EXCEPT ![c] = Settled("failed")]
  /\ Release({c})
  /\ UNCHANGED <<disk, flying, turn, clock, promised, disturbed>>

\* The write is done and the tool reports success.
Write(c) ==
  /\ calls[c].pc = "writing"
  /\ disk' = [disk EXCEPT ![FileAt(c)] = Contents(c)]
  /\ promised' = [promised EXCEPT ![FileAt(c)] =
                    IF calls[c].op = "edit" /\ @ # Absent THEN Append(@, c) ELSE <<c>>]
  /\ calls' = [calls EXCEPT ![c] = Settled("done")]
  /\ Release({c})
  /\ UNCHANGED <<flying, turn, clock, disturbed>>

\* The disk is full, or fails: what the file held is gone, and the tool reports failure.
WriteFails(c) ==
  \E left \in Cuts(Contents(c)) :
    /\ calls[c].pc = "writing"
    /\ disk' = [disk EXCEPT ![FileAt(c)] = left]
    /\ promised' = [promised EXCEPT ![FileAt(c)] = left]
    /\ calls' = [calls EXCEPT ![c] = Settled("failed")]
    /\ Release({c})
    /\ UNCHANGED <<flying, turn, clock, disturbed>>

\* The run is aborted: the calls that run are rejected at once, those that wait when
\* their turn comes (they are failed here: all that follows is their release). What is
\* being written goes on being written.
Abort ==
  LET hit == {c \in Calls : Open(c) \/ calls[c].pc = "resolving"}
      late == {c \in hit : calls[c].pc = "writing"}
  IN /\ hit # {}
     /\ calls' = [c \in Calls |-> IF c \in hit THEN Settled("failed") ELSE calls[c]]
     /\ Release(hit)
     /\ flying' = flying \cup {[file |-> FileAt(c), content |-> Contents(c)] : c \in late}
     /\ UNCHANGED <<disk, turn, clock, promised, disturbed>>

\* A write whose call was aborted reaches the disk, whole or not, or the file cannot be
\* opened.
Land ==
  \E w \in flying :
    /\ flying' = flying \ {w}
    /\ \/ /\ \E left \in Cuts(w.content) : disk' = [disk EXCEPT ![w.file] = left]
          /\ disturbed' = disturbed \cup {w.file}
       \/ UNCHANGED <<disk, disturbed>>
    /\ UNCHANGED <<calls, tail, turn, clock, promised>>

Step(c) == Join(c) \/ Enter(c) \/ Read(c) \/ Fail(c) \/ Write(c) \/ WriteFails(c)
Next == (\E c \in Calls : Start(c) \/ Step(c)) \/ Abort \/ Land

\* The disk answers.
Fairness == \A c \in Calls : WF_vars(Step(c))
Spec == Init /\ [][Next]_vars /\ Fairness

-----------------------------------------------------------------------------
(* Properties.                                                             *)

Contained == Seq(Calls)
CallTypes == [pc : Places, op : {"edit", "write"}, name : Names, key : Names,
              prev : Calls \cup {NoCall}, seen : Contained]
\* Every variable has its type.
TypeOK ==
  /\ calls \in [Calls -> CallTypes]
  /\ tail \in [Names -> Calls \cup {NoCall}]
  /\ disk \in [Files -> Contained \cup {Absent}]
  /\ flying \subseteq [file : Files, content : Contained]
  /\ turn \in [Calls -> Nat] /\ clock \in Nat

\* Of the calls that came to the same key at most one runs at a time
\* (file-mutation-queue.ts:15, "Serialize file mutation operations").
OneAtATime ==
  \A c, d \in Calls : Inside(c) /\ Inside(d) /\ calls[c].key = calls[d].key => c = d

\* No edit that reported success is lost to another call: a file holds, in order, the edits
\* made since the last write of the whole file, or behind what a write that failed halfway
\* has left of it (edit.ts:260 and write.ts:224 empty the file first). Excepted are files an
\* aborted call wrote to late, and files a name that leads to them was used for before they
\* existed.
EditsSurvive == \A f \in Files \ disturbed : flying = {} => disk[f] = promised[f]

\* Every call that was made is settled, whatever fails or is aborted before it.
CallsReturn == \A c \in Calls : calls[c].pc # "idle" ~> calls[c].pc \in {"done", "failed"}
=============================================================================
