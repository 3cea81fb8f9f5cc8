---------------------------- MODULE SessionManager ----------------------------
(***************************************************************************)
(* The SessionManager class of packages/coding-agent/src/core/             *)
(* session-manager.ts in its persistent form: a conversation tree in       *)
(* memory, an append-only JSONL file that is first written when the first  *)
(* assistant message arrives, and the operations that open, fork and       *)
(* replace sessions. Every method runs to completion without an await; it  *)
(* may be cut short only while it writes, by the death of the process or   *)
(* by a write that fails.                                                  *)
(***************************************************************************)
EXTENDS Naturals, FiniteSets, Sequences, SequencesExt, FiniteSetsExt

CONSTANTS
  Files,       \* the paths a session file can have
  MaxEntries,  \* bound on the entries ever created
  Kinds,       \* the kinds of entries the host appends
  Forks,       \* the host calls createBranchedSession and forkFrom
  EmptyFiles,  \* a path may name an empty file before its first session
  Faults       \* "kill": the process dies in a write; "full": a write fails and
               \* the process goes on; "torn": a cut write may end inside a line

ASSUME BoundsAssumption == MaxEntries \in Nat /\ IsFiniteSet(Files) /\ Files # {}
ASSUME KindsAssumption ==
  Kinds \subseteq {"user", "assistant", "setting", "compaction", "branch_summary", "label"}
ASSUME SwitchesAssumption ==
  {Forks, EmptyFiles} \subseteq BOOLEAN /\ Faults \subseteq {"kill", "full", "torn"}

VARIABLES
  \* the fields of SessionManager
  fileEntries, byId, labelsById, leafId, flushed, sessionFile,
  up,     \* there is a process with a SessionManager
  disk,   \* the content of every path
  \* history: every entry ever created, as it was created, and for every path the
  \* entries whose append returned with the file written
  log, saved

memory == <<fileEntries, byId, labelsById, leafId, flushed, sessionFile, up>>
vars == <<fileEntries, byId, labelsById, leafId, flushed, sessionFile, up, disk, log, saved>>

-----------------------------------------------------------------------------
(* Entries, lines, files.                                                  *)

Ids == 1..MaxEntries
NoId == 0       \* null
NextId == Cardinality(DOMAIN log) + 1

\* `ref` is the targetId of a label (an "unlabel" is a label entry without a
\* label) and the firstKeptEntryId of a compaction.
EntryTypes ==
  {"user", "assistant", "setting", "compaction", "branch_summary", "label", "unlabel"}
Entries == [type : EntryTypes, id : Ids, parentId : Ids \cup {NoId}, ref : Ids \cup {NoId}]
Header == [type |-> "session", id |-> NoId, parentId |-> NoId, ref |-> NoId]
\* A line that JSON.parse rejects.
Garbage == [type |-> "garbage", id |-> NoId, parentId |-> NoId, ref |-> NoId]
Lines == Entries \cup {Header, Garbage}

Silent_Summaries == {"setting", "compaction", "label", "unlabel", "branch_summary"}

\* The entries appendMessage of buildSessionContext turns into no message.
Silent == {"setting", "compaction", "label", "unlabel"}

\* `ended`: the last line ends in a newline.
Contents == [exists : BOOLEAN, lines : Seq(Lines), ended : BOOLEAN]
NoFile == [exists |-> FALSE, lines |-> <<>>, ended |-> TRUE]
EmptyFile == [exists |-> TRUE, lines |-> <<>>, ended |-> TRUE]

\* appendFileSync, line by line: what follows an unfinished line is part of it.
Written(content, lines) ==
  IF lines = <<>> THEN content
  ELSE [exists |-> TRUE, ended |-> TRUE,
        lines |-> IF content.ended THEN content.lines \o lines
                  ELSE Front(content.lines) \o <<Garbage>> \o Tail(lines)]

\* The outcomes of a write that is cut short: some whole lines, then perhaps an
\* unfinished one, which is unreadable or lacks no more than its newline.
Cuts(content, lines) ==
  {Written(content, SubSeq(lines, 1, k)) : k \in 0..(Len(lines) - 1)}
  \cup IF "torn" \in Faults
         THEN UNION {{[Written(content, Append(SubSeq(lines, 1, k - 1), last)) EXCEPT !.ended = FALSE] :
                        last \in {Garbage, lines[k]}} : k \in DOMAIN lines}
         ELSE {}

\* The lines of other types. (SelectSeq is beyond the provers.)
Without(seq, types) ==
  LET upTo[n \in 0..Len(seq)] ==
        IF n = 0 THEN <<>>
        ELSE IF seq[n].type \in types THEN upTo[n - 1] ELSE Append(upTo[n - 1], seq[n])
  IN upTo[Len(seq)]

\* loadEntriesFromFile.
Load(content) ==
  LET entries == Without(content.lines, {"garbage"}) IN
  IF entries # <<>> /\ Head(entries).type = "session" THEN entries ELSE <<>>

EntriesOf(seq) == Without(seq, {"session"})
IdsOf(seq) == {e.id : e \in Range(EntriesOf(seq))}
HasAssistant(seq) == \E i \in DOMAIN seq : seq[i].type = "assistant"

\* _buildIndex.
IndexOf(seq) == [id \in IdsOf(seq) |-> CHOOSE e \in Range(EntriesOf(seq)) : e.id = id]
LastOf(seq) == IF EntriesOf(seq) = <<>> THEN NoId ELSE Last(EntriesOf(seq)).id
LabelsOf_NeverCleared(seq) == {seq[i].ref : i \in {j \in DOMAIN seq : seq[j].type = "label"}}

LabelsOf(seq) ==
  {seq[i].ref : i \in {j \in DOMAIN seq :
     seq[j].type = "label" /\ \A k \in (j + 1)..Len(seq) : seq[k].type = "unlabel" => seq[k].ref # seq[j].ref}}

\* getBranch: the path from the root to an entry. A parent has a smaller id.
Branch(index, id) ==
  LET path[i \in 0..MaxEntries] ==
        IF i \notin DOMAIN index THEN <<>> ELSE Append(path[index[i].parentId], index[i])
  IN path[id]

\* The position of firstKeptEntryId, as a set.
KeptFrom(path, compaction) ==
  {p \in 1..(compaction - 1) : path[p].id = path[compaction].ref}

\* buildSessionContext: the messages, or the summary of the last compaction, the
\* messages it kept and the messages since.
Context(index, id) ==
  LET path == Branch(index, id)
      compactions == {p \in DOMAIN path : path[p].type = "compaction"}
      messages(from, to) == Without(SubSeq(path, from, to), Silent)
  IN IF compactions = {} THEN messages(1, Len(path))
     ELSE LET c == Max(compactions)
              kept == KeptFrom(path, c)
          IN <<path[c]>> \o (IF kept = {} THEN <<>> ELSE messages(Min(kept), c - 1))
               \o messages(c + 1, Len(path))

Init ==
  /\ fileEntries = <<>> /\ byId = [id \in {} |-> Header] /\ labelsById = {} /\ leafId = NoId
  /\ flushed = FALSE /\ sessionFile \in Files /\ up = FALSE
  /\ disk \in [Files -> IF EmptyFiles THEN {NoFile, EmptyFile} ELSE {NoFile}]
  /\ log = [id \in {} |-> Header]
  /\ saved = [f \in Files |-> {}]

-----------------------------------------------------------------------------
(* Opening sessions.                                                       *)

\* fileEntries and what _buildIndex makes of it.
Index(entries) ==
  /\ fileEntries' = entries
  /\ byId' = IndexOf(entries)
  /\ labelsById' = LabelsOf(entries)
  /\ leafId' = LastOf(entries)

\* The memory of a process that died.
Die ==
  /\ up' = FALSE /\ flushed' = FALSE
  /\ Index(<<>>)
  /\ UNCHANGED sessionFile

\* newSession: a path not used before; nothing is written.
NewSession(f) ==
  /\ ~disk[f].exists /\ (up => f # sessionFile)
  /\ Index(<<Header>>)
  /\ flushed' = FALSE /\ sessionFile' = f /\ up' = TRUE
  /\ UNCHANGED <<disk, log, saved>>

\* setSessionFile on a session: by another process or by /resume.
SetSessionFile(f) ==
  /\ disk[f].exists /\ Load(disk[f]) # <<>>
  /\ Index(Load(disk[f]))
  /\ flushed' = TRUE /\ sessionFile' = f /\ up' = TRUE
  /\ UNCHANGED <<disk, log, saved>>

\* setSessionFile on a path without a file: an explicit --session path.
SetSessionFileNew(f) ==
  /\ ~disk[f].exists
  /\ Index(<<Header>>)
  /\ flushed' = FALSE /\ sessionFile' = f /\ up' = TRUE
  /\ UNCHANGED <<disk, log, saved>>

\* setSessionFile on an empty or corrupted file: it is truncated to a header.
SetSessionFileCorrupt(f) ==
  /\ disk[f].exists /\ Load(disk[f]) = <<>>
  /\ \/ /\ disk' = [disk EXCEPT ![f] = Written(EmptyFile, <<Header>>)]
        /\ Index(<<Header>>)
        /\ flushed' = TRUE /\ sessionFile' = f /\ up' = TRUE
     \/ /\ "kill" \in Faults
        /\ \E cut \in Cuts(EmptyFile, <<Header>>) : disk' = [disk EXCEPT ![f] = cut]
        /\ Die
     \/ /\ "full" \in Faults /\ up
        /\ \E cut \in Cuts(EmptyFile, <<Header>>) : disk' = [disk EXCEPT ![f] = cut]
        /\ Index(<<Header>>)
        /\ flushed' = FALSE /\ sessionFile' = f /\ UNCHANGED up
  /\ UNCHANGED <<log, saved>>

\* forkFrom: the entries of another project's session, under a new header.
ForkFrom(source, f) ==
  LET lines == <<Header>> \o EntriesOf(Load(disk[source])) IN
  /\ Forks
  /\ Load(disk[source]) # <<>> /\ ~disk[f].exists
  /\ \/ /\ disk' = [disk EXCEPT ![f] = Written(NoFile, lines)]
        /\ Index(lines)
        /\ flushed' = TRUE /\ sessionFile' = f /\ up' = TRUE
        /\ saved' = [saved EXCEPT ![f] = IdsOf(lines)]
     \/ /\ "kill" \in Faults
        /\ \E cut \in Cuts(NoFile, lines) : disk' = [disk EXCEPT ![f] = cut]
        /\ Die
        /\ UNCHANGED saved
     \/ /\ "full" \in Faults
        /\ \E cut \in Cuts(NoFile, lines) : disk' = [disk EXCEPT ![f] = cut]
        /\ UNCHANGED <<memory, saved>>
  /\ UNCHANGED log

-----------------------------------------------------------------------------
(* Appending.                                                              *)

ToWrite_NoHeader(entries, entry) ==
  IF ~HasAssistant(entries) THEN <<>> ELSE IF flushed THEN <<entry>> ELSE EntriesOf(entries)

\* _persist: nothing before the first assistant message, then everything once.
ToWrite(entries, entry) ==
  IF ~HasAssistant(entries) THEN <<>> ELSE IF flushed THEN <<entry>> ELSE entries

Relabelled(entry) ==
  CASE entry.type = "label"   -> labelsById \cup {entry.ref}
    [] entry.type = "unlabel" -> labelsById \ {entry.ref}
    [] OTHER                  -> labelsById

\* _appendEntry: the tree grows first, then the file. If the write fails the
\* entry stays in memory, and appendLabelChange does not reach labelsById.
AppendEntry(type, parent, ref) ==
  LET entry == [type |-> type, id |-> NextId, parentId |-> parent, ref |-> ref]
      entries == Append(fileEntries, entry)
      lines == ToWrite(entries, entry)
      Remember == /\ fileEntries' = entries
                  /\ byId' = [id \in DOMAIN byId \cup {entry.id} |->
                                IF id = entry.id THEN entry ELSE byId[id]]
                  /\ leafId' = entry.id
                  /\ UNCHANGED <<sessionFile, up>>
  IN
  /\ up /\ NextId <= MaxEntries
  /\ log' = [id \in DOMAIN log \cup {entry.id} |-> IF id = entry.id THEN entry ELSE log[id]]
  /\ \/ /\ disk' = [disk EXCEPT ![sessionFile] = Written(@, lines)]
        /\ Remember
        /\ flushed' = HasAssistant(entries)
        /\ labelsById' = Relabelled(entry)
        /\ saved' = IF lines = <<>> THEN saved
                    ELSE [saved EXCEPT ![sessionFile] = @ \cup IdsOf(lines)]
     \/ /\ "full" \in Faults
        /\ \E cut \in Cuts(disk[sessionFile], lines) : disk' = [disk EXCEPT ![sessionFile] = cut]
        /\ Remember
        /\ UNCHANGED <<flushed, labelsById, saved>>
     \/ /\ "kill" \in Faults
        /\ \E cut \in Cuts(disk[sessionFile], lines) : disk' = [disk EXCEPT ![sessionFile] = cut]
        /\ Die
        /\ UNCHANGED saved

AppendMessage(type) ==
  /\ type \in Kinds \cap {"user", "assistant"}
  /\ AppendEntry(type, leafId, NoId)

\* appendModelChange, appendThinkingLevelChange, appendCustomEntry,
\* appendSessionInfo: entries without a message.
AppendSetting ==
  /\ "setting" \in Kinds
  /\ AppendEntry("setting", leafId, NoId)

\* appendCompaction, which checks nothing: the entry to keep was chosen before the
\* summary was awaited, and since then the leaf, or the session, may be another.
AppendCompaction(kept) ==
  /\ "compaction" \in Kinds
  /\ kept \in DOMAIN log
  /\ AppendEntry("compaction", leafId, kept)

\* appendLabelChange throws for an unknown target.
AppendLabelChange(type, target) ==
  /\ "label" \in Kinds
  /\ target \in DOMAIN byId
  /\ AppendEntry(type, leafId, target)

BranchWithSummary(from) ==
  /\ "branch_summary" \in Kinds
  /\ from \in DOMAIN byId \cup {NoId}
  /\ AppendEntry("branch_summary", from, NoId)

-----------------------------------------------------------------------------
(* Navigation and forks.                                                   *)

\* branch and resetLeaf.
MoveLeaf(id) ==
  /\ up
  /\ id \in DOMAIN byId \cup {NoId}
  /\ leafId' = id
  /\ UNCHANGED <<fileEntries, byId, labelsById, flushed, sessionFile, up, disk, log, saved>>

\* The label entries createBranchedSession writes anew, a chain below the path.
Relabels(path) ==
  LET onPath == IdsOf(path) \cap labelsById
      targets == SetToSortSeq(onPath, <)
  IN [i \in 1..Cardinality(onPath) |->
        [type |-> "label", id |-> NextId + i - 1,
         parentId |-> IF i > 1 THEN NextId + i - 2 ELSE LastOf(path),
         ref |-> targets[i]]]

BranchedPath_RootLost(id) ==
  LET path == Without(Branch(byId, id), {"label", "unlabel"}) IN
  IF path = <<>> THEN path ELSE Tail(path)

\* The path of the new session: label entries are left out.
BranchedPath(id) == Without(Branch(byId, id), {"label", "unlabel"})

CreateBranchedSession_SameFile(id, f) ==
  LET path == BranchedPath(id)
      entries == <<Header>> \o path \o Relabels(path)
  IN
  /\ Forks /\ up
  /\ id \in DOMAIN byId /\ ~disk[f].exists /\ f # sessionFile
  /\ Len(Relabels(path)) + NextId <= MaxEntries + 1
  /\ Index(entries)
  /\ UNCHANGED <<sessionFile, up, log>>
  /\ disk' = IF HasAssistant(entries)
               THEN [disk EXCEPT ![sessionFile] = Written(EmptyFile, entries)] ELSE disk
  /\ flushed' = HasAssistant(entries)
  /\ saved' = saved

\* createBranchedSession: the file is written at once if it has an assistant
\* message, and by _persist otherwise.
CreateBranchedSession(id, f) ==
  LET path == BranchedPath(id)
      labels == Relabels(path)
      entries == <<Header>> \o path \o labels
  IN
  /\ Forks /\ up
  /\ id \in DOMAIN byId /\ ~disk[f].exists /\ f # sessionFile
  /\ NextId + Len(labels) <= MaxEntries + 1
  /\ log' = [i \in DOMAIN log \cup IdsOf(labels) |-> IF i \in DOMAIN log THEN log[i] ELSE labels[i - NextId + 1]]
  /\ \/ /\ Index(entries)
        /\ sessionFile' = f
        /\ disk' = IF HasAssistant(entries)
                     THEN [disk EXCEPT ![f] = Written(EmptyFile, entries)] ELSE disk
        /\ flushed' = HasAssistant(entries)
        /\ saved' = IF HasAssistant(entries) THEN [saved EXCEPT ![f] = IdsOf(entries)] ELSE saved
        /\ UNCHANGED up
     \/ /\ "full" \in Faults /\ HasAssistant(entries)
        /\ Index(entries)
        /\ sessionFile' = f
        /\ \E cut \in Cuts(EmptyFile, entries) : disk' = [disk EXCEPT ![f] = cut]
        /\ UNCHANGED <<flushed, up, saved>>
     \/ /\ "kill" \in Faults /\ HasAssistant(entries)
        /\ \E cut \in Cuts(EmptyFile, entries) : disk' = [disk EXCEPT ![f] = cut]
        /\ Die
        /\ UNCHANGED saved

Next ==
  \/ \E f \in Files :
       \/ NewSession(f) \/ SetSessionFile(f) \/ SetSessionFileNew(f) \/ SetSessionFileCorrupt(f)
       \/ \E source \in Files : ForkFrom(source, f)
       \/ \E id \in Ids : CreateBranchedSession(id, f)
  \/ \E type \in {"user", "assistant"} : AppendMessage(type)
  \/ AppendSetting
  \/ \E id \in Ids : AppendCompaction(id) \/ \E type \in {"label", "unlabel"} : AppendLabelChange(type, id)
  \/ \E id \in Ids \cup {NoId} : BranchWithSummary(id) \/ MoveLeaf(id)

Spec == Init /\ [][Next]_vars

-----------------------------------------------------------------------------
(* Properties.                                                             *)

\* Once the file has been written, reading it back gives the tree and the labels
\* in memory: whatever crashes now, the next process sees the same session.
ReloadRestores ==
  up /\ flushed =>
    /\ IndexOf(Load(disk[sessionFile])) = byId
    /\ LabelsOf(Load(disk[sessionFile])) = labelsById

\* The past of an entry as it was when the entry was created.
Past(id) ==
  LET past[i \in 0..MaxEntries] ==
        IF i \notin DOMAIN log THEN {} ELSE past[log[i].parentId] \cup {i}
  IN past[id]

\* The messages an entry's context must hold: after the last compaction's
\* summary, if there is one, every message from its first kept entry on. A
\* compaction whose first kept entry is not on the path before it keeps nothing.
Expected(id) ==
  LET past == Past(id)
      compactions == {i \in past : log[i].type = "compaction"}
      c == Max(compactions)
      from == IF compactions = {} THEN 1
              ELSE IF log[c].ref \in past /\ log[c].ref < c THEN log[c].ref ELSE c
  IN {i \in past : i >= from /\ log[i].type \in {"user", "assistant", "branch_summary"}}
     \cup (IF compactions = {} THEN {} ELSE {c})

\* The context built for any entry, in whichever file and after whichever crash,
\* fork or navigation, is the one of its conversation: nothing of it is missing,
\* nothing comes twice, the summary first and the messages in order.
ContextIsHistory ==
  \A id \in DOMAIN byId :
    LET context == Context(byId, id)
        summary == context # <<>> /\ Head(context).type = "compaction"
    IN /\ {e.id : e \in Range(context)} = Expected(id)
       /\ \A i, j \in DOMAIN context :
            i < j /\ (i > 1 \/ ~summary) => context[i].id < context[j].id

\* An entry whose append returned with the file written is read back from it.
Durable == \A f \in Files : saved[f] \subseteq IdsOf(Load(disk[f]))

\* A session file only grows: a line that could be read is never changed,
\* moved or removed.
AppendOnly == [][\A f \in Files : IsPrefix(Load(disk[f]), Load(disk'[f]))]_vars

\* A step that writes a session file leaves all but its last line as it was. A
\* file that does not begin with a header has lost the session it held, and may be
\* replaced by a new header, or by what an interrupted write leaves of one.
LastLineMayChange ==
  \A f \in Files : disk'[f] # disk[f] =>
    LET lines == disk[f].lines IN
    \/ IsPrefix(SubSeq(lines, 1, Len(lines) - 1), disk'[f].lines)
    \/ Load(disk[f]) = <<>> /\ Len(disk'[f].lines) <= 1

\* Whatever fails, and also when a write ends inside a line, only the last line
\* of a file that begins with a header can be damaged by the next write. A file
\* whose header was cut (the first write, or the write of a fork, failed or was
\* interrupted) may go on receiving entries, and all of them are lost when it is
\* next opened.
LastLineOnly == [][LastLineMayChange]_vars

\* The session is a conversation tree: no entry is ever without its past.
Tree == INSTANCE SessionTree WITH past <- [id \in DOMAIN log |-> log[id].parentId],
                                  nodes <- DOMAIN byId, leaf <- leafId
ImplementsTree == Tree!Spec
=============================================================================
