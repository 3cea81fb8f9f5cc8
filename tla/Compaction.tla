------------------------------ MODULE Compaction ------------------------------
(***************************************************************************)
(* Context compaction: prepareCompaction, findCutPoint and compact of      *)
(* packages/coding-agent/src/core/compaction/compaction.ts, called by      *)
(* AgentSession.compact and _runAutoCompaction. The path from the root to  *)
(* the leaf (SessionManager!Branch) is a sequence here; an entry is known  *)
(* by its position. A summary is the set of the messages whose text has    *)
(* reached it: the model is asked to keep all it is shown.                 *)
(***************************************************************************)
EXTENDS Naturals, FiniteSets, Sequences, FiniteSetsExt, Functions

CONSTANTS
  Kinds,          \* the kinds of entries that are appended
  Sizes,          \* what estimateTokens returns
  KeepRecent,     \* settings.keepRecentTokens
  MaxCalls,       \* bound on the tool calls of a response
  MaxEntries,     \* bound on the length of the path
  MaxCompactions  \* bound on the compactions of a session

ASSUME CompactionBounds ==
  /\ Sizes \subseteq Nat /\ IsFiniteSet(Sizes) /\ KeepRecent \in Nat
  /\ {MaxCalls, MaxEntries, MaxCompactions} \subseteq Nat
ASSUME CompactionKinds ==
  Kinds \subseteq {"user", "bash", "assistant", "toolResult", "custom", "setting"}

VARIABLES
  path,    \* the entries from the root to the leaf
  pending  \* the CompactionPreparation being summarized, or None

vars == <<path, pending>>

-----------------------------------------------------------------------------
(* Entries. "custom" is a custom_message or branch_summary entry: it is    *)
(* part of the context but no entry of type "message". "setting" stands    *)
(* for the entries without a message. `kept`, `summary` and `files` are    *)
(* those of a compaction: firstKeptEntryId, the messages the summary tells *)
(* of, and the messages whose file operations `details` lists.             *)

Entry(type, size, calls) ==
  [type |-> type, size |-> size, calls |-> calls, kept |-> 0, summary |-> {}, files |-> {}]

IsMessageEntry(e) == e.type \in {"user", "bash", "assistant", "toolResult"}
\* getMessageFromEntry.
HasMessage(e) == IsMessageEntry(e) \/ e.type = "custom"
StartsTurn(e) == e.type \in {"user", "bash", "custom"}

Compactions == {i \in DOMAIN path : path[i].type = "compaction"}
LastCompaction == IF Compactions = {} THEN 0 ELSE Max(Compactions)
Messages(from, to) == {i \in from..to : HasMessage(path[i])}

\* buildSessionContext: the messages the model is sent besides the summary.
Context ==
  IF Compactions = {} THEN Messages(1, Len(path))
  ELSE Messages(path[LastCompaction].kept, LastCompaction - 1)
         \cup Messages(LastCompaction + 1, Len(path))

-----------------------------------------------------------------------------
(* findCutPoint, over the entries from `from` to `to`.                     *)

CutPoints_AlsoResults(from, to) == Messages(from, to)

\* findValidCutPoints.
CutPoints(from, to) == {i \in Messages(from, to) : path[i].type # "toolResult"}

Tokens(from, to) ==
  SumFunction([i \in {i \in from..to : IsMessageEntry(path[i])} |-> path[i].size])

Reached_Over(from, to) ==
  {i \in from..to : IsMessageEntry(path[i]) /\ Tokens(i, to) > KeepRecent}

\* Where the walk from the newest message has accumulated enough.
Reached(from, to) ==
  {i \in from..to : IsMessageEntry(path[i]) /\ Tokens(i, to) >= KeepRecent}

\* The closest cut point at or after it, or else the first one.
Cut(from, to) ==
  LET points == CutPoints(from, to)
      after == {c \in points : Reached(from, to) # {} /\ c >= Max(Reached(from, to))}
  IN Min(IF after = {} THEN points ELSE after)

\* ... and the entries without a message entry just before it.
FirstKept(from, to) ==
  LET cut == Cut(from, to) IN
  Min({k \in from..cut : \A j \in k..(cut - 1) : ~IsMessageEntry(path[j])})

\* findTurnStartIndex; 0 is the -1 of the code.
TurnStart(from, index) ==
  LET starts == {i \in from..index : StartsTurn(path[i])} IN
  IF starts = {} THEN 0 ELSE Max(starts)

\* prepareCompaction.
Preparation ==
  LET from == LastCompaction + 1
      to == Len(path)
      first == IF CutPoints(from, to) = {} THEN from ELSE FirstKept(from, to)
      turn == IF CutPoints(from, to) = {} \/ path[first].type = "user" THEN 0
              ELSE TurnStart(from, first)
      split == turn # 0
  IN [firstKept |-> first,
      history |-> Messages(from, (IF split THEN turn ELSE first) - 1),
      split |-> split,
      prefix |-> IF split THEN Messages(turn, first - 1) ELSE {},
      previous |-> LastCompaction, upTo |-> to]

None == [firstKept |-> 0, history |-> {}, split |-> FALSE, prefix |-> {}, previous |-> 0,
         upTo |-> 0]

PreviousSummary(p) == IF p.previous = 0 THEN {} ELSE path[p.previous].summary
PreviousFiles(p) == IF p.previous = 0 THEN {} ELSE path[p.previous].files

Summary_PrefixOnly(p) ==
  IF p.split /\ p.prefix # {} THEN p.prefix ELSE p.history \cup PreviousSummary(p)

\* compact: the previous summary goes into the one of the history; a split turn
\* without history has "No prior history." instead.
Summary(p) ==
  IF p.split /\ p.prefix # {} /\ p.history = {} THEN p.prefix
  ELSE p.history \cup p.prefix \cup PreviousSummary(p)

\* extractFileOperations, and the operations of the turn prefix.
FileOperations(p) == p.history \cup p.prefix \cup PreviousFiles(p)

-----------------------------------------------------------------------------

Init == path = <<>> /\ pending = None

Room == Len(path) < MaxEntries /\ UNCHANGED pending

\* The interactive mode holds prompts back while a summary is being written; the results of
\* commands the user runs with ! are recorded all the same (recordBashResult).
AppendPrompt(type, size) ==
  /\ Room /\ (type = "user" => pending = None)
  /\ type \in Kinds \cap {"user", "bash"}
  /\ path' = Append(path, Entry(type, size, 0))

AppendAssistant(size, calls) ==
  /\ Room /\ pending = None
  /\ "assistant" \in Kinds /\ Messages(1, Len(path)) # {}
  /\ path' = Append(path, Entry("assistant", size, calls))

\* The results follow their response. An abort may cost some of them: then
\* another message comes next.
AppendToolResult(size) ==
  LET caller == Max({0} \cup {i \in DOMAIN path : path[i].type = "assistant"})
      since == {i \in (caller + 1)..Len(path) : path[i].type # "setting"}
  IN
  /\ Room /\ pending = None
  /\ "toolResult" \in Kinds
  /\ caller # 0 /\ \A i \in since : path[i].type = "toolResult"
  /\ Cardinality(since) < path[caller].calls
  /\ path' = Append(path, Entry("toolResult", size, 0))

\* By the user or by an extension, also while a summary is being written.
AppendOther(type) ==
  /\ Room
  /\ type \in Kinds \cap {"custom", "setting"}
  /\ path' = Append(path, Entry(type, 0, 0))

\* AgentSession.compact and _runAutoCompaction up to the call of the model.
Prepare ==
  /\ pending = None
  /\ path # <<>> /\ path[Len(path)].type # "compaction"
  /\ Len(path) < MaxEntries /\ Cardinality(Compactions) < MaxCompactions
  /\ pending' = Preparation
  /\ UNCHANGED path

\* The summary has been written: appendCompaction.
Complete ==
  /\ pending # None
  /\ Len(path) < MaxEntries
  /\ path' = Append(path, [type |-> "compaction", size |-> 0, calls |-> 0,
                           kept |-> pending.firstKept,
                           summary |-> Summary(pending), files |-> FileOperations(pending)])
  /\ pending' = None

\* Cancelled by the user, or the model failed.
GiveUp ==
  /\ pending # None
  /\ pending' = None
  /\ UNCHANGED path

Next ==
  \/ \E size \in Sizes :
       \/ \E type \in {"user", "bash"} : AppendPrompt(type, size)
       \/ \E calls \in 0..MaxCalls : AppendAssistant(size, calls)
       \/ AppendToolResult(size)
  \/ \E type \in {"custom", "setting"} : AppendOther(type)
  \/ Prepare \/ Complete \/ GiveUp

Spec == Init /\ [][Next]_vars

-----------------------------------------------------------------------------
(* Properties.                                                             *)

\* A tool result is never sent to the model without the response that called
\* the tool: providers reject such a request.
ResultsFollowCalls ==
  \A r \in Context : path[r].type = "toolResult" =>
    Max({i \in 1..r : path[i].type = "assistant"}) \in Context

\* What has left the context is in the summary the model is sent instead, and in the file
\* lists. It is claimed for the first compaction of a path; the second one forgets what the
\* first one kept, and the files that were touched there.
NothingForgotten ==
  Cardinality(Compactions) = 1 =>
    Messages(1, LastCompaction) \ Context
      \subseteq path[LastCompaction].summary \cap path[LastCompaction].files

\* Of the path that is summarized, what is kept behind the first kept message fits in the
\* budget, unless nothing that could be cut off was. What is recorded while the summary is
\* being written is kept on top of it, whatever its size.
BudgetKept ==
  pending # None =>
    LET from == pending.previous + 1
        sized == {i \in Messages(pending.firstKept, pending.upTo) : IsMessageEntry(path[i])}
    IN \/ Messages(from, pending.firstKept - 1) = {}
       \/ \A i, j \in sized : i < j => Tokens(j, pending.upTo) < KeepRecent
=============================================================================
