---------------------------- MODULE CompactionProofs ----------------------------
(***************************************************************************)
(* Compaction, for any sizes, any budget and any number of entries and     *)
(* compactions: no result is sent without the response that called the     *)
(* tool, the first compaction forgets nothing, and what is kept of the     *)
(* path that is summarized fits in the budget.                             *)
(*                                                                         *)
(* The argument is about the path, not about the moment of the cut. Before *)
(* a result, and with nothing but results and settings between, there is   *)
(* its response (ResultsBehindCalls); so a cut at anything but a result    *)
(* has the responses of all the results behind it on its side (Whole), and *)
(* what is appended later has its response behind the compaction.          *)
(***************************************************************************)
EXTENDS Compaction, SequenceTheorems, FiniteSetTheorems, NaturalsInduction,
        WellFoundedInduction, TLAPS

EntryTypes == {"user", "bash", "assistant", "toolResult", "custom", "setting", "compaction"}
Entries == [type : EntryTypes, size : Nat, calls : Nat, kept : Nat,
            summary : SUBSET Nat, files : SUBSET Nat]
Preparations == [firstKept : Nat, history : SUBSET Nat, split : BOOLEAN,
                 prefix : SUBSET Nat, previous : Nat, upTo : Nat]
Types ==
  /\ path \in Seq(Entries)
  /\ pending \in Preparations /\ pending.previous <= Len(path) /\ pending.upTo <= Len(path)

IsResult(i) == path[i].type = "toolResult"
\* Response a called the tool of result r, for all the path says.
Calls(a, r) ==
  /\ path[a].type = "assistant"
  /\ \A j \in (a + 1)..(r - 1) : path[j].type \in {"toolResult", "setting"}
ResultsBehindCalls ==
  \A r \in 1..Len(path) : IsResult(r) => \E a \in 1..(r - 1) : Calls(a, r)

\* Between `from` and `to`, no result is cut off from its response.
Whole(from, to) ==
  \A r \in from..to : IsResult(r) => \E a \in from..r : path[a].type = "assistant"
\* The messages before `kept` are told of.
Told(kept, summary, files) == Messages(1, kept - 1) \subseteq summary \cap files

CompactionsSound ==
  \A c \in Compactions :
    /\ path[c].kept \in 1..c
    /\ Whole(path[c].kept, c - 1)
    /\ (\A d \in Compactions : c <= d) => Told(path[c].kept, path[c].summary, path[c].files)
PendingSound ==
  pending # None =>
    /\ pending.firstKept \in 1..Len(path)
    /\ Whole(pending.firstKept, Len(path))
    /\ Compactions = {} => /\ pending.previous = 0
                           /\ Messages(1, pending.firstKept - 1) \subseteq pending.history \cup pending.prefix

Inv == Types /\ ResultsBehindCalls /\ CompactionsSound /\ PendingSound /\ BudgetKept

-----------------------------------------------------------------------------
(* Smallest and largest members.                                           *)

LEMMA Least ==
  ASSUME NEW S \in SUBSET Nat, S # {}
  PROVE  \E m \in S : \A y \in S : m <= y
<1> DEFINE Less == OpToRel(<, Nat)
<1>1. IsWellFoundedOn(Less, Nat)
  BY NatLessThanWellFounded, Zenon
<1>2. \A x, y \in Nat : x < y => <<x, y>> \in Less
  BY DEF OpToRel
<1>3. PICK x \in S : \A y \in S : ~ (<<y, x>> \in Less)
  <2> HIDE DEF Less
  <2> QED BY <1>1, WFMin, Zenon
<1>4. \A y \in S : ~(y < x)
  <2> HIDE DEF Less
  <2> QED BY <1>2, <1>3
<1> QED BY <1>4

LEMMA MinFact ==
  ASSUME NEW S \in SUBSET Nat, S # {}
  PROVE  Min(S) \in S /\ \A y \in S : Min(S) <= y
  BY Least, Zenon DEF Min

LEMMA MaxFact ==
  ASSUME NEW n \in Nat, NEW S \in SUBSET (0..n), S # {}
  PROVE  Max(S) \in S /\ \A y \in S : Max(S) >= y
<1> DEFINE Below == {n - x : x \in S}
<1>1. PICK b \in Below : \A y \in Below : b <= y
  <2>1. \A x \in S : n - x \in Nat
    OBVIOUS
  <2>2. Below \in SUBSET Nat
    BY <2>1
  <2>3. PICK x \in S : TRUE
    OBVIOUS
  <2>4. n - x \in Below
    BY <2>3
  <2> HIDE DEF Below
  <2> QED BY <2>2, <2>4, Least
<1>2. PICK m \in S : b = n - m
  OBVIOUS
<1>3. \A y \in S : m >= y
  <2> SUFFICES ASSUME NEW y \in S PROVE m >= y
    OBVIOUS
  <2>1. n - m <= n - y
    BY <1>1, <1>2
  <2> QED BY <2>1
<1>4. \E x \in S : \A y \in S : x >= y
  BY <1>3
<1> QED BY <1>4, Zenon DEF Max

\* A sum of naturals over a finite set is a natural.
LEMMA SumIsNat ==
  ASSUME NEW S, IsFiniteSet(S), NEW f \in [S -> Nat]
  PROVE  SumFunction(f) \in Nat
<1> DEFINE Pick(s) == CHOOSE x \in s : TRUE
           Step(g, s) == IF s = {} THEN 0 ELSE f[Pick(s)] + g[s \ {Pick(s)}]
           Upto(n) == {s \in SUBSET S : Cardinality(s) <= n}
           Sums(n, g) == g = [s \in Upto(n) |-> Step(g, s)] /\ \A s \in Upto(n) : g[s] \in Nat
           iter == CHOOSE g : g = [s \in SUBSET S |-> Step(g, s)]
<1>1. SumFunction(f) = iter[S]
  <2>1. DOMAIN f = S
    OBVIOUS
  <2> QED BY <2>1, Zenon DEF SumFunction, SumFunctionOnSet, FoldFunctionOnSet, MapThenFoldSet
<1>2. \A s \in SUBSET S : IsFiniteSet(s) /\ Cardinality(s) \in Nat
  BY FS_Subset, FS_CardinalityType
<1>3. \A s \in SUBSET S : s # {} => /\ Pick(s) \in s /\ f[Pick(s)] \in Nat
                                   /\ s \ {Pick(s)} \in SUBSET S
                                   /\ Cardinality(s \ {Pick(s)}) = Cardinality(s) - 1
                                   /\ Cardinality(s) \in Nat \ {0}
  <2> SUFFICES ASSUME NEW s \in SUBSET S, s # {}
               PROVE  /\ Pick(s) \in s /\ f[Pick(s)] \in Nat
                      /\ s \ {Pick(s)} \in SUBSET S
                      /\ Cardinality(s \ {Pick(s)}) = Cardinality(s) - 1
                      /\ Cardinality(s) \in Nat \ {0}
    OBVIOUS
  <2>1. Pick(s) \in s
    BY Zenon
  <2> HIDE DEF Pick
  <2>2. f[Pick(s)] \in Nat /\ s \ {Pick(s)} \in SUBSET S
    BY <2>1
  <2>3. Cardinality(s \ {Pick(s)}) = Cardinality(s) - 1
    BY <1>2, <2>1, FS_RemoveElement
  <2>4. Cardinality(s) \in Nat \ {0}
    BY <1>2, FS_EmptySet
  <2> QED BY <2>1, <2>2, <2>3, <2>4
<1> HIDE DEF Pick
\* The sums over ever larger sets.
<1>4. ASSUME NEW n \in Nat, NEW g, Sums(n, g)
      PROVE  \E h : Sums(n + 1, h)
  <2> DEFINE h == [s \in Upto(n + 1) |-> Step(g, s)]
  <2>1. \A s \in Upto(n + 1) : s # {} => s \ {Pick(s)} \in Upto(n)
    BY <1>2, <1>3
  <2>2. \A s \in Upto(n) : s \in Upto(n + 1)
    BY <1>2
  <2>3. \A s \in Upto(n) : h[s] = g[s]
    <3> SUFFICES ASSUME NEW s \in Upto(n) PROVE h[s] = g[s]
      OBVIOUS
    <3>1. h[s] = Step(g, s)
      BY <2>2
    <3>2. g[s] = Step(g, s)
      <4> HIDE DEF Step, Upto
      <4> QED BY <1>4
    <3> HIDE DEF h, Step
    <3> QED BY <3>1, <3>2
  <2>4. \A s \in Upto(n + 1) : Step(h, s) = Step(g, s)
    <3> HIDE DEF h, Upto
    <3> QED BY <2>1, <2>3
  <2>5. h = [s \in Upto(n + 1) |-> Step(h, s)]
    <3>1. [s \in Upto(n + 1) |-> Step(h, s)] = [s \in Upto(n + 1) |-> Step(g, s)]
      <4> HIDE DEF h, Step, Upto
      <4> QED BY <2>4
    <3> QED BY <3>1
  <2>6. \A s \in Upto(n + 1) : h[s] \in Nat
    <3> SUFFICES ASSUME NEW s \in Upto(n + 1) PROVE h[s] \in Nat
      OBVIOUS
    <3>1. h[s] = Step(g, s)
      OBVIOUS
    <3>2. CASE s = {}
      BY <3>1, <3>2
    <3>3. CASE s # {}
      <4>1. g[s \ {Pick(s)}] \in Nat /\ f[Pick(s)] \in Nat
        BY <1>3, <1>4, <2>1, <3>3
      <4> HIDE DEF h, Upto
      <4> QED BY <3>1, <3>3, <4>1
    <3> QED BY <3>2, <3>3
  <2> HIDE DEF h
  <2> QED BY <2>5, <2>6
<1>5. \E h : Sums(0, h)
  <2> DEFINE h == [s \in Upto(0) |-> 0]
  <2>1. \A s \in Upto(0) : s = {}
    BY <1>2, FS_EmptySet
  <2>2. \A s \in Upto(0) : Step(h, s) = 0
    BY <2>1
  <2>3. h = [s \in Upto(0) |-> Step(h, s)]
    <3> HIDE DEF Step, Upto
    <3> QED BY <2>2
  <2> HIDE DEF Upto
  <2> QED BY <2>3
<1>6. \A n \in Nat : \E g : Sums(n, g)
  <2> DEFINE Bad == {n \in Nat : ~ \E g : Sums(n, g)}
  <2>1. SUFFICES ASSUME Bad # {} PROVE FALSE
    OBVIOUS
  <2> HIDE DEF Sums
  <2>2. PICK m \in Bad : \A y \in Bad : m <= y
    <3>1. Bad \in SUBSET Nat
      OBVIOUS
    <3> HIDE DEF Bad
    <3> QED BY <2>1, <3>1, Least
  <2>3. m # 0 /\ m \in Nat
    BY <1>5
  <2>4. m - 1 \in Nat /\ m - 1 \notin Bad /\ (m - 1) + 1 = m
    <3>1. m - 1 \in Nat /\ ~(m <= m - 1) /\ (m - 1) + 1 = m
      BY <2>3
    <3> HIDE DEF Bad
    <3> QED BY <2>2, <3>1
  <2>5. PICK g : Sums(m - 1, g)
    BY <2>4
  <2>6. \E h : Sums((m - 1) + 1, h)
    BY <1>4, <2>4, <2>5
  <2> QED BY <2>4, <2>6
\* The function the fold is defined by.
<1>7. SUBSET S = Upto(Cardinality(S))
  BY <1>2, FS_Subset
<1>8. \E g : g = [s \in SUBSET S |-> Step(g, s)]
  <2>1. Cardinality(S) \in Nat
    BY <1>2
  <2>2. PICK g : Sums(Cardinality(S), g)
    <3> HIDE DEF Sums
    <3> QED BY <1>6, <2>1
  <2> HIDE DEF Step, Upto
  <2> QED BY <1>7, <2>2
<1>9. iter = [s \in SUBSET S |-> Step(iter, s)]
  <2> HIDE DEF Step
  <2> QED BY <1>8, Zenon
<1> HIDE DEF iter
<1>10. \A n \in Nat : \A s \in Upto(n) : iter[s] \in Nat
  <2> DEFINE Bad == {n \in Nat : \E s \in Upto(n) : iter[s] \notin Nat}
  <2>1. SUFFICES ASSUME Bad # {} PROVE FALSE
    OBVIOUS
  <2>2. PICK m \in Bad : \A y \in Bad : m <= y
    <3>1. Bad \in SUBSET Nat
      OBVIOUS
    <3> HIDE DEF Bad
    <3> QED BY <2>1, <3>1, Least
  <2>3. PICK s \in SUBSET S : Cardinality(s) <= m /\ iter[s] \notin Nat /\ m \in Nat
    OBVIOUS
  <2>4. iter[s] = Step(iter, s)
    <3> HIDE DEF Step
    <3> QED BY <1>9
  <2>5. s # {}
    BY <2>3, <2>4
  <2>6. /\ Pick(s) \in s /\ f[Pick(s)] \in Nat /\ s \ {Pick(s)} \in SUBSET S
        /\ Cardinality(s \ {Pick(s)}) = Cardinality(s) - 1 /\ Cardinality(s) \in Nat \ {0}
    BY <1>3, <2>5
  <2>7. m - 1 \in Nat /\ Cardinality(s \ {Pick(s)}) <= m - 1
    BY <2>3, <2>6
  <2>8. iter[s \ {Pick(s)}] \notin Nat
    BY <2>3, <2>4, <2>5, <2>6
  <2>9. m - 1 \in Bad
    BY <2>6, <2>7, <2>8
  <2>10. ~(m <= m - 1)
    BY <2>3
  <2> HIDE DEF Bad
  <2> QED BY <2>2, <2>9, <2>10
<1>11. S \in Upto(Cardinality(S)) /\ Cardinality(S) \in Nat
  BY <1>2
<1> HIDE DEF Upto
<1> QED BY <1>1, <1>10, <1>11

-----------------------------------------------------------------------------
(* The path.                                                               *)

LEMMA PathFacts ==
  ASSUME Types
  PROVE  /\ Len(path) \in Nat /\ DOMAIN path = 1..Len(path)
         /\ \A i \in 1..Len(path) : path[i] \in Entries
  BY DEF Types

LEMMA CompactionFacts ==
  ASSUME Types
  PROVE  /\ Compactions \subseteq 1..Len(path)
         /\ \A c \in 1..Len(path) : c \in Compactions <=> path[c].type = "compaction"
         /\ Compactions = {} => LastCompaction = 0
         /\ Compactions # {} => /\ LastCompaction \in Compactions
                                /\ \A c \in Compactions : c <= LastCompaction
         /\ LastCompaction \in 0..Len(path)
         /\ IsFiniteSet(Compactions)
<1>1. Compactions \subseteq 1..Len(path)
  BY PathFacts DEF Compactions
<1>2. \A c \in 1..Len(path) : c \in Compactions <=> path[c].type = "compaction"
  BY PathFacts DEF Compactions
<1>3. Compactions = {} => LastCompaction = 0
  BY DEF LastCompaction
<1>4. ASSUME Compactions # {}
      PROVE  LastCompaction \in Compactions /\ \A c \in Compactions : c <= LastCompaction
  <2>1. LastCompaction = Max(Compactions)
    BY <1>4 DEF LastCompaction
  <2>2. Compactions \in SUBSET (0..Len(path)) /\ Len(path) \in Nat
    BY <1>1, PathFacts
  <2>3. Max(Compactions) \in Compactions /\ \A y \in Compactions : Max(Compactions) >= y
    BY <2>2, <1>4, MaxFact
  <2> QED BY <2>1, <2>2, <2>3
<1>5. LastCompaction \in 0..Len(path)
  <2>1. CASE Compactions = {}
    BY <1>3, <2>1, PathFacts
  <2>2. CASE Compactions # {}
    <3>1. LastCompaction \in 1..Len(path)
      BY <1>1, <1>4, <2>2
    <3> HIDE DEF LastCompaction
    <3> QED BY <3>1, PathFacts
  <2> QED BY <2>1, <2>2
<1>6. IsFiniteSet(Compactions)
  <2>1. IsFiniteSet(1..Len(path))
    BY PathFacts, FS_Interval
  <2> QED BY <1>1, <2>1, FS_Subset
<1> QED BY <1>1, <1>2, <1>3, <1>4, <1>5, <1>6

LEMMA Appended ==
  ASSUME Types, NEW e \in Entries, path' = Append(path, e)
  PROVE  /\ path' \in Seq(Entries) /\ Len(path') = Len(path) + 1
         /\ path'[Len(path) + 1] = e
         /\ \A i \in 1..Len(path) : path'[i] = path[i]
  BY AppendProperties DEF Types

\* The first compaction, if there is one, is the first on every longer path.
LEMMA CompactionsAppended ==
  ASSUME Types, NEW e \in Entries, path' = Append(path, e)
  PROVE  Compactions' = IF e.type = "compaction" THEN Compactions \cup {Len(path) + 1} ELSE Compactions
<1>1. path' \in Seq(Entries) /\ Len(path') = Len(path) + 1 /\ path'[Len(path) + 1] = e
      /\ \A i \in 1..Len(path) : path'[i] = path[i]
  BY Appended
<1>2. DOMAIN path' = 1..(Len(path) + 1)
  BY <1>1
<1>3. \A i : i \in Compactions' <=> i \in 1..(Len(path) + 1) /\ path'[i].type = "compaction"
  BY <1>2 DEF Compactions
<1>4. \A i : i \in Compactions <=> i \in 1..Len(path) /\ path[i].type = "compaction"
  BY PathFacts DEF Compactions
<1>5. \A i : i \in 1..(Len(path) + 1) <=> i \in 1..Len(path) \/ i = Len(path) + 1
  BY PathFacts
<1>6. Len(path) + 1 \notin 1..Len(path)
  BY PathFacts
<1>7. CASE e.type = "compaction"
  <2>1. \A i : i \in Compactions' <=> i \in Compactions \/ i = Len(path) + 1
    BY <1>1, <1>3, <1>4, <1>5, <1>6, <1>7
  <2> QED BY <1>7, <2>1
<1>8. CASE e.type # "compaction"
  <2>1. \A i : i \in Compactions' <=> i \in Compactions
    BY <1>1, <1>3, <1>4, <1>5, <1>6, <1>8
  <2> QED BY <1>8, <2>1
<1> QED BY <1>7, <1>8

LEMMA MessageFacts ==
  ASSUME NEW from, NEW to
  PROVE  \A i : i \in Messages(from, to) <=> i \in from..to /\ HasMessage(path[i])
  BY DEF Messages

LEMMA MessagesKept ==
  ASSUME Types, NEW e \in Entries, path' = Append(path, e),
         NEW from \in Nat \ {0}, NEW to \in Nat, to <= Len(path)
  PROVE  Messages(from, to)' = Messages(from, to)
<1>1. \A i \in from..to : path'[i] = path[i]
  BY Appended, PathFacts
<1>2. \A i \in from..to : HasMessage(path'[i]) = HasMessage(path[i])
  BY <1>1
<1> QED BY <1>2 DEF Messages

LEMMA TokensKept ==
  ASSUME Types, NEW e \in Entries, path' = Append(path, e),
         NEW j \in Nat \ {0}, NEW to \in Nat, to <= Len(path)
  PROVE  Tokens(j, to)' = Tokens(j, to)
<1> DEFINE Sized == {i \in j..to : IsMessageEntry(path[i])}
           SizedNext == {i \in j..to : IsMessageEntry(path'[i])}
<1>1. \A i \in j..to : path'[i] = path[i]
  BY Appended, PathFacts
<1>2. SizedNext = Sized
  BY <1>1
<1>3. [i \in SizedNext |-> path'[i].size] = [i \in Sized |-> path[i].size]
  <2>1. \A i \in Sized : path'[i].size = path[i].size
    BY <1>1
  <2> HIDE DEF Sized, SizedNext
  <2> QED BY <1>2, <2>1
<1>4. Tokens(j, to) = SumFunction([i \in Sized |-> path[i].size])
  BY DEF Tokens
<1>5. Tokens(j, to)' = SumFunction([i \in SizedNext |-> path'[i].size])
  BY DEF Tokens
<1> HIDE DEF Sized, SizedNext
<1> QED BY <1>3, <1>4, <1>5

-----------------------------------------------------------------------------
(* Results behind a cut.                                                   *)

\* A cut in front of anything but a result, or in front of settings and custom messages
\* and such an entry, leaves results with their responses.
LEMMA CutIsWhole ==
  ASSUME Types, ResultsBehindCalls, NEW from \in 1..Len(path), NEW cut \in from..Len(path),
         ~IsResult(cut), path[cut].type # "setting",
         \A i \in from..(cut - 1) : ~IsResult(i)
  PROVE  Whole(from, Len(path))
<1> SUFFICES ASSUME NEW r \in from..Len(path), IsResult(r)
             PROVE  \E a \in from..r : path[a].type = "assistant"
  BY DEF Whole
<1>1. from \in Nat /\ cut \in Nat /\ r \in Nat /\ from >= 1 /\ cut >= from /\ Len(path) \in Nat
  BY PathFacts
<1>2. r > cut
  BY <1>1
<1>3. r \in 1..Len(path)
  BY <1>1
<1>4. PICK a \in 1..(r - 1) : Calls(a, r)
  BY <1>3 DEF ResultsBehindCalls
<1>5. a >= cut
  <2>1. SUFFICES ASSUME a < cut PROVE FALSE
    BY <1>1
  <2>2. cut \in (a + 1)..(r - 1)
    BY <1>1, <1>2, <2>1
  <2>3. path[cut].type \in {"toolResult", "setting"}
    BY <1>4, <2>2 DEF Calls
  <2> QED BY <2>3 DEF IsResult
<1>6. a \in from..r
  BY <1>1, <1>5
<1> QED BY <1>4, <1>6 DEF Calls

\* Behind the last compaction, every result has its response there.
LEMMA ResultsBehindCompaction ==
  ASSUME Types, ResultsBehindCalls, NEW r \in (LastCompaction + 1)..Len(path), IsResult(r)
  PROVE  \E a \in (LastCompaction + 1)..(r - 1) : Calls(a, r)
<1>1. LastCompaction \in 0..Len(path) /\ Len(path) \in Nat
  BY CompactionFacts, PathFacts
<1>2. r \in 1..Len(path)
  BY <1>1
<1>3. PICK a \in 1..(r - 1) : Calls(a, r)
  BY <1>2 DEF ResultsBehindCalls
<1>4. ASSUME a <= LastCompaction PROVE FALSE
  <2>1. LastCompaction # 0 /\ LastCompaction \in 1..Len(path)
    BY <1>1, <1>4
  <2>2. path[LastCompaction].type = "compaction"
    BY <2>1, CompactionFacts
  <2>3. a # LastCompaction
    BY <1>3, <2>2 DEF Calls
  <2>4. LastCompaction \in (a + 1)..(r - 1)
    BY <1>1, <1>4, <2>1, <2>3
  <2> QED BY <1>3, <2>2, <2>4 DEF Calls
<1>5. a \in (LastCompaction + 1)..(r - 1)
  BY <1>1, <1>4
<1> QED BY <1>3, <1>5

-----------------------------------------------------------------------------
(* A longer path.                                                          *)

LEMMA WholeKept ==
  ASSUME Types, NEW e \in Entries, path' = Append(path, e),
         NEW from \in Nat \ {0}, NEW to \in Nat, to <= Len(path), Whole(from, to)
  PROVE  Whole(from, to)'
<1>1. \A i \in from..to : path'[i] = path[i]
  BY Appended, PathFacts
<1> SUFFICES ASSUME NEW r \in from..to, IsResult(r)'
             PROVE  \E a \in from..r : path'[a].type = "assistant"
  BY DEF Whole
<1>2. IsResult(r)
  BY <1>1 DEF IsResult
<1>3. PICK a \in from..r : path[a].type = "assistant"
  BY <1>2 DEF Whole
<1>4. a \in from..to
  BY PathFacts
<1> QED BY <1>1, <1>3, <1>4

LEMMA CallsKept ==
  ASSUME Types, NEW e \in Entries, path' = Append(path, e),
         NEW r \in 1..(Len(path) + 1), NEW a \in 1..(r - 1), Calls(a, r)
  PROVE  Calls(a, r)'
<1>1. \A i \in 1..(r - 1) : path'[i] = path[i]
  BY Appended, PathFacts
<1>2. \A j \in (a + 1)..(r - 1) : j \in 1..(r - 1)
  BY PathFacts
<1> QED BY <1>1, <1>2 DEF Calls

\* A result whose response is there already may be appended, as may any other entry.
LEMMA ResultsBehindCallsKept ==
  ASSUME Types, ResultsBehindCalls, NEW e \in Entries, path' = Append(path, e),
         e.type = "toolResult" => \E a \in 1..Len(path) : Calls(a, Len(path) + 1)
  PROVE  ResultsBehindCalls'
<1>1. Len(path') = Len(path) + 1 /\ path'[Len(path) + 1] = e /\ Len(path) \in Nat
      /\ \A i \in 1..Len(path) : path'[i] = path[i]
  BY Appended, PathFacts
<1> SUFFICES ASSUME NEW r \in 1..(Len(path) + 1), IsResult(r)'
             PROVE  \E a \in 1..(r - 1) : Calls(a, r)'
  BY <1>1 DEF ResultsBehindCalls
<1>2. \E a \in 1..(r - 1) : Calls(a, r)
  <2>1. CASE r = Len(path) + 1
    <3>1. e.type = "toolResult"
      BY <1>1, <2>1 DEF IsResult
    <3>2. r - 1 = Len(path)
      BY <1>1, <2>1
    <3> QED BY <2>1, <3>1, <3>2
  <2>2. CASE r # Len(path) + 1
    <3>1. r \in 1..Len(path)
      BY <1>1, <2>2
    <3>2. IsResult(r)
      BY <1>1, <3>1 DEF IsResult
    <3> QED BY <3>1, <3>2 DEF ResultsBehindCalls
  <2> QED BY <2>1, <2>2
<1>3. PICK a \in 1..(r - 1) : Calls(a, r)
  BY <1>2
<1>4. Calls(a, r)'
  BY <1>3, CallsKept
<1> QED BY <1>4

LEMMA OldCompactionsKept ==
  ASSUME Types, CompactionsSound, NEW e \in Entries, path' = Append(path, e), NEW c \in Compactions
  PROVE  /\ path'[c].kept \in 1..c
         /\ Whole(path[c].kept, c - 1)'
         /\ (\A d \in Compactions' : c <= d) => Told(path[c].kept, path[c].summary, path[c].files)'
<1>1. c \in 1..Len(path) /\ path'[c] = path[c] /\ Len(path) \in Nat
  BY CompactionFacts, Appended, PathFacts
<1>2. path[c].kept \in 1..c /\ Whole(path[c].kept, c - 1)
  BY DEF CompactionsSound
<1>3. path[c].kept \in Nat \ {0} /\ c - 1 \in Nat /\ c - 1 <= Len(path)
  BY <1>1, <1>2
<1>4. PICK k \in Nat \ {0} : k = path[c].kept
  BY <1>3
<1>5. Whole(k, c - 1)'
  BY <1>2, <1>3, <1>4, WholeKept
<1>6. ASSUME \A d \in Compactions' : c <= d
      PROVE  Told(path[c].kept, path[c].summary, path[c].files)'
  <2>1. Compactions \subseteq Compactions'
    BY CompactionsAppended
  <2>2. Told(k, path[c].summary, path[c].files)
    BY <1>4, <1>6, <2>1 DEF CompactionsSound
  <2>3. k - 1 \in Nat /\ k - 1 <= Len(path) /\ 1 \in Nat \ {0}
    BY <1>1, <1>2, <1>4
  <2>4. Messages(1, k - 1)' = Messages(1, k - 1)
    BY <2>3, MessagesKept
  <2>5. path'[c].kept = k /\ path'[c].summary = path[c].summary /\ path'[c].files = path[c].files
    BY <1>1, <1>4
  <2> QED BY <2>2, <2>4, <2>5 DEF Told
<1>7. Whole(path[c].kept, c - 1)'
  BY <1>1, <1>4, <1>5
<1> QED BY <1>1, <1>2, <1>6, <1>7

-----------------------------------------------------------------------------
(* The steps.                                                              *)

LEMMA InitInv == Init => Inv
<1> SUFFICES ASSUME Init PROVE Inv
  OBVIOUS
<1>1. path = <<>> /\ Len(path) = 0 /\ path \in Seq(Entries)
  BY DEF Init
<1>2. pending = None
  BY DEF Init
<1>3. None \in Preparations /\ None.previous = 0 /\ None.upTo = 0
  BY DEF None, Preparations
<1>4. Types
  BY <1>1, <1>2, <1>3 DEF Types
<1>5. ResultsBehindCalls
  BY <1>1 DEF ResultsBehindCalls
<1>6. CompactionsSound
  <2>1. Compactions = {}
    BY <1>1, <1>4, CompactionFacts
  <2> QED BY <2>1 DEF CompactionsSound
<1> QED BY <1>2, <1>4, <1>5, <1>6 DEF Inv, PendingSound, BudgetKept

LEMMA AppendKeepsPending ==
  ASSUME Inv, NEW e \in Entries, path' = Append(path, e), pending' = pending,
         pending # None, e.type \in {"bash", "custom", "setting"}
  PROVE  PendingSound' /\ BudgetKept'
<1>1. Types /\ PendingSound /\ BudgetKept
  BY DEF Inv
<1>2. /\ Len(path') = Len(path) + 1 /\ path'[Len(path) + 1] = e /\ Len(path) \in Nat
      /\ \A i \in 1..Len(path) : path'[i] = path[i]
  BY <1>1, Appended, PathFacts
<1>3. e.type # "toolResult" /\ e.type # "compaction"
  OBVIOUS
<1>4. PICK k \in 1..Len(path) : k = pending.firstKept
  BY <1>1 DEF PendingSound
<1>5. k \in Nat \ {0} /\ k - 1 \in Nat /\ k - 1 <= Len(path) /\ k <= Len(path)
  BY <1>2
<1>6. PICK from \in Nat \ {0} : from = pending.previous + 1
  BY <1>1 DEF Types, Preparations
<1>7. Messages(1, k - 1)' = Messages(1, k - 1) /\ Messages(from, k - 1)' = Messages(from, k - 1)
  BY <1>1, <1>5, MessagesKept
<1>8. PendingSound'
  <2>1. pending'.firstKept \in 1..Len(path')
    BY <1>2, <1>4
  <2>2. Whole(k, Len(path))'
    <3>1. Whole(k, Len(path))
      BY <1>1, <1>4 DEF PendingSound
    <3>2. PICK n \in Nat : n = Len(path)
      BY <1>2
    <3>3. Whole(k, n)'
      BY <1>1, <1>5, <3>1, <3>2, WholeKept
    <3> SUFFICES ASSUME NEW r \in k..Len(path'), IsResult(r)'
                 PROVE  \E a \in k..r : path'[a].type = "assistant"
      BY DEF Whole
    <3>4. r # Len(path) + 1
      BY <1>2, <1>3 DEF IsResult
    <3>5. r \in k..n
      BY <1>2, <1>5, <3>2, <3>4
    <3> QED BY <3>3, <3>5 DEF Whole
  <2>3. Compactions' = Compactions
    BY <1>1, <1>3, CompactionsAppended
  <2>4. Compactions = {} =>
          pending.previous = 0 /\ Messages(1, k - 1) \subseteq pending.history \cup pending.prefix
    BY <1>1, <1>4 DEF PendingSound
  <2>5. Messages(1, pending.firstKept - 1)' = Messages(1, k - 1)'
    BY <1>4
  <2>6. Whole(pending.firstKept, Len(path))'
    BY <1>4, <2>2
  <2> QED BY <1>7, <2>1, <2>3, <2>4, <2>5, <2>6 DEF PendingSound
<1>9. BudgetKept'
  <2>1. PICK n \in Nat : n = pending.upTo /\ n <= Len(path)
    BY <1>1 DEF Types, Preparations
  <2> DEFINE Sized == {i \in Messages(k, n) : IsMessageEntry(path[i])}
  <2>2. Messages(from, k - 1) = {} \/ \A i, j \in Sized : i < j => Tokens(j, n) < KeepRecent
    BY <1>1, <1>4, <1>6, <2>1 DEF BudgetKept
  <2>3. Messages(k, n)' = Messages(k, n)
    BY <1>1, <1>5, <2>1, MessagesKept
  <2>4. \A i \in Messages(k, n) : path'[i] = path[i] /\ i \in Nat \ {0}
    <3>1. \A i \in Messages(k, n) : i \in k..n
      BY DEF Messages
    <3>2. \A i \in k..n : i \in 1..Len(path)
      BY <1>2, <1>5, <2>1
    <3> QED BY <1>2, <3>1, <3>2
  <2>5. Sized' = Sized
    BY <2>3, <2>4
  <2>6. \A j \in Sized : Tokens(j, n)' = Tokens(j, n)
    <3>1. \A j \in Sized : j \in Nat \ {0}
      BY <2>4
    <3> HIDE DEF Sized
    <3> QED BY <1>1, <2>1, <3>1, TokensKept
  <2>7. Sized' = {i \in Messages(k, n)' : IsMessageEntry(path'[i])}
    OBVIOUS
  <2> HIDE DEF Sized
  <2> QED BY <1>4, <1>6, <1>7, <2>1, <2>2, <2>5, <2>6, <2>7 DEF BudgetKept
<1> QED BY <1>8, <1>9

LEMMA AppendKeepsInv ==
  ASSUME Inv, NEW e \in Entries, path' = Append(path, e), pending' = pending,
         e.type # "compaction",
         e.type = "toolResult" => \E a \in 1..Len(path) : Calls(a, Len(path) + 1),
         pending # None => e.type \in {"bash", "custom", "setting"}
  PROVE  Inv'
<1>1. Types /\ ResultsBehindCalls /\ CompactionsSound
  BY DEF Inv
<1>2. path' \in Seq(Entries) /\ Len(path') = Len(path) + 1 /\ Len(path) \in Nat
  BY <1>1, Appended, PathFacts
<1>3. Types'
  <2>1. /\ pending' \in Preparations /\ pending.previous \in Nat /\ pending.previous <= Len(path)
        /\ pending.upTo \in Nat /\ pending.upTo <= Len(path)
    BY <1>1 DEF Types, Preparations
  <2>2. pending'.previous <= Len(path') /\ pending'.upTo <= Len(path')
    BY <1>2, <2>1
  <2> QED BY <1>2, <2>1, <2>2 DEF Types
<1>4. ResultsBehindCalls'
  BY <1>1, ResultsBehindCallsKept
<1>5. CompactionsSound'
  <2>1. Compactions' = Compactions
    BY <1>1, CompactionsAppended
  <2> SUFFICES ASSUME NEW c \in Compactions
               PROVE  /\ path'[c].kept \in 1..c
                      /\ Whole(path[c].kept, c - 1)'
                      /\ (\A d \in Compactions' : c <= d) =>
                           Told(path[c].kept, path[c].summary, path[c].files)'
    BY <2>1 DEF CompactionsSound
  <2> QED BY <1>1, OldCompactionsKept
<1>6. PendingSound' /\ BudgetKept'
  <2>1. CASE pending = None
    BY <2>1 DEF PendingSound, BudgetKept
  <2>2. CASE pending # None
    BY <2>2, AppendKeepsPending
  <2> QED BY <2>1, <2>2
<1> QED BY <1>3, <1>4, <1>5, <1>6 DEF Inv

LEMMA CutFacts ==
  ASSUME Types, NEW from \in 1..Len(path), CutPoints(from, Len(path)) # {}
  PROVE  /\ CutPoints(from, Len(path)) \subseteq from..Len(path)
         /\ Cut(from, Len(path)) \in CutPoints(from, Len(path))
         /\ \/ \A c \in CutPoints(from, Len(path)) : Cut(from, Len(path)) <= c
            \/ /\ Reached(from, Len(path)) # {}
               /\ \A i \in Reached(from, Len(path)) : i <= Cut(from, Len(path))
<1> DEFINE to == Len(path)
           points == CutPoints(from, to)
           reached == Reached(from, to)
           after == {c \in points : reached # {} /\ c >= Max(reached)}
<1>1. to \in Nat /\ from..to \subseteq Nat
  BY PathFacts
<1>2. points \subseteq from..to
  BY DEF CutPoints, Messages
<1>3. reached \subseteq from..to
  BY DEF Reached
<1>4. Cut(from, to) = Min(IF after = {} THEN points ELSE after)
  BY DEF Cut
<1>5. after \subseteq points
  OBVIOUS
<1> HIDE DEF to, points, reached
<1>6. CASE after = {}
  <2>1. points \in SUBSET Nat /\ points # {}
    BY <1>1, <1>2 DEF points, to
  <2>2. Cut(from, to) = Min(points)
    BY <1>4, <1>6
  <2>3. Min(points) \in points /\ \A c \in points : Min(points) <= c
    BY <2>1, MinFact
  <2> QED BY <1>2, <2>2, <2>3 DEF points, to
<1>7. CASE after # {}
  <2>1. after \in SUBSET Nat
    <3> HIDE DEF after
    <3> QED BY <1>1, <1>2, <1>5
  <2>2. Cut(from, to) = Min(after)
    BY <1>4, <1>7
  <2>3. Min(after) \in after
    <3> HIDE DEF after
    <3> QED BY <1>7, <2>1, MinFact
  <2>4. Cut(from, to) \in points /\ reached # {} /\ Cut(from, to) >= Max(reached)
    BY <2>2, <2>3
  <2>5. reached \in SUBSET (0..to)
    <3>1. from \in Nat
      BY PathFacts
    <3> QED BY <1>1, <1>3, <3>1
  <2>6. Max(reached) \in reached /\ \A i \in reached : Max(reached) >= i
    BY <1>1, <2>4, <2>5, MaxFact
  <2>7. \A i \in reached : i <= Cut(from, to)
    <3> SUFFICES ASSUME NEW i \in reached PROVE i <= Cut(from, to)
      OBVIOUS
    <3>1. i \in Nat /\ Max(reached) \in Nat /\ Cut(from, to) \in Nat
      BY <1>1, <1>2, <1>3, <2>4, <2>6
    <3>2. Max(reached) >= i
      BY <2>6
    <3> QED BY <2>4, <3>1, <3>2
  <2> QED BY <1>2, <2>4, <2>7 DEF points, reached, to
<1> QED BY <1>6, <1>7

LEMMA FirstKeptFacts ==
  ASSUME Types, NEW from \in 1..Len(path), NEW cut \in from..Len(path),
         cut = Cut(from, Len(path)), NEW k, k = FirstKept(from, Len(path))
  PROVE  k \in from..cut /\ \A j \in k..(cut - 1) : ~IsMessageEntry(path[j])
<1> DEFINE K == {i \in from..cut : \A j \in i..(cut - 1) : ~IsMessageEntry(path[j])}
<1>1. k = Min(K)
  BY DEF FirstKept
<1>2. cut \in K /\ K \in SUBSET Nat
  <2>1. cut \in Nat /\ from \in Nat /\ Len(path) \in Nat
    BY PathFacts
  <2>2. cut..(cut - 1) = {}
    BY <2>1
  <2>3. from..cut \subseteq Nat /\ cut \in from..cut
    BY <2>1
  <2> QED BY <2>2, <2>3
<1>3. Min(K) \in K
  <2> HIDE DEF K
  <2> QED BY <1>2, MinFact
<1> QED BY <1>1, <1>3

LEMMA TurnStartFacts ==
  ASSUME Types, NEW from \in 1..Len(path), NEW index \in from..Len(path)
  PROVE  TurnStart(from, index) = 0 \/ TurnStart(from, index) \in from..index
<1> DEFINE starts == {i \in from..index : StartsTurn(path[i])}
<1>1. TurnStart(from, index) = IF starts = {} THEN 0 ELSE Max(starts)
  BY DEF TurnStart
<1>2. starts \subseteq from..index
  OBVIOUS
<1>3. index \in Nat /\ from \in Nat
  BY PathFacts
<1> HIDE DEF starts
<1>4. starts \in SUBSET (0..index)
  BY <1>2, <1>3
<1>5. CASE starts = {}
  BY <1>1, <1>5
<1>6. CASE starts # {}
  <2>1. Max(starts) \in starts
    BY <1>3, <1>4, <1>6, MaxFact
  <2> QED BY <1>1, <1>2, <1>6, <2>1
<1> QED BY <1>5, <1>6

LEMMA TokensType ==
  ASSUME Types, NEW j \in 1..Len(path)
  PROVE  Tokens(j, Len(path)) \in Nat
<1> DEFINE S == {i \in j..Len(path) : IsMessageEntry(path[i])}
<1>1. j \in Int /\ Len(path) \in Int
  BY PathFacts
<1>2. IsFiniteSet(S)
  <2>1. IsFiniteSet(j..Len(path)) /\ S \in SUBSET (j..Len(path))
    BY <1>1, FS_Interval
  <2> HIDE DEF S
  <2> QED BY <2>1, FS_Subset
<1>3. \A i \in S : path[i].size \in Nat
  <2> SUFFICES ASSUME NEW i \in S PROVE path[i].size \in Nat
    OBVIOUS
  <2>1. i \in 1..Len(path)
    BY PathFacts
  <2> QED BY <2>1, PathFacts DEF Entries
<1> DEFINE f == [i \in S |-> path[i].size]
<1>4. Tokens(j, Len(path)) = SumFunction(f)
  BY DEF Tokens
<1>5. f \in [S -> Nat]
  <2> HIDE DEF S
  <2> QED BY <1>3
<1> HIDE DEF S, f
<1> QED BY <1>2, <1>4, <1>5, SumIsNat

-----------------------------------------------------------------------------
(* What is prepared.                                                       *)

\* The messages from `from` to `first` are shared out between history and turn prefix.
LEMMA Preparing ==
  ASSUME Types, ResultsBehindCalls, path # <<>>, path[Len(path)].type # "compaction"
  PROVE  /\ Preparation \in Preparations
         /\ Preparation.previous = LastCompaction /\ Preparation.upTo = Len(path)
         /\ LastCompaction + 1 \in 1..Len(path)
         /\ Preparation.firstKept \in (LastCompaction + 1)..Len(path)
         /\ Messages(LastCompaction + 1, Preparation.firstKept - 1)
              \subseteq Preparation.history \cup Preparation.prefix
         /\ Preparation.firstKept =
              IF CutPoints(LastCompaction + 1, Len(path)) = {} THEN LastCompaction + 1
              ELSE FirstKept(LastCompaction + 1, Len(path))
<1> DEFINE from == LastCompaction + 1
           to == Len(path)
           first == IF CutPoints(from, to) = {} THEN from ELSE FirstKept(from, to)
           turn == IF CutPoints(from, to) = {} \/ path[first].type = "user" THEN 0
                   ELSE TurnStart(from, first)
           history == Messages(from, (IF turn # 0 THEN turn ELSE first) - 1)
           prefix == IF turn # 0 THEN Messages(turn, first - 1) ELSE {}
<1>1. LastCompaction \in 0..to /\ to \in Nat /\ to # 0
  BY CompactionFacts, PathFacts, EmptySeq DEF Types
<1>2. from \in 1..to
  <2>1. ASSUME LastCompaction = to PROVE FALSE
    <3>1. LastCompaction # 0
      BY <1>1, <2>1
    <3>2. path[LastCompaction].type = "compaction"
      BY <3>1, CompactionFacts
    <3> QED BY <2>1, <3>2
  <2> QED BY <1>1, <2>1
<1>3. Preparation = [firstKept |-> first, history |-> history, split |-> turn # 0,
                     prefix |-> prefix, previous |-> LastCompaction, upTo |-> to]
  BY DEF Preparation
<1>4. first \in from..to
  <2>1. CASE CutPoints(from, to) = {}
    BY <1>1, <1>2, <2>1
  <2>2. CASE CutPoints(from, to) # {}
    <3>1. PICK cut : cut = Cut(from, to)
      OBVIOUS
    <3>2. cut \in from..to
      BY <1>2, <2>2, <3>1, CutFacts
    <3>3. FirstKept(from, to) \in from..cut
      BY <1>2, <3>1, <3>2, FirstKeptFacts
    <3> QED BY <1>1, <2>2, <3>2, <3>3
  <2> QED BY <2>1, <2>2
<1>5. turn = 0 \/ turn \in from..first
  BY <1>2, <1>4, TurnStartFacts
<1> HIDE DEF first, turn
<1>6. from \in Nat /\ first \in Nat /\ turn \in Nat
  BY <1>1, <1>2, <1>4, <1>5
<1>7. history \in SUBSET Nat /\ prefix \in SUBSET Nat
  BY <1>6 DEF Messages
<1>8. Messages(from, first - 1) \subseteq history \cup prefix
  <2>1. CASE turn = 0
    BY <2>1
  <2>2. CASE turn # 0
    <3> SUFFICES ASSUME NEW i \in Messages(from, first - 1)
                 PROVE  i \in Messages(from, turn - 1) \/ i \in Messages(turn, first - 1)
      BY <2>2
    <3>1. i \in from..(first - 1) /\ HasMessage(path[i])
      BY DEF Messages
    <3>2. i \in from..(turn - 1) \/ i \in turn..(first - 1)
      BY <1>6, <3>1
    <3> QED BY <3>1, <3>2 DEF Messages
  <2> QED BY <2>1, <2>2
<1> HIDE DEF history, prefix
<1>9. Preparation \in Preparations
  <2>1. (turn # 0) \in BOOLEAN /\ LastCompaction \in Nat /\ to \in Nat
    BY <1>1
  <2> QED BY <1>3, <1>6, <1>7, <2>1 DEF Preparations
<1>10. Preparation.firstKept = first /\ Preparation.previous = LastCompaction
       /\ Preparation.history = history /\ Preparation.prefix = prefix /\ Preparation.upTo = to
  BY <1>3
<1> QED BY <1>2, <1>4, <1>8, <1>9, <1>10 DEF first

\* With nowhere to cut there are no messages at all behind the last compaction.
LEMMA NoCutPoints ==
  ASSUME Types, ResultsBehindCalls, LastCompaction + 1 \in 1..Len(path),
         NEW i \in (LastCompaction + 1)..Len(path), HasMessage(path[i]),
         \A c \in CutPoints(LastCompaction + 1, Len(path)) : c > i
  PROVE  FALSE
<1>1. LastCompaction \in Nat /\ Len(path) \in Nat
  BY CompactionFacts, PathFacts
<1>2. i \notin CutPoints(LastCompaction + 1, Len(path))
  BY <1>1
<1>3. IsResult(i)
  BY <1>2 DEF CutPoints, Messages, IsResult
<1>4. PICK a \in (LastCompaction + 1)..(i - 1) : Calls(a, i)
  BY <1>3, ResultsBehindCompaction
<1>5. path[a].type = "assistant"
  BY <1>4 DEF Calls
<1>6. a \in (LastCompaction + 1)..Len(path) /\ ~(a > i)
  BY <1>1
<1>7. a \in CutPoints(LastCompaction + 1, Len(path))
  BY <1>5, <1>6 DEF CutPoints, Messages, HasMessage, IsMessageEntry
<1> QED BY <1>6, <1>7

LEMMA PreparedIsWhole ==
  ASSUME Types, ResultsBehindCalls, path # <<>>, path[Len(path)].type # "compaction"
  PROVE  Whole(Preparation.firstKept, Len(path))
<1> DEFINE from == LastCompaction + 1
<1>1. from \in 1..Len(path)
  BY Preparing
<1>2. LastCompaction \in Nat /\ Len(path) \in Nat
  BY CompactionFacts, PathFacts
<1>3. CASE CutPoints(from, Len(path)) = {}
  <2>1. Preparation.firstKept = from
    BY <1>3, Preparing
  <2>2. \A r \in from..Len(path) : ~IsResult(r)
    <3> SUFFICES ASSUME NEW r \in from..Len(path), IsResult(r) PROVE FALSE
      OBVIOUS
    <3>1. HasMessage(path[r])
      BY DEF IsResult, HasMessage, IsMessageEntry
    <3> QED BY <1>1, <1>3, <3>1, NoCutPoints
  <2> QED BY <2>1, <2>2 DEF Whole
<1>4. CASE CutPoints(from, Len(path)) # {}
  <2>1. PICK cut : cut = Cut(from, Len(path))
    OBVIOUS
  <2>2. cut \in CutPoints(from, Len(path)) /\ cut \in from..Len(path)
    BY <1>1, <1>4, <2>1, CutFacts
  <2>3. PICK k : k = FirstKept(from, Len(path))
    OBVIOUS
  <2>4. k \in from..cut /\ \A j \in k..(cut - 1) : ~IsMessageEntry(path[j])
    BY <1>1, <2>1, <2>2, <2>3, FirstKeptFacts
  <2>5. ~IsResult(cut) /\ path[cut].type # "setting"
    BY <2>2 DEF CutPoints, Messages, IsResult, HasMessage, IsMessageEntry
  <2>6. \A j \in k..(cut - 1) : ~IsResult(j)
    BY <2>4 DEF IsResult, IsMessageEntry
  <2>7. k \in 1..Len(path) /\ cut \in k..Len(path)
    BY <1>2, <2>2, <2>4
  <2>8. Whole(k, Len(path))
    BY <2>5, <2>6, <2>7, CutIsWhole
  <2>9. Preparation.firstKept = k
    BY <1>4, <2>3, Preparing
  <2> QED BY <2>8, <2>9
<1> QED BY <1>3, <1>4

\* Behind the cut every entry costs, with what follows it, less than the budget.
LEMMA PreparedFits ==
  ASSUME Types, ResultsBehindCalls, path # <<>>, path[Len(path)].type # "compaction",
         NEW k, k = Preparation.firstKept
  PROVE  \/ Messages(LastCompaction + 1, k - 1) = {}
         \/ \A i, j \in {i \in Messages(k, Len(path)) : IsMessageEntry(path[i])} :
              i < j => Tokens(j, Len(path)) < KeepRecent
<1> DEFINE from == LastCompaction + 1
           points == CutPoints(from, Len(path))
<1>1. from \in 1..Len(path) /\ k \in from..Len(path)
  BY Preparing
<1>2. LastCompaction \in Nat /\ Len(path) \in Nat /\ k \in Nat
  BY <1>1, CompactionFacts, PathFacts
\* There is no message before the first cut point.
<1>3. ASSUME \A c \in points : k <= c
      PROVE  Messages(from, k - 1) = {}
  <2> SUFFICES ASSUME NEW i \in Messages(from, k - 1) PROVE FALSE
    OBVIOUS
  <2>1. i \in from..(k - 1) /\ HasMessage(path[i])
    BY DEF Messages
  <2>2. i \in from..Len(path) /\ i < k
    BY <1>1, <1>2, <2>1
  <2>3. points \subseteq from..Len(path)
    BY DEF CutPoints, Messages
  <2>4. \A c \in points : c > i
    <3> SUFFICES ASSUME NEW c \in points PROVE c > i
      OBVIOUS
    <3>1. c \in Nat /\ i \in Nat /\ k <= c
      BY <1>2, <1>3, <2>2, <2>3
    <3> QED BY <1>2, <2>2, <3>1
  <2> HIDE DEF points
  <2>5. \A c \in CutPoints(LastCompaction + 1, Len(path)) : c > i
    BY <2>4 DEF points
  <2>6. LastCompaction + 1 \in 1..Len(path) /\ i \in (LastCompaction + 1)..Len(path)
    BY <1>1, <2>2
  <2> QED BY <2>1, <2>5, <2>6, NoCutPoints
<1>4. CASE points = {}
  BY <1>3, <1>4
<1>5. CASE points # {}
  <2>1. PICK cut : cut = Cut(from, Len(path))
    OBVIOUS
  <2>2. cut \in points /\ points \subseteq from..Len(path)
    BY <1>1, <1>5, <2>1, CutFacts
  <2>3. cut \in from..Len(path) /\ cut \in Nat
    BY <1>2, <2>2
  <2>4. k = FirstKept(from, Len(path))
    BY <1>5, Preparing
  <2>5. k \in from..cut /\ \A j \in k..(cut - 1) : ~IsMessageEntry(path[j])
    BY <1>1, <2>1, <2>3, <2>4, FirstKeptFacts
  <2>6. CASE \A c \in points : cut <= c
    <3>1. \A c \in points : k <= c
      <4> SUFFICES ASSUME NEW c \in points PROVE k <= c
        OBVIOUS
      <4>1. c \in Nat /\ cut <= c
        BY <1>2, <2>2, <2>6
      <4> QED BY <1>2, <2>3, <2>5, <4>1
    <3> QED BY <1>3, <3>1
  <2>7. CASE /\ Reached(from, Len(path)) # {}
             /\ \A i \in Reached(from, Len(path)) : i <= cut
    <3> SUFFICES ASSUME NEW i, NEW j, i < j,
                        i \in Messages(k, Len(path)), IsMessageEntry(path[i]),
                        j \in Messages(k, Len(path)), IsMessageEntry(path[j])
                 PROVE  Tokens(j, Len(path)) < KeepRecent
      OBVIOUS
    <3>1. i \in k..Len(path) /\ j \in k..Len(path)
      BY DEF Messages
    <3>2. i >= cut
      BY <1>2, <2>3, <2>5, <3>1
    <3>3. j > cut /\ j \in from..Len(path) /\ j \in 1..Len(path)
      BY <1>1, <1>2, <2>3, <3>1, <3>2
    <3>4. j \notin Reached(from, Len(path))
      BY <1>2, <2>3, <2>7, <3>3
    <3>5. ~(Tokens(j, Len(path)) >= KeepRecent)
      BY <3>3, <3>4 DEF Reached
    <3>6. Tokens(j, Len(path)) \in Nat /\ KeepRecent \in Nat
      BY <3>3, TokensType, CompactionBounds
    <3> QED BY <3>5, <3>6
  <2> QED BY <1>1, <1>5, <2>1, <2>6, <2>7, CutFacts
<1> QED BY <1>4, <1>5

LEMMA PrepareKeepsInv == ASSUME Inv, Prepare PROVE Inv'
<1>1. Types /\ ResultsBehindCalls /\ CompactionsSound /\ path' = path /\ pending' = Preparation
      /\ path # <<>> /\ path[Len(path)].type # "compaction"
  BY DEF Inv, Prepare
<1>2. /\ LastCompaction \in 0..Len(path) /\ Len(path) \in Nat
      /\ Compactions = {} => LastCompaction = 0
  BY <1>1, CompactionFacts, PathFacts
<1>3. PICK p : p = Preparation
  OBVIOUS
<1>4. PICK k : k = p.firstKept
  OBVIOUS
<1>5. /\ p \in Preparations /\ p.previous = LastCompaction /\ p.upTo = Len(path)
      /\ k \in (LastCompaction + 1)..Len(path)
      /\ Messages(LastCompaction + 1, k - 1) \subseteq p.history \cup p.prefix
  BY <1>1, <1>3, <1>4, Preparing
<1>6. Types'
  BY <1>1, <1>2, <1>3, <1>5 DEF Types
<1>7. ResultsBehindCalls'
  BY <1>1 DEF ResultsBehindCalls, IsResult, Calls
<1>8. Compactions' = Compactions
  BY <1>1 DEF Compactions
<1>9. CompactionsSound'
  BY <1>1, <1>8 DEF CompactionsSound, Whole, Told, IsResult, Messages
<1>10. Whole(k, Len(path))
  BY <1>1, <1>3, <1>4, PreparedIsWhole
<1>11. PendingSound'
  <2>1. k \in 1..Len(path)
    BY <1>2, <1>5
  <2>2. Whole(k, Len(path))'
    BY <1>1, <1>10 DEF Whole, IsResult
  <2>3. Compactions = {} => p.previous = 0 /\ Messages(1, k - 1)' \subseteq p.history \cup p.prefix
    <3>1. Messages(1, k - 1)' = Messages(1, k - 1)
      BY <1>1 DEF Messages
    <3>2. Compactions = {} => LastCompaction + 1 = 1
      BY <1>2
    <3> QED BY <1>2, <1>5, <3>1, <3>2
  <2>4. pending' = p /\ pending'.firstKept = k
    BY <1>1, <1>3, <1>4
  <2> QED BY <1>1, <1>8, <2>1, <2>2, <2>3, <2>4 DEF PendingSound
<1>12. BudgetKept'
  <2>1. \/ Messages(LastCompaction + 1, k - 1) = {}
        \/ \A i, j \in {i \in Messages(k, Len(path)) : IsMessageEntry(path[i])} :
             i < j => Tokens(j, Len(path)) < KeepRecent
    BY <1>1, <1>3, <1>4, PreparedFits
  <2>2. PICK from : from = LastCompaction + 1
    OBVIOUS
  <2>3. Messages(from, k - 1)' = Messages(from, k - 1)
    BY <1>1 DEF Messages
  <2>4. Messages(k, Len(path))' = Messages(k, Len(path))
    BY <1>1 DEF Messages
  <2>5. \A j : Tokens(j, Len(path))' = Tokens(j, Len(path))
    BY <1>1 DEF Tokens
  <2>6. pending'.firstKept = k /\ pending'.previous + 1 = from /\ pending'.upTo = Len(path)
    BY <1>1, <1>3, <1>4, <1>5, <2>2
  <2> QED BY <1>1, <2>1, <2>2, <2>3, <2>4, <2>5, <2>6 DEF BudgetKept
<1> QED BY <1>6, <1>7, <1>9, <1>11, <1>12 DEF Inv

LEMMA CompleteKeepsInv == ASSUME Inv, Complete PROVE Inv'
<1>1. Types /\ ResultsBehindCalls /\ CompactionsSound /\ PendingSound
  BY DEF Inv
<1> DEFINE e == [type |-> "compaction", size |-> 0, calls |-> 0, kept |-> pending.firstKept,
                 summary |-> Summary(pending), files |-> FileOperations(pending)]
<1>2. path' = Append(path, e) /\ pending' = None /\ pending # None
  BY DEF Complete
<1>3. PICK k \in 1..Len(path) : k = pending.firstKept
  BY <1>1, <1>2 DEF PendingSound
<1>4. Len(path) \in Nat /\ k \in Nat
  BY <1>1, PathFacts
<1>5. /\ pending.history \in SUBSET Nat /\ pending.prefix \in SUBSET Nat
      /\ pending.previous \in 0..Len(path)
  BY <1>1, <1>4 DEF Types, Preparations
<1>6. PreviousSummary(pending) \in SUBSET Nat /\ PreviousFiles(pending) \in SUBSET Nat
  <2>1. CASE pending.previous = 0
    BY <2>1 DEF PreviousSummary, PreviousFiles
  <2>2. CASE pending.previous # 0
    <3>1. pending.previous \in 1..Len(path)
      BY <1>4, <1>5, <2>2
    <3>2. path[pending.previous] \in Entries
      BY <1>1, <3>1, PathFacts
    <3> QED BY <2>2, <3>2 DEF PreviousSummary, PreviousFiles, Entries
  <2> QED BY <2>1, <2>2
<1>7. /\ Summary(pending) \in SUBSET Nat /\ FileOperations(pending) \in SUBSET Nat
      /\ pending.history \cup pending.prefix \subseteq Summary(pending) \cap FileOperations(pending)
  BY <1>5, <1>6 DEF Summary, FileOperations
<1>8. e \in Entries /\ e.type = "compaction" /\ e.kept = k
      /\ e.summary = Summary(pending) /\ e.files = FileOperations(pending)
  BY <1>3, <1>4, <1>7 DEF Entries, EntryTypes
<1> HIDE DEF e
<1>9. /\ path' \in Seq(Entries) /\ Len(path') = Len(path) + 1 /\ path'[Len(path) + 1] = e
      /\ \A i \in 1..Len(path) : path'[i] = path[i]
  BY <1>1, <1>2, <1>8, Appended
<1>10. Types'
  <2>1. None \in Preparations /\ None.previous = 0 /\ None.upTo = 0
    BY DEF None, Preparations
  <2> QED BY <1>2, <1>4, <1>9, <2>1 DEF Types
<1>11. ResultsBehindCalls'
  BY <1>1, <1>2, <1>8, ResultsBehindCallsKept
<1>12. Compactions' = Compactions \cup {Len(path) + 1}
  BY <1>1, <1>2, <1>8, CompactionsAppended
<1>13. CompactionsSound'
  <2> SUFFICES ASSUME NEW c \in Compactions'
               PROVE  /\ path'[c].kept \in 1..c
                      /\ Whole(path[c].kept, c - 1)'
                      /\ (\A d \in Compactions' : c <= d) =>
                           Told(path[c].kept, path[c].summary, path[c].files)'
    BY DEF CompactionsSound
  <2>1. CASE c \in Compactions
    BY <1>1, <1>2, <1>8, <2>1, OldCompactionsKept
  <2>2. CASE c = Len(path) + 1
    <3>1. path'[c].kept = k /\ path'[c].summary = Summary(pending)
          /\ path'[c].files = FileOperations(pending)
      BY <1>8, <1>9, <2>2
    <3>2. PICK n \in Nat : n = Len(path)
      BY <1>4
    <3>3. Whole(k, n)
      BY <1>1, <1>2, <1>3, <3>2 DEF PendingSound
    <3>4. k \in Nat \ {0} /\ n <= Len(path)
      BY <1>4, <3>2
    <3>5. Whole(k, n)'
      BY <1>1, <1>2, <1>8, <3>2, <3>3, <3>4, WholeKept
    <3>6. c - 1 = n
      BY <1>4, <2>2, <3>2
    <3>7. Whole(path[c].kept, c - 1)'
      BY <3>1, <3>5, <3>6
    <3>8. ASSUME \A d \in Compactions' : c <= d
          PROVE  Told(path[c].kept, path[c].summary, path[c].files)'
      <4>1. Compactions = {}
        <5> SUFFICES ASSUME NEW d \in Compactions PROVE FALSE
          OBVIOUS
        <5>1. d \in 1..Len(path) /\ c <= d
          BY <1>1, <1>12, <3>8, CompactionFacts
        <5> QED BY <1>4, <2>2, <5>1
      <4>2. Messages(1, k - 1) \subseteq pending.history \cup pending.prefix
        BY <1>1, <1>2, <1>3, <4>1 DEF PendingSound
      <4>3. k - 1 \in Nat /\ k - 1 <= Len(path) /\ 1 \in Nat \ {0}
        BY <1>4
      <4>4. Messages(1, k - 1)' = Messages(1, k - 1)
        BY <1>1, <1>2, <1>8, <4>3, MessagesKept
      <4>5. Messages(1, k - 1)' \subseteq Summary(pending) \cap FileOperations(pending)
        BY <1>7, <4>2, <4>4
      <4> QED BY <3>1, <4>5 DEF Told
    <3>9. k \in 1..c
      BY <1>4, <2>2
    <3> QED BY <3>1, <3>7, <3>8, <3>9
  <2> QED BY <1>12, <2>1, <2>2
<1>14. PendingSound' /\ BudgetKept'
  BY <1>2 DEF PendingSound, BudgetKept
<1> QED BY <1>10, <1>11, <1>13, <1>14 DEF Inv

\* A result is appended behind its response: AppendToolResult looks for it.
LEMMA ResultHasResponse ==
  ASSUME Types, NEW size \in Sizes, AppendToolResult(size)
  PROVE  \E a \in 1..Len(path) : Calls(a, Len(path) + 1)
<1> DEFINE responses == {i \in DOMAIN path : path[i].type = "assistant"}
           caller == Max({0} \cup responses)
<1>1. /\ caller # 0
      /\ \A i \in {i \in (caller + 1)..Len(path) : path[i].type # "setting"} : path[i].type = "toolResult"
  BY DEF AppendToolResult
<1>2. Len(path) \in Nat /\ {0} \cup responses \in SUBSET (0..Len(path))
  BY PathFacts
<1>3. caller \in {0} \cup responses
  <2> HIDE DEF responses
  <2> QED BY <1>2, MaxFact
<1> HIDE DEF caller
<1>4. caller \in 1..Len(path) /\ path[caller].type = "assistant"
  BY <1>1, <1>3, PathFacts
<1>5. \A j \in (caller + 1)..((Len(path) + 1) - 1) : path[j].type \in {"toolResult", "setting"}
  <2>1. (Len(path) + 1) - 1 = Len(path)
    BY <1>2
  <2> QED BY <1>1, <2>1
<1> QED BY <1>4, <1>5 DEF Calls

LEMMA EntryType ==
  ASSUME NEW type \in EntryTypes, NEW size \in Nat, NEW calls \in Nat
  PROVE  Entry(type, size, calls) \in Entries /\ Entry(type, size, calls).type = type
  BY DEF Entry, Entries

LEMMA NextKeepsInv == Inv /\ [Next]_vars => Inv'
<1> SUFFICES ASSUME Inv, [Next]_vars PROVE Inv'
  OBVIOUS
<1>1. Types /\ Sizes \subseteq Nat /\ MaxCalls \in Nat
  BY CompactionBounds DEF Inv
<1>2. ASSUME NEW size \in Sizes, NEW type \in {"user", "bash"}, AppendPrompt(type, size)
      PROVE  Inv'
  <2>1. Entry(type, size, 0) \in Entries /\ Entry(type, size, 0).type = type
    BY <1>1, EntryType DEF EntryTypes
  <2>2. path' = Append(path, Entry(type, size, 0)) /\ pending' = pending
        /\ (pending # None => type = "bash")
    BY <1>2 DEF AppendPrompt, Room
  <2> QED BY <2>1, <2>2, AppendKeepsInv
<1>3. ASSUME NEW size \in Sizes, NEW calls \in 0..MaxCalls, AppendAssistant(size, calls)
      PROVE  Inv'
  <2>1. calls \in Nat
    BY <1>1
  <2>2. Entry("assistant", size, calls) \in Entries /\ Entry("assistant", size, calls).type = "assistant"
    BY <1>1, <2>1, EntryType DEF EntryTypes
  <2>3. path' = Append(path, Entry("assistant", size, calls)) /\ pending' = pending /\ pending = None
    BY <1>3 DEF AppendAssistant, Room
  <2> QED BY <2>2, <2>3, AppendKeepsInv
<1>4. ASSUME NEW size \in Sizes, AppendToolResult(size)
      PROVE  Inv'
  <2>1. Entry("toolResult", size, 0) \in Entries /\ Entry("toolResult", size, 0).type = "toolResult"
    BY <1>1, EntryType DEF EntryTypes
  <2>2. path' = Append(path, Entry("toolResult", size, 0)) /\ pending' = pending /\ pending = None
    BY <1>4 DEF AppendToolResult, Room
  <2>3. \E a \in 1..Len(path) : Calls(a, Len(path) + 1)
    BY <1>1, <1>4, ResultHasResponse
  <2> QED BY <2>1, <2>2, <2>3, AppendKeepsInv
<1>5. ASSUME NEW type \in {"custom", "setting"}, AppendOther(type)
      PROVE  Inv'
  <2>1. Entry(type, 0, 0) \in Entries /\ Entry(type, 0, 0).type = type
    BY EntryType DEF EntryTypes
  <2>2. path' = Append(path, Entry(type, 0, 0)) /\ pending' = pending
    BY <1>5 DEF AppendOther, Room
  <2> QED BY <2>1, <2>2, AppendKeepsInv
<1>6. ASSUME GiveUp PROVE Inv'
  <2>1. path' = path /\ pending' = None
    BY <1>6 DEF GiveUp
  <2>2. None \in Preparations /\ None.previous = 0 /\ None.upTo = 0
    BY DEF None, Preparations
  <2>3. Types'
    BY <1>1, <2>1, <2>2, PathFacts DEF Types
  <2>4. ResultsBehindCalls' /\ CompactionsSound'
    BY <2>1 DEF Inv, ResultsBehindCalls, CompactionsSound, Compactions, Calls, IsResult, Whole,
                Told, Messages
  <2> QED BY <2>1, <2>3, <2>4 DEF Inv, PendingSound, BudgetKept
<1>7. CASE UNCHANGED vars
  <2>1. path' = path /\ pending' = pending
    BY <1>7 DEF vars
  <2>2. Types' /\ ResultsBehindCalls' /\ CompactionsSound'
    BY <2>1 DEF Inv, Types, ResultsBehindCalls, CompactionsSound, Compactions, Calls, IsResult,
                Whole, Told, Messages
  <2>3. PendingSound'
    BY <2>1 DEF Inv, PendingSound, Compactions, IsResult, Whole, Messages
  <2>4. BudgetKept'
    <3>1. \A j, to : Tokens(j, to)' = Tokens(j, to)
      BY <2>1 DEF Tokens
    <3>2. \A from, to : Messages(from, to)' = Messages(from, to)
      BY <2>1 DEF Messages
    <3>3. PICK k : k = pending.firstKept
      OBVIOUS
    <3>4. PICK from : from = pending.previous + 1
      OBVIOUS
    <3>5. PICK n : n = pending.upTo
      OBVIOUS
    <3> QED BY <2>1, <3>1, <3>2, <3>3, <3>4, <3>5 DEF Inv, BudgetKept
  <2> QED BY <2>2, <2>3, <2>4 DEF Inv
<1> QED BY <1>2, <1>3, <1>4, <1>5, <1>6, <1>7, PrepareKeepsInv, CompleteKeepsInv DEF Next

LEMMA InvAlways == Spec => []Inv
<1>1. Init => Inv
  BY InitInv
<1>2. Inv /\ [Next]_vars => Inv'
  BY NextKeepsInv
<1> QED BY <1>1, <1>2, PTL DEF Spec

\* Of the path that is summarized, what is kept behind the first kept message fits in the
\* budget, for every budget, unless nothing that could be cut off was. Bash results recorded
\* while the summary is being written come on top (findCutPoint, prepareCompaction).
THEOREM KeptFitsBudget == Spec => []BudgetKept
<1>1. Inv => BudgetKept
  BY DEF Inv
<1> QED BY <1>1, InvAlways, PTL

LEMMA NotForgotten == Inv => NothingForgotten
<1> SUFFICES ASSUME Inv, Cardinality(Compactions) = 1,
                    NEW i \in Messages(1, LastCompaction), i \notin Context
             PROVE  i \in path[LastCompaction].summary \cap path[LastCompaction].files
  BY DEF NothingForgotten
<1>1. Types /\ CompactionsSound
  BY DEF Inv
<1>2. PICK c : Compactions = {c}
  BY <1>1, CompactionFacts, FS_Singleton
<1>3. LastCompaction = c /\ c \in 1..Len(path) /\ path[c].type = "compaction" /\ Len(path) \in Nat
  BY <1>1, <1>2, CompactionFacts, PathFacts
<1>4. PICK k \in 1..c : k = path[c].kept
  BY <1>1, <1>2 DEF CompactionsSound
<1>5. c \in Nat /\ k \in Nat
  BY <1>3
<1>6. Told(k, path[c].summary, path[c].files)
  BY <1>1, <1>2, <1>4, <1>5 DEF CompactionsSound
<1>7. i \in 1..c /\ HasMessage(path[i])
  BY <1>3 DEF Messages
<1>8. i # c
  BY <1>3, <1>7 DEF HasMessage, IsMessageEntry
<1>9. i \notin Messages(k, c - 1)
  BY <1>2, <1>3, <1>4 DEF Context
<1>10. i \notin k..(c - 1)
  BY <1>7, <1>9 DEF Messages
<1>11. i \in 1..(k - 1)
  BY <1>5, <1>7, <1>8, <1>10
<1> QED BY <1>3, <1>6, <1>7, <1>11 DEF Told, Messages

\* What has left the context when a path is compacted for the first time is in its summary
\* and in its lists of files, whatever was appended meanwhile (prepareCompaction, compact,
\* appendCompaction, buildSessionContext).
THEOREM FirstCompactionForgetsNothing == Spec => []NothingForgotten
  BY InvAlways, NotForgotten, PTL

LEMMA ResponsesKept == Inv => ResultsFollowCalls
<1> SUFFICES ASSUME Inv, NEW r \in Context, path[r].type = "toolResult"
             PROVE  Max({i \in 1..r : path[i].type = "assistant"}) \in Context
  BY DEF ResultsFollowCalls
<1>1. Types /\ ResultsBehindCalls /\ CompactionsSound
  BY DEF Inv
<1>2. LastCompaction \in 0..Len(path) /\ Len(path) \in Nat
  BY <1>1, CompactionFacts, PathFacts
<1> DEFINE responses == {i \in 1..r : path[i].type = "assistant"}
\* The last response before r is no further away than any other.
<1>3. ASSUME r \in 1..Len(path), NEW a \in 1..r, path[a].type = "assistant"
      PROVE  /\ Max(responses) \in a..r /\ HasMessage(path[Max(responses)])
             /\ path[Max(responses)].type # "compaction"
  <2>1. r \in Nat /\ responses \in SUBSET (0..r) /\ a \in responses
    BY <1>2, <1>3
  <2>2. Max(responses) \in responses /\ Max(responses) >= a
    <3> HIDE DEF responses
    <3> QED BY <2>1, MaxFact
  <2>3. Max(responses) \in 1..r /\ path[Max(responses)].type = "assistant"
    BY <2>2
  <2> HIDE DEF responses
  <2>4. Max(responses) \in a..r
    BY <2>1, <2>2, <2>3
  <2> QED BY <2>3, <2>4 DEF HasMessage, IsMessageEntry
<1>4. CASE Compactions = {}
  <2>1. r \in 1..Len(path)
    BY <1>4 DEF Context, Messages
  <2>2. PICK a \in 1..(r - 1) : Calls(a, r)
    BY <1>1, <2>1 DEF ResultsBehindCalls, IsResult
  <2>3. a \in 1..r /\ path[a].type = "assistant"
    BY <1>2, <2>1, <2>2 DEF Calls
  <2>4. Max(responses) \in a..r /\ HasMessage(path[Max(responses)])
    BY <1>3, <2>1, <2>3
  <2> HIDE DEF responses
  <2>5. Max(responses) \in 1..Len(path)
    BY <1>2, <2>1, <2>3, <2>4
  <2> QED BY <1>4, <2>4, <2>5 DEF Context, Messages, responses
<1>5. CASE Compactions # {}
  <2>1. PICK c : c = LastCompaction
    OBVIOUS
  <2>2. c \in Compactions /\ c \in 1..Len(path)
    BY <1>1, <1>5, <2>1, CompactionFacts
  <2>3. PICK k \in 1..c : k = path[c].kept
    BY <1>1, <2>2 DEF CompactionsSound
  <2>4. Context = Messages(k, c - 1) \cup Messages(c + 1, Len(path))
    BY <1>5, <2>1, <2>3 DEF Context
  <2>5. CASE r \in Messages(k, c - 1)
    <3>1. r \in k..(c - 1) /\ r \in 1..Len(path)
      BY <1>2, <2>2, <2>5 DEF Messages
    <3>2. Whole(k, c - 1)
      BY <1>1, <2>2, <2>3 DEF CompactionsSound
    <3>3. PICK a \in k..r : path[a].type = "assistant"
      BY <3>1, <3>2 DEF Whole, IsResult
    <3>4. a \in 1..r
      BY <1>2, <3>1
    <3>5. Max(responses) \in a..r /\ HasMessage(path[Max(responses)])
      BY <1>3, <3>1, <3>3, <3>4
    <3> HIDE DEF responses
    <3>6. Max(responses) \in k..(c - 1)
      BY <1>2, <2>2, <3>1, <3>3, <3>5
    <3> QED BY <2>4, <3>5, <3>6 DEF Messages, responses
  <2>6. CASE r \in Messages(c + 1, Len(path))
    <3>1. r \in (c + 1)..Len(path) /\ r \in 1..Len(path)
      BY <1>2, <2>2, <2>6 DEF Messages
    <3>2. PICK a \in (c + 1)..(r - 1) : Calls(a, r)
      BY <1>1, <2>1, <3>1, ResultsBehindCompaction DEF IsResult
    <3>3. a \in 1..r /\ path[a].type = "assistant"
      BY <1>2, <2>2, <3>1, <3>2 DEF Calls
    <3>4. Max(responses) \in a..r /\ HasMessage(path[Max(responses)])
      BY <1>3, <3>1, <3>3
    <3> HIDE DEF responses
    <3>5. Max(responses) \in (c + 1)..Len(path)
      BY <1>2, <2>2, <3>1, <3>2, <3>4
    <3> QED BY <2>4, <3>4, <3>5 DEF Messages, responses
  <2> QED BY <2>4, <2>5, <2>6
<1> QED BY <1>4, <1>5

\* However often a path is compacted, and wherever it is cut, a tool result is sent to the
\* model only behind a response that is sent too (findValidCutPoints, findCutPoint).
THEOREM ResultsKeepTheirCalls == Spec => []ResultsFollowCalls
  BY InvAlways, ResponsesKept, PTL
=============================================================================
