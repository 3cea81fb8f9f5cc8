------------------------ MODULE SessionManagerProofs ------------------------
(***************************************************************************)
(* Proofs about SessionManager, in five steps. Whatever fails, every entry *)
(* in memory and in a file is the one that was created with its id, and a  *)
(* file changes by lines added at its end only (Known, FilesGrow). If the  *)
(* process may only die, and only between two lines, files hold no garbage *)
(* and the memory is an index of the file it has written (Intact). If      *)
(* moreover labels do not meet forks, every entry is in a file, and in     *)
(* memory, together with its past (TreeIntact): the session implements the *)
(* tree of SessionTree, and contexts are complete. The library of          *)
(* sequences comes first: recursion over their length goes by the set-form *)
(* induction proved first.                                                 *)
(***************************************************************************)
EXTENDS SessionManager, SequenceTheorems, FiniteSetTheorems, TLAPS

-----------------------------------------------------------------------------
(***************************************************************************)
(* Induction over naturals and sequences, stated with sets in the place of *)
(* predicates: a property of all values is that the set of the values that *)
(* have it contains every value.                                           *)
(***************************************************************************)

\* A set of naturals that has 0 and every successor of its members has them all.
LEMMA NatSetInduction ==
  ASSUME NEW T, 0 \in T, \A n \in Nat : n \in T => n + 1 \in T
  PROVE  \A n \in Nat : n \in T
<1> DEFINE Less == OpToRel(<, Nat)
           Bad == {n \in Nat : n \notin T}
<1>1. SUFFICES ASSUME Bad # {} PROVE FALSE
  OBVIOUS
<1>2. IsWellFoundedOn(Less, Nat)
  BY NatLessThanWellFounded, Zenon
<1>3. \A x, y \in Nat : x < y => <<x, y>> \in Less
  BY DEF OpToRel
<1>4. PICK x \in Bad : \A y \in Bad : ~ (<<y, x>> \in Less)
  <2> HIDE DEF Less
  <2> QED BY <1>1, <1>2, WFMin, Zenon
<1>5. x \in Nat /\ x # 0 /\ x \notin T
  OBVIOUS
<1>6. x - 1 \in Nat /\ x - 1 < x /\ (x - 1) + 1 = x
  BY <1>5
<1>7. x - 1 \notin T
  BY <1>5, <1>6
<1>8. <<x - 1, x>> \in Less
  <2> HIDE DEF Less
  <2> QED BY <1>3, <1>5, <1>6
<1> QED BY <1>4, <1>6, <1>7, <1>8

\* The same from all smaller numbers at once.
LEMMA NatSetStrongInduction ==
  ASSUME NEW T, \A n \in Nat : (\A m \in 0..(n - 1) : m \in T) => n \in T
  PROVE  \A n \in Nat : n \in T
<1> DEFINE U == {n \in Nat : \A m \in 0..(n - 1) : m \in T}
<1>1. 0 \in U
  OBVIOUS
<1>2. \A n \in Nat : n \in U => n + 1 \in U
  <2> SUFFICES ASSUME NEW n \in Nat, n \in U PROVE n + 1 \in U
    OBVIOUS
  <2>1. n \in T
    OBVIOUS
  <2>2. ASSUME NEW m \in 0..n PROVE m \in T
    BY <2>1
  <2> QED BY <2>2
<1>3. \A n \in Nat : n \in U
  <2> HIDE DEF U
  <2> QED BY <1>1, <1>2, NatSetInduction
<1> QED BY <1>3

\* A set that has the empty sequence and whatever is appended to its members has
\* every sequence.
LEMMA SeqSetInduction ==
  ASSUME NEW S, NEW T, <<>> \in T,
         \A s \in Seq(S), e \in S : s \in T => Append(s, e) \in T
  PROVE  \A s \in Seq(S) : s \in T
<1> DEFINE N == {n \in Nat : \A s \in Seq(S) : Len(s) = n => s \in T}
<1>1. 0 \in N
  <2> \A s \in Seq(S) : Len(s) = 0 => s = <<>>
    BY EmptySeq
  <2> QED OBVIOUS
<1>2. \A n \in Nat : n \in N => n + 1 \in N
  <2> SUFFICES ASSUME NEW n \in Nat, n \in N, NEW s \in Seq(S), Len(s) = n + 1
               PROVE  s \in T
    OBVIOUS
  <2>1. s # <<>>
    OBVIOUS
  <2>2. PICK r \in Seq(S), e \in S : s = Append(r, e)
    BY <2>1, SequenceEmptyOrAppend, Zenon
  <2>3. Len(r) = n
    BY <2>2, AppendProperties
  <2> QED BY <2>2, <2>3
<1>3. \A n \in Nat : n \in N
  <2> HIDE DEF N
  <2> QED BY <1>1, <1>2, NatSetInduction
<1> QED BY <1>3, LenProperties

-----------------------------------------------------------------------------
(* The filter.                                                             *)

WithoutStep(seq, types, g, n) ==
  IF n = 0 THEN <<>>
  ELSE IF seq[n].type \in types THEN g[n - 1] ELSE Append(g[n - 1], seq[n])
IsFilter(seq, types, g) == g = [n \in 0..Len(seq) |-> WithoutStep(seq, types, g, n)]

LEMMA WithoutIsChosen ==
  ASSUME NEW seq, NEW types
  PROVE  Without(seq, types) = (CHOOSE g : IsFilter(seq, types, g))[Len(seq)]
BY DEF Without, IsFilter, WithoutStep

\* The recursive function exists.
LEMMA FilterExists ==
  ASSUME NEW S, NEW types
  PROVE  \A s \in Seq(S) : \E g : IsFilter(s, types, g)
<1> DEFINE T == {s \in Seq(S) : \E g : IsFilter(s, types, g)}
<1>1. <<>> \in T
  <2> DEFINE g == [n \in {0} |-> <<>>]
  <2>1. 0..Len(<<>>) = {0}
    OBVIOUS
  <2>2. IsFilter(<<>>, types, g)
    BY <2>1 DEF IsFilter, WithoutStep
  <2> QED BY <2>2
<1>2. \A s \in Seq(S), e \in S : s \in T => Append(s, e) \in T
  <2> SUFFICES ASSUME NEW s \in Seq(S), NEW e \in S, s \in T PROVE Append(s, e) \in T
    OBVIOUS
  <2> PICK g : IsFilter(s, types, g)
    OBVIOUS
  <2> DEFINE r == Append(s, e)
             n0 == Len(s)
             last == IF e.type \in types THEN g[n0] ELSE Append(g[n0], e)
             h == [n \in 0..(n0 + 1) |-> IF n <= n0 THEN g[n] ELSE last]
  <2>1. r \in Seq(S) /\ Len(r) = n0 + 1 /\ r[n0 + 1] = e /\ n0 \in Nat
        /\ \A i \in 1..n0 : r[i] = s[i]
    BY AppendProperties, LenProperties
  <2>2. \A n \in 0..n0 : g[n] = WithoutStep(s, types, g, n)
    BY DEF IsFilter
  <2>3. ASSUME NEW n \in 0..(n0 + 1) PROVE h[n] = WithoutStep(r, types, h, n)
    <3> HIDE DEF r, last
    <3>1. CASE n = 0
      BY <3>1, <2>1, <2>2 DEF WithoutStep
    <3>2. CASE n \in 1..n0
      <4>1. h[n] = g[n] /\ h[n - 1] = g[n - 1] /\ r[n] = s[n] /\ n # 0
        BY <3>2, <2>1
      <4>2. g[n] = WithoutStep(s, types, g, n)
        BY <2>2, <3>2
      <4> HIDE DEF h
      <4> QED BY <4>1, <4>2 DEF WithoutStep
    <3>3. CASE n = n0 + 1
      <4>1. h[n] = last /\ h[n - 1] = g[n0] /\ r[n] = e /\ n # 0
        BY <3>3, <2>1
      <4> HIDE DEF h
      <4> QED BY <4>1 DEF WithoutStep, last
    <3> QED BY <3>1, <3>2, <3>3, <2>1
  <2>4. h = [n \in 0..Len(r) |-> WithoutStep(r, types, h, n)]
    <3>1. h = [n \in 0..(n0 + 1) |-> h[n]]
      OBVIOUS
    <3> HIDE DEF h, r
    <3> QED BY <3>1, <2>1, <2>3
  <2>5. IsFilter(r, types, h)
    <3> HIDE DEF h, r
    <3> QED BY <2>4 DEF IsFilter
  <2> HIDE DEF h, r
  <2> \E k : IsFilter(r, types, k)
    BY <2>5
  <2> QED BY <2>1 DEF r
<1> HIDE DEF T
<1>3. \A s \in Seq(S) : s \in T
  BY <1>1, <1>2, SeqSetInduction
<1> QED BY <1>3 DEF T

\* There is only one.
LEMMA FilterUnique ==
  ASSUME NEW S, NEW types, NEW s \in Seq(S), NEW g, NEW h,
         IsFilter(s, types, g), IsFilter(s, types, h)
  PROVE  \A n \in 0..Len(s) : g[n] = h[n]
<1> DEFINE T == {n \in Nat : n <= Len(s) => g[n] = h[n]}
<1>0. Len(s) \in Nat
  OBVIOUS
<1>1. \A n \in 0..Len(s) : g[n] = WithoutStep(s, types, g, n) /\ h[n] = WithoutStep(s, types, h, n)
  BY DEF IsFilter
<1>2. 0 \in T
  BY <1>0, <1>1 DEF WithoutStep
<1>3. \A n \in Nat : n \in T => n + 1 \in T
  <2> SUFFICES ASSUME NEW n \in Nat, n \in T, n + 1 <= Len(s) PROVE g[n + 1] = h[n + 1]
    OBVIOUS
  <2>1. g[n] = h[n] /\ n + 1 # 0 /\ (n + 1) - 1 = n /\ n + 1 \in 0..Len(s)
    BY <1>0
  <2> QED BY <1>1, <2>1 DEF WithoutStep
<1> HIDE DEF T
<1>4. \A n \in Nat : n \in T
  BY <1>2, <1>3, NatSetInduction
<1> QED BY <1>0, <1>4 DEF T

LEMMA WithoutIsAnyFilter ==
  ASSUME NEW S, NEW types, NEW s \in Seq(S), NEW g, IsFilter(s, types, g)
  PROVE  Without(s, types) = g[Len(s)]
<1> DEFINE c == CHOOSE k : IsFilter(s, types, k)
<1>1. IsFilter(s, types, c)
  BY FilterExists
<1>2. Without(s, types) = c[Len(s)]
  BY WithoutIsChosen
<1> HIDE DEF c
<1>3. Len(s) \in 0..Len(s)
  BY LenProperties
<1>4. \A n \in 0..Len(s) : c[n] = g[n]
  BY <1>1, FilterUnique
<1> QED BY <1>2, <1>3, <1>4

\* The filter from left to right.
LEMMA WithoutEmpty ==
  ASSUME NEW types
  PROVE  Without(<<>>, types) = <<>>
<1> PICK g : IsFilter(<<>>, types, g)
  BY FilterExists, EmptySeq
<1>1. Without(<<>>, types) = g[0]
  BY WithoutIsAnyFilter, EmptySeq
<1>2. g[0] = <<>>
  <2>1. 0 \in 0..Len(<<>>)
    OBVIOUS
  <2> QED BY <2>1 DEF IsFilter, WithoutStep
<1> QED BY <1>1, <1>2

LEMMA WithoutAppend ==
  ASSUME NEW S, NEW types, NEW s \in Seq(S), NEW e \in S
  PROVE  Without(Append(s, e), types) =
           IF e.type \in types THEN Without(s, types) ELSE Append(Without(s, types), e)
<1> DEFINE r == Append(s, e)
           n0 == Len(s)
<1>1. r \in Seq(S) /\ Len(r) = n0 + 1 /\ r[n0 + 1] = e /\ n0 \in Nat
        /\ \A i \in 1..n0 : r[i] = s[i]
  BY AppendProperties, LenProperties
<1> HIDE DEF r
<1>2. PICK h : IsFilter(r, types, h)
  BY <1>1, FilterExists
<1> DEFINE g == [n \in 0..n0 |-> h[n]]
<1>3. \A n \in 0..(n0 + 1) : h[n] = WithoutStep(r, types, h, n)
  BY <1>1, <1>2 DEF IsFilter
<1>4. ASSUME NEW n \in 0..n0 PROVE g[n] = WithoutStep(s, types, g, n)
  <2>1. h[n] = WithoutStep(r, types, h, n)
    BY <1>1, <1>3
  <2>2. CASE n = 0
    BY <2>1, <2>2 DEF WithoutStep
  <2>3. CASE n # 0
    <3>1. g[n] = h[n] /\ g[n - 1] = h[n - 1] /\ r[n] = s[n]
      BY <1>1, <2>3
    <3> HIDE DEF g
    <3> QED BY <3>1, <2>1, <2>3 DEF WithoutStep
  <2> QED BY <2>2, <2>3
<1>5. IsFilter(s, types, g)
  <2>1. g = [n \in 0..n0 |-> g[n]]
    OBVIOUS
  <2> HIDE DEF g
  <2>2. g = [n \in 0..n0 |-> WithoutStep(s, types, g, n)]
    BY <1>4, <2>1
  <2> QED BY <2>2 DEF IsFilter
<1>6. g[n0] = h[n0]
  BY <1>1
<1> HIDE DEF g
<1>7. Without(s, types) = g[n0]
  BY <1>5, WithoutIsAnyFilter
<1>8. Without(r, types) = h[n0 + 1]
  BY <1>1, <1>2, WithoutIsAnyFilter
<1>9. h[n0 + 1] = IF e.type \in types THEN h[n0] ELSE Append(h[n0], e)
  BY <1>1, <1>3 DEF WithoutStep
<1> QED BY <1>6, <1>7, <1>8, <1>9 DEF r

LEMMA RangeEmpty == Range(<<>>) = {}
<1> DEFINE none == <<>>
<1>1. DOMAIN none = 1..0
  BY EmptySeq, LenProperties
<1> HIDE DEF none
<1>2. DOMAIN none = {}
  BY <1>1
<1> QED BY <1>2 DEF Range, none

LEMMA RangeAppended ==
  ASSUME NEW S, NEW s \in Seq(S), NEW e \in S
  PROVE  Range(Append(s, e)) = Range(s) \cup {e}
BY AppendProperties, LenProperties DEF Range

LEMMA RangeConcat ==
  ASSUME NEW S, NEW s \in Seq(S), NEW t \in Seq(S)
  PROVE  Range(s \o t) = Range(s) \cup Range(t)
<1> DEFINE st == s \o t
<1>1. /\ DOMAIN st = 1..(Len(s) + Len(t)) /\ DOMAIN s = 1..Len(s) /\ DOMAIN t = 1..Len(t)
      /\ Len(s) \in Nat /\ Len(t) \in Nat
  BY ConcatProperties, LenProperties
<1>2. \A i \in DOMAIN st : st[i] = IF i <= Len(s) THEN s[i] ELSE t[i - Len(s)]
  BY <1>1, ConcatProperties
<1> HIDE DEF st
<1>3. ASSUME NEW i \in DOMAIN s PROVE i \in DOMAIN st /\ st[i] = s[i]
  BY <1>1, <1>2
<1>4. ASSUME NEW i \in DOMAIN t PROVE i + Len(s) \in DOMAIN st /\ st[i + Len(s)] = t[i]
  BY <1>1, <1>2
<1>5. ASSUME NEW i \in DOMAIN st
      PROVE  \/ i \in DOMAIN s /\ st[i] = s[i]
             \/ i - Len(s) \in DOMAIN t /\ st[i] = t[i - Len(s)]
  BY <1>1, <1>2
<1>6. Range(st) = Range(s) \cup Range(t)
  BY <1>3, <1>4, <1>5 DEF Range
<1> QED BY <1>6 DEF st

LEMMA AppendedConcat ==
  ASSUME NEW S, NEW s \in Seq(S), NEW t \in Seq(S), NEW e \in S
  PROVE  s \o Append(t, e) = Append(s \o t, e)
BY AppendIsConcat, ConcatAssociative, ConcatProperties

LEMMA WithoutIsSeq ==
  ASSUME NEW S, NEW types
  PROVE  \A s \in Seq(S) : Without(s, types) \in Seq(S)
<1> DEFINE T == {s \in Seq(S) : Without(s, types) \in Seq(S)}
<1>1. <<>> \in T
  BY WithoutEmpty, EmptySeq
<1>2. \A s \in Seq(S), e \in S : s \in T => Append(s, e) \in T
  BY WithoutAppend, AppendProperties
<1> HIDE DEF T
<1>3. \A s \in Seq(S) : s \in T
  BY <1>1, <1>2, SeqSetInduction
<1> QED BY <1>3 DEF T

\* What is left are the elements of other types.
LEMMA WithoutRange ==
  ASSUME NEW S, NEW types
  PROVE  \A s \in Seq(S) : Range(Without(s, types)) = {e \in Range(s) : e.type \notin types}
<1> DEFINE T == {s \in Seq(S) : Range(Without(s, types)) = {e \in Range(s) : e.type \notin types}}
<1>1. <<>> \in T
  BY RangeEmpty, WithoutEmpty, EmptySeq
<1>2. \A s \in Seq(S), e \in S : s \in T => Append(s, e) \in T
  <2> SUFFICES ASSUME NEW s \in Seq(S), NEW e \in S, s \in T PROVE Append(s, e) \in T
    OBVIOUS
  <2>1. Append(s, e) \in Seq(S) /\ Range(Append(s, e)) = Range(s) \cup {e}
    BY RangeAppended, AppendProperties
  <2>2. Without(s, types) \in Seq(S)
    BY WithoutIsSeq
  <2>3. Range(Append(Without(s, types), e)) = Range(Without(s, types)) \cup {e}
    BY <2>2, RangeAppended
  <2>4. Without(Append(s, e), types) =
          IF e.type \in types THEN Without(s, types) ELSE Append(Without(s, types), e)
    BY WithoutAppend
  <2>5. Range(Without(s, types)) = {x \in Range(s) : x.type \notin types}
    OBVIOUS
  <2> QED BY <2>1, <2>3, <2>4, <2>5
<1> HIDE DEF T
<1>3. \A s \in Seq(S) : s \in T
  BY <1>1, <1>2, SeqSetInduction
<1> QED BY <1>3 DEF T

LEMMA WithoutConcat ==
  ASSUME NEW S, NEW types, NEW s \in Seq(S)
  PROVE  \A t \in Seq(S) : Without(s \o t, types) = Without(s, types) \o Without(t, types)
<1> DEFINE T == {t \in Seq(S) : Without(s \o t, types) = Without(s, types) \o Without(t, types)}
<1>0. Without(s, types) \in Seq(S)
  BY WithoutIsSeq
<1>1. <<>> \in T
  BY <1>0, WithoutEmpty, ConcatEmptySeq
<1>2. \A t \in Seq(S), e \in S : t \in T => Append(t, e) \in T
  <2> SUFFICES ASSUME NEW t \in Seq(S), NEW e \in S, t \in T PROVE Append(t, e) \in T
    OBVIOUS
  <2>1. Append(t, e) \in Seq(S) /\ s \o Append(t, e) = Append(s \o t, e) /\ s \o t \in Seq(S)
    BY AppendedConcat, AppendProperties, ConcatProperties
  <2>2. Without(t, types) \in Seq(S)
    BY WithoutIsSeq
  <2>3. Without(s, types) \o Append(Without(t, types), e) = Append(Without(s, types) \o Without(t, types), e)
    BY <1>0, <2>2, AppendedConcat
  <2>4. Without(Append(t, e), types) =
          IF e.type \in types THEN Without(t, types) ELSE Append(Without(t, types), e)
    BY WithoutAppend
  <2>5. Without(Append(s \o t, e), types) =
          IF e.type \in types THEN Without(s \o t, types) ELSE Append(Without(s \o t, types), e)
    <3> DEFINE st == s \o t
    <3>1. st \in Seq(S)
      BY <2>1
    <3> HIDE DEF st
    <3>2. Without(Append(st, e), types) =
            IF e.type \in types THEN Without(st, types) ELSE Append(Without(st, types), e)
      BY <3>1, WithoutAppend
    <3> QED BY <3>2 DEF st
  <2> QED BY <2>1, <2>3, <2>4, <2>5
<1> HIDE DEF T
<1>3. \A t \in Seq(S) : t \in T
  BY <1>1, <1>2, SeqSetInduction
<1> QED BY <1>3 DEF T

\* Nothing to leave out.
LEMMA WithoutNothing ==
  ASSUME NEW S, NEW types
  PROVE  \A s \in Seq(S) : (\A e \in Range(s) : e.type \notin types) => Without(s, types) = s
<1> DEFINE T == {s \in Seq(S) : (\A e \in Range(s) : e.type \notin types) => Without(s, types) = s}
<1>1. <<>> \in T
  BY WithoutEmpty
<1>2. \A s \in Seq(S), e \in S : s \in T => Append(s, e) \in T
  <2> SUFFICES ASSUME NEW s \in Seq(S), NEW e \in S, s \in T PROVE Append(s, e) \in T
    OBVIOUS
  <2>1. Append(s, e) \in Seq(S) /\ Range(Append(s, e)) = Range(s) \cup {e}
    BY RangeAppended, AppendProperties
  <2>2. (\A x \in Range(s) : x.type \notin types) => Without(s, types) = s
    OBVIOUS
  <2> QED BY <2>1, <2>2, WithoutAppend
<1> HIDE DEF T
<1>3. \A s \in Seq(S) : s \in T
  BY <1>1, <1>2, SeqSetInduction
<1> QED BY <1>3 DEF T

-----------------------------------------------------------------------------
(* Sequences whatever their elements are.                                  *)

IsSeq(s) == s \in Seq(Range(s))

LEMMA SeqIsSeq ==
  ASSUME NEW S, NEW s \in Seq(S)
  PROVE  IsSeq(s) /\ Range(s) \subseteq S
<1>1. /\ Len(s) \in Nat /\ DOMAIN s = 1..Len(s) /\ s = [i \in 1..Len(s) |-> s[i]]
      /\ \A i \in 1..Len(s) : s[i] \in S
  BY LenProperties
<1>2. s \in [1..Len(s) -> Range(s)]
  BY <1>1 DEF Range
<1>3. s \in Seq(Range(s))
  BY <1>1, <1>2, SeqDef
<1> QED BY <1>1, <1>3 DEF IsSeq, Range

LEMMA SeqWider ==
  ASSUME NEW s, IsSeq(s), NEW S, Range(s) \subseteq S
  PROVE  s \in Seq(S)
BY SeqMonotonic DEF IsSeq

LEMMA SeqFacts ==
  ASSUME NEW s, IsSeq(s)
  PROVE  /\ Len(s) \in Nat /\ DOMAIN s = 1..Len(s)
         /\ \A i \in 1..Len(s) : s[i] \in Range(s)
         /\ \A e \in Range(s) : \E i \in 1..Len(s) : e = s[i]
         /\ s # <<>> => Len(s) > 0 /\ Head(s) = s[1]
         /\ Len(s) = 0 => s = <<>>
BY LenProperties, EmptySeq DEF IsSeq, Range

LEMMA SameSeq ==
  ASSUME NEW s, IsSeq(s), NEW t, IsSeq(t), Len(s) = Len(t), \A i \in 1..Len(s) : s[i] = t[i]
  PROVE  s = t
<1> DEFINE S == Range(s) \cup Range(t)
<1>1. s \in Seq(S) /\ t \in Seq(S)
  BY SeqWider
<1> HIDE DEF S
<1> QED BY <1>1, SeqEqual

LEMMA EmptyIsSeq == IsSeq(<<>>)
BY EmptySeq DEF IsSeq

LEMMA SingleIsSeq ==
  ASSUME NEW e
  PROVE  IsSeq(<<e>>) /\ Range(<<e>>) = {e} /\ Len(<<e>>) = 1 /\ <<e>>[1] = e
<1>1. <<e>> \in Seq({e}) /\ Len(<<e>>) = 1 /\ <<e>>[1] = e
  OBVIOUS
<1>2. DOMAIN <<e>> = 1..1
  BY <1>1, LenProperties
<1>3. Range(<<e>>) = {e}
  BY <1>1, <1>2 DEF Range
<1> QED BY <1>1, <1>3 DEF IsSeq

LEMMA AppendIsSeq ==
  ASSUME NEW s, IsSeq(s), NEW e
  PROVE  /\ IsSeq(Append(s, e)) /\ Range(Append(s, e)) = Range(s) \cup {e}
         /\ Len(Append(s, e)) = Len(s) + 1 /\ Append(s, e)[Len(s) + 1] = e
         /\ \A i \in 1..Len(s) : Append(s, e)[i] = s[i]
         /\ Append(s, e) = s \o <<e>>
<1> DEFINE S == Range(s) \cup {e}
<1>1. s \in Seq(S) /\ e \in S
  BY SeqWider
<1> HIDE DEF S
<1>2. Append(s, e) \in Seq(S) /\ Range(Append(s, e)) = Range(s) \cup {e}
  BY <1>1, AppendProperties, RangeAppended
<1>3. IsSeq(Append(s, e))
  BY <1>2, SeqIsSeq
<1>4. /\ Len(Append(s, e)) = Len(s) + 1 /\ Append(s, e)[Len(s) + 1] = e
      /\ \A i \in 1..Len(s) : Append(s, e)[i] = s[i]
  BY <1>1, AppendProperties
<1>5. Append(s, e) = s \o <<e>>
  BY <1>1, AppendIsConcat
<1> QED BY <1>2, <1>3, <1>4, <1>5

LEMMA ConcatIsSeq ==
  ASSUME NEW s, IsSeq(s), NEW t, IsSeq(t)
  PROVE  /\ IsSeq(s \o t) /\ Range(s \o t) = Range(s) \cup Range(t)
         /\ Len(s \o t) = Len(s) + Len(t)
         /\ \A i \in 1..Len(s) : (s \o t)[i] = s[i]
         /\ \A i \in 1..Len(t) : (s \o t)[i + Len(s)] = t[i]
<1> DEFINE S == Range(s) \cup Range(t)
<1>1. s \in Seq(S) /\ t \in Seq(S)
  BY SeqWider
<1> HIDE DEF S
<1>2. s \o t \in Seq(S) /\ Range(s \o t) = Range(s) \cup Range(t)
  BY <1>1, ConcatProperties, RangeConcat
<1>3. IsSeq(s \o t)
  BY <1>2, SeqIsSeq
<1>4. Len(s) \in Nat /\ Len(t) \in Nat
  BY SeqFacts
<1>5. /\ Len(s \o t) = Len(s) + Len(t)
      /\ \A i \in 1..(Len(s) + Len(t)) : (s \o t)[i] = IF i <= Len(s) THEN s[i] ELSE t[i - Len(s)]
  BY <1>1, ConcatProperties
<1>6. \A i \in 1..Len(s) : (s \o t)[i] = s[i]
  BY <1>4, <1>5
<1>7. ASSUME NEW i \in 1..Len(t) PROVE (s \o t)[i + Len(s)] = t[i]
  <2> DEFINE j == i + Len(s)
  <2>1. j \in 1..(Len(s) + Len(t)) /\ ~(j <= Len(s)) /\ j - Len(s) = i
    BY <1>4
  <2> HIDE DEF j
  <2>2. (s \o t)[j] = t[i]
    BY <2>1, <1>5
  <2> QED BY <2>2 DEF j
<1> QED BY <1>2, <1>3, <1>5, <1>6, <1>7

\* A prefix, and what is left of the sequence.
LEMMA PrefixIsSeq ==
  ASSUME NEW s, IsSeq(s), NEW k \in 0..Len(s)
  PROVE  /\ IsSeq(SubSeq(s, 1, k)) /\ Range(SubSeq(s, 1, k)) \subseteq Range(s)
         /\ Len(SubSeq(s, 1, k)) = k
         /\ \A i \in 1..k : SubSeq(s, 1, k)[i] = s[i]
<1>1. Len(s) \in Nat /\ \A i \in 1..Len(s) : s[i] \in Range(s)
  BY SeqFacts
<1>2. 1 \in Int /\ k \in Int /\ \A i \in 1..k : s[i] \in Range(s)
  BY <1>1
<1> DEFINE p == SubSeq(s, 1, k)
<1>3. /\ p \in Seq(Range(s)) /\ Len(p) = IF 1 <= k THEN k - 1 + 1 ELSE 0
      /\ \A i \in 1..(k - 1 + 1) : p[i] = s[1 + i - 1]
  BY <1>2, SubSeqProperties
<1> HIDE DEF p
<1>4. Len(p) = k /\ \A i \in 1..k : p[i] = s[i]
  BY <1>1, <1>3
<1>5. IsSeq(p) /\ Range(p) \subseteq Range(s)
  BY <1>3, SeqIsSeq
<1> QED BY <1>4, <1>5 DEF p

LEMMA PrefixOfConcat ==
  ASSUME NEW s, IsSeq(s), NEW t, IsSeq(t)
  PROVE  IsPrefix(s, s \o t)
<1> DEFINE st == s \o t
<1>1. IsSeq(st) /\ Len(st) = Len(s) + Len(t) /\ Len(s) \in Nat /\ Len(t) \in Nat
      /\ \A i \in 1..Len(s) : st[i] = s[i]
  BY ConcatIsSeq, SeqFacts
<1> HIDE DEF st
<1> DEFINE p == SubSeq(st, 1, Len(s))
           q == SubSeq(s, 1, Len(s))
<1>2. IsSeq(p) /\ Len(p) = Len(s) /\ \A i \in 1..Len(s) : p[i] = st[i]
  BY <1>1, PrefixIsSeq
<1>3. IsSeq(q) /\ Len(q) = Len(s) /\ \A i \in 1..Len(s) : q[i] = s[i]
  BY <1>1, PrefixIsSeq
<1> HIDE DEF p, q
<1>4. p = q
  BY <1>1, <1>2, <1>3, SameSeq
<1>5. Len(s) <= Len(st)
  BY <1>1
<1>6. SubSeq(s, 1, Len(s)) = SubSeq(st, 1, Len(s))
  BY <1>4 DEF p, q
<1> QED BY <1>5, <1>6 DEF IsPrefix, st

-----------------------------------------------------------------------------
(* The path to an entry.                                                   *)

\* Every parent has a smaller id.
IndexOK(index) ==
  /\ DOMAIN index \subseteq 1..MaxEntries
  /\ \A i \in DOMAIN index : index[i].parentId \in 0..(i - 1)

BranchStep(index, g, i) ==
  IF i \notin DOMAIN index THEN <<>> ELSE Append(g[index[i].parentId], index[i])
IsPathUpTo(index, n, g) == g = [i \in 0..n |-> BranchStep(index, g, i)]

LEMMA BranchIsChosen ==
  ASSUME NEW index, NEW id
  PROVE  Branch(index, id) = (CHOOSE g : IsPathUpTo(index, MaxEntries, g))[id]
BY DEF Branch, IsPathUpTo, BranchStep

\* The recursive function exists.
LEMMA PathExists ==
  ASSUME NEW index, IndexOK(index)
  PROVE  \A n \in Nat : \E g : IsPathUpTo(index, n, g)
<1> DEFINE T == {n \in Nat : \E g : IsPathUpTo(index, n, g)}
<1>1. 0 \in T
  <2> DEFINE g == [i \in 0..0 |-> <<>>]
  <2>1. 0 \notin DOMAIN index
    BY DEF IndexOK
  <2>2. IsPathUpTo(index, 0, g)
    BY <2>1 DEF IsPathUpTo, BranchStep
  <2> QED BY <2>2
<1>2. \A n \in Nat : n \in T => n + 1 \in T
  <2> SUFFICES ASSUME NEW n \in Nat, n \in T PROVE n + 1 \in T
    OBVIOUS
  <2> PICK g : IsPathUpTo(index, n, g)
    OBVIOUS
  <2> DEFINE last == BranchStep(index, g, n + 1)
             h == [i \in 0..(n + 1) |-> IF i <= n THEN g[i] ELSE last]
  <2>1. \A i \in 0..n : g[i] = BranchStep(index, g, i)
    BY DEF IsPathUpTo
  <2>2. ASSUME NEW i \in 0..(n + 1) PROVE h[i] = BranchStep(index, h, i)
    <3>1. CASE i \notin DOMAIN index
      <4>1. h[i] = BranchStep(index, g, i)
        BY <2>1
      <4> HIDE DEF h
      <4> QED BY <3>1, <4>1 DEF BranchStep
    <3>2. CASE i \in DOMAIN index
      <4>1. index[i].parentId \in 0..(i - 1)
        BY <3>2 DEF IndexOK
      <4>2. h[i] = BranchStep(index, g, i) /\ h[index[i].parentId] = g[index[i].parentId]
        BY <2>1, <4>1
      <4> HIDE DEF h
      <4> QED BY <3>2, <4>2 DEF BranchStep
    <3> QED BY <3>1, <3>2
  <2>3. h = [i \in 0..(n + 1) |-> h[i]]
    OBVIOUS
  <2> HIDE DEF h
  <2>4. IsPathUpTo(index, n + 1, h)
    BY <2>2, <2>3 DEF IsPathUpTo
  <2> QED BY <2>4
<1> HIDE DEF T
<1>3. \A n \in Nat : n \in T
  BY <1>1, <1>2, NatSetInduction
<1> QED BY <1>3 DEF T

LEMMA BranchEquation ==
  ASSUME NEW index, IndexOK(index), NEW i \in 0..MaxEntries
  PROVE  Branch(index, i) =
           IF i \notin DOMAIN index THEN <<>> ELSE Append(Branch(index, index[i].parentId), index[i])
<1> DEFINE c == CHOOSE g : IsPathUpTo(index, MaxEntries, g)
<1>0. MaxEntries \in Nat
  BY BoundsAssumption
<1>1. IsPathUpTo(index, MaxEntries, c)
  BY <1>0, PathExists
<1>2. Branch(index, i) = c[i] /\ Branch(index, index[i].parentId) = c[index[i].parentId]
  BY BranchIsChosen
<1> HIDE DEF c
<1>3. c[i] = BranchStep(index, c, i)
  BY <1>1 DEF IsPathUpTo
<1> QED BY <1>2, <1>3 DEF BranchStep

\* A path is a sequence of entries of the tree.
LEMMA BranchIsSeq ==
  ASSUME NEW index, IndexOK(index)
  PROVE  \A i \in 0..MaxEntries :
           IsSeq(Branch(index, i)) /\ \A e \in Range(Branch(index, i)) : \E j \in DOMAIN index : e = index[j]
<1> DEFINE T == {i \in Nat : i <= MaxEntries =>
                   /\ IsSeq(Branch(index, i))
                   /\ \A e \in Range(Branch(index, i)) : \E j \in DOMAIN index : e = index[j]}
<1>0. MaxEntries \in Nat
  BY BoundsAssumption
<1>1. ASSUME NEW n \in Nat, \A m \in 0..(n - 1) : m \in T PROVE n \in T
  <2> SUFFICES ASSUME n <= MaxEntries
               PROVE  /\ IsSeq(Branch(index, n))
                      /\ \A e \in Range(Branch(index, n)) : \E j \in DOMAIN index : e = index[j]
    OBVIOUS
  <2>1. n \in 0..MaxEntries
    BY <1>0
  <2>2. CASE n \notin DOMAIN index
    <3>1. Branch(index, n) = <<>>
      BY <2>1, <2>2, BranchEquation
    <3> QED BY <3>1, EmptyIsSeq, RangeEmpty
  <2>3. CASE n \in DOMAIN index
    <3> DEFINE p == index[n].parentId
    <3>1. p \in 0..(n - 1) /\ p <= MaxEntries
      BY <2>1, <2>3, <1>0 DEF IndexOK
    <3>2. Branch(index, n) = Append(Branch(index, p), index[n])
      BY <2>1, <2>3, BranchEquation
    <3>3. IsSeq(Branch(index, p)) /\ \A e \in Range(Branch(index, p)) : \E j \in DOMAIN index : e = index[j]
      BY <1>1, <3>1
    <3> HIDE DEF p
    <3>4. IsSeq(Branch(index, n)) /\ Range(Branch(index, n)) = Range(Branch(index, p)) \cup {index[n]}
      <4> DEFINE b == Branch(index, p)
                 e == index[n]
      <4>1. IsSeq(b)
        BY <3>3
      <4> HIDE DEF b, e
      <4>2. IsSeq(Append(b, e)) /\ Range(Append(b, e)) = Range(b) \cup {e}
        BY <4>1, AppendIsSeq
      <4> QED BY <3>2, <4>2 DEF b, e
    <3> QED BY <3>3, <3>4, <2>3
  <2> QED BY <2>2, <2>3
<1> HIDE DEF T
<1>2. \A n \in Nat : n \in T
  BY <1>1, NatSetStrongInduction
<1> QED BY <1>0, <1>2 DEF T

-----------------------------------------------------------------------------
(* Files.                                                                  *)

\* A file that does not exist is empty, and an empty one has no unfinished line.
IsContent(c) ==
  /\ c = [exists |-> c.exists, lines |-> c.lines, ended |-> c.ended]
  /\ {c.exists, c.ended} \subseteq BOOLEAN
  /\ IsSeq(c.lines)
  /\ c.lines = <<>> => c.ended
  /\ ~c.exists => c.lines = <<>>

\* d is c with lines added; the last line of c, when unfinished, may be spoilt.
Extends(c, d, lines) ==
  /\ IsContent(d)
  /\ c.exists => d.exists
  /\ \E x : /\ IsSeq(x) /\ Range(x) \subseteq Range(lines) \cup {Garbage}
            /\ \/ d.lines = c.lines \o x
               \/ c.lines # <<>> /\ ~c.ended /\ d.lines = Front(c.lines) \o x

LEMMA EmptyContents ==
  IsContent(NoFile) /\ IsContent(EmptyFile)
BY EmptyIsSeq DEF IsContent, NoFile, EmptyFile

LEMMA TailIsSeq ==
  ASSUME NEW s, IsSeq(s), s # <<>>
  PROVE  IsSeq(Tail(s)) /\ Range(Tail(s)) \subseteq Range(s)
BY HeadTailProperties, SeqIsSeq DEF IsSeq

LEMMA FrontIsSeq ==
  ASSUME NEW s, IsSeq(s), s # <<>>
  PROVE  IsSeq(Front(s)) /\ Range(Front(s)) \subseteq Range(s) /\ Len(Front(s)) = Len(s) - 1
<1>1. Len(s) \in Nat /\ Len(s) > 0
  BY SeqFacts
<1>2. Len(s) - 1 \in 0..Len(s)
  BY <1>1
<1> QED BY <1>2, PrefixIsSeq DEF Front

\* appendFileSync extends the file by all of the lines,
LEMMA WrittenExtends ==
  ASSUME NEW c, IsContent(c), NEW lines, IsSeq(lines)
  PROVE  /\ Extends(c, Written(c, lines), lines)
         /\ c.ended => Written(c, lines).lines = c.lines \o lines /\ Written(c, lines).ended
         /\ lines # <<>> => Written(c, lines).exists /\ Written(c, lines).lines # <<>>
<1>1. CASE lines = <<>>
  <2>1. Written(c, lines) = c
    BY <1>1 DEF Written
  <2>2. c.lines = c.lines \o <<>>
    BY ConcatEmptySeq DEF IsContent, IsSeq
  <2>3. Range(<<>>) \subseteq Range(lines) \cup {Garbage} /\ IsSeq(<<>>)
    BY RangeEmpty, EmptyIsSeq
  <2>4. Extends(c, c, lines)
    BY <2>2, <2>3 DEF Extends
  <2> QED BY <1>1, <2>1, <2>2, <2>4
<1>2. CASE lines # <<>> /\ c.ended
  <2> DEFINE l == c.lines \o lines
             d == [exists |-> TRUE, ended |-> TRUE, lines |-> l]
  <2>1. Written(c, lines) = d
    BY <1>2 DEF Written
  <2>2. IsSeq(l) /\ Len(l) = Len(c.lines) + Len(lines)
    BY ConcatIsSeq DEF IsContent
  <2>3. Len(c.lines) \in Nat /\ Len(lines) \in Nat /\ Len(lines) > 0
    BY <1>2, SeqFacts DEF IsContent
  <2>4. l # <<>>
    <3> HIDE DEF l
    <3> QED BY <2>2, <2>3, EmptySeq
  <2> HIDE DEF l
  <2>5. IsContent(d)
    BY <2>2, <2>4 DEF IsContent
  <2>6. d.lines = l /\ d.exists = TRUE /\ d.ended = TRUE
    OBVIOUS
  <2> HIDE DEF d
  <2>7. Extends(c, d, lines)
    BY <2>5, <2>6 DEF Extends, l
  <2> QED BY <2>1, <2>4, <2>6, <2>7 DEF l
<1>3. CASE lines # <<>> /\ ~c.ended
  <2> DEFINE x == <<Garbage>> \o Tail(lines)
             l == Front(c.lines) \o x
             m == Front(c.lines) \o <<Garbage>> \o Tail(lines)
             d == [exists |-> TRUE, ended |-> TRUE, lines |-> m]
  <2>1. Written(c, lines) = d
    BY <1>3 DEF Written
  <2>2. c.lines # <<>> /\ IsSeq(Front(c.lines))
    BY <1>3, FrontIsSeq DEF IsContent
  <2>3. IsSeq(Tail(lines)) /\ Range(Tail(lines)) \subseteq Range(lines)
    BY <1>3, TailIsSeq
  <2>4. IsSeq(<<Garbage>>) /\ Range(<<Garbage>>) = {Garbage} /\ Len(<<Garbage>>) = 1
    BY SingleIsSeq
  <2>5. IsSeq(x) /\ Range(x) \subseteq Range(lines) \cup {Garbage} /\ Len(x) = 1 + Len(Tail(lines))
    BY <2>3, <2>4, ConcatIsSeq
  <2>6. m = l
    <3> DEFINE S == Range(Front(c.lines)) \cup Range(<<Garbage>>) \cup Range(Tail(lines))
    <3>1. Front(c.lines) \in Seq(S) /\ <<Garbage>> \in Seq(S) /\ Tail(lines) \in Seq(S)
      BY <2>2, <2>3, <2>4, SeqWider
    <3> HIDE DEF S
    <3> QED BY <3>1, ConcatAssociative
  <2>7. IsSeq(l) /\ l # <<>>
    <3> HIDE DEF x
    <3>1. IsSeq(l) /\ Len(l) = Len(Front(c.lines)) + Len(x)
      BY <2>2, <2>5, ConcatIsSeq
    <3>2. Len(Front(c.lines)) \in Nat /\ Len(Tail(lines)) \in Nat
      BY <2>2, <2>3, SeqFacts
    <3> HIDE DEF l
    <3>3. Len(l) > 0
      <4>1. PICK n \in Nat, k \in Nat : n = Len(Front(c.lines)) /\ k = Len(Tail(lines))
        BY <3>2
      <4>2. Len(l) = n + (1 + k)
        BY <2>5, <3>1, <4>1
      <4> QED BY <4>2
    <3>4. Len(<<>>) = 0
      OBVIOUS
    <3> QED BY <3>1, <3>3, <3>4
  <2> HIDE DEF m, x
  <2>8. IsContent(d)
    <3> HIDE DEF l
    <3> QED BY <2>6, <2>7 DEF IsContent
  <2>9. d.lines = m /\ d.exists = TRUE /\ d.ended = TRUE
    OBVIOUS
  <2> HIDE DEF d
  <2>10. Extends(c, d, lines)
    BY <1>3, <2>2, <2>5, <2>6, <2>8, <2>9 DEF Extends
  <2> QED BY <1>3, <2>1, <2>6, <2>7, <2>9, <2>10
<1>4. c.ended \in BOOLEAN
  BY DEF IsContent
<1> QED BY <1>1, <1>2, <1>3, <1>4

\* and a write that is cut short by some of them.
LEMMA CutExtends ==
  ASSUME NEW c, IsContent(c), NEW lines, IsSeq(lines), NEW cut \in Cuts(c, lines)
  PROVE  /\ Extends(c, cut, lines)
         /\ "torn" \notin Faults => \E k \in 0..(Len(lines) - 1) : cut = Written(c, SubSeq(lines, 1, k))
<1>0. Len(lines) \in Nat
  BY SeqFacts
<1>1. ASSUME NEW k \in 0..(Len(lines) - 1), cut = Written(c, SubSeq(lines, 1, k))
      PROVE  Extends(c, cut, lines)
  <2> DEFINE p == SubSeq(lines, 1, k)
  <2>1. IsSeq(p) /\ Range(p) \subseteq Range(lines)
    BY <1>0, PrefixIsSeq
  <2> HIDE DEF p
  <2>2. Extends(c, Written(c, p), p)
    BY <2>1, WrittenExtends
  <2>3. Extends(c, Written(c, p), lines)
    BY <2>1, <2>2 DEF Extends
  <2> QED BY <1>1, <2>3 DEF p
<1>2. ASSUME NEW k \in DOMAIN lines, NEW last \in {Garbage, lines[k]},
             cut = [Written(c, Append(SubSeq(lines, 1, k - 1), last)) EXCEPT !.ended = FALSE]
      PROVE  Extends(c, cut, lines)
  <2> DEFINE p == SubSeq(lines, 1, k - 1)
             q == Append(p, last)
             w == Written(c, q)
             d == [exists |-> w.exists, lines |-> w.lines, ended |-> FALSE]
  <2>0. k \in 1..Len(lines) /\ lines[k] \in Range(lines)
    BY SeqFacts
  <2>1. IsSeq(p) /\ Range(p) \subseteq Range(lines)
    BY <1>0, <2>0, PrefixIsSeq
  <2> HIDE DEF p
  <2>2. IsSeq(q) /\ Range(q) \subseteq Range(lines) \cup {Garbage} /\ q # <<>>
    <3>1. IsSeq(q) /\ Range(q) = Range(p) \cup {last} /\ Len(q) = Len(p) + 1
      BY <2>1, AppendIsSeq
    <3>2. Len(p) \in Nat
      BY <2>1, SeqFacts
    <3> HIDE DEF q
    <3> QED BY <3>1, <3>2, <2>0, <2>1, EmptySeq
  <2> HIDE DEF q
  <2>3. Extends(c, w, q) /\ w.exists /\ w.lines # <<>>
    BY <2>2, WrittenExtends
  <2> HIDE DEF w
  <2>4. w = [exists |-> w.exists, lines |-> w.lines, ended |-> w.ended]
    BY <2>3 DEF Extends, IsContent
  <2>5. cut = d
    BY <1>2, <2>4 DEF w, q, p
  <2>6. IsContent(d) /\ d.lines = w.lines /\ d.exists = w.exists
    BY <2>3 DEF Extends, IsContent
  <2> HIDE DEF d
  <2>7. Extends(c, d, lines)
    BY <2>2, <2>3, <2>6 DEF Extends
  <2> QED BY <2>5, <2>7
<1>3. \/ \E k \in 0..(Len(lines) - 1) : cut = Written(c, SubSeq(lines, 1, k))
      \/ /\ "torn" \in Faults
         /\ \E k \in DOMAIN lines : \E last \in {Garbage, lines[k]} :
              cut = [Written(c, Append(SubSeq(lines, 1, k - 1), last)) EXCEPT !.ended = FALSE]
  BY Zenon DEF Cuts
<1> QED BY <1>1, <1>2, <1>3

-----------------------------------------------------------------------------
(* Prefixes.                                                               *)

LEMMA EmptyIsPrefix ==
  ASSUME NEW s, IsSeq(s)
  PROVE  IsPrefix(<<>>, s)
<1>1. Len(s) \in Nat /\ Len(<<>>) = 0
  BY SeqFacts
<1>2. SubSeq(<<>>, 1, 0) = <<>> /\ SubSeq(s, 1, 0) = <<>>
  BY SubSeqEmpty
<1> QED BY <1>1, <1>2 DEF IsPrefix

\* Two sequences that agree on the first k places.
LEMMA CommonPrefix ==
  ASSUME NEW s, IsSeq(s), NEW t, IsSeq(t), NEW k \in 0..Len(s), k <= Len(t),
         \A i \in 1..k : s[i] = t[i]
  PROVE  IsPrefix(SubSeq(s, 1, k), t)
<1> DEFINE p == SubSeq(s, 1, k)
           q == SubSeq(p, 1, k)
           r == SubSeq(t, 1, k)
<1>1. Len(s) \in Nat /\ Len(t) \in Nat
  BY SeqFacts
<1>2. IsSeq(p) /\ Len(p) = k /\ \A i \in 1..k : p[i] = s[i]
  BY <1>1, PrefixIsSeq
<1>3. IsSeq(r) /\ Len(r) = k /\ \A i \in 1..k : r[i] = t[i]
  BY <1>1, PrefixIsSeq
<1> HIDE DEF p
<1>4. IsSeq(q) /\ Len(q) = k /\ \A i \in 1..k : q[i] = p[i]
  BY <1>1, <1>2, PrefixIsSeq
<1> HIDE DEF q, r
<1>5. q = r
  BY <1>2, <1>3, <1>4, SameSeq
<1>6. SubSeq(p, 1, Len(p)) = SubSeq(t, 1, Len(p)) /\ Len(p) <= Len(t)
  BY <1>2, <1>5 DEF q, r
<1> QED BY <1>6 DEF IsPrefix, p

LEMMA FrontOfPrefix ==
  ASSUME NEW s, IsSeq(s), NEW t, IsSeq(t), IsPrefix(s, t), Len(s) > 0
  PROVE  IsPrefix(SubSeq(s, 1, Len(s) - 1), t)
<1> DEFINE q == SubSeq(s, 1, Len(s))
           r == SubSeq(t, 1, Len(s))
<1>1. Len(s) \in Nat /\ Len(t) \in Nat /\ Len(s) <= Len(t) /\ q = r
  BY SeqFacts DEF IsPrefix
<1>2. \A i \in 1..Len(s) : q[i] = s[i]
  BY <1>1, PrefixIsSeq
<1>3. \A i \in 1..Len(s) : r[i] = t[i]
  BY <1>1, PrefixIsSeq
<1> HIDE DEF q, r
<1>4. \A i \in 1..(Len(s) - 1) : s[i] = t[i]
  BY <1>1, <1>2, <1>3
<1>5. Len(s) - 1 \in 0..Len(s) /\ Len(s) - 1 <= Len(t)
  BY <1>1
<1> QED BY <1>4, <1>5, CommonPrefix

LEMMA PrefixReflexive ==
  ASSUME NEW s, IsSeq(s)
  PROVE  IsPrefix(s, s)
BY SeqFacts DEF IsPrefix

LEMMA FrontAndLast ==
  ASSUME NEW s, IsSeq(s), s # <<>>
  PROVE  s = Front(s) \o <<s[Len(s)]>>
<1>1. PICK r \in Seq(Range(s)), e \in Range(s) : s = Append(r, e)
  BY SequenceEmptyOrAppend, Zenon DEF IsSeq
<1>2. IsSeq(r)
  BY SeqIsSeq
<1>3. /\ Len(s) = Len(r) + 1 /\ s[Len(r) + 1] = e /\ s = r \o <<e>>
      /\ \A i \in 1..Len(r) : s[i] = r[i]
  BY <1>1, <1>2, AppendIsSeq
<1>4. Len(r) \in Nat
  BY <1>2, SeqFacts
<1> DEFINE p == SubSeq(s, 1, Len(s) - 1)
<1>5. Len(s) - 1 = Len(r) /\ Len(r) \in 0..Len(s)
  BY <1>3, <1>4
<1>6. IsSeq(p) /\ Len(p) = Len(r) /\ \A i \in 1..Len(r) : p[i] = s[i]
  BY <1>5, PrefixIsSeq
<1> HIDE DEF p
<1>7. p = r
  BY <1>2, <1>3, <1>6, SameSeq
<1> QED BY <1>3, <1>7 DEF p, Front

LEMMA SingleWithout ==
  ASSUME NEW e, NEW types
  PROVE  IsSeq(Without(<<e>>, types)) /\ Len(Without(<<e>>, types)) \in {0, 1}
<1> DEFINE none == <<>>
<1>1. Append(none, e) = <<e>> /\ none \in Seq({e}) /\ Without(none, types) = none
  BY EmptySeq, WithoutEmpty
<1> HIDE DEF none
<1> DEFINE S == {e}
<1>a. none \in Seq(S) /\ e \in S
  BY <1>1
<1> HIDE DEF S
<1>2. Without(Append(none, e), types) =
        IF e.type \in types THEN Without(none, types) ELSE Append(Without(none, types), e)
  BY <1>a, WithoutAppend
<1>3. Without(<<e>>, types) \in {<<>>, <<e>>}
  BY <1>1, <1>2 DEF none
<1>4. IsSeq(<<>>) /\ Len(<<>>) = 0 /\ IsSeq(<<e>>) /\ Len(<<e>>) = 1
  BY EmptyIsSeq, SingleIsSeq
<1> QED BY <1>3, <1>4, Zenon

-----------------------------------------------------------------------------
(* Reading a file.                                                         *)

LEMMA WithoutOfSeq ==
  ASSUME NEW s, IsSeq(s), NEW types
  PROVE  /\ IsSeq(Without(s, types))
         /\ Range(Without(s, types)) = {e \in Range(s) : e.type \notin types}
<1>1. s \in Seq(Range(s))
  BY DEF IsSeq
<1> QED BY <1>1, WithoutIsSeq, WithoutRange, SeqIsSeq

LEMMA WithoutOfConcat ==
  ASSUME NEW s, IsSeq(s), NEW t, IsSeq(t), NEW types
  PROVE  Without(s \o t, types) = Without(s, types) \o Without(t, types)
<1> DEFINE S == Range(s) \cup Range(t)
<1>1. s \in Seq(S) /\ t \in Seq(S)
  BY SeqWider
<1> HIDE DEF S
<1> QED BY <1>1, WithoutConcat

LEMMA LoadIsSeq ==
  ASSUME NEW c, IsContent(c)
  PROVE  /\ IsSeq(Load(c))
         /\ Range(Load(c)) \subseteq {e \in Range(c.lines) : e.type # "garbage"}
         /\ Load(c) # <<>> => Load(c) = Without(c.lines, {"garbage"}) /\ Head(Load(c)).type = "session"
<1>1. IsSeq(c.lines)
  BY DEF IsContent
<1>2. /\ IsSeq(Without(c.lines, {"garbage"}))
      /\ Range(Without(c.lines, {"garbage"})) = {e \in Range(c.lines) : e.type \notin {"garbage"}}
  BY <1>1, WithoutOfSeq
<1> QED BY <1>2, EmptyIsSeq, RangeEmpty DEF Load

\* What a session file says is a prefix of what it says with lines added,
\* but for its last line.
LEMMA ExtendedSession ==
  ASSUME NEW c, IsContent(c), NEW d, NEW lines, Extends(c, d, lines)
  PROVE  /\ IsPrefix(SubSeq(Load(c), 1, Len(Load(c)) - 1), Load(d))
         /\ c.ended => IsPrefix(Load(c), Load(d))
<1> DEFINE G == {"garbage"}
           a == Without(c.lines, G)
           b == Without(d.lines, G)
<1>0. IsSeq(c.lines) /\ IsSeq(d.lines) /\ IsContent(d)
  BY DEF IsContent, Extends
<1>1. IsSeq(a) /\ IsSeq(b) /\ Len(a) \in Nat /\ Len(b) \in Nat
  BY <1>0, WithoutOfSeq, SeqFacts
<1>2. PICK x : /\ IsSeq(x)
               /\ \/ d.lines = c.lines \o x
                  \/ c.lines # <<>> /\ ~c.ended /\ d.lines = Front(c.lines) \o x
  BY DEF Extends
<1> DEFINE y == Without(x, G)
<1>3. IsSeq(y)
  BY <1>2, WithoutOfSeq
<1>4. Load(c) \in {a, <<>>} /\ (Load(c) # <<>> => Load(c) = a /\ Head(a).type = "session")
      /\ (b # <<>> /\ Head(b).type = "session" => Load(d) = b) /\ Load(d) \in {b, <<>>}
  BY DEF Load
<1>5. IsSeq(Load(c)) /\ IsSeq(Load(d))
  BY <1>0, LoadIsSeq
<1>6. CASE Load(c) = <<>>
  <2>1. SubSeq(Load(c), 1, Len(Load(c)) - 1) = <<>>
    BY <1>6, SubSeqEmpty
  <2>2. IsPrefix(<<>>, Load(d))
    BY <1>5, EmptyIsPrefix
  <2> QED BY <1>6, <2>1, <2>2
<1>7. CASE Load(c) # <<>> /\ d.lines = c.lines \o x
  <2>1. b = a \o y
    BY <1>0, <1>2, <1>7, WithoutOfConcat
  <2> HIDE DEF a, b, y
  <2>2. a # <<>> /\ Len(a) > 0 /\ a[1].type = "session" /\ Load(c) = a
    BY <1>1, <1>4, <1>7, SeqFacts
  <2>3. Len(b) = Len(a) + Len(y) /\ b[1] = a[1] /\ Len(y) \in Nat
    BY <1>1, <1>3, <2>1, <2>2, ConcatIsSeq, SeqFacts
  <2>4. b # <<>> /\ Head(b) = b[1]
    <3>1. Len(b) > 0 /\ Len(<<>>) = 0
      BY <1>1, <2>2, <2>3
    <3> QED BY <1>1, <3>1, SeqFacts
  <2>5. Load(d) = a \o y
    BY <1>4, <2>1, <2>2, <2>3, <2>4
  <2>6. IsPrefix(a, Load(d))
    BY <1>1, <1>3, <2>5, PrefixOfConcat
  <2>7. IsPrefix(SubSeq(a, 1, Len(a) - 1), Load(d))
    BY <1>1, <1>5, <2>2, <2>6, FrontOfPrefix
  <2> QED BY <2>2, <2>6, <2>7
<1>8. CASE Load(c) # <<>> /\ c.lines # <<>> /\ ~c.ended /\ d.lines = Front(c.lines) \o x
  <2> DEFINE f == Without(Front(c.lines), G)
             l == c.lines[Len(c.lines)]
             z == Without(<<l>>, G)
  <2>1. IsSeq(Front(c.lines)) /\ c.lines = Front(c.lines) \o <<l>>
    BY <1>0, <1>8, FrontIsSeq, FrontAndLast
  <2>2. IsSeq(<<l>>) /\ Len(<<l>>) = 1 /\ Range(<<l>>) = {l}
    BY SingleIsSeq
  <2>3. a = f \o z
    <3> DEFINE h == Front(c.lines)
               o == <<l>>
    <3>1. IsSeq(h) /\ IsSeq(o) /\ c.lines = h \o o
      BY <2>1, <2>2
    <3> HIDE DEF h, o, l
    <3>2. Without(c.lines, G) = Without(h, G) \o Without(o, G)
      BY <3>1, WithoutOfConcat
    <3> QED BY <3>2 DEF h, o
  <2>4. b = f \o y
    BY <1>2, <1>8, <2>1, WithoutOfConcat
  <2>5. IsSeq(f)
    BY <2>1, WithoutOfSeq
  <2>6. IsSeq(z) /\ Len(z) \in {0, 1}
    BY SingleWithout
  <2> HIDE DEF a, b, f, y, z, l, G
  <2>7. a # <<>> /\ Len(a) > 0 /\ a[1].type = "session" /\ Load(c) = a
    BY <1>1, <1>4, <1>8, SeqFacts
  <2>8. Len(a) = Len(f) + Len(z) /\ Len(f) \in Nat /\ \A i \in 1..Len(f) : a[i] = f[i]
    BY <2>3, <2>5, <2>6, ConcatIsSeq, SeqFacts
  <2>9. CASE Len(a) = 1
    <3>1. SubSeq(a, 1, Len(a) - 1) = <<>>
      <4>1. SubSeq(a, 1, 0) = <<>>
        BY SubSeqEmpty
      <4> QED BY <2>9, <4>1
    <3> QED BY <1>5, <1>8, <2>7, <3>1, EmptyIsPrefix
  <2>10. CASE Len(a) > 1
    <3>1. Len(f) > 0 /\ Len(a) - 1 <= Len(f) /\ Len(a) - 1 \in 0..Len(f)
      <4>1. PICK n \in Nat, m \in Nat : n = Len(f) /\ m = Len(z) /\ m <= 1
        <5>1. Len(z) \in {0, 1}
          BY <2>6
        <5>2. Len(f) \in Nat
          BY <2>8
        <5>3. Len(z) \in Nat /\ Len(z) <= 1
          BY <5>1
        <5> QED BY <5>2, <5>3
      <4>2. Len(a) = n + m
        BY <2>8, <4>1
      <4>3. n + m - 1 > 0
        BY <2>10, <4>2
      <4>4. n > 0 /\ n + m - 1 <= n /\ n + m - 1 \in 0..n
        BY <4>1, <4>3
      <4> QED BY <4>1, <4>2, <4>4
    <3>2. Len(b) = Len(f) + Len(y) /\ Len(y) \in Nat /\ \A i \in 1..Len(f) : b[i] = f[i]
      BY <1>3, <2>4, <2>5, ConcatIsSeq, SeqFacts
    <3>3. b # <<>> /\ Head(b) = b[1] /\ b[1] = a[1]
      <4>1. Len(b) > 0 /\ Len(<<>>) = 0 /\ b[1] = a[1]
        BY <2>8, <3>1, <3>2
      <4> QED BY <1>1, <4>1, SeqFacts
    <3>4. Load(d) = b
      BY <1>4, <2>7, <3>3
    <3>5. Len(a) - 1 <= Len(b) /\ \A i \in 1..(Len(a) - 1) : a[i] = b[i]
      BY <1>1, <2>8, <3>1, <3>2
    <3>6. IsPrefix(SubSeq(a, 1, Len(a) - 1), b)
      BY <1>1, <2>7, <3>5, CommonPrefix
    <3> QED BY <1>8, <2>7, <3>4, <3>6
  <2>11. Len(a) = 1 \/ Len(a) > 1
    <3>1. PICK n \in Nat : n = Len(a) /\ n > 0
      BY <1>1, <2>7
    <3>2. n = 1 \/ n > 1
      BY <3>1
    <3> QED BY <3>1, <3>2
  <2>12. IsPrefix(SubSeq(a, 1, Len(a) - 1), Load(d))
    BY <2>7, <2>9, <2>10, <2>11
  <2> QED BY <1>8, <2>7, <2>12
<1> QED BY <1>2, <1>6, <1>7, <1>8

-----------------------------------------------------------------------------
(* What is known of every entry: it is the one that was created.           *)

\* L is a history: the ids are given in order, parents before children.
LogOK(L) ==
  /\ \E n \in 0..MaxEntries : DOMAIN L = 1..n
  /\ \A i \in DOMAIN L : L[i].id = i /\ L[i].type \in EntryTypes /\ L[i].parentId \in 0..(i - 1)

Created(L, e) == e.id \in DOMAIN L /\ e = L[e.id]
Knows(L, seq) == IsSeq(seq) /\ \A e \in Range(seq) : e = Header \/ Created(L, e)
KnowsFile(L, c) ==
  IsContent(c) /\ \A e \in Range(c.lines) : e \in {Header, Garbage} \/ Created(L, e)
Grows(L, M) == DOMAIN L \subseteq DOMAIN M /\ \A i \in DOMAIN L : M[i] = L[i]

LEMMA EntryTypesDiffer == "session" \notin EntryTypes /\ "garbage" \notin EntryTypes
BY DEF EntryTypes

LEMMA FixedLines ==
  /\ Header.type = "session" /\ Header.id = NoId
  /\ Garbage.type = "garbage" /\ Garbage.id = NoId /\ Header # Garbage
<1>1. Header.type = "session" /\ Header.id = NoId /\ Garbage.type = "garbage" /\ Garbage.id = NoId
  BY DEF Header, Garbage
<1>2. "session" # "garbage"
  OBVIOUS
<1> QED BY <1>1, <1>2

LEMMA CreatedFacts ==
  ASSUME NEW L, LogOK(L), NEW e, Created(L, e)
  PROVE  /\ e.id \in DOMAIN L /\ e.id # NoId /\ e = L[e.id]
         /\ e.type \in EntryTypes /\ e.type # "session" /\ e.type # "garbage"
         /\ e # Header /\ e # Garbage
<1>1. e.id \in DOMAIN L /\ e = L[e.id]
  BY DEF Created
<1>2. e.type \in EntryTypes /\ e.id # 0
  BY <1>1 DEF LogOK
<1>3. e.type # "session" /\ e.type # "garbage"
  BY <1>2, EntryTypesDiffer
<1> QED BY <1>1, <1>2, <1>3, FixedLines DEF NoId

LEMMA LogSize ==
  ASSUME NEW L, LogOK(L)
  PROVE  /\ Cardinality(DOMAIN L) \in 0..MaxEntries
         /\ DOMAIN L = 1..Cardinality(DOMAIN L)
         /\ IsFiniteSet(DOMAIN L)
<1>1. PICK n \in 0..MaxEntries : DOMAIN L = 1..n
  BY DEF LogOK
<1>2. n \in Nat
  BY <1>1, BoundsAssumption
<1>3. IsFiniteSet(1..n) /\ Cardinality(1..n) = n
  BY <1>2, FS_Interval
<1> QED BY <1>1, <1>3

LEMMA KnowsMore ==
  ASSUME NEW L, NEW M, Grows(L, M)
  PROVE  /\ \A seq : Knows(L, seq) => Knows(M, seq)
         /\ \A c : KnowsFile(L, c) => KnowsFile(M, c)
BY DEF Grows, Knows, KnowsFile, Created

LEMMA KnowsEmpty ==
  ASSUME NEW L
  PROVE  Knows(L, <<>>) /\ Knows(L, <<Header>>) /\ KnowsFile(L, NoFile) /\ KnowsFile(L, EmptyFile)
<1>1. Knows(L, <<>>)
  BY EmptyIsSeq, RangeEmpty DEF Knows
<1>2. Knows(L, <<Header>>)
  BY SingleIsSeq DEF Knows
<1>3. NoFile.lines = <<>> /\ EmptyFile.lines = <<>>
  BY DEF NoFile, EmptyFile
<1>4. KnowsFile(L, NoFile) /\ KnowsFile(L, EmptyFile)
  BY <1>3, EmptyContents, RangeEmpty DEF KnowsFile
<1> QED BY <1>1, <1>2, <1>4

LEMMA KnowsConcat ==
  ASSUME NEW L, NEW s, NEW t, Knows(L, s), Knows(L, t)
  PROVE  Knows(L, s \o t)
BY ConcatIsSeq DEF Knows

LEMMA KnowsAppend ==
  ASSUME NEW L, NEW s, Knows(L, s), NEW e, Created(L, e)
  PROVE  Knows(L, Append(s, e)) /\ Knows(L, <<e>>)
<1>1. Knows(L, Append(s, e))
  <2> DEFINE r == Append(s, e)
  <2>1. IsSeq(s)
    BY DEF Knows
  <2>2. IsSeq(r) /\ Range(r) = Range(s) \cup {e}
    BY <2>1, AppendIsSeq
  <2> HIDE DEF r
  <2>3. Knows(L, r)
    BY <2>2 DEF Knows
  <2> QED BY <2>3 DEF r
<1>2. Knows(L, <<e>>)
  BY SingleIsSeq DEF Knows
<1> QED BY <1>1, <1>2

LEMMA KnowsWithout ==
  ASSUME NEW L, NEW s, Knows(L, s), NEW types
  PROVE  Knows(L, Without(s, types))
BY WithoutOfSeq DEF Knows

LEMMA KnowsLoad ==
  ASSUME NEW L, LogOK(L), NEW c, KnowsFile(L, c)
  PROVE  Knows(L, Load(c))
<1>1. IsSeq(Load(c)) /\ Range(Load(c)) \subseteq {e \in Range(c.lines) : e.type # "garbage"}
  BY LoadIsSeq DEF KnowsFile
<1>2. ASSUME NEW e \in Range(Load(c)) PROVE e = Header \/ Created(L, e)
  <2>1. e \in Range(c.lines) /\ e.type # "garbage"
    BY <1>1
  <2> QED BY <2>1, FixedLines DEF KnowsFile
<1> QED BY <1>1, <1>2 DEF Knows

LEMMA KnowsExtended ==
  ASSUME NEW L, NEW c, KnowsFile(L, c), NEW lines, Knows(L, lines), NEW d, Extends(c, d, lines)
  PROVE  KnowsFile(L, d)
<1>1. IsSeq(c.lines) /\ IsContent(d)
  BY DEF KnowsFile, IsContent, Extends
<1>2. PICK x : /\ IsSeq(x) /\ Range(x) \subseteq Range(lines) \cup {Garbage}
               /\ \/ d.lines = c.lines \o x
                  \/ c.lines # <<>> /\ ~c.ended /\ d.lines = Front(c.lines) \o x
  BY DEF Extends
<1>3. Range(d.lines) \subseteq Range(c.lines) \cup Range(x)
  <2>1. CASE d.lines = c.lines \o x
    BY <1>1, <1>2, <2>1, ConcatIsSeq
  <2>2. CASE c.lines # <<>> /\ d.lines = Front(c.lines) \o x
    BY <1>1, <1>2, <2>2, FrontIsSeq, ConcatIsSeq
  <2> QED BY <1>2, <2>1, <2>2
<1> QED BY <1>1, <1>2, <1>3 DEF Knows, KnowsFile

\* What _buildIndex makes of known entries.
LEMMA IndexFacts ==
  ASSUME NEW L, LogOK(L), NEW seq, Knows(L, seq)
  PROVE  /\ \A e : e \in Range(EntriesOf(seq)) <=> e \in Range(seq) /\ Created(L, e)
         /\ IdsOf(seq) \subseteq DOMAIN L
         /\ \A i \in IdsOf(seq) : L[i] \in Range(seq)
         /\ \A e \in Range(seq) : Created(L, e) => e.id \in IdsOf(seq)
         /\ IndexOf(seq) = [i \in IdsOf(seq) |-> L[i]]
         /\ LastOf(seq) \in IdsOf(seq) \cup {NoId}
<1> DEFINE es == EntriesOf(seq)
<1>1. IsSeq(es) /\ Range(es) = {e \in Range(seq) : e.type \notin {"session"}}
  BY WithoutOfSeq DEF Knows, EntriesOf
<1> HIDE DEF es
<1>2. \A e : e \in Range(es) <=> e \in Range(seq) /\ Created(L, e)
  BY <1>1, CreatedFacts, FixedLines DEF Knows
<1>3. \A i \in IdsOf(seq) : i \in DOMAIN L /\ L[i] \in Range(es) /\ L[i].id = i
  BY <1>2 DEF IdsOf, Created, es
<1>4. \A e \in Range(seq) : Created(L, e) => e.id \in IdsOf(seq)
  BY <1>2 DEF IdsOf, es
<1>5. ASSUME NEW i \in IdsOf(seq)
      PROVE  (CHOOSE e \in Range(es) : e.id = i) = L[i]
  <2>1. \A e \in Range(es) : e.id = i <=> e = L[i]
    BY <1>2, <1>3 DEF Created
  <2>2. L[i] \in Range(es)
    BY <1>3
  <2> QED BY <2>1, <2>2
<1>6. IndexOf(seq) = [i \in IdsOf(seq) |-> L[i]]
  BY <1>5 DEF IndexOf, es
<1>7. LastOf(seq) \in IdsOf(seq) \cup {NoId}
  <2>1. CASE es = <<>>
    BY <2>1 DEF LastOf, es
  <2>2. CASE es # <<>>
    <3>1. es[Len(es)] \in Range(es)
      BY <1>1, <2>2, SeqFacts
    <3>2. LastOf(seq) = es[Len(es)].id
      BY <2>2 DEF LastOf, Last, es
    <3> QED BY <3>1, <3>2 DEF IdsOf, es
  <2> QED BY <2>1, <2>2
<1> QED BY <1>2, <1>3, <1>4, <1>6, <1>7 DEF es

-----------------------------------------------------------------------------
(* The invariant that holds whatever fails.                                *)

MemoryKnown ==
  /\ Knows(log, fileEntries)
  /\ DOMAIN byId \subseteq DOMAIN log
  /\ \A i \in DOMAIN byId : byId[i] = log[i]
  /\ leafId \in DOMAIN byId \cup {NoId}

FilesKnown ==
  /\ sessionFile \in Files
  /\ disk = [f \in Files |-> disk[f]]
  /\ \A f \in Files : KnowsFile(log, disk[f])

\* Every entry, in memory or in a file, is the one that was created with its id.
Known == LogOK(log) /\ MemoryKnown /\ FilesKnown

\* A step writes to a file by adding lines to it, or writes over a file that no
\* session can be read from: an empty one, or else it leaves a line at most.
FilesGrow ==
  \A f \in Files :
    \/ disk'[f] = disk[f]
    \/ Load(disk[f]) = <<>> /\ (disk[f].lines = <<>> \/ Len(disk'[f].lines) <= 1)
    \/ \E lines : Extends(disk[f], disk'[f], lines)

LEMMA KnownInitially == Init => Known
<1> SUFFICES ASSUME Init PROVE Known
  OBVIOUS
<1>1. DOMAIN log = {} /\ DOMAIN byId = {} /\ fileEntries = <<>> /\ leafId = NoId
  BY DEF Init
<1>2. LogOK(log)
  <2>1. 0 \in 0..MaxEntries /\ DOMAIN log = 1..0
    BY <1>1, BoundsAssumption
  <2> QED BY <1>1, <2>1 DEF LogOK
<1>3. MemoryKnown
  BY <1>1, KnowsEmpty DEF MemoryKnown
<1>4. FilesKnown
  <2>1. sessionFile \in Files /\ disk \in [Files -> {NoFile, EmptyFile}]
    BY DEF Init
  <2>2. \A f \in Files : disk[f] = NoFile \/ disk[f] = EmptyFile
    BY <2>1
  <2> QED BY <2>1, <2>2, KnowsEmpty DEF FilesKnown
<1> QED BY <1>2, <1>3, <1>4 DEF Known

\* Opening a session.
LEMMA IndexedKnown ==
  ASSUME NEW entries, LogOK(log'), Knows(log', entries), Index(entries)
  PROVE  MemoryKnown'
<1>1. fileEntries' = entries /\ byId' = IndexOf(entries) /\ leafId' = LastOf(entries)
  BY DEF Index
<1>2. /\ IdsOf(entries) \subseteq DOMAIN log'
      /\ IndexOf(entries) = [i \in IdsOf(entries) |-> log'[i]]
      /\ LastOf(entries) \in IdsOf(entries) \cup {NoId}
  BY IndexFacts
<1> QED BY <1>1, <1>2 DEF MemoryKnown

LEMMA DeadKnown ==
  ASSUME LogOK(log'), Die
  PROVE  MemoryKnown'
BY KnowsEmpty, IndexedKnown DEF Die

\* Writing.
LEMMA WriteKnown ==
  ASSUME FilesKnown, NEW f \in Files, NEW d, disk' = [disk EXCEPT ![f] = d],
         Grows(log, log'), KnowsFile(log', d), sessionFile' \in Files,
         \/ Load(disk[f]) = <<>> /\ (disk[f].lines = <<>> \/ Len(d.lines) <= 1)
         \/ \E lines : Extends(disk[f], d, lines)
  PROVE  FilesKnown' /\ FilesGrow
<1>1. /\ disk' = [g \in Files |-> disk'[g]]
      /\ \A g \in Files : disk'[g] = IF g = f THEN d ELSE disk[g]
  BY DEF FilesKnown
<1>2. \A g \in Files : KnowsFile(log', disk'[g])
  BY <1>1, KnowsMore DEF FilesKnown
<1>3. FilesKnown'
  BY <1>1, <1>2 DEF FilesKnown
<1>4. FilesGrow
  BY <1>1 DEF FilesGrow
<1> QED BY <1>3, <1>4

LEMMA NoWriteKnown ==
  ASSUME FilesKnown, disk' = disk, Grows(log, log'), sessionFile' \in Files
  PROVE  FilesKnown' /\ FilesGrow
BY KnowsMore DEF FilesKnown, FilesGrow

LEMMA GrowsReflexive == log' = log => Grows(log, log')
BY DEF Grows

LEMMA UnreadableFiles ==
  /\ Load(NoFile) = <<>> /\ Load(EmptyFile) = <<>>
  /\ \A c : IsContent(c) /\ ~c.exists => Load(c) = <<>> /\ c.lines = <<>>
BY WithoutEmpty DEF Load, NoFile, EmptyFile, IsContent

\* A write to a file of known lines, whole or cut short.
LEMMA WrittenKnown ==
  ASSUME NEW L, NEW c, KnowsFile(L, c), NEW lines, Knows(L, lines)
  PROVE  /\ KnowsFile(L, Written(c, lines)) /\ Extends(c, Written(c, lines), lines)
         /\ \A cut \in Cuts(c, lines) : KnowsFile(L, cut) /\ Extends(c, cut, lines)
<1>1. IsContent(c) /\ IsSeq(lines)
  BY DEF KnowsFile, Knows
<1>2. Extends(c, Written(c, lines), lines)
  BY <1>1, WrittenExtends
<1>3. \A cut \in Cuts(c, lines) : Extends(c, cut, lines)
  BY <1>1, CutExtends
<1> QED BY <1>2, <1>3, KnowsExtended

LEMMA NewSessionKnown ==
  ASSUME Known, NEW f \in Files, NewSession(f) \/ SetSessionFileNew(f)
  PROVE  Known' /\ FilesGrow
<1>1. Index(<<Header>>) /\ disk' = disk /\ log' = log /\ sessionFile' = f
  BY DEF NewSession, SetSessionFileNew
<1>2. LogOK(log') /\ Knows(log', <<Header>>)
  BY <1>1, KnowsEmpty DEF Known
<1>3. MemoryKnown'
  BY <1>1, <1>2, IndexedKnown
<1> QED BY <1>1, <1>2, <1>3, GrowsReflexive, NoWriteKnown DEF Known

LEMMA SetSessionFileKnown ==
  ASSUME Known, NEW f \in Files, SetSessionFile(f)
  PROVE  Known' /\ FilesGrow
<1>1. Index(Load(disk[f])) /\ disk' = disk /\ log' = log /\ sessionFile' = f
  BY DEF SetSessionFile
<1>2. LogOK(log') /\ Knows(log', Load(disk[f]))
  BY <1>1, KnowsLoad DEF Known, FilesKnown
<1>3. MemoryKnown'
  BY <1>1, <1>2, IndexedKnown
<1> QED BY <1>1, <1>2, <1>3, GrowsReflexive, NoWriteKnown DEF Known

\* A header written into an empty file, or a part of it.
LEMMA OneLineAtMost ==
  /\ Len(Written(EmptyFile, <<Header>>).lines) <= 1
  /\ \A cut \in Cuts(EmptyFile, <<Header>>) : Len(cut.lines) <= 1
<1>1. \A lines : lines # <<>> => Written(EmptyFile, lines).lines = <<>> \o lines
  BY DEF Written, EmptyFile
<1>2. Written(EmptyFile, <<>>) = EmptyFile /\ EmptyFile.lines = <<>>
  BY DEF Written, EmptyFile
<1>3. \A e : /\ <<e>> # <<>> /\ Len(<<e>>) = 1 /\ DOMAIN <<e>> = {1} /\ <<e>>[1] = e
             /\ <<>> \o <<e>> = <<e>> /\ Append(<<>>, e) = <<e>> /\ SubSeq(<<e>>, 1, 0) = <<>>
  BY SubSeqEmpty
<1>4. Len(Written(EmptyFile, <<Header>>).lines) <= 1
  <2>1. PICK h : h = <<Header>>
    OBVIOUS
  <2>2. h # <<>> /\ Len(h) = 1 /\ <<>> \o h = h
    BY <1>3, <2>1
  <2>3. PICK w : w = Written(EmptyFile, h)
    OBVIOUS
  <2>4. w.lines = h
    BY <1>1, <2>2, <2>3
  <2>5. Len(h) <= 1
    BY <2>2
  <2> QED BY <2>1, <2>3, <2>4, <2>5, Zenon
<1>5. ASSUME NEW cut \in Cuts(EmptyFile, <<Header>>) PROVE Len(cut.lines) <= 1
  <2>1. CASE \E k \in 0..(Len(<<Header>>) - 1) : cut = Written(EmptyFile, SubSeq(<<Header>>, 1, k))
    <3>1. 0..(Len(<<Header>>) - 1) = {0}
      BY <1>3
    <3>2. cut = Written(EmptyFile, SubSeq(<<Header>>, 1, 0))
      BY <2>1, <3>1
    <3>3. cut.lines = <<>>
      BY <1>2, <1>3, <3>2
    <3> QED BY <3>3
  <2>2. CASE \E k \in DOMAIN <<Header>> : \E last \in {Garbage, <<Header>>[k]} :
               cut = [Written(EmptyFile, Append(SubSeq(<<Header>>, 1, k - 1), last)) EXCEPT !.ended = FALSE]
    <3>1. PICK last : cut = [Written(EmptyFile, Append(SubSeq(<<Header>>, 1, 0), last)) EXCEPT !.ended = FALSE]
      <4>1. PICK k \in DOMAIN <<Header>> : \E last \in {Garbage, <<Header>>[k]} :
               cut = [Written(EmptyFile, Append(SubSeq(<<Header>>, 1, k - 1), last)) EXCEPT !.ended = FALSE]
        BY <2>2, Zenon
      <4>2. k - 1 = 0
        BY <1>3
      <4> QED BY <4>1, <4>2
    <3>2. cut = [Written(EmptyFile, <<last>>) EXCEPT !.ended = FALSE]
      BY <1>3, <3>1
    <3>3. Written(EmptyFile, <<last>>) = [exists |-> TRUE, ended |-> TRUE, lines |-> <<last>>]
      BY <1>3 DEF Written, EmptyFile
    <3>4. cut.lines = <<last>>
      BY <3>2, <3>3
    <3> QED BY <1>3, <3>4
  <2>3. \/ \E k \in 0..(Len(<<Header>>) - 1) : cut = Written(EmptyFile, SubSeq(<<Header>>, 1, k))
        \/ \E k \in DOMAIN <<Header>> : \E last \in {Garbage, <<Header>>[k]} :
              cut = [Written(EmptyFile, Append(SubSeq(<<Header>>, 1, k - 1), last)) EXCEPT !.ended = FALSE]
    BY Zenon DEF Cuts
  <2> QED BY <2>1, <2>2, <2>3
<1> QED BY <1>4, <1>5

LEMMA SetSessionFileCorruptKnown ==
  ASSUME Known, NEW f \in Files, SetSessionFileCorrupt(f)
  PROVE  Known' /\ FilesGrow
<1>1. log' = log /\ Load(disk[f]) = <<>> /\ LogOK(log') /\ Grows(log, log') /\ FilesKnown
  BY GrowsReflexive DEF SetSessionFileCorrupt, Known
<1>2. /\ Knows(log', <<Header>>) /\ KnowsFile(log', Written(EmptyFile, <<Header>>))
      /\ \A cut \in Cuts(EmptyFile, <<Header>>) : KnowsFile(log', cut)
  BY KnowsEmpty, WrittenKnown
<1>3. PICK d : disk' = [disk EXCEPT ![f] = d] /\ KnowsFile(log', d) /\ Len(d.lines) <= 1
  BY <1>2, OneLineAtMost DEF SetSessionFileCorrupt
<1>4. MemoryKnown'
  BY <1>1, <1>2, IndexedKnown, DeadKnown DEF SetSessionFileCorrupt
<1>5. sessionFile' \in Files
  BY <1>1 DEF SetSessionFileCorrupt, Die, FilesKnown
<1>6. FilesKnown' /\ FilesGrow
  BY <1>1, <1>3, <1>5, WriteKnown
<1> QED BY <1>1, <1>4, <1>6 DEF Known

LEMMA ForkFromKnown ==
  ASSUME Known, NEW source \in Files, NEW f \in Files, ForkFrom(source, f)
  PROVE  Known' /\ FilesGrow
<1> DEFINE lines == <<Header>> \o EntriesOf(Load(disk[source]))
<1>1. log' = log /\ ~disk[f].exists /\ LogOK(log') /\ Grows(log, log') /\ FilesKnown
  BY GrowsReflexive DEF ForkFrom, Known
<1>2. Load(disk[f]) = <<>> /\ disk[f].lines = <<>>
  BY <1>1, UnreadableFiles DEF FilesKnown, KnowsFile
<1>3. Knows(log', lines)
  <2>1. Knows(log', EntriesOf(Load(disk[source])))
    BY <1>1, KnowsLoad, KnowsWithout DEF FilesKnown, EntriesOf
  <2>2. Knows(log', <<Header>>)
    BY KnowsEmpty
  <2> QED BY <2>1, <2>2, KnowsConcat
<1>4. /\ KnowsFile(log', Written(NoFile, lines))
      /\ \A cut \in Cuts(NoFile, lines) : KnowsFile(log', cut)
  BY <1>3, KnowsEmpty, WrittenKnown
<1>5. /\ \/ /\ disk' = [disk EXCEPT ![f] = Written(NoFile, lines)]
            /\ Index(lines) /\ sessionFile' = f
         \/ /\ \E cut \in Cuts(NoFile, lines) : disk' = [disk EXCEPT ![f] = cut]
            /\ Die
         \/ /\ \E cut \in Cuts(NoFile, lines) : disk' = [disk EXCEPT ![f] = cut]
            /\ UNCHANGED memory
  BY Zenon DEF ForkFrom
<1> HIDE DEF lines
<1>6. PICK d : disk' = [disk EXCEPT ![f] = d] /\ KnowsFile(log', d)
  BY <1>4, <1>5
<1>7. sessionFile' \in Files
  BY <1>1, <1>5 DEF Die, FilesKnown, memory
<1>8. FilesKnown' /\ FilesGrow
  BY <1>1, <1>2, <1>6, <1>7, WriteKnown
<1>9. MemoryKnown'
  <2>1. UNCHANGED memory => MemoryKnown'
    BY <1>1 DEF memory, Known, MemoryKnown
  <2> QED BY <1>1, <1>3, <1>5, <2>1, IndexedKnown, DeadKnown
<1> QED BY <1>1, <1>8, <1>9 DEF Known

LEMMA MoveLeafKnown ==
  ASSUME Known, NEW id, MoveLeaf(id)
  PROVE  Known' /\ FilesGrow
BY DEF MoveLeaf, Known, MemoryKnown, FilesKnown, FilesGrow

\* One more entry in the history.
LEMMA LogAppended ==
  ASSUME NEW L, LogOK(L), NEW e, NEW M,
         e.id = Cardinality(DOMAIN L) + 1, e.id <= MaxEntries,
         e.type \in EntryTypes, e.parentId \in DOMAIN L \cup {NoId},
         M = [i \in DOMAIN L \cup {e.id} |-> IF i = e.id THEN e ELSE L[i]]
  PROVE  LogOK(M) /\ Grows(L, M) /\ Created(M, e) /\ e.id \notin DOMAIN L
<1> DEFINE n == Cardinality(DOMAIN L)
<1>1. n \in Nat /\ DOMAIN L = 1..n /\ MaxEntries \in Nat
  BY LogSize, BoundsAssumption
<1> HIDE DEF n
<1>2. e.id = n + 1 /\ e.id \notin DOMAIN L
  BY <1>1 DEF n
<1>3. DOMAIN M = 1..(n + 1) /\ n + 1 \in 0..MaxEntries
  BY <1>1, <1>2
<1>4. M[e.id] = e /\ \A i \in DOMAIN L : M[i] = L[i]
  BY <1>2
<1>5. e.parentId \in 0..(e.id - 1)
  BY <1>1, <1>2 DEF NoId
<1>6. ASSUME NEW i \in DOMAIN M
      PROVE  M[i].id = i /\ M[i].type \in EntryTypes /\ M[i].parentId \in 0..(i - 1)
  <2>1. CASE i = e.id
    BY <1>4, <1>5, <2>1
  <2>2. CASE i \in DOMAIN L
    BY <1>4, <2>2 DEF LogOK
  <2> QED BY <2>1, <2>2
<1>7. Created(M, e)
  BY <1>4 DEF Created
<1>8. LogOK(M)
  BY <1>3, <1>6 DEF LogOK
<1> QED BY <1>2, <1>4, <1>7, <1>8 DEF Grows

LEMMA AppendEntryKnown ==
  ASSUME Known, NEW type, NEW parent, NEW ref, AppendEntry(type, parent, ref),
         type \in EntryTypes, parent \in DOMAIN byId \cup {NoId}
  PROVE  Known' /\ FilesGrow
<1> DEFINE entry == [type |-> type, id |-> NextId, parentId |-> parent, ref |-> ref]
           entries == Append(fileEntries, entry)
           lines == ToWrite(entries, entry)
<1>1. /\ NextId <= MaxEntries
      /\ log' = [id \in DOMAIN log \cup {entry.id} |-> IF id = entry.id THEN entry ELSE log[id]]
      /\ \/ /\ disk' = [disk EXCEPT ![sessionFile] = Written(@, lines)]
            /\ fileEntries' = entries /\ leafId' = entry.id /\ sessionFile' = sessionFile
            /\ byId' = [id \in DOMAIN byId \cup {entry.id} |-> IF id = entry.id THEN entry ELSE byId[id]]
         \/ /\ \E cut \in Cuts(disk[sessionFile], lines) : disk' = [disk EXCEPT ![sessionFile] = cut]
            /\ fileEntries' = entries /\ leafId' = entry.id /\ sessionFile' = sessionFile
            /\ byId' = [id \in DOMAIN byId \cup {entry.id} |-> IF id = entry.id THEN entry ELSE byId[id]]
         \/ /\ \E cut \in Cuts(disk[sessionFile], lines) : disk' = [disk EXCEPT ![sessionFile] = cut]
            /\ Die
  BY Zenon DEF AppendEntry
<1>2. /\ entry.id = Cardinality(DOMAIN log) + 1 /\ entry.id <= MaxEntries
      /\ entry.type \in EntryTypes /\ entry.parentId \in DOMAIN log \cup {NoId}
  BY <1>1 DEF NextId, Known, MemoryKnown
<1> HIDE DEF entry
<1>3. LogOK(log') /\ Grows(log, log') /\ Created(log', entry) /\ entry.id \notin DOMAIN log
  BY <1>1, <1>2, LogAppended DEF Known
<1>4. Knows(log', fileEntries) /\ Knows(log', entries) /\ Knows(log', <<entry>>)
  BY <1>3, KnowsMore, KnowsAppend DEF Known, MemoryKnown
<1>5. Knows(log', lines)
  BY <1>4, KnowsEmpty DEF ToWrite
<1> HIDE DEF entries, lines
<1>6. FilesKnown /\ sessionFile \in Files /\ KnowsFile(log', disk[sessionFile])
  BY <1>3, KnowsMore DEF Known, FilesKnown
<1>7. PICK d : /\ disk' = [disk EXCEPT ![sessionFile] = d]
               /\ KnowsFile(log', d) /\ Extends(disk[sessionFile], d, lines)
  <2>1. /\ KnowsFile(log', Written(disk[sessionFile], lines))
        /\ Extends(disk[sessionFile], Written(disk[sessionFile], lines), lines)
        /\ \A cut \in Cuts(disk[sessionFile], lines) :
             KnowsFile(log', cut) /\ Extends(disk[sessionFile], cut, lines)
    BY <1>5, <1>6, WrittenKnown
  <2>2. \/ disk' = [disk EXCEPT ![sessionFile] = Written(disk[sessionFile], lines)]
        \/ \E cut \in Cuts(disk[sessionFile], lines) : disk' = [disk EXCEPT ![sessionFile] = cut]
    BY <1>1
  <2> QED BY <2>1, <2>2
<1>8. sessionFile' \in Files
  BY <1>1, <1>6 DEF Die
<1>9. FilesKnown' /\ FilesGrow
  BY <1>3, <1>6, <1>7, <1>8, WriteKnown
<1>10. MemoryKnown'
  <2>1. CASE Die
    BY <1>3, <2>1, DeadKnown
  <2>2. CASE /\ fileEntries' = entries /\ leafId' = entry.id
             /\ byId' = [id \in DOMAIN byId \cup {entry.id} |-> IF id = entry.id THEN entry ELSE byId[id]]
    <3>1. \A i \in DOMAIN byId : byId[i] = log[i] /\ i \in DOMAIN log
      BY DEF Known, MemoryKnown
    <3>2. DOMAIN byId' = DOMAIN byId \cup {entry.id} /\ leafId' \in DOMAIN byId'
      BY <2>2
    <3>3. entry.id \in DOMAIN log' /\ log'[entry.id] = entry
          /\ \A i \in DOMAIN log : i \in DOMAIN log' /\ log'[i] = log[i]
      BY <1>3 DEF Created, Grows
    <3>4. \A i \in DOMAIN byId' : i \in DOMAIN log' /\ byId'[i] = log'[i]
      BY <2>2, <3>1, <3>2, <3>3
    <3> QED BY <1>4, <2>2, <3>2, <3>4 DEF MemoryKnown
  <2> QED BY <1>1, <2>1, <2>2
<1> QED BY <1>3, <1>9, <1>10 DEF Known

LEMMA IndexIsOK ==
  ASSUME Known
  PROVE  IndexOK(byId)
<1>1. DOMAIN log = 1..Cardinality(DOMAIN log) /\ Cardinality(DOMAIN log) \in 0..MaxEntries
  BY LogSize DEF Known
<1>2. DOMAIN log \subseteq 1..MaxEntries
  BY <1>1, BoundsAssumption
<1>3. \A i \in DOMAIN byId : i \in DOMAIN log /\ byId[i].parentId \in 0..(i - 1)
  BY DEF Known, MemoryKnown, LogOK
<1> QED BY <1>2, <1>3 DEF IndexOK

\* The path a fork copies is made of entries of the session.
LEMMA BranchedPathKnown ==
  ASSUME Known, NEW id \in DOMAIN byId
  PROVE  /\ Knows(log, BranchedPath(id))
         /\ \A e \in Range(BranchedPath(id)) :
              e \in Range(Branch(byId, id)) /\ e.type \notin {"label", "unlabel"}
         /\ \A e \in Range(Branch(byId, id)) : Created(log, e) /\ e.id \in DOMAIN byId
<1> DEFINE b == Branch(byId, id)
<1>1. id \in 0..MaxEntries
  BY IndexIsOK, BoundsAssumption DEF IndexOK
<1>2. IsSeq(b) /\ \A e \in Range(b) : \E j \in DOMAIN byId : e = byId[j]
  BY <1>1, IndexIsOK, BranchIsSeq
<1> HIDE DEF b
<1>3. \A e \in Range(b) : Created(log, e) /\ e.id \in DOMAIN byId
  BY <1>2 DEF Known, MemoryKnown, LogOK, Created
<1>4. Knows(log, b)
  BY <1>2, <1>3 DEF Knows
<1>5. Knows(log, Without(b, {"label", "unlabel"}))
  BY <1>4, KnowsWithout
<1>6. Range(Without(b, {"label", "unlabel"})) = {e \in Range(b) : e.type \notin {"label", "unlabel"}}
  BY <1>2, WithoutOfSeq
<1> QED BY <1>3, <1>5, <1>6 DEF b, BranchedPath

\* The label entries a fork writes anew.
LEMMA RelabelsKnown ==
  ASSUME Known, NEW path, Knows(log, path),
         NextId + Len(Relabels(path)) <= MaxEntries + 1,
         log' = [i \in DOMAIN log \cup IdsOf(Relabels(path)) |->
                   IF i \in DOMAIN log THEN log[i] ELSE Relabels(path)[i - NextId + 1]]
  PROVE  /\ LogOK(log') /\ Grows(log, log') /\ Knows(log', Relabels(path))
         /\ \A e \in Range(Relabels(path)) : Created(log', e) /\ e.id \notin DOMAIN log
<1> DEFINE n == Cardinality(DOMAIN log)
           onPath == IdsOf(path) \cap labelsById
           k == Cardinality(onPath)
           targets == SetToSortSeq(onPath, <)
           labels == Relabels(path)
<1>1. n \in Nat /\ DOMAIN log = 1..n /\ IsFiniteSet(DOMAIN log) /\ MaxEntries \in Nat /\ NextId = n + 1
  BY LogSize, BoundsAssumption DEF Known, NextId
<1>2. IdsOf(path) \subseteq DOMAIN log /\ LastOf(path) \in IdsOf(path) \cup {NoId}
  BY IndexFacts DEF Known
<1>3. k \in Nat
  <2>1. onPath \in SUBSET DOMAIN log
    BY <1>2
  <2>2. IsFiniteSet(onPath)
    BY <1>1, <2>1, FS_Subset
  <2> QED BY <2>2, FS_CardinalityType
<1>4. labels = [i \in 1..k |->
                 [type |-> "label", id |-> NextId + i - 1,
                  parentId |-> IF i > 1 THEN NextId + i - 2 ELSE LastOf(path), ref |-> targets[i]]]
  BY Zenon DEF Relabels
<1> HIDE DEF k, targets, labels, n
<1>5. IsSeq(labels) /\ Len(labels) = k /\ DOMAIN labels = 1..k
  <2>1. DOMAIN labels = 1..k /\ labels = [i \in 1..k |-> labels[i]]
    BY <1>4
  <2>2. labels \in [1..k -> Range(labels)]
    BY <2>1 DEF Range
  <2>3. labels \in Seq(Range(labels))
    BY <1>3, <2>2, SeqDef
  <2>4. Len(labels) = k
    BY <1>3, <2>1, <2>3, LenProperties
  <2> QED BY <2>1, <2>3, <2>4 DEF IsSeq
<1>6. ASSUME NEW i \in 1..k
      PROVE  /\ labels[i].type = "label" /\ labels[i].id = n + i
             /\ labels[i].parentId \in 0..(n + i - 1)
  <2>1. /\ labels[i].type = "label" /\ labels[i].id = NextId + i - 1
        /\ labels[i].parentId = IF i > 1 THEN NextId + i - 2 ELSE LastOf(path)
    BY <1>4
  <2>2. LastOf(path) \in 0..n
    BY <1>1, <1>2 DEF NoId
  <2>3. i \in Nat /\ i >= 1
    BY <1>3
  <2> HIDE DEF labels
  <2>4. labels[i].id = n + i
    BY <1>1, <2>1, <2>3
  <2>5. labels[i].parentId \in 0..(n + i - 1)
    <3>1. CASE i > 1
      <4>1. labels[i].parentId = n + i - 1
        BY <1>1, <2>1, <2>3, <3>1
      <4> QED BY <1>1, <2>3, <4>1
    <3>2. CASE ~(i > 1)
      <4>1. labels[i].parentId = LastOf(path)
        BY <2>1, <3>2
      <4> QED BY <1>1, <2>2, <2>3, <4>1
    <3> QED BY <3>1, <3>2
  <2> QED BY <2>1, <2>4, <2>5
<1>7. IdsOf(labels) = {n + i : i \in 1..k}
  <2>1. Range(EntriesOf(labels)) = {e \in Range(labels) : e.type \notin {"session"}}
    BY <1>5, WithoutOfSeq DEF EntriesOf
  <2>2. \A e \in Range(labels) : \E i \in 1..k : e = labels[i]
    BY <1>5 DEF Range
  <2>3. \A i \in 1..k : labels[i] \in Range(labels)
    BY <1>5 DEF Range
  <2>4. Range(EntriesOf(labels)) = Range(labels)
    BY <1>6, <2>1, <2>2
  <2>5. IdsOf(labels) = {e.id : e \in Range(labels)}
    BY <2>4 DEF IdsOf
  <2> QED BY <1>6, <2>2, <2>3, <2>5
<1>8. DOMAIN log' = 1..(n + k)
  <2>1. DOMAIN log' = 1..n \cup {n + i : i \in 1..k}
    BY <1>1, <1>7 DEF labels
  <2>2. ASSUME NEW j \in 1..(n + k) PROVE j \in 1..n \/ \E i \in 1..k : j = n + i
    <3>1. CASE j <= n
      BY <1>1, <3>1
    <3>2. CASE ~(j <= n)
      <4>1. j - n \in 1..k /\ j = n + (j - n)
        BY <1>1, <1>3, <3>2
      <4> QED BY <4>1
    <3> QED BY <3>1, <3>2
  <2>3. \A i \in 1..k : n + i \in 1..(n + k)
    BY <1>1, <1>3
  <2>4. \A j \in 1..n : j \in 1..(n + k)
    BY <1>1, <1>3
  <2> QED BY <2>1, <2>2, <2>3, <2>4
<1>9. \A i \in DOMAIN log : log'[i] = log[i]
  OBVIOUS
<1>10. ASSUME NEW i \in 1..k PROVE log'[n + i] = labels[i] /\ n + i \notin DOMAIN log
  <2>1. n + i \in DOMAIN log' /\ n + i \notin DOMAIN log /\ (n + i) - NextId + 1 = i
    BY <1>1, <1>3, <1>8
  <2>2. log'[n + i] = Relabels(path)[(n + i) - NextId + 1]
    BY <1>8, <2>1
  <2> QED BY <2>1, <2>2 DEF labels
<1>11. n + k \in 0..MaxEntries
  BY <1>1, <1>3, <1>5 DEF labels
<1>12. LogOK(log')
  <2>1. ASSUME NEW j \in DOMAIN log'
        PROVE  log'[j].id = j /\ log'[j].type \in EntryTypes /\ log'[j].parentId \in 0..(j - 1)
    <3>1. CASE j \in DOMAIN log
      BY <1>9, <3>1 DEF Known, LogOK
    <3>2. CASE j \notin DOMAIN log
      <4>1. j - n \in 1..k /\ j = n + (j - n)
        BY <1>1, <1>3, <1>8, <3>2
      <4>2. PICK i \in 1..k : j = n + i
        BY <4>1
      <4>3. log'[j] = labels[i]
        BY <1>10, <4>2
      <4>4. labels[i].type = "label" /\ labels[i].id = j /\ labels[i].parentId \in 0..(j - 1)
        <5>1. labels[i].type = "label" /\ labels[i].id = n + i /\ labels[i].parentId \in 0..(n + i - 1)
          BY <1>6, <4>2
        <5>2. n + i - 1 = j - 1
          BY <1>1, <1>3, <4>2
        <5> QED BY <4>2, <5>1, <5>2, Zenon
      <4>5. "label" \in EntryTypes
        BY DEF EntryTypes
      <4> QED BY <4>3, <4>4, <4>5, Zenon
    <3> QED BY <3>1, <3>2
  <2> QED BY <1>8, <1>11, <2>1 DEF LogOK
<1>13. ASSUME NEW e \in Range(labels) PROVE Created(log', e) /\ e.id \notin DOMAIN log
  <2>1. PICK i \in 1..k : e = labels[i]
    BY <1>5 DEF Range
  <2>2. n + i \in 1..(n + k)
    BY <1>1, <1>3
  <2>3. e.id = n + i /\ n + i \in DOMAIN log'
    BY <1>6, <1>8, <2>1, <2>2, Zenon
  <2> QED BY <1>10, <2>1, <2>3, Zenon DEF Created
<1>14. Grows(log, log')
  BY <1>1, <1>3, <1>8, <1>9 DEF Grows
<1> QED BY <1>5, <1>12, <1>13, <1>14 DEF Knows, labels

LEMMA CreateBranchedSessionKnown ==
  ASSUME Known, NEW id, NEW f \in Files, CreateBranchedSession(id, f)
  PROVE  Known' /\ FilesGrow
<1> DEFINE path == BranchedPath(id)
           labels == Relabels(path)
           entries == <<Header>> \o path \o labels
<1>1. /\ id \in DOMAIN byId /\ ~disk[f].exists
      /\ NextId + Len(labels) <= MaxEntries + 1
      /\ log' = [i \in DOMAIN log \cup IdsOf(labels) |->
                   IF i \in DOMAIN log THEN log[i] ELSE labels[i - NextId + 1]]
      /\ \/ /\ Index(entries) /\ sessionFile' = f
            /\ disk' = IF HasAssistant(entries)
                         THEN [disk EXCEPT ![f] = Written(EmptyFile, entries)] ELSE disk
         \/ /\ Index(entries) /\ sessionFile' = f
            /\ \E cut \in Cuts(EmptyFile, entries) : disk' = [disk EXCEPT ![f] = cut]
         \/ /\ \E cut \in Cuts(EmptyFile, entries) : disk' = [disk EXCEPT ![f] = cut]
            /\ Die
  BY Zenon DEF CreateBranchedSession
<1>2. Knows(log, path)
  BY <1>1, BranchedPathKnown
<1> HIDE DEF path
<1>3. LogOK(log') /\ Grows(log, log') /\ Knows(log', labels)
  BY <1>1, <1>2, RelabelsKnown
<1> HIDE DEF labels
<1>4. Knows(log', entries)
  <2>1. Knows(log', <<Header>>) /\ Knows(log', path)
    BY <1>2, <1>3, KnowsEmpty, KnowsMore
  <2>2. Knows(log', <<Header>> \o path)
    BY <2>1, KnowsConcat
  <2> QED BY <1>3, <2>2, KnowsConcat
<1> HIDE DEF entries
<1>5. MemoryKnown'
  BY <1>1, <1>3, <1>4, IndexedKnown, DeadKnown
<1>6. FilesKnown /\ sessionFile' \in Files
  BY <1>1 DEF Known, FilesKnown, Die
<1>7. Load(disk[f]) = <<>> /\ disk[f].lines = <<>>
  BY <1>1, <1>6, UnreadableFiles DEF FilesKnown, KnowsFile
<1>8. /\ KnowsFile(log', Written(EmptyFile, entries))
      /\ \A cut \in Cuts(EmptyFile, entries) : KnowsFile(log', cut)
  BY <1>4, KnowsEmpty, WrittenKnown
<1>9. disk' = disk \/ \E d : disk' = [disk EXCEPT ![f] = d] /\ KnowsFile(log', d)
  BY <1>1, <1>8
<1>10. FilesKnown' /\ FilesGrow
  BY <1>3, <1>6, <1>7, <1>9, WriteKnown, NoWriteKnown
<1> QED BY <1>3, <1>5, <1>10 DEF Known

\* The operations that append an entry.
LEMMA AppendingSteps ==
  ASSUME Known,
         \/ \E type \in {"user", "assistant"} : AppendMessage(type)
         \/ AppendSetting
         \/ \E id \in Ids : AppendCompaction(id) \/ \E type \in {"label", "unlabel"} : AppendLabelChange(type, id)
         \/ \E id \in Ids \cup {NoId} : BranchWithSummary(id)
  PROVE  \E type \in EntryTypes, parent \in DOMAIN byId \cup {NoId}, ref \in Ids \cup {NoId} :
           /\ AppendEntry(type, parent, ref)
           /\ type \in {"label", "unlabel"} => "label" \in Kinds
<1>1. leafId \in DOMAIN byId \cup {NoId}
  BY DEF Known, MemoryKnown
<1>2. ASSUME NEW type \in {"user", "assistant"}, AppendMessage(type)
      PROVE  type \in EntryTypes /\ type \notin {"label", "unlabel"} /\ AppendEntry(type, leafId, NoId)
  BY <1>2 DEF AppendMessage, EntryTypes
<1>3. ASSUME AppendSetting
      PROVE  "setting" \in EntryTypes /\ "setting" \notin {"label", "unlabel"}
             /\ AppendEntry("setting", leafId, NoId)
  BY <1>3 DEF AppendSetting, EntryTypes
<1>4. ASSUME NEW id \in Ids, AppendCompaction(id)
      PROVE  "compaction" \in EntryTypes /\ "compaction" \notin {"label", "unlabel"}
             /\ AppendEntry("compaction", leafId, id)
  <2>1. AppendEntry("compaction", leafId, id)
    BY <1>4, Zenon DEF AppendCompaction
  <2> QED BY <2>1 DEF EntryTypes
<1>5. ASSUME NEW id \in Ids, NEW type \in {"label", "unlabel"}, AppendLabelChange(type, id)
      PROVE  type \in EntryTypes /\ "label" \in Kinds /\ AppendEntry(type, leafId, id)
  BY <1>5 DEF AppendLabelChange, EntryTypes
<1>6. ASSUME NEW id, BranchWithSummary(id)
      PROVE  "branch_summary" \in EntryTypes /\ "branch_summary" \notin {"label", "unlabel"}
             /\ id \in DOMAIN byId \cup {NoId} /\ AppendEntry("branch_summary", id, NoId)
  BY <1>6 DEF BranchWithSummary, EntryTypes
<1> QED BY <1>1, <1>2, <1>3, <1>4, <1>5, <1>6, Zenon

LEMMA KnownStep == Known /\ [Next]_vars => Known' /\ FilesGrow
<1> SUFFICES ASSUME Known, [Next]_vars PROVE Known' /\ FilesGrow
  OBVIOUS
<1>1. ASSUME NEW f \in Files, NewSession(f) \/ SetSessionFileNew(f) PROVE Known' /\ FilesGrow
  BY <1>1, NewSessionKnown
<1>2. ASSUME NEW f \in Files, SetSessionFile(f) PROVE Known' /\ FilesGrow
  BY <1>2, SetSessionFileKnown
<1>3. ASSUME NEW f \in Files, SetSessionFileCorrupt(f) PROVE Known' /\ FilesGrow
  BY <1>3, SetSessionFileCorruptKnown
<1>4. ASSUME NEW f \in Files, NEW source \in Files, ForkFrom(source, f) PROVE Known' /\ FilesGrow
  BY <1>4, ForkFromKnown
<1>5. ASSUME NEW f \in Files, NEW id \in Ids, CreateBranchedSession(id, f) PROVE Known' /\ FilesGrow
  BY <1>5, CreateBranchedSessionKnown
<1>6. ASSUME NEW id, MoveLeaf(id) PROVE Known' /\ FilesGrow
  BY <1>6, MoveLeafKnown
<1>7. CASE \/ \E type \in {"user", "assistant"} : AppendMessage(type)
           \/ AppendSetting
           \/ \E id \in Ids : AppendCompaction(id) \/ \E type \in {"label", "unlabel"} : AppendLabelChange(type, id)
           \/ \E id \in Ids \cup {NoId} : BranchWithSummary(id)
  <2>1. PICK type \in EntryTypes, parent \in DOMAIN byId \cup {NoId}, ref \in Ids \cup {NoId} :
          AppendEntry(type, parent, ref)
    BY <1>7, AppendingSteps
  <2> QED BY <2>1, AppendEntryKnown
<1>8. CASE UNCHANGED vars
  BY <1>8 DEF vars, Known, MemoryKnown, FilesKnown, FilesGrow
<1> QED BY <1>1, <1>2, <1>3, <1>4, <1>5, <1>6, <1>7, <1>8, Zenon DEF Next

LEMMA AlwaysKnown == Spec => []Known
BY KnownInitially, KnownStep, PTL DEF Spec

LEMMA LastLineStep == Known /\ [Next]_vars => LastLineMayChange
<1> SUFFICES ASSUME Known, [Next]_vars, NEW f \in Files, disk'[f] # disk[f]
             PROVE  \/ IsPrefix(SubSeq(disk[f].lines, 1, Len(disk[f].lines) - 1), disk'[f].lines)
                    \/ Load(disk[f]) = <<>> /\ Len(disk'[f].lines) <= 1
  BY Zenon DEF LastLineMayChange
<1>1. Known' /\ FilesGrow
  BY KnownStep
<1>2. PICK c, d : c = disk[f] /\ d = disk'[f]
  OBVIOUS
<1>3. IsSeq(c.lines) /\ IsSeq(d.lines)
  BY <1>1, <1>2, Zenon DEF Known, FilesKnown, KnowsFile, IsContent
<1>4. Len(c.lines) \in Nat
  BY <1>3, SeqFacts
<1>5. CASE c.lines = <<>>
  <2>1. SubSeq(c.lines, 1, Len(c.lines) - 1) = <<>>
    BY <1>5, SubSeqEmpty
  <2> QED BY <1>2, <1>3, <2>1, EmptyIsPrefix
<1>6. ASSUME NEW lines, Extends(c, d, lines), c.lines # <<>>
      PROVE  IsPrefix(SubSeq(c.lines, 1, Len(c.lines) - 1), d.lines)
  <2>1. Len(c.lines) > 0
    BY <1>3, <1>4, <1>6, SeqFacts
  <2>2. PICK x : /\ IsSeq(x)
                 /\ \/ d.lines = c.lines \o x
                    \/ c.lines # <<>> /\ ~c.ended /\ d.lines = Front(c.lines) \o x
    BY <1>6, Zenon DEF Extends
  <2>3. CASE d.lines = c.lines \o x
    <3>1. IsPrefix(c.lines, d.lines)
      BY <1>3, <2>2, <2>3, PrefixOfConcat
    <3> QED BY <1>3, <2>1, <3>1, FrontOfPrefix
  <2>4. CASE d.lines = Front(c.lines) \o x
    <3>1. IsSeq(Front(c.lines))
      BY <1>3, <1>6, FrontIsSeq
    <3>2. IsPrefix(Front(c.lines), d.lines)
      BY <2>2, <2>4, <3>1, PrefixOfConcat
    <3> QED BY <3>2 DEF Front
  <2> QED BY <2>2, <2>3, <2>4
<1>7. \/ Load(c) = <<>> /\ (c.lines = <<>> \/ Len(d.lines) <= 1)
      \/ \E lines : Extends(c, d, lines)
  BY <1>1, <1>2, Zenon DEF FilesGrow
<1> QED BY <1>2, <1>5, <1>6, <1>7

\* Whatever fails, and wherever a write is cut, only the last line of a file that
\* begins with a header can be damaged by the next write (_persist appends); what
\* has been appended to a file that does not is lost when it is opened, with the
\* whole of its old content.
THEOREM OnlyTheLastLine == Spec => LastLineOnly
<1>1. Known /\ [Next]_vars => [LastLineMayChange]_vars
  BY LastLineStep
<1>2. Spec => [][LastLineMayChange]_vars
  BY <1>1, AlwaysKnown, PTL DEF Spec
<1> QED BY <1>2 DEF LastLineOnly

-----------------------------------------------------------------------------
(* When the process may only die, between two lines of a write.            *)

OnlyKilled == Faults \subseteq {"kill"}

IntactFile(c) ==
  /\ IsContent(c) /\ c.ended
  /\ Garbage \notin Range(c.lines)
  /\ c.lines # <<>> => c.lines[1] = Header

FilesIntact ==
  /\ saved = [f \in Files |-> saved[f]]
  /\ \A f \in Files : IntactFile(disk[f]) /\ saved[f] \subseteq IdsOf(disk[f].lines)

\* The memory is an index of its entries, and the file holds nothing that the
\* memory does not. Once flushed the file ends with all that is in memory: before
\* that there may be what an earlier write, cut short, has left, repeated since.
MemoryIntact ==
  up =>
    /\ fileEntries # <<>> /\ fileEntries[1] = Header
    /\ byId = IndexOf(fileEntries) /\ labelsById = LabelsOf(fileEntries)
    /\ Range(disk[sessionFile].lines) \subseteq Range(fileEntries)
    /\ flushed => \E old : IsSeq(old) /\ disk[sessionFile].lines = old \o fileEntries

Intact == FilesIntact /\ MemoryIntact

LEMMA IntactLoad ==
  ASSUME NEW L, LogOK(L), NEW c, KnowsFile(L, c), IntactFile(c)
  PROVE  Load(c) = c.lines /\ Knows(L, c.lines)
<1> DEFINE s == c.lines
<1>1. IsSeq(s) /\ \A e \in Range(s) : e = Header \/ Created(L, e)
  BY DEF KnowsFile, IntactFile, IsContent
<1> HIDE DEF s
<1>2. \A e \in Range(s) : e.type \notin {"garbage"}
  BY <1>1, CreatedFacts, FixedLines
<1>3. Without(s, {"garbage"}) = s
  BY <1>1, <1>2, WithoutNothing DEF IsSeq
<1>4. s # <<>> => Head(s).type = "session"
  BY <1>1, SeqFacts, FixedLines DEF IntactFile, s
<1>5. Load(c) = s
  BY <1>3, <1>4 DEF Load, s
<1> QED BY <1>1, <1>5 DEF Knows, s

\* The ids of a sequence depend on what is in it only.
LEMMA IdsMonotonic ==
  ASSUME NEW L, LogOK(L), NEW s, NEW t, Knows(L, s), Knows(L, t), Range(s) \subseteq Range(t)
  PROVE  IdsOf(s) \subseteq IdsOf(t)
<1> SUFFICES ASSUME NEW i \in IdsOf(s) PROVE i \in IdsOf(t)
  OBVIOUS
<1>1. i \in DOMAIN L /\ L[i] \in Range(s) /\ L[i].id = i
  BY IndexFacts DEF LogOK
<1>2. Created(L, L[i])
  BY <1>1 DEF Created
<1>3. L[i].id \in IdsOf(t)
  BY <1>1, <1>2, IndexFacts
<1> QED BY <1>1, <1>3

LEMMA SameIndex ==
  ASSUME NEW L, LogOK(L), NEW s, NEW t, Knows(L, s), Knows(L, t), Range(s) = Range(t)
  PROVE  IndexOf(s) = IndexOf(t)
<1>1. IdsOf(s) = IdsOf(t)
  BY IdsMonotonic
<1>2. IndexOf(s) = [i \in IdsOf(s) |-> L[i]] /\ IndexOf(t) = [i \in IdsOf(t) |-> L[i]]
  BY IndexFacts
<1> QED BY <1>1, <1>2

LEMMA NoIds == IdsOf(<<>>) = {}
<1>1. EntriesOf(<<>>) = <<>>
  BY WithoutEmpty DEF EntriesOf
<1> QED BY <1>1, RangeEmpty DEF IdsOf

\* Labels: the last change of a label counts.
Labels(seq, i) ==
  /\ i \in 1..Len(seq) /\ seq[i].type = "label"
  /\ \A k \in (i + 1)..Len(seq) : seq[k].type = "unlabel" => seq[k].ref # seq[i].ref

LEMMA LabelsOfSeq ==
  ASSUME NEW s, IsSeq(s)
  PROVE  \A r : r \in LabelsOf(s) <=> \E i : Labels(s, i) /\ s[i].ref = r
BY SeqFacts DEF LabelsOf, Labels

LEMMA LabelsAppended ==
  ASSUME NEW s, IsSeq(s), NEW e
  PROVE  LabelsOf(Append(s, e)) =
           CASE e.type = "label"   -> LabelsOf(s) \cup {e.ref}
             [] e.type = "unlabel" -> LabelsOf(s) \ {e.ref}
             [] OTHER              -> LabelsOf(s)
<1> DEFINE t == Append(s, e)
           n == Len(s)
<1>a. n \in Nat
  BY SeqFacts
<1> HIDE DEF n
<1>b. /\ IsSeq(t) /\ Len(t) = n + 1 /\ t[n + 1] = e
      /\ \A i \in 1..n : t[i] = s[i]
  <2>1. IsSeq(Append(s, e)) /\ Len(Append(s, e)) = Len(s) + 1 /\ Append(s, e)[Len(s) + 1] = e
    BY AppendIsSeq
  <2>2. \A i \in 1..Len(s) : Append(s, e)[i] = s[i]
    BY AppendIsSeq
  <2> QED BY <2>1, <2>2, Zenon DEF n, t
<1> HIDE DEF t
<1>1. /\ IsSeq(t) /\ Len(t) = n + 1 /\ t[n + 1] = e /\ n \in Nat
      /\ \A i \in 1..n : t[i] = s[i]
  BY <1>a, <1>b
<1>2. ASSUME NEW i PROVE Labels(t, i) <=> \/ (i = n + 1 /\ e.type = "label")
                                         \/ (Labels(s, i) /\ ~(e.type = "unlabel" /\ e.ref = s[i].ref))
  <2>1. CASE i \in 1..n
    <3>1. i # n + 1 /\ i \in 1..(n + 1) /\ t[i] = s[i]
      BY <1>1, <2>1
    <3>2. \A k \in (i + 1)..(n + 1) : k \in (i + 1)..n \/ k = n + 1
      BY <1>1, <2>1
    <3>3. \A k \in (i + 1)..n : k \in (i + 1)..(n + 1) /\ t[k] = s[k]
      BY <1>1, <2>1
    <3>4. n + 1 \in (i + 1)..(n + 1)
      BY <1>1, <2>1
    <3> QED BY <1>1, <2>1, <3>1, <3>2, <3>3, <3>4 DEF Labels, n
  <2>2. CASE i = n + 1
    <3>1. i \notin 1..n /\ i \in 1..(n + 1) /\ \A k \in (i + 1)..(n + 1) : FALSE
      BY <1>1, <2>2
    <3> QED BY <1>1, <2>2, <3>1 DEF Labels, n
  <2>3. CASE i \notin 1..(n + 1)
    <3>1. i \notin 1..n /\ i # n + 1
      BY <1>1, <2>3
    <3> QED BY <1>1, <2>3, <3>1 DEF Labels, n
  <2> QED BY <1>1, <2>1, <2>2, <2>3
<1>3. ASSUME NEW i, Labels(s, i) PROVE t[i] = s[i]
  BY <1>1, <1>3 DEF Labels, n
<1>4. ASSUME NEW r
      PROVE  r \in LabelsOf(t) <=> \/ e.type = "label" /\ r = e.ref
                                   \/ r \in LabelsOf(s) /\ ~(e.type = "unlabel" /\ e.ref = r)
  <2>1. r \in LabelsOf(t) <=> \E i : Labels(t, i) /\ t[i].ref = r
    BY <1>1, LabelsOfSeq
  <2>2. r \in LabelsOf(s) <=> \E i : Labels(s, i) /\ s[i].ref = r
    BY LabelsOfSeq
  <2> QED BY <1>1, <1>2, <1>3, <2>1, <2>2
<1>5. "label" # "unlabel"
  OBVIOUS
<1> QED BY <1>4, <1>5 DEF t

\* What is repeated later may be left out.
LEMMA LabelsReplayed ==
  ASSUME NEW old, IsSeq(old), NEW s, IsSeq(s), Range(old) \subseteq Range(s)
  PROVE  LabelsOf(old \o s) = LabelsOf(s)
<1> DEFINE t == old \o s
           n == Len(old)
           m == Len(s)
<1>1. /\ IsSeq(t) /\ Len(t) = n + m /\ n \in Nat /\ m \in Nat
      /\ \A i \in 1..n : t[i] = old[i]
      /\ \A i \in 1..m : t[i + n] = s[i]
  BY ConcatIsSeq, SeqFacts
<1>2. \A i \in 1..n : \E j \in 1..m : old[i] = s[j]
  BY <1>1, SeqFacts
<1> HIDE DEF t, n, m
<1>3. ASSUME NEW i \in 1..m, Labels(s, i) PROVE Labels(t, i + n)
  <2>1. i + n \in 1..(n + m) /\ t[i + n] = s[i]
    BY <1>1
  <2>2. ASSUME NEW k \in (i + n + 1)..(n + m) PROVE t[k].type = "unlabel" => t[k].ref # s[i].ref
    <3>1. k - n \in (i + 1)..m /\ k - n \in 1..m /\ k = (k - n) + n
      BY <1>1
    <3>2. t[k] = s[k - n]
      BY <1>1, <3>1
    <3> QED BY <1>3, <3>1, <3>2 DEF Labels, m
  <2>3. s[i].type = "label"
    BY <1>3 DEF Labels
  <2> QED BY <1>1, <2>1, <2>2, <2>3 DEF Labels
<1>4. ASSUME NEW j \in 1..(n + m), Labels(t, j) PROVE \E i \in 1..m : Labels(s, i) /\ s[i] = t[j]
  <2>1. CASE j > n
    <3>1. PICK i \in 1..m : j = i + n
      <4>1. j - n \in 1..m /\ j = (j - n) + n
        BY <1>1, <2>1
      <4> QED BY <4>1
    <3>2. t[j] = s[i]
      BY <1>1, <3>1
    <3>3. ASSUME NEW k \in (i + 1)..m PROVE s[k].type = "unlabel" => s[k].ref # s[i].ref
      <4>1. k + n \in (j + 1)..(n + m) /\ k \in 1..m
        BY <1>1, <3>1
      <4>2. t[k + n] = s[k]
        BY <1>1, <4>1
      <4> QED BY <1>1, <1>4, <3>2, <4>1, <4>2 DEF Labels
    <3> QED BY <1>4, <3>2, <3>3 DEF Labels, m
  <2>2. CASE ~(j > n)
    <3>1. j \in 1..n
      BY <1>1, <2>2
    <3>2. PICK i \in 1..m : t[j] = s[i]
      BY <1>1, <1>2, <3>1
    <3>3. ASSUME NEW k \in (i + 1)..m PROVE s[k].type = "unlabel" => s[k].ref # s[i].ref
      <4>1. k + n \in (j + 1)..(n + m) /\ k \in 1..m
        BY <1>1, <3>1
      <4>2. t[k + n] = s[k]
        BY <1>1, <4>1
      <4> QED BY <1>1, <1>4, <3>2, <4>1, <4>2 DEF Labels
    <3> QED BY <1>4, <3>2, <3>3 DEF Labels, m
  <2> QED BY <2>1, <2>2
<1>5. \A r : r \in LabelsOf(t) <=> \E i : Labels(t, i) /\ t[i].ref = r
  BY <1>1, LabelsOfSeq
<1>6. \A r : r \in LabelsOf(s) <=> \E i : Labels(s, i) /\ s[i].ref = r
  BY LabelsOfSeq
<1>7. /\ \A i : Labels(s, i) => i \in 1..m
      /\ \A j : Labels(t, j) => j \in 1..(n + m)
      /\ \A i \in 1..m : t[i + n] = s[i]
  BY <1>1 DEF Labels, m
<1>8. \A r : r \in LabelsOf(t) <=> r \in LabelsOf(s)
  BY <1>3, <1>4, <1>5, <1>6, <1>7
<1> QED BY <1>8 DEF t

\* Lines added to an intact file, all of them or the first ones.
LEMMA EmptyConcat ==
  ASSUME NEW s, IsSeq(s)
  PROVE  <<>> \o s = s
<1> DEFINE z == <<>>
           t == z \o s
<1>1. IsSeq(z) /\ Len(z) = 0
  BY EmptyIsSeq
<1> HIDE DEF z
<1>2. /\ IsSeq(t) /\ Len(t) = Len(z) + Len(s)
      /\ \A i \in 1..Len(s) : t[i + Len(z)] = s[i]
  BY <1>1, ConcatIsSeq
<1> HIDE DEF t
<1>3. Len(s) \in Nat
  BY SeqFacts
<1>4. Len(t) = Len(s) /\ \A i \in 1..Len(s) : t[i] = s[i]
  BY <1>1, <1>2, <1>3
<1>5. t = s
  BY <1>2, <1>4, SameSeq
<1> QED BY <1>5 DEF t, z

LEMMA HeaderFirst ==
  ASSUME NEW s, IsSeq(s)
  PROVE  /\ IsSeq(<<Header>> \o s) /\ <<Header>> \o s # <<>> /\ (<<Header>> \o s)[1] = Header
         /\ Range(<<Header>> \o s) = {Header} \cup Range(s)
<1> DEFINE h == <<Header>>
           t == h \o s
<1>1. IsSeq(h) /\ Range(h) = {Header} /\ Len(h) = 1 /\ h[1] = Header
  BY SingleIsSeq
<1> HIDE DEF h
<1>2. IsSeq(t) /\ Range(t) = Range(h) \cup Range(s) /\ \A i \in 1..Len(h) : t[i] = h[i]
  BY <1>1, ConcatIsSeq
<1> HIDE DEF t
<1>3. t[1] = Header
  BY <1>1, <1>2
<1>4. Header \in Range(t)
  BY <1>1, <1>2
<1>5. t # <<>>
  BY <1>4, RangeEmpty
<1> QED BY <1>1, <1>2, <1>3, <1>5 DEF t, h

LEMMA KnowsNoGarbage ==
  ASSUME NEW L, LogOK(L), NEW s, Knows(L, s)
  PROVE  Garbage \notin Range(s)
BY CreatedFacts, FixedLines DEF Knows

LEMMA WrittenIntact ==
  ASSUME NEW c, IntactFile(c), NEW lines, IsSeq(lines), Garbage \notin Range(lines),
         c.lines = <<>> /\ lines # <<>> => lines[1] = Header
  PROVE  IntactFile(Written(c, lines)) /\ Written(c, lines).lines = c.lines \o lines
<1> DEFINE d == Written(c, lines)
           a == c.lines
           b == a \o lines
<1>1. IsContent(c) /\ c.ended /\ IsSeq(a) /\ Garbage \notin Range(a) /\ (a # <<>> => a[1] = Header)
  BY DEF IntactFile, IsContent
<1>2. Extends(c, d, lines) /\ d.lines = b /\ d.ended
  BY <1>1, WrittenExtends
<1>3. IsContent(d)
  BY <1>2 DEF Extends
<1> HIDE DEF d, a
<1>4. IsSeq(b) /\ Range(b) = Range(a) \cup Range(lines) /\ Len(b) = Len(a) + Len(lines)
      /\ (\A i \in 1..Len(a) : b[i] = a[i]) /\ \A i \in 1..Len(lines) : b[i + Len(a)] = lines[i]
  BY <1>1, ConcatIsSeq
<1> HIDE DEF b
<1>5. b # <<>> => b[1] = Header
  <2>1. CASE a # <<>>
    <3>1. Len(a) \in Nat /\ Len(a) > 0
      BY <1>1, <2>1, SeqFacts
    <3> QED BY <1>1, <1>4, <2>1, <3>1
  <2>2. CASE a = <<>> /\ lines # <<>>
    <3>1. Len(lines) \in Nat /\ Len(lines) > 0 /\ Len(a) = 0
      BY <2>2, SeqFacts
    <3>2. lines[1] = Header
      BY <2>2 DEF a
    <3> QED BY <1>4, <3>1, <3>2
  <2>3. CASE a = <<>> /\ lines = <<>>
    <3>1. Range(b) = {}
      BY <1>4, <2>3, RangeEmpty
    <3>2. b = <<>>
      BY <1>4, <3>1, SeqFacts
    <3> QED BY <3>2
  <2> QED BY <2>1, <2>2, <2>3
<1> QED BY <1>1, <1>2, <1>3, <1>4, <1>5 DEF IntactFile, d, a, b

LEMMA CutIntact ==
  ASSUME OnlyKilled, NEW c, IntactFile(c), NEW lines, IsSeq(lines), Garbage \notin Range(lines),
         c.lines = <<>> /\ lines # <<>> => lines[1] = Header, NEW cut \in Cuts(c, lines)
  PROVE  /\ IntactFile(cut) /\ Range(c.lines) \subseteq Range(cut.lines)
         /\ \E k \in 0..Len(lines) : cut.lines = c.lines \o SubSeq(lines, 1, k)
<1>1. "torn" \notin Faults
  BY DEF OnlyKilled
<1>2. IsContent(c) /\ IsSeq(c.lines)
  BY DEF IntactFile, IsContent
<1>3. PICK k \in 0..(Len(lines) - 1) : cut = Written(c, SubSeq(lines, 1, k))
  BY <1>1, <1>2, CutExtends
<1> DEFINE first == SubSeq(lines, 1, k)
<1>4. Len(lines) \in Nat /\ k \in 0..Len(lines)
  BY <1>3, SeqFacts
<1>5. IsSeq(first) /\ Range(first) \subseteq Range(lines) /\ Len(first) = k
      /\ \A i \in 1..k : first[i] = lines[i]
  BY <1>4, PrefixIsSeq
<1> HIDE DEF first
<1>6. ASSUME c.lines = <<>>, first # <<>> PROVE first[1] = Header
  <2>1. k \in Nat /\ k > 0
    BY <1>4, <1>5, <1>6, SeqFacts
  <2>2. lines # <<>>
    BY <1>3, <1>4, <2>1
  <2> QED BY <1>5, <1>6, <2>1, <2>2
<1>7. Garbage \notin Range(first)
  BY <1>5
<1>8. IntactFile(Written(c, first)) /\ Written(c, first).lines = c.lines \o first
  BY <1>5, <1>6, <1>7, WrittenIntact
<1>9. Range(c.lines \o first) = Range(c.lines) \cup Range(first)
  BY <1>2, <1>5, ConcatIsSeq
<1> QED BY <1>3, <1>4, <1>8, <1>9 DEF first

\* One file is written, or none.
LEMMA FileWrittenIntact ==
  ASSUME Known, Known', FilesIntact, NEW f \in Files, NEW d, disk' = [disk EXCEPT ![f] = d],
         IntactFile(d), Range(disk[f].lines) \subseteq Range(d.lines),
         saved' = [g \in Files |-> saved'[g]],
         \A g \in Files : saved'[g] \subseteq saved[g] \cup (IF g = f THEN IdsOf(d.lines) ELSE {})
  PROVE  FilesIntact'
<1>1. \A g \in Files : disk'[g] = IF g = f THEN d ELSE disk[g]
  BY DEF Known, FilesKnown
<1>2. \A g \in Files : IntactFile(disk'[g]) /\ Range(disk[g].lines) \subseteq Range(disk'[g].lines)
  BY <1>1 DEF FilesIntact
<1>3. ASSUME NEW g \in Files PROVE IdsOf(disk[g].lines) \subseteq IdsOf(disk'[g].lines)
  <2>1. LogOK(log) /\ LogOK(log') /\ KnowsFile(log, disk[g]) /\ KnowsFile(log', disk'[g])
    BY DEF Known, FilesKnown
  <2>2. Knows(log', disk'[g].lines)
    BY <1>2, <2>1, IntactLoad
  <2>3. Knows(log', disk[g].lines)
    BY <1>2, <2>2 DEF Knows, IntactFile, FilesIntact, IsContent
  <2> QED BY <1>2, <2>1, <2>2, <2>3, IdsMonotonic
<1>4. \A g \in Files : saved'[g] \subseteq IdsOf(disk'[g].lines)
  BY <1>1, <1>3 DEF FilesIntact
<1> QED BY <1>2, <1>4 DEF FilesIntact

LEMMA NoFileWrittenIntact ==
  ASSUME FilesIntact, disk' = disk, saved' = saved
  PROVE  FilesIntact'
BY DEF FilesIntact

LEMMA DeadIntact == Die => MemoryIntact'
BY DEF Die, MemoryIntact

LEMMA IndexedIntact ==
  ASSUME NEW entries, Index(entries), entries # <<>>, entries[1] = Header,
         Range(disk'[sessionFile'].lines) \subseteq Range(entries),
         flushed' => \E old : IsSeq(old) /\ disk'[sessionFile'].lines = old \o entries
  PROVE  MemoryIntact'
BY DEF Index, MemoryIntact

\* A path without a file.
LEMMA MissingFile ==
  ASSUME Known, NEW f \in Files, ~disk[f].exists
  PROVE  disk[f].lines = <<>> /\ Range(disk[f].lines) = {}
BY RangeEmpty DEF Known, FilesKnown, KnowsFile, IsContent

LEMMA OnlyHeader ==
  /\ <<Header>> # <<>> /\ <<Header>>[1] = Header /\ IsSeq(<<Header>>) /\ Range(<<Header>>) = {Header}
  /\ Garbage \notin Range(<<Header>>)
BY SingleIsSeq, FixedLines

LEMMA FreshFiles == IntactFile(NoFile) /\ IntactFile(EmptyFile) /\ NoFile.lines = <<>> /\ EmptyFile.lines = <<>>
BY EmptyContents, RangeEmpty DEF IntactFile, NoFile, EmptyFile

LEMMA NewSessionIntact ==
  ASSUME Known, Intact, NEW f \in Files, NewSession(f) \/ SetSessionFileNew(f)
  PROVE  Intact'
<1>1. /\ ~disk[f].exists /\ Index(<<Header>>) /\ flushed' = FALSE /\ sessionFile' = f
      /\ disk' = disk /\ saved' = saved
  BY DEF NewSession, SetSessionFileNew
<1>2. Range(disk'[sessionFile'].lines) \subseteq Range(<<Header>>)
  BY <1>1, MissingFile
<1>3. MemoryIntact'
  BY <1>1, <1>2, OnlyHeader, IndexedIntact
<1> QED BY <1>1, <1>3, NoFileWrittenIntact DEF Intact

LEMMA SetSessionFileIntact ==
  ASSUME Known, Intact, NEW f \in Files, SetSessionFile(f)
  PROVE  Intact'
<1> DEFINE lines == disk[f].lines
<1>1. IntactFile(disk[f]) /\ LogOK(log) /\ KnowsFile(log, disk[f]) /\ IsSeq(lines)
  BY DEF Intact, FilesIntact, Known, FilesKnown, KnowsFile, IsContent
<1>2. Load(disk[f]) = lines
  BY <1>1, IntactLoad
<1>3. lines # <<>> /\ Index(lines) /\ sessionFile' = f /\ disk' = disk /\ saved' = saved
  BY <1>2 DEF SetSessionFile
<1>4. lines[1] = Header
  BY <1>1, <1>3 DEF IntactFile
<1>5. disk'[sessionFile'].lines = lines
  BY <1>3
<1> HIDE DEF lines
<1>6. disk'[sessionFile'].lines = <<>> \o lines /\ IsSeq(<<>>)
  BY <1>1, <1>5, EmptyConcat, EmptyIsSeq
<1>7. MemoryIntact'
  BY <1>3, <1>4, <1>5, <1>6, IndexedIntact
<1> QED BY <1>3, <1>7, NoFileWrittenIntact DEF Intact

LEMMA SetSessionFileCorruptIntact ==
  ASSUME OnlyKilled, Known, Known', Intact, NEW f \in Files, SetSessionFileCorrupt(f)
  PROVE  Intact'
<1> DEFINE d == Written(EmptyFile, <<Header>>)
           h == <<Header>>
<1>1. /\ Load(disk[f]) = <<>> /\ saved' = saved
      /\ \/ /\ disk' = [disk EXCEPT ![f] = d]
            /\ Index(h) /\ sessionFile' = f
         \/ /\ \E cut \in Cuts(EmptyFile, h) : disk' = [disk EXCEPT ![f] = cut]
            /\ Die
  BY DEF SetSessionFileCorrupt, OnlyKilled
<1>2. h # <<>> /\ h[1] = Header /\ IsSeq(h) /\ Garbage \notin Range(h)
  BY OnlyHeader
<1>3. disk[f].lines = <<>>
  BY <1>1, IntactLoad DEF Intact, FilesIntact, Known, FilesKnown
<1>4. Range(disk[f].lines) = {}
  BY <1>3, RangeEmpty
<1> HIDE DEF h
<1>5. IntactFile(d) /\ d.lines = <<>> \o h
  BY <1>2, FreshFiles, WrittenIntact DEF h
<1>6. \A cut \in Cuts(EmptyFile, h) : IntactFile(cut)
  BY <1>2, FreshFiles, CutIntact
<1> HIDE DEF d
<1>7. PICK w : disk' = [disk EXCEPT ![f] = w] /\ IntactFile(w)
  BY <1>1, <1>5, <1>6
<1>8. FilesIntact'
  BY <1>1, <1>4, <1>7, FileWrittenIntact DEF Intact, FilesIntact
<1>9. ASSUME disk' = [disk EXCEPT ![f] = d], Index(h), sessionFile' = f PROVE MemoryIntact'
  <2>1. disk'[sessionFile'] = d
    BY <1>9 DEF Known, FilesKnown
  <2>2. d.lines = h
    BY <1>2, <1>5, EmptyConcat
  <2> QED BY <1>2, <1>5, <1>9, <2>1, <2>2, EmptyIsSeq, IndexedIntact
<1> QED BY <1>1, <1>8, <1>9, DeadIntact DEF Intact

LEMMA ForkFromIntact ==
  ASSUME OnlyKilled, Known, Known', Intact, NEW source \in Files, NEW f \in Files, ForkFrom(source, f)
  PROVE  Intact'
<1> DEFINE loaded == EntriesOf(Load(disk[source]))
           lines == <<Header>> \o loaded
           d == Written(NoFile, lines)
<1>1. /\ ~disk[f].exists
      /\ \/ /\ disk' = [disk EXCEPT ![f] = d]
            /\ Index(lines) /\ sessionFile' = f
            /\ saved' = [saved EXCEPT ![f] = IdsOf(lines)]
         \/ /\ \E cut \in Cuts(NoFile, lines) : disk' = [disk EXCEPT ![f] = cut]
            /\ Die
            /\ saved' = saved
  BY Zenon DEF ForkFrom, OnlyKilled
<1>2. Knows(log, loaded) /\ LogOK(log)
  BY KnowsLoad, KnowsWithout DEF Known, FilesKnown, EntriesOf
<1> HIDE DEF loaded
<1>3. IsSeq(lines) /\ lines # <<>> /\ lines[1] = Header /\ Range(lines) = {Header} \cup Range(loaded)
  BY <1>2, HeaderFirst DEF Knows
<1>4. Garbage \notin Range(lines)
  BY <1>2, <1>3, KnowsNoGarbage, FixedLines
<1> HIDE DEF lines
<1>5. IntactFile(d) /\ d.lines = <<>> \o lines
  BY <1>3, <1>4, FreshFiles, WrittenIntact
<1>6. \A cut \in Cuts(NoFile, lines) : IntactFile(cut)
  BY <1>3, <1>4, FreshFiles, CutIntact
<1> HIDE DEF d
<1>7. d.lines = lines
  BY <1>3, <1>5, EmptyConcat
<1>8. Range(disk[f].lines) = {}
  BY <1>1, MissingFile
<1>9. ASSUME saved' = saved
      PROVE  saved' = [g \in Files |-> saved'[g]] /\ \A g \in Files : saved'[g] \subseteq saved[g]
  BY <1>9 DEF Intact, FilesIntact
<1>10. ASSUME saved' = [saved EXCEPT ![f] = IdsOf(lines)]
       PROVE  /\ saved' = [g \in Files |-> saved'[g]]
              /\ \A g \in Files : saved'[g] = IF g = f THEN IdsOf(lines) ELSE saved[g]
  BY <1>10 DEF Intact, FilesIntact
<1>11. PICK w : /\ disk' = [disk EXCEPT ![f] = w] /\ IntactFile(w)
                /\ saved' = [g \in Files |-> saved'[g]]
                /\ \A g \in Files : saved'[g] \subseteq saved[g] \cup (IF g = f THEN IdsOf(w.lines) ELSE {})
  BY <1>1, <1>5, <1>6, <1>7, <1>9, <1>10
<1>12. FilesIntact'
  BY <1>8, <1>11, FileWrittenIntact DEF Intact
<1>13. ASSUME disk' = [disk EXCEPT ![f] = d], Index(lines), sessionFile' = f PROVE MemoryIntact'
  <2>1. disk'[sessionFile'] = d
    BY <1>13 DEF Known, FilesKnown
  <2> QED BY <1>3, <1>5, <1>7, <1>13, <2>1, EmptyIsSeq, IndexedIntact
<1> QED BY <1>1, <1>12, <1>13, DeadIntact DEF Intact

LEMMA MoveLeafIntact ==
  ASSUME Intact, NEW id, MoveLeaf(id)
  PROVE  Intact'
BY DEF MoveLeaf, Intact, MemoryIntact, FilesIntact

LEMMA ConcatAssociates ==
  ASSUME NEW s, IsSeq(s), NEW t, IsSeq(t), NEW u, IsSeq(u)
  PROVE  (s \o t) \o u = s \o (t \o u)
<1> DEFINE S == Range(s) \cup Range(t) \cup Range(u)
<1>1. s \in Seq(S) /\ t \in Seq(S) /\ u \in Seq(S)
  BY SeqWider
<1> HIDE DEF S
<1> QED BY <1>1, ConcatAssociative

\* The index of the memory after an entry was appended to it.
LEMMA IndexAppended ==
  ASSUME NEW L, LogOK(L), NEW M, Grows(L, M), LogOK(M), NEW s, Knows(L, s),
         NEW e, Created(M, e)
  PROVE  LET t == Append(s, e) IN
         /\ DOMAIN IndexOf(t) = DOMAIN IndexOf(s) \cup {e.id}
         /\ \A i \in DOMAIN IndexOf(t) : IndexOf(t)[i] = IF i = e.id THEN e ELSE IndexOf(s)[i]
<1> DEFINE t == Append(s, e)
<1>1. Knows(M, s)
  BY KnowsMore
<1>2. Knows(M, t)
  BY <1>1, KnowsAppend
<1>3. IsSeq(t) /\ Range(t) = Range(s) \cup {e}
  BY AppendIsSeq DEF Knows
<1> HIDE DEF t
<1>4. IndexOf(s) = [i \in IdsOf(s) |-> L[i]] /\ IdsOf(s) \subseteq DOMAIN L
      /\ \A i \in IdsOf(s) : L[i] \in Range(s)
  BY IndexFacts
<1>5. /\ IdsOf(s) \subseteq DOMAIN M
      /\ \A i \in IdsOf(s) : M[i] \in Range(s)
      /\ \A x \in Range(s) : Created(M, x) => x.id \in IdsOf(s)
  BY <1>1, IndexFacts
<1>6. /\ IndexOf(t) = [i \in IdsOf(t) |-> M[i]] /\ IdsOf(t) \subseteq DOMAIN M
      /\ \A i \in IdsOf(t) : M[i] \in Range(t)
      /\ \A x \in Range(t) : Created(M, x) => x.id \in IdsOf(t)
  BY <1>2, IndexFacts
<1>7. M[e.id] = e /\ \A i \in DOMAIN M : Created(M, M[i]) /\ M[i].id = i
  BY DEF Created, LogOK
<1>8. IdsOf(t) = IdsOf(s) \cup {e.id}
  <2>1. ASSUME NEW i \in IdsOf(t) PROVE i \in IdsOf(s) \cup {e.id}
    BY <1>3, <1>5, <1>6, <1>7, <2>1
  <2>2. ASSUME NEW i \in IdsOf(s) \cup {e.id} PROVE i \in IdsOf(t)
    BY <1>3, <1>5, <1>6, <1>7, <2>2
  <2> QED BY <2>1, <2>2
<1>9. \A i \in IdsOf(s) : M[i] = L[i]
  BY <1>4 DEF Grows
<1>10. ASSUME NEW i \in IdsOf(t)
       PROVE  M[i] = IF i = e.id THEN e ELSE IndexOf(s)[i]
  BY <1>4, <1>7, <1>8, <1>9
<1> QED BY <1>4, <1>6, <1>8, <1>10 DEF t

LEMMA AppendEntryIntact ==
  ASSUME OnlyKilled, Known, Known', Intact, NEW type, NEW parent, NEW ref, AppendEntry(type, parent, ref),
         type \in EntryTypes, parent \in DOMAIN byId \cup {NoId}
  PROVE  Intact'
<1> DEFINE entry == [type |-> type, id |-> NextId, parentId |-> parent, ref |-> ref]
           entries == Append(fileEntries, entry)
           lines == ToWrite(entries, entry)
           c == disk[sessionFile]
           d == Written(c, lines)
           assistant == HasAssistant(entries)
<1>1. /\ up /\ NextId <= MaxEntries
      /\ log' = [id \in DOMAIN log \cup {entry.id} |-> IF id = entry.id THEN entry ELSE log[id]]
      /\ \/ /\ disk' = [disk EXCEPT ![sessionFile] = d]
            /\ fileEntries' = entries /\ sessionFile' = sessionFile
            /\ byId' = [id \in DOMAIN byId \cup {entry.id} |-> IF id = entry.id THEN entry ELSE byId[id]]
            /\ flushed' = assistant /\ labelsById' = Relabelled(entry)
            /\ saved' = IF lines = <<>> THEN saved
                        ELSE [saved EXCEPT ![sessionFile] = @ \cup IdsOf(lines)]
         \/ /\ \E cut \in Cuts(c, lines) : disk' = [disk EXCEPT ![sessionFile] = cut]
            /\ Die /\ saved' = saved
  BY Zenon DEF AppendEntry, OnlyKilled
<1>2. lines = IF ~assistant THEN <<>> ELSE IF flushed THEN <<entry>> ELSE entries
  BY DEF ToWrite
<1>3. /\ entry.id = Cardinality(DOMAIN log) + 1 /\ entry.id <= MaxEntries
      /\ entry.type \in EntryTypes /\ entry.parentId \in DOMAIN log \cup {NoId}
  BY <1>1 DEF NextId, Known, MemoryKnown
<1> HIDE DEF entry, assistant
<1>4. LogOK(log) /\ Knows(log, fileEntries) /\ IsSeq(fileEntries)
  BY DEF Known, MemoryKnown, Knows
<1>5. LogOK(log') /\ Grows(log, log') /\ Created(log', entry) /\ entry.id \notin DOMAIN log
  BY <1>1, <1>3, <1>4, LogAppended
<1>6. /\ fileEntries # <<>> /\ fileEntries[1] = Header
      /\ byId = IndexOf(fileEntries) /\ labelsById = LabelsOf(fileEntries)
      /\ Range(c.lines) \subseteq Range(fileEntries)
      /\ flushed => \E old : IsSeq(old) /\ c.lines = old \o fileEntries
  BY <1>1 DEF Intact, MemoryIntact
<1>7. Knows(log', fileEntries) /\ Knows(log', entries) /\ Knows(log', <<entry>>)
  BY <1>4, <1>5, KnowsMore, KnowsAppend
<1> HIDE DEF entries
<1>a. entries = Append(fileEntries, entry)
  BY Zenon DEF entries
<1>8. IndexOf(entries) = [id \in DOMAIN byId \cup {entry.id} |-> IF id = entry.id THEN entry ELSE byId[id]]
  <2>1. IndexOf(entries) =
          [i \in DOMAIN IndexOf(fileEntries) \cup {entry.id} |->
             IF i = entry.id THEN entry ELSE IndexOf(fileEntries)[i]]
    <3>1. /\ DOMAIN IndexOf(Append(fileEntries, entry)) = DOMAIN IndexOf(fileEntries) \cup {entry.id}
          /\ \A i \in DOMAIN IndexOf(Append(fileEntries, entry)) :
               IndexOf(Append(fileEntries, entry))[i] = IF i = entry.id THEN entry ELSE IndexOf(fileEntries)[i]
      BY <1>4, <1>5, IndexAppended
    <3>2. IndexOf(entries) = [i \in DOMAIN IndexOf(entries) |-> IndexOf(entries)[i]]
      BY DEF IndexOf
    <3> QED BY <1>a, <3>1, <3>2
  <2> QED BY <1>6, <2>1, Zenon
<1>9. LabelsOf(entries) = Relabelled(entry)
  BY <1>4, <1>a, <1>6, LabelsAppended DEF Relabelled
<1>10. /\ IsSeq(entries) /\ Range(entries) = Range(fileEntries) \cup {entry}
       /\ \A i \in 1..Len(fileEntries) : entries[i] = fileEntries[i]
       /\ entries = fileEntries \o <<entry>>
  BY <1>4, <1>a, AppendIsSeq
<1>11. entries # <<>> /\ entries[1] = Header
  <2>1. Len(fileEntries) \in Nat /\ Len(fileEntries) > 0
    BY <1>4, <1>6, SeqFacts
  <2>2. entries[1] = Header
    BY <1>6, <1>10, <2>1
  <2>3. Range(entries) # {}
    BY <1>10
  <2> QED BY <2>2, <2>3, RangeEmpty
<1> HIDE DEF lines
<1>12. Knows(log', lines) /\ IsSeq(lines) /\ Garbage \notin Range(lines)
  <2>1. Knows(log', lines)
    BY <1>2, <1>7, KnowsEmpty
  <2> QED BY <1>5, <2>1, KnowsNoGarbage DEF Knows
<1>13. sessionFile \in Files /\ IntactFile(c) /\ IsSeq(c.lines)
  BY DEF Known, FilesKnown, Intact, FilesIntact, IntactFile, IsContent
<1>14. ASSUME flushed PROVE c.lines # <<>>
  <2>1. PICK old : IsSeq(old) /\ c.lines = old \o fileEntries
    BY <1>6, <1>14
  <2>2. Range(c.lines) = Range(old) \cup Range(fileEntries)
    BY <1>4, <2>1, ConcatIsSeq
  <2>3. Range(fileEntries) # {}
    BY <1>4, <1>6, SeqFacts
  <2> QED BY <2>2, <2>3, RangeEmpty
<1>15. c.lines = <<>> /\ lines # <<>> => lines[1] = Header
  BY <1>2, <1>11, <1>14
<1>16. IntactFile(d) /\ d.lines = c.lines \o lines
  BY <1>12, <1>13, <1>15, WrittenIntact
<1>17. \A cut \in Cuts(c, lines) : IntactFile(cut) /\ Range(c.lines) \subseteq Range(cut.lines)
  BY <1>12, <1>13, <1>15, CutIntact
<1>18. Range(d.lines) = Range(c.lines) \cup Range(lines)
  BY <1>12, <1>13, <1>16, ConcatIsSeq
<1> HIDE DEF d
<1>19. ASSUME disk' = [disk EXCEPT ![sessionFile] = d]
       PROVE  disk'[sessionFile] = d /\ Knows(log', d.lines) /\ IdsOf(lines) \subseteq IdsOf(d.lines)
  <2>1. disk'[sessionFile] = d
    BY <1>13, <1>19 DEF Known, FilesKnown
  <2>2. Knows(log', d.lines)
    BY <1>5, <1>13, <1>16, <2>1, IntactLoad DEF Known, FilesKnown
  <2> QED BY <1>5, <1>12, <1>18, <2>1, <2>2, IdsMonotonic
<1> HIDE DEF c
<1>20. saved = [g \in Files |-> saved[g]]
  BY DEF Intact, FilesIntact
<1>21. ASSUME saved' = [saved EXCEPT ![sessionFile] = @ \cup IdsOf(lines)]
       PROVE  /\ saved' = [g \in Files |-> saved'[g]]
              /\ \A g \in Files : saved'[g] = saved[g] \cup (IF g = sessionFile THEN IdsOf(lines) ELSE {})
  BY <1>13, <1>20, <1>21
<1>22. PICK w : /\ disk' = [disk EXCEPT ![sessionFile] = w]
                /\ IntactFile(w) /\ Range(c.lines) \subseteq Range(w.lines)
                /\ saved' = [g \in Files |-> saved'[g]]
                /\ \A g \in Files : saved'[g] \subseteq saved[g] \cup (IF g = sessionFile THEN IdsOf(w.lines) ELSE {})
  <2>1. CASE disk' = [disk EXCEPT ![sessionFile] = d] /\ saved' = saved
    <3>1. \A g \in Files : saved'[g] \subseteq saved[g] \cup (IF g = sessionFile THEN IdsOf(d.lines) ELSE {})
      BY <2>1
    <3>2. saved' = [g \in Files |-> saved'[g]]
      BY <1>20, <2>1
    <3> QED BY <1>16, <1>18, <2>1, <3>1, <3>2
  <2>2. CASE /\ disk' = [disk EXCEPT ![sessionFile] = d]
             /\ saved' = [saved EXCEPT ![sessionFile] = @ \cup IdsOf(lines)]
    <3>1. \A g \in Files : saved'[g] \subseteq saved[g] \cup (IF g = sessionFile THEN IdsOf(d.lines) ELSE {})
      BY <1>19, <1>21, <2>2
    <3> QED BY <1>16, <1>18, <1>21, <2>2, <3>1
  <2>3. CASE /\ \E cut \in Cuts(c, lines) : disk' = [disk EXCEPT ![sessionFile] = cut]
             /\ saved' = saved
    <3>1. PICK cut \in Cuts(c, lines) : disk' = [disk EXCEPT ![sessionFile] = cut]
      BY <2>3
    <3>2. \A g \in Files : saved'[g] \subseteq saved[g] \cup (IF g = sessionFile THEN IdsOf(cut.lines) ELSE {})
      BY <2>3
    <3>3. saved' = [g \in Files |-> saved'[g]]
      BY <1>20, <2>3
    <3> QED BY <1>17, <3>1, <3>2, <3>3
  <2> QED BY <1>1, <2>1, <2>2, <2>3
<1>23. FilesIntact'
  BY <1>13, <1>22, FileWrittenIntact DEF Intact, c
<1>24. ASSUME /\ disk' = [disk EXCEPT ![sessionFile] = d]
              /\ fileEntries' = entries /\ sessionFile' = sessionFile
              /\ byId' = [id \in DOMAIN byId \cup {entry.id} |-> IF id = entry.id THEN entry ELSE byId[id]]
              /\ flushed' = assistant /\ labelsById' = Relabelled(entry)
       PROVE  MemoryIntact'
  <2>1. disk'[sessionFile'].lines = c.lines \o lines
    BY <1>16, <1>19, <1>24
  <2>2. Range(lines) \subseteq Range(entries)
    BY <1>2, <1>10, RangeEmpty, SingleIsSeq
  <2>3. Range(disk'[sessionFile'].lines) \subseteq Range(entries)
    BY <1>6, <1>10, <1>16, <1>18, <2>1, <2>2 
  <2>4. ASSUME assistant PROVE \E old : IsSeq(old) /\ disk'[sessionFile'].lines = old \o entries
    <3>1. CASE flushed
      <4>1. PICK old : IsSeq(old) /\ c.lines = old \o fileEntries
        BY <1>6, <3>1
      <4>2. lines = <<entry>>
        BY <1>2, <2>4, <3>1
      <4>3. (old \o fileEntries) \o <<entry>> = old \o (fileEntries \o <<entry>>)
        <5> DEFINE last == <<entry>>
        <5>1. IsSeq(last)
          BY SingleIsSeq
        <5> HIDE DEF last
        <5>2. (old \o fileEntries) \o last = old \o (fileEntries \o last)
          BY <1>4, <4>1, <5>1, ConcatAssociates
        <5> QED BY <5>2 DEF last
      <4> QED BY <1>10, <2>1, <4>1, <4>2, <4>3
    <3>2. CASE ~flushed
      BY <1>2, <1>13, <2>1, <2>4, <3>2
    <3> QED BY <3>1, <3>2
  <2>5. /\ fileEntries' # <<>> /\ fileEntries'[1] = Header
        /\ byId' = IndexOf(fileEntries') /\ labelsById' = LabelsOf(fileEntries')
    BY <1>8, <1>9, <1>11, <1>24
  <2> QED BY <1>24, <2>3, <2>4, <2>5 DEF MemoryIntact
<1> QED BY <1>1, <1>23, <1>24, DeadIntact DEF Intact

LEMMA CreateBranchedSessionIntact ==
  ASSUME OnlyKilled, Known, Known', Intact, NEW id, NEW f \in Files, CreateBranchedSession(id, f)
  PROVE  Intact'
<1> DEFINE path == BranchedPath(id)
           labels == Relabels(path)
           rest == path \o labels
           entries == <<Header>> \o path \o labels
           d == Written(EmptyFile, entries)
           assistant == HasAssistant(entries)
<1>1. /\ id \in DOMAIN byId /\ ~disk[f].exists
      /\ NextId + Len(labels) <= MaxEntries + 1
      /\ log' = [i \in DOMAIN log \cup IdsOf(labels) |->
                   IF i \in DOMAIN log THEN log[i] ELSE labels[i - NextId + 1]]
      /\ \/ /\ Index(entries) /\ sessionFile' = f
            /\ disk' = IF assistant THEN [disk EXCEPT ![f] = d] ELSE disk
            /\ flushed' = assistant
            /\ saved' = IF assistant THEN [saved EXCEPT ![f] = IdsOf(entries)] ELSE saved
         \/ /\ \E cut \in Cuts(EmptyFile, entries) : disk' = [disk EXCEPT ![f] = cut]
            /\ Die /\ saved' = saved
  BY Zenon DEF CreateBranchedSession, OnlyKilled
<1>2. Knows(log, path)
  BY <1>1, BranchedPathKnown
<1> HIDE DEF path, assistant
<1>3. LogOK(log') /\ Grows(log, log') /\ Knows(log', labels)
  BY <1>1, <1>2, RelabelsKnown
<1>4. Knows(log', rest) /\ IsSeq(path) /\ IsSeq(labels)
  BY <1>2, <1>3, KnowsMore, KnowsConcat DEF Knows
<1> HIDE DEF labels
<1>5. entries = <<Header>> \o rest
  <2> DEFINE h == <<Header>>
  <2>1. IsSeq(h)
    BY SingleIsSeq
  <2> HIDE DEF h
  <2>2. (h \o path) \o labels = h \o (path \o labels)
    BY <1>4, <2>1, ConcatAssociates
  <2> QED BY <2>2 DEF h
<1> HIDE DEF rest, entries
<1>6. IsSeq(entries) /\ entries # <<>> /\ entries[1] = Header /\ Range(entries) = {Header} \cup Range(rest)
  BY <1>4, <1>5, HeaderFirst DEF Knows
<1>7. Garbage \notin Range(entries)
  BY <1>3, <1>4, <1>6, KnowsNoGarbage, FixedLines
<1>8. IntactFile(d) /\ d.lines = <<>> \o entries
  BY <1>6, <1>7, FreshFiles, WrittenIntact
<1>9. \A cut \in Cuts(EmptyFile, entries) : IntactFile(cut)
  BY <1>6, <1>7, FreshFiles, CutIntact
<1> HIDE DEF d
<1>10. d.lines = entries
  BY <1>6, <1>8, EmptyConcat
<1>11. Range(disk[f].lines) = {}
  BY <1>1, MissingFile
<1>12. saved = [g \in Files |-> saved[g]]
  BY DEF Intact, FilesIntact
<1>13. ASSUME saved' = [saved EXCEPT ![f] = IdsOf(entries)]
       PROVE  /\ saved' = [g \in Files |-> saved'[g]]
              /\ \A g \in Files : saved'[g] = IF g = f THEN IdsOf(entries) ELSE saved[g]
  BY <1>12, <1>13
<1>14. FilesIntact'
  <2>1. CASE disk' = disk /\ saved' = saved
    BY <2>1, NoFileWrittenIntact DEF Intact
  <2>2. CASE disk' = [disk EXCEPT ![f] = d] /\ saved' = [saved EXCEPT ![f] = IdsOf(entries)]
    <3>1. \A g \in Files : saved'[g] \subseteq saved[g] \cup (IF g = f THEN IdsOf(d.lines) ELSE {})
      BY <1>10, <1>13, <2>2
    <3> QED BY <1>8, <1>11, <1>13, <2>2, <3>1, FileWrittenIntact DEF Intact
  <2>3. CASE /\ \E cut \in Cuts(EmptyFile, entries) : disk' = [disk EXCEPT ![f] = cut]
             /\ saved' = saved
    <3>1. PICK cut \in Cuts(EmptyFile, entries) : disk' = [disk EXCEPT ![f] = cut]
      BY <2>3
    <3>2. saved' = [g \in Files |-> saved'[g]]
      BY <1>12, <2>3
    <3>3. \A g \in Files : saved'[g] \subseteq saved[g] \cup (IF g = f THEN IdsOf(cut.lines) ELSE {})
      BY <2>3
    <3> QED BY <1>9, <1>11, <3>1, <3>2, <3>3, FileWrittenIntact DEF Intact
  <2> QED BY <1>1, <2>1, <2>2, <2>3
<1>15. ASSUME Index(entries), sessionFile' = f, flushed' = assistant,
              disk' = IF assistant THEN [disk EXCEPT ![f] = d] ELSE disk
       PROVE  MemoryIntact'
  <2>1. CASE assistant
    <3>1. disk'[sessionFile'] = d
      BY <1>15, <2>1 DEF Known, FilesKnown
    <3> QED BY <1>6, <1>8, <1>10, <1>15, <3>1, EmptyIsSeq, IndexedIntact
  <2>2. CASE ~assistant
    <3>1. Range(disk'[sessionFile'].lines) \subseteq Range(entries)
      BY <1>11, <1>15, <2>2
    <3> QED BY <1>6, <1>15, <2>2, <3>1, IndexedIntact
  <2> QED BY <2>1, <2>2
<1> QED BY <1>1, <1>14, <1>15, DeadIntact DEF Intact

LEMMA IntactInitially == Init => Intact
<1> SUFFICES ASSUME Init PROVE Intact
  OBVIOUS
<1>1. ~up /\ saved = [f \in Files |-> {}] /\ \A f \in Files : disk[f] = NoFile \/ disk[f] = EmptyFile
  <2>1. disk \in [Files -> IF EmptyFiles THEN {NoFile, EmptyFile} ELSE {NoFile}]
    BY DEF Init
  <2> QED BY <2>1 DEF Init
<1> QED BY <1>1, FreshFiles DEF Intact, FilesIntact, MemoryIntact

LEMMA IntactStep == OnlyKilled /\ Known /\ Known' /\ Intact /\ [Next]_vars => Intact'
<1> SUFFICES ASSUME OnlyKilled, Known, Known', Intact, [Next]_vars PROVE Intact'
  OBVIOUS
<1>1. ASSUME NEW f \in Files, NewSession(f) \/ SetSessionFileNew(f) PROVE Intact'
  BY <1>1, NewSessionIntact
<1>2. ASSUME NEW f \in Files, SetSessionFile(f) PROVE Intact'
  BY <1>2, SetSessionFileIntact
<1>3. ASSUME NEW f \in Files, SetSessionFileCorrupt(f) PROVE Intact'
  BY <1>3, SetSessionFileCorruptIntact
<1>4. ASSUME NEW f \in Files, NEW source \in Files, ForkFrom(source, f) PROVE Intact'
  BY <1>4, ForkFromIntact
<1>5. ASSUME NEW f \in Files, NEW id \in Ids, CreateBranchedSession(id, f) PROVE Intact'
  BY <1>5, CreateBranchedSessionIntact
<1>6. ASSUME NEW id, MoveLeaf(id) PROVE Intact'
  BY <1>6, MoveLeafIntact
<1>7. CASE \/ \E type \in {"user", "assistant"} : AppendMessage(type)
           \/ AppendSetting
           \/ \E id \in Ids : AppendCompaction(id) \/ \E type \in {"label", "unlabel"} : AppendLabelChange(type, id)
           \/ \E id \in Ids \cup {NoId} : BranchWithSummary(id)
  <2>1. PICK type \in EntryTypes, parent \in DOMAIN byId \cup {NoId}, ref \in Ids \cup {NoId} :
          AppendEntry(type, parent, ref)
    BY <1>7, AppendingSteps
  <2> QED BY <2>1, AppendEntryIntact
<1>8. CASE UNCHANGED vars
  BY <1>8 DEF vars, Intact, MemoryIntact, FilesIntact
<1> QED BY <1>1, <1>2, <1>3, <1>4, <1>5, <1>6, <1>7, <1>8, Zenon DEF Next

LEMMA AlwaysIntact ==
  ASSUME OnlyKilled
  PROVE  Spec => []Intact
<1>1. Init => Intact
  BY IntactInitially
<1>2. Known /\ Known' /\ Intact /\ [Next]_vars => Intact'
  BY IntactStep
<1> QED BY <1>1, <1>2, AlwaysKnown, PTL DEF Spec

\* What Durable says of a state.
LEMMA IntactIsDurable == Known /\ Intact => Durable
<1> SUFFICES ASSUME Known, Intact, NEW f \in Files PROVE saved[f] \subseteq IdsOf(Load(disk[f]))
  BY DEF Durable
<1>1. LogOK(log) /\ KnowsFile(log, disk[f]) /\ IntactFile(disk[f])
  BY DEF Known, FilesKnown, Intact, FilesIntact
<1>2. Load(disk[f]) = disk[f].lines
  BY <1>1, IntactLoad
<1> QED BY <1>2 DEF Intact, FilesIntact

\* If the process may only die, and only between two lines of a write, an entry
\* whose append returned with the file written is read back from it, whatever was
\* opened, forked, branched, abandoned or killed since.
THEOREM EntriesAreDurable ==
  ASSUME Faults \subseteq {"kill"}
  PROVE  Spec => []Durable
<1>1. Spec => []Intact
  BY AlwaysIntact DEF OnlyKilled
<1> QED BY <1>1, AlwaysKnown, IntactIsDurable, PTL

LEMMA AppendOnlyStep ==
  ASSUME Known, Intact, FilesGrow, Known', NEW f \in Files
  PROVE  IsPrefix(Load(disk[f]), Load(disk'[f]))
<1>1. IsContent(disk[f]) /\ IsContent(disk'[f]) /\ disk[f].ended
  BY DEF Known, FilesKnown, KnowsFile, Intact, FilesIntact, IntactFile
<1>2. IsSeq(Load(disk[f])) /\ IsSeq(Load(disk'[f]))
  BY <1>1, LoadIsSeq
<1>3. CASE disk'[f] = disk[f]
  BY <1>2, <1>3, PrefixReflexive
<1>4. CASE Load(disk[f]) = <<>>
  BY <1>2, <1>4, EmptyIsPrefix
<1>5. ASSUME NEW lines, Extends(disk[f], disk'[f], lines)
      PROVE  IsPrefix(Load(disk[f]), Load(disk'[f]))
  BY <1>1, <1>5, ExtendedSession
<1> QED BY <1>3, <1>4, <1>5 DEF FilesGrow

\* Under the same faults a session file only grows: a line that could be read is
\* never changed, moved or removed by any operation, on that file or another.
THEOREM FilesOnlyGrow ==
  ASSUME Faults \subseteq {"kill"}
  PROVE  Spec => AppendOnly
<1>1. Spec => []Intact
  BY AlwaysIntact DEF OnlyKilled
<1>2. Known /\ Intact /\ [Next]_vars => [\A f \in Files : IsPrefix(Load(disk[f]), Load(disk'[f]))]_vars
  BY KnownStep, AppendOnlyStep
<1> QED BY <1>1, <1>2, AlwaysKnown, PTL DEF Spec, AppendOnly

LEMMA IntactReloads == Known /\ Intact => ReloadRestores
<1> SUFFICES ASSUME Known, Intact, up, flushed
             PROVE  /\ IndexOf(Load(disk[sessionFile])) = byId
                    /\ LabelsOf(Load(disk[sessionFile])) = labelsById
  BY DEF ReloadRestores
<1> DEFINE lines == disk[sessionFile].lines
<1>1. LogOK(log) /\ KnowsFile(log, disk[sessionFile]) /\ IntactFile(disk[sessionFile])
  BY DEF Known, FilesKnown, Intact, FilesIntact
<1>2. Load(disk[sessionFile]) = lines /\ Knows(log, lines)
  BY <1>1, IntactLoad
<1>3. /\ byId = IndexOf(fileEntries) /\ labelsById = LabelsOf(fileEntries)
      /\ Range(lines) \subseteq Range(fileEntries)
      /\ \E old : IsSeq(old) /\ lines = old \o fileEntries
  BY DEF Intact, MemoryIntact
<1> HIDE DEF lines
<1>4. PICK old : IsSeq(old) /\ lines = old \o fileEntries
  BY <1>3
<1>5. Knows(log, fileEntries) /\ IsSeq(fileEntries)
  BY DEF Known, MemoryKnown, Knows
<1>6. Range(lines) = Range(old) \cup Range(fileEntries)
  BY <1>4, <1>5, ConcatIsSeq
<1>7. Range(lines) = Range(fileEntries) /\ Range(old) \subseteq Range(fileEntries)
  BY <1>3, <1>6
<1>8. IndexOf(lines) = IndexOf(fileEntries)
  BY <1>1, <1>2, <1>5, <1>7, SameIndex
<1>9. LabelsOf(lines) = LabelsOf(fileEntries)
  BY <1>4, <1>5, <1>7, LabelsReplayed
<1> QED BY <1>2, <1>3, <1>8, <1>9

\* Under the same faults the file, once written, holds the session: a process
\* that opens it after any crash finds the entries and the labels of the one
\* that wrote it.
THEOREM ReloadingRestores ==
  ASSUME Faults \subseteq {"kill"}
  PROVE  Spec => []ReloadRestores
<1>1. Spec => []Intact
  BY AlwaysIntact DEF OnlyKilled
<1> QED BY <1>1, AlwaysKnown, IntactReloads, PTL

-----------------------------------------------------------------------------
(* The tree: no entry without its past.                                    *)

IdsIn(seq) == {e.id : e \in Range(seq)}

\* Before every line there is the one below which its entry hangs, or it is
\* among the others.
RootedBelow(others, seq) ==
  \A i \in 1..Len(seq) :
    \/ seq[i].parentId \in others \cup {NoId}
    \/ \E j \in 1..(i - 1) : seq[j].id = seq[i].parentId
RootedSeq(seq) == RootedBelow({}, seq)

LEMMA RootedEmpty == RootedSeq(<<>>) /\ RootedSeq(<<Header>>)
<1>1. RootedSeq(<<>>)
  BY DEF RootedSeq, RootedBelow
<1>2. RootedSeq(<<Header>>)
  <2> DEFINE h == <<Header>>
  <2>1. Len(h) = 1 /\ h[1] = Header
    BY SingleIsSeq
  <2> HIDE DEF h
  <2>2. RootedSeq(h)
    BY <2>1 DEF RootedSeq, RootedBelow, Header
  <2> QED BY <2>2 DEF h
<1> QED BY <1>1, <1>2

LEMMA RootedSingle ==
  ASSUME NEW others, NEW e, e.parentId \in others \cup {NoId}
  PROVE  RootedBelow(others, <<e>>)
<1> DEFINE h == <<e>>
<1>1. Len(h) = 1 /\ h[1] = e
  BY SingleIsSeq
<1> HIDE DEF h
<1>2. RootedBelow(others, h)
  BY <1>1 DEF RootedBelow
<1> QED BY <1>2 DEF h

LEMMA RootedConcat ==
  ASSUME NEW s, IsSeq(s), RootedSeq(s), NEW t, IsSeq(t), RootedBelow(IdsIn(s), t)
  PROVE  RootedSeq(s \o t)
<1> DEFINE st == s \o t
           n == Len(s)
           m == Len(t)
<1>1. n \in Nat /\ m \in Nat
  BY SeqFacts
<1> HIDE DEF n, m
<1>2. /\ Len(st) = n + m
      /\ \A i \in 1..n : st[i] = s[i]
      /\ \A i \in 1..m : st[i + n] = t[i]
  BY ConcatIsSeq DEF n, m
<1> HIDE DEF st
<1>3. ASSUME NEW i \in 1..n
      PROVE  st[i].parentId = NoId \/ \E j \in 1..(i - 1) : st[j].id = st[i].parentId
  <2>1. s[i].parentId = NoId \/ \E j \in 1..(i - 1) : s[j].id = s[i].parentId
    BY DEF RootedSeq, RootedBelow, n
  <2>2. \A j \in 1..(i - 1) : j \in 1..n
    BY <1>1
  <2> QED BY <1>2, <2>1, <2>2
<1>4. ASSUME NEW i \in 1..m
      PROVE  st[i + n].parentId = NoId \/ \E j \in 1..(i + n - 1) : st[j].id = st[i + n].parentId
  <2>1. st[i + n] = t[i]
    BY <1>2
  <2>2. CASE t[i].parentId \in IdsIn(s)
    <3>1. PICK e \in Range(s) : e.id = t[i].parentId
      BY <2>2 DEF IdsIn
    <3>2. PICK j \in 1..n : e = s[j]
      BY SeqFacts DEF n
    <3>3. j \in 1..(i + n - 1) /\ s[j].id = t[i].parentId
      BY <1>1, <3>1, <3>2
    <3> QED BY <1>2, <2>1, <3>3
  <2>3. CASE t[i].parentId = NoId
    BY <2>1, <2>3
  <2>4. CASE \E j \in 1..(i - 1) : t[j].id = t[i].parentId
    <3>1. PICK j \in 1..(i - 1) : t[j].id = t[i].parentId
      BY <2>4
    <3>2. j \in 1..m /\ j + n \in 1..(i + n - 1)
      BY <1>1, <3>1
    <3> QED BY <1>2, <2>1, <3>1, <3>2
  <2> QED BY <2>2, <2>3, <2>4 DEF RootedBelow, m
<1>5. \A i \in 1..(n + m) : i \in 1..n \/ \E k \in 1..m : i = k + n
  <2> SUFFICES ASSUME NEW i \in 1..(n + m), i \notin 1..n PROVE \E k \in 1..m : i = k + n
    OBVIOUS
  <2>1. i - n \in 1..m /\ i = (i - n) + n
    BY <1>1
  <2> QED BY <2>1
<1>6. RootedSeq(st)
  <2> SUFFICES ASSUME NEW i \in 1..(n + m)
               PROVE  st[i].parentId = NoId \/ \E j \in 1..(i - 1) : st[j].id = st[i].parentId
    BY <1>2 DEF RootedSeq, RootedBelow
  <2>1. CASE i \in 1..n
    BY <1>3, <2>1
  <2>2. ASSUME NEW k \in 1..m, i = k + n
        PROVE  st[i].parentId = NoId \/ \E j \in 1..(i - 1) : st[j].id = st[i].parentId
    <3>1. k + n - 1 = i - 1
      BY <1>1, <2>2
    <3> QED BY <1>4, <2>2, <3>1
  <2> QED BY <1>5, <2>1, <2>2
<1> QED BY <1>6 DEF st

LEMMA RootedPrefix ==
  ASSUME NEW others, NEW s, IsSeq(s), RootedBelow(others, s), NEW k \in 0..Len(s)
  PROVE  RootedBelow(others, SubSeq(s, 1, k))
<1> DEFINE p == SubSeq(s, 1, k)
<1>1. Len(p) = k /\ \A i \in 1..k : p[i] = s[i]
  BY PrefixIsSeq
<1>2. Len(s) \in Nat
  BY SeqFacts
<1> HIDE DEF p
<1>3. ASSUME NEW i \in 1..k
      PROVE  \/ p[i].parentId \in others \cup {NoId}
             \/ \E j \in 1..(i - 1) : p[j].id = p[i].parentId
  <2>1. i \in 1..Len(s) /\ p[i] = s[i] /\ \A j \in 1..(i - 1) : j \in 1..k
    BY <1>1, <1>2
  <2>2. \/ s[i].parentId \in others \cup {NoId}
        \/ \E j \in 1..(i - 1) : s[j].id = s[i].parentId
    BY <2>1 DEF RootedBelow
  <2> QED BY <1>1, <2>1, <2>2
<1>4. RootedBelow(others, p)
  BY <1>1, <1>3 DEF RootedBelow
<1> QED BY <1>4 DEF p

LEMMA RootedAnywhere ==
  ASSUME NEW others, NEW s, RootedSeq(s)
  PROVE  RootedBelow(others, s)
BY DEF RootedSeq, RootedBelow

\* Every entry hangs below one of the sequence.
LEMMA RootedIds ==
  ASSUME NEW s, IsSeq(s), RootedSeq(s), NEW e \in Range(s)
  PROVE  e.parentId \in IdsIn(s) \cup {NoId}
<1>1. PICK i \in 1..Len(s) : e = s[i]
  BY SeqFacts
<1>2. Len(s) \in Nat
  BY SeqFacts
<1>3. CASE \E j \in 1..(i - 1) : s[j].id = s[i].parentId
  <2>1. PICK j \in 1..(i - 1) : s[j].id = s[i].parentId
    BY <1>3
  <2>2. j \in 1..Len(s)
    BY <1>2, <2>1
  <2>3. s[j] \in Range(s)
    BY <2>2, SeqFacts
  <2> QED BY <1>1, <2>1, <2>3 DEF IdsIn
<1> QED BY <1>1, <1>3 DEF RootedSeq, RootedBelow

LEMMA RootedAppend ==
  ASSUME NEW s, IsSeq(s), RootedSeq(s), NEW e, e.parentId \in IdsIn(s) \cup {NoId}
  PROVE  RootedSeq(Append(s, e))
<1> DEFINE one == <<e>>
<1>1. IsSeq(one)
  BY SingleIsSeq
<1>2. RootedBelow(IdsIn(s), one)
  BY RootedSingle
<1>3. Append(s, e) = s \o one
  BY AppendIsSeq
<1> HIDE DEF one
<1>4. RootedSeq(s \o one)
  BY <1>1, <1>2, RootedConcat
<1> QED BY <1>3, <1>4

LEMMA RootedOfAppended ==
  ASSUME NEW s, IsSeq(s), NEW e, RootedSeq(Append(s, e))
  PROVE  RootedSeq(s) /\ e.parentId \in IdsIn(s) \cup {NoId}
<1> DEFINE n == Len(s)
<1>1. n \in Nat
  BY SeqFacts
<1>0. PICK t : t = Append(s, e)
  OBVIOUS
<1>2. IsSeq(t) /\ Len(t) = n + 1 /\ t[n + 1] = e /\ \A i \in 1..n : t[i] = s[i]
  <2>1. IsSeq(Append(s, e)) /\ Len(Append(s, e)) = Len(s) + 1 /\ Append(s, e)[Len(s) + 1] = e
    BY AppendIsSeq
  <2>2. \A i \in 1..Len(s) : Append(s, e)[i] = s[i]
    BY AppendIsSeq
  <2> QED BY <1>0, <2>1, <2>2, Zenon DEF n
<1> HIDE DEF n
<1>3. RootedSeq(t)
  BY <1>0, Zenon
<1>4. RootedSeq(s)
  <2> SUFFICES ASSUME NEW i \in 1..n
               PROVE  s[i].parentId = NoId \/ \E j \in 1..(i - 1) : s[j].id = s[i].parentId
    BY DEF RootedSeq, RootedBelow, n
  <2>1. i \in 1..(n + 1) /\ \A j \in 1..(i - 1) : j \in 1..n
    BY <1>1
  <2>2. t[i].parentId = NoId \/ \E j \in 1..(i - 1) : t[j].id = t[i].parentId
    BY <1>2, <1>3, <2>1 DEF RootedSeq, RootedBelow
  <2> QED BY <1>2, <2>1, <2>2
<1>5. e.parentId \in IdsIn(s) \cup {NoId}
  <2>1. n + 1 \in 1..(n + 1) /\ \A j \in 1..((n + 1) - 1) : j \in 1..n
    BY <1>1
  <2>2. e.parentId = NoId \/ \E j \in 1..((n + 1) - 1) : t[j].id = e.parentId
    BY <1>2, <1>3, <2>1 DEF RootedSeq, RootedBelow
  <2>3. CASE \E j \in 1..((n + 1) - 1) : t[j].id = e.parentId
    <3>1. PICK j \in 1..n : s[j].id = e.parentId
      BY <1>2, <2>1, <2>3
    <3>2. s[j] \in Range(s)
      BY <3>1, SeqFacts DEF n
    <3> QED BY <3>1, <3>2 DEF IdsIn
  <2> QED BY <2>2, <2>3
<1> QED BY <1>4, <1>5

\* What has no id of its own may be left out.
LEMMA RootedWithout ==
  ASSUME NEW S, NEW types, \A e \in S : e.type \in types => e.id = NoId
  PROVE  \A s \in Seq(S) : RootedSeq(s) => RootedSeq(Without(s, types))
<1> DEFINE T == {s \in Seq(S) : RootedSeq(s) => RootedSeq(Without(s, types))}
<1>1. <<>> \in T
  BY WithoutEmpty, RootedEmpty
<1>2. \A s \in Seq(S), e \in S : s \in T => Append(s, e) \in T
  <2> SUFFICES ASSUME NEW s \in Seq(S), NEW e \in S, s \in T, RootedSeq(Append(s, e))
               PROVE  Append(s, e) \in Seq(S) /\ RootedSeq(Without(Append(s, e), types))
    OBVIOUS
  <2>1. IsSeq(s) /\ Append(s, e) \in Seq(S)
    BY SeqIsSeq
  <2> DEFINE w == Without(s, types)
  <2>2. RootedSeq(s) /\ e.parentId \in IdsIn(s) \cup {NoId}
    BY <2>1, RootedOfAppended
  <2>3. RootedSeq(w)
    BY <2>2
  <2>4. IsSeq(w) /\ Range(w) = {x \in Range(s) : x.type \notin types}
    BY <2>1, WithoutOfSeq
  <2>5. Without(Append(s, e), types) = IF e.type \in types THEN w ELSE Append(w, e)
    BY WithoutAppend
  <2> HIDE DEF w
  <2>6. e.parentId \in IdsIn(w) \cup {NoId}
    <3>1. \A x \in Range(s) : x \in S
      BY SeqIsSeq
    <3> QED BY <2>2, <2>4, <3>1 DEF IdsIn
  <2>7. RootedSeq(Append(w, e))
    BY <2>3, <2>4, <2>6, RootedAppend
  <2> QED BY <2>1, <2>3, <2>5, <2>7
<1> HIDE DEF T
<1>3. \A s \in Seq(S) : s \in T
  BY <1>1, <1>2, SeqSetInduction
<1> QED BY <1>3 DEF T

\* The path to an entry begins at a root.
LEMMA RootedBranch ==
  ASSUME NEW index, IndexOK(index),
         \A i \in DOMAIN index : index[i].id = i /\ index[i].parentId \in DOMAIN index \cup {NoId}
  PROVE  \A i \in 0..MaxEntries :
           RootedSeq(Branch(index, i)) /\ (i \in DOMAIN index => i \in IdsIn(Branch(index, i)))
<1> DEFINE T == {i \in Nat : i <= MaxEntries =>
                   RootedSeq(Branch(index, i)) /\ (i \in DOMAIN index => i \in IdsIn(Branch(index, i)))}
<1>0. MaxEntries \in Nat
  BY BoundsAssumption
<1>1. ASSUME NEW n \in Nat, \A m \in 0..(n - 1) : m \in T PROVE n \in T
  <2> SUFFICES ASSUME n <= MaxEntries
               PROVE  RootedSeq(Branch(index, n)) /\ (n \in DOMAIN index => n \in IdsIn(Branch(index, n)))
    OBVIOUS
  <2>1. n \in 0..MaxEntries
    BY <1>0
  <2>2. CASE n \notin DOMAIN index
    <3>1. Branch(index, n) = <<>>
      BY <2>1, <2>2, BranchEquation
    <3> QED BY <2>2, <3>1, RootedEmpty
  <2>3. CASE n \in DOMAIN index
    <3> DEFINE p == index[n].parentId
               b == Branch(index, p)
               e == index[n]
    <3>1. p \in 0..(n - 1) /\ p <= MaxEntries /\ p \in 0..MaxEntries
      BY <2>1, <2>3, <1>0 DEF IndexOK
    <3>2. Branch(index, n) = Append(b, e)
      BY <2>1, <2>3, BranchEquation
    <3>3. RootedSeq(b) /\ (p \in DOMAIN index => p \in IdsIn(b))
      BY <1>1, <3>1
    <3>4. IsSeq(b)
      BY <3>1, BranchIsSeq
    <3>5. e.id = n /\ e.parentId = p /\ p \in DOMAIN index \cup {NoId}
      BY <2>3
    <3> HIDE DEF p, b, e
    <3>6. RootedSeq(Append(b, e))
      BY <3>3, <3>4, <3>5, RootedAppend
    <3>7. e \in Range(Append(b, e))
      <4>1. Range(Append(b, e)) = Range(b) \cup {e}
        BY <3>4, AppendIsSeq
      <4> QED BY <4>1
    <3>8. n \in IdsIn(Append(b, e))
      BY <3>5, <3>7 DEF IdsIn
    <3> QED BY <3>2, <3>6, <3>8
  <2> QED BY <2>2, <2>3
<1> HIDE DEF T
<1>2. \A n \in Nat : n \in T
  BY <1>1, NatSetStrongInduction
<1> QED BY <1>0, <1>2 DEF T

\* Forks do not write labels anew: nobody labels entries, or nobody forks.
NoForkedLabels == ~(Forks /\ "label" \in Kinds)

FilesRooted == \A f \in Files : RootedSeq(disk[f].lines)
MemoryRooted == IF up THEN RootedSeq(fileEntries) ELSE DOMAIN byId = {}
Unlabelled == "label" \notin Kinds => \A i \in DOMAIN log : log[i].type \notin {"label", "unlabel"}

TreeIntact == FilesRooted /\ MemoryRooted /\ Unlabelled

LEMMA IdsInKnown ==
  ASSUME NEW L, LogOK(L), NEW s, Knows(L, s)
  PROVE  IdsIn(s) \subseteq IdsOf(s) \cup {NoId} /\ IdsOf(s) \subseteq IdsIn(s)
<1>1. /\ \A i \in IdsOf(s) : i \in DOMAIN L /\ L[i] \in Range(s) /\ L[i].id = i
      /\ \A e \in Range(s) : e = Header \/ e.id \in IdsOf(s)
  BY IndexFacts DEF LogOK, Knows
<1>2. IdsOf(s) \subseteq IdsIn(s)
  <2> SUFFICES ASSUME NEW i \in IdsOf(s) PROVE \E e \in Range(s) : e.id = i
    BY DEF IdsIn
  <2> QED BY <1>1
<1>3. \A e \in Range(s) : e.id \in IdsOf(s) \cup {NoId}
  BY <1>1, FixedLines
<1> QED BY <1>2, <1>3 DEF IdsIn

LEMMA RootedClosed ==
  ASSUME NEW L, LogOK(L), NEW s, Knows(L, s), RootedSeq(s), NEW i \in IdsOf(s)
  PROVE  L[i].parentId \in IdsOf(s) \cup {NoId}
<1>1. L[i] \in Range(s)
  BY IndexFacts
<1>2. L[i].parentId \in IdsIn(s) \cup {NoId}
  BY <1>1, RootedIds DEF Knows
<1> QED BY <1>2, IdsInKnown

LEMMA MemoryClosed ==
  ASSUME Known, Intact, MemoryRooted, NEW i \in DOMAIN byId
  PROVE  /\ byId[i] = log[i] /\ byId[i].id = i
         /\ byId[i].parentId \in DOMAIN byId \cup {NoId}
<1>1. i \in DOMAIN log /\ byId[i] = log[i] /\ log[i].id = i
  BY DEF Known, MemoryKnown, LogOK
<1>2. up /\ RootedSeq(fileEntries)
  BY DEF MemoryRooted
<1>3. LogOK(log) /\ Knows(log, fileEntries) /\ byId = IndexOf(fileEntries)
  BY <1>2 DEF Known, MemoryKnown, Intact, MemoryIntact
<1>4. DOMAIN byId = IdsOf(fileEntries)
  BY <1>3 DEF IndexOf
<1> QED BY <1>1, <1>2, <1>3, <1>4, RootedClosed

\* Files are written rooted.
LEMMA RootedWrite ==
  ASSUME OnlyKilled, NEW c, IntactFile(c), RootedSeq(c.lines),
         NEW lines, IsSeq(lines), Garbage \notin Range(lines),
         c.lines = <<>> /\ lines # <<>> => lines[1] = Header,
         RootedBelow(IdsIn(c.lines), lines)
  PROVE  /\ RootedSeq(Written(c, lines).lines)
         /\ \A cut \in Cuts(c, lines) : RootedSeq(cut.lines)
<1>1. IsSeq(c.lines)
  BY DEF IntactFile, IsContent
<1>2. RootedSeq(c.lines \o lines)
  BY <1>1, RootedConcat
<1>3. Written(c, lines).lines = c.lines \o lines
  BY WrittenIntact
<1>4. ASSUME NEW cut \in Cuts(c, lines) PROVE RootedSeq(cut.lines)
  <2>1. PICK k \in 0..Len(lines) : cut.lines = c.lines \o SubSeq(lines, 1, k)
    BY CutIntact
  <2> DEFINE first == SubSeq(lines, 1, k)
  <2>2. IsSeq(first)
    BY PrefixIsSeq
  <2>3. RootedBelow(IdsIn(c.lines), first)
    BY RootedPrefix
  <2> HIDE DEF first
  <2>4. RootedSeq(c.lines \o first)
    BY <1>1, <2>2, <2>3, RootedConcat
  <2> QED BY <2>1, <2>4 DEF first
<1> QED BY <1>2, <1>3, <1>4

LEMMA RootedUnderHeader ==
  ASSUME NEW s, IsSeq(s), RootedSeq(s)
  PROVE  RootedSeq(<<Header>> \o s)
<1> DEFINE h == <<Header>>
<1>1. IsSeq(h) /\ RootedSeq(h)
  BY SingleIsSeq, RootedEmpty
<1> HIDE DEF h
<1>2. RootedSeq(h \o s)
  BY <1>1, RootedAnywhere, RootedConcat
<1> QED BY <1>2 DEF h

LEMMA FileRooted ==
  ASSUME Known, FilesRooted, NEW f \in Files, NEW d, disk' = [disk EXCEPT ![f] = d], RootedSeq(d.lines)
  PROVE  FilesRooted'
<1>1. \A g \in Files : disk'[g] = IF g = f THEN d ELSE disk[g]
  BY DEF Known, FilesKnown
<1> QED BY <1>1 DEF FilesRooted

LEMMA DeadRooted == Die => MemoryRooted'
<1> SUFFICES ASSUME Die PROVE up' = FALSE /\ DOMAIN byId' = {}
  BY DEF MemoryRooted
<1>1. up' = FALSE /\ byId' = IndexOf(<<>>)
  BY DEF Die, Index
<1> QED BY <1>1, NoIds DEF IndexOf

LEMMA IndexedRooted ==
  ASSUME NEW entries, Index(entries), up', RootedSeq(entries)
  PROVE  MemoryRooted'
BY DEF Index, MemoryRooted

LEMMA NewSessionRooted ==
  ASSUME TreeIntact, NEW f \in Files, NewSession(f) \/ SetSessionFileNew(f)
  PROVE  TreeIntact' /\ log' = log
<1>1. Index(<<Header>>) /\ up' /\ disk' = disk /\ log' = log
  BY DEF NewSession, SetSessionFileNew
<1>2. MemoryRooted'
  BY <1>1, RootedEmpty, IndexedRooted
<1> QED BY <1>1, <1>2 DEF TreeIntact, FilesRooted, Unlabelled

LEMMA SetSessionFileRooted ==
  ASSUME Known, Intact, TreeIntact, NEW f \in Files, SetSessionFile(f)
  PROVE  TreeIntact' /\ log' = log
<1>1. Index(Load(disk[f])) /\ up' /\ disk' = disk /\ log' = log
  BY DEF SetSessionFile
<1>2. Load(disk[f]) = disk[f].lines
  BY IntactLoad DEF Known, FilesKnown, Intact, FilesIntact
<1>3. MemoryRooted'
  BY <1>1, <1>2, IndexedRooted DEF TreeIntact, FilesRooted
<1> QED BY <1>1, <1>3 DEF TreeIntact, FilesRooted, Unlabelled

LEMMA SetSessionFileCorruptRooted ==
  ASSUME OnlyKilled, Known, TreeIntact, NEW f \in Files, SetSessionFileCorrupt(f)
  PROVE  TreeIntact' /\ log' = log
<1> DEFINE h == <<Header>>
<1>1. /\ log' = log
      /\ \/ disk' = [disk EXCEPT ![f] = Written(EmptyFile, h)] /\ Index(h) /\ up'
         \/ (\E cut \in Cuts(EmptyFile, h) : disk' = [disk EXCEPT ![f] = cut]) /\ Die
  BY DEF SetSessionFileCorrupt, OnlyKilled
<1>2. h # <<>> /\ h[1] = Header /\ IsSeq(h) /\ Garbage \notin Range(h) /\ RootedSeq(h)
  BY OnlyHeader, RootedEmpty
<1> HIDE DEF h
<1>3. IntactFile(EmptyFile) /\ RootedSeq(EmptyFile.lines) /\ RootedBelow(IdsIn(EmptyFile.lines), h)
  BY <1>2, FreshFiles, RootedEmpty, RootedAnywhere
<1>4. /\ RootedSeq(Written(EmptyFile, h).lines)
      /\ \A cut \in Cuts(EmptyFile, h) : RootedSeq(cut.lines)
  BY <1>2, <1>3, RootedWrite
<1>5. PICK d : disk' = [disk EXCEPT ![f] = d] /\ RootedSeq(d.lines)
  BY <1>1, <1>4
<1>6. FilesRooted'
  BY <1>5, FileRooted DEF TreeIntact
<1>7. MemoryRooted'
  BY <1>1, <1>2, IndexedRooted, DeadRooted
<1> QED BY <1>1, <1>6, <1>7 DEF TreeIntact, Unlabelled

LEMMA ForkFromRooted ==
  ASSUME OnlyKilled, Known, Intact, TreeIntact, NEW source \in Files, NEW f \in Files, ForkFrom(source, f)
  PROVE  TreeIntact' /\ log' = log
<1> DEFINE loaded == EntriesOf(Load(disk[source]))
           lines == <<Header>> \o loaded
<1>1. /\ log' = log
      /\ \/ disk' = [disk EXCEPT ![f] = Written(NoFile, lines)] /\ Index(lines) /\ up'
         \/ (\E cut \in Cuts(NoFile, lines) : disk' = [disk EXCEPT ![f] = cut]) /\ Die
  BY Zenon DEF ForkFrom, OnlyKilled
<1>2. LogOK(log) /\ Knows(log, loaded)
  BY KnowsLoad, KnowsWithout DEF Known, FilesKnown, EntriesOf
<1>3. RootedSeq(loaded)
  <2> DEFINE s == disk[source].lines
             S == Range(s)
             types == {"session"}
  <2>1. Load(disk[source]) = s /\ Knows(log, s) /\ RootedSeq(s)
    BY IntactLoad DEF Known, FilesKnown, Intact, FilesIntact, TreeIntact, FilesRooted
  <2>2. \A e \in S : e.type \in types => e.id = NoId
    BY <1>2, <2>1, CreatedFacts, FixedLines DEF Knows
  <2>3. s \in Seq(S)
    BY <2>1 DEF Knows, IsSeq
  <2> HIDE DEF s, S, types
  <2>4. RootedSeq(Without(s, types))
    BY <2>1, <2>2, <2>3, RootedWithout
  <2> QED BY <2>1, <2>4 DEF EntriesOf, types
<1> HIDE DEF loaded
<1>4. IsSeq(lines) /\ lines # <<>> /\ lines[1] = Header /\ Range(lines) = {Header} \cup Range(loaded)
  BY <1>2, HeaderFirst DEF Knows
<1>5. Garbage \notin Range(lines) /\ RootedSeq(lines)
  BY <1>2, <1>3, <1>4, KnowsNoGarbage, FixedLines, RootedUnderHeader DEF Knows
<1> HIDE DEF lines
<1>6. IntactFile(NoFile) /\ RootedSeq(NoFile.lines) /\ RootedBelow(IdsIn(NoFile.lines), lines)
  BY <1>5, FreshFiles, RootedEmpty, RootedAnywhere
<1>7. /\ RootedSeq(Written(NoFile, lines).lines)
      /\ \A cut \in Cuts(NoFile, lines) : RootedSeq(cut.lines)
  BY <1>4, <1>5, <1>6, RootedWrite
<1>8. PICK d : disk' = [disk EXCEPT ![f] = d] /\ RootedSeq(d.lines)
  BY <1>1, <1>7
<1>9. FilesRooted'
  BY <1>8, FileRooted DEF TreeIntact
<1>10. MemoryRooted'
  BY <1>1, <1>5, IndexedRooted, DeadRooted
<1> QED BY <1>1, <1>9, <1>10 DEF TreeIntact, Unlabelled

LEMMA ConcatEmpty ==
  ASSUME NEW s, IsSeq(s)
  PROVE  s \o <<>> = s
BY ConcatEmptySeq DEF IsSeq

LEMMA AppendEntryRooted ==
  ASSUME OnlyKilled, Known, Intact, TreeIntact, NEW type, NEW parent, NEW ref, AppendEntry(type, parent, ref),
         type \in EntryTypes, parent \in DOMAIN byId \cup {NoId},
         type \in {"label", "unlabel"} => "label" \in Kinds
  PROVE  TreeIntact'
<1> DEFINE entry == [type |-> type, id |-> NextId, parentId |-> parent, ref |-> ref]
           entries == Append(fileEntries, entry)
           lines == ToWrite(entries, entry)
           c == disk[sessionFile]
           assistant == HasAssistant(entries)
<1>1. /\ up /\ NextId <= MaxEntries
      /\ log' = [id \in DOMAIN log \cup {entry.id} |-> IF id = entry.id THEN entry ELSE log[id]]
      /\ \/ /\ disk' = [disk EXCEPT ![sessionFile] = Written(c, lines)]
            /\ fileEntries' = entries /\ up' = up
         \/ (\E cut \in Cuts(c, lines) : disk' = [disk EXCEPT ![sessionFile] = cut]) /\ Die
  BY Zenon DEF AppendEntry, OnlyKilled
<1>2. lines = IF ~assistant THEN <<>> ELSE IF flushed THEN <<entry>> ELSE entries
  BY DEF ToWrite
<1>3. /\ entry.id = Cardinality(DOMAIN log) + 1 /\ entry.id <= MaxEntries
      /\ entry.type \in EntryTypes /\ entry.parentId \in DOMAIN log \cup {NoId}
      /\ entry.parentId = parent /\ entry.type = type
  BY <1>1 DEF NextId, Known, MemoryKnown
<1> HIDE DEF entry, assistant
<1>a. entries = Append(fileEntries, entry)
  OBVIOUS
<1>4. LogOK(log) /\ Knows(log, fileEntries) /\ IsSeq(fileEntries)
  BY DEF Known, MemoryKnown, Knows
<1>5. LogOK(log') /\ Grows(log, log') /\ Created(log', entry)
  BY <1>1, <1>3, <1>4, LogAppended
<1>6. /\ fileEntries # <<>> /\ fileEntries[1] = Header /\ byId = IndexOf(fileEntries)
      /\ flushed => \E old : IsSeq(old) /\ c.lines = old \o fileEntries
      /\ RootedSeq(fileEntries)
  BY <1>1 DEF Intact, MemoryIntact, TreeIntact, MemoryRooted
<1>7. Knows(log', entries) /\ Knows(log', <<entry>>)
  BY <1>4, <1>5, KnowsMore, KnowsAppend
<1>8. entry.parentId \in IdsIn(fileEntries) \cup {NoId}
  <2>1. DOMAIN byId = IdsOf(fileEntries)
    BY <1>6 DEF IndexOf
  <2> QED BY <1>3, <1>4, <2>1, IdsInKnown
<1> HIDE DEF entries
<1>9. RootedSeq(entries)
  BY <1>4, <1>6, <1>8, <1>a, RootedAppend
<1>10. entries # <<>> /\ entries[1] = Header
  <2>1. Len(fileEntries) \in Nat /\ Len(fileEntries) > 0
    BY <1>4, <1>6, SeqFacts
  <2>2. \A i \in 1..Len(fileEntries) : entries[i] = fileEntries[i]
    BY <1>4, <1>a, AppendIsSeq
  <2>3. Range(entries) # {}
    <3>1. Range(entries) = Range(fileEntries) \cup {entry}
      BY <1>4, <1>a, AppendIsSeq
    <3> QED BY <3>1
  <2> QED BY <1>6, <2>1, <2>2, <2>3, RangeEmpty
<1> HIDE DEF lines
<1>11. IsSeq(lines) /\ Garbage \notin Range(lines)
  <2>1. Knows(log', lines)
    BY <1>2, <1>7, KnowsEmpty
  <2> QED BY <1>5, <2>1, KnowsNoGarbage DEF Knows
<1>12. sessionFile \in Files /\ IntactFile(c) /\ IsSeq(c.lines) /\ RootedSeq(c.lines)
  BY DEF Known, FilesKnown, Intact, FilesIntact, IntactFile, IsContent, TreeIntact, FilesRooted
<1> HIDE DEF c
<1>13. ASSUME flushed PROVE c.lines # <<>> /\ IdsIn(fileEntries) \subseteq IdsIn(c.lines)
  <2>1. PICK old : IsSeq(old) /\ c.lines = old \o fileEntries
    BY <1>6, <1>13
  <2>2. Range(c.lines) = Range(old) \cup Range(fileEntries)
    BY <1>4, <2>1, ConcatIsSeq
  <2>3. Range(fileEntries) # {}
    BY <1>4, <1>6, SeqFacts
  <2> QED BY <2>2, <2>3, RangeEmpty DEF IdsIn
<1>14. c.lines = <<>> /\ lines # <<>> => lines[1] = Header
  BY <1>2, <1>10, <1>13
<1>15. RootedBelow(IdsIn(c.lines), lines)
  <2>1. CASE ~assistant
    BY <1>2, <2>1, RootedEmpty, RootedAnywhere
  <2>2. CASE assistant /\ flushed
    BY <1>2, <1>8, <1>13, <2>2, RootedSingle
  <2>3. CASE assistant /\ ~flushed
    BY <1>2, <1>9, <2>3, RootedAnywhere
  <2> QED BY <2>1, <2>2, <2>3
<1>16. /\ RootedSeq(Written(c, lines).lines)
       /\ \A cut \in Cuts(c, lines) : RootedSeq(cut.lines)
  BY <1>11, <1>12, <1>14, <1>15, RootedWrite
<1>17. PICK d : disk' = [disk EXCEPT ![sessionFile] = d] /\ RootedSeq(d.lines)
  BY <1>1, <1>16
<1>18. FilesRooted'
  BY <1>12, <1>17, FileRooted DEF TreeIntact
<1>19. MemoryRooted'
  BY <1>1, <1>9, DeadRooted DEF MemoryRooted
<1>20. Unlabelled'
  <2> SUFFICES ASSUME "label" \notin Kinds, NEW i \in DOMAIN log'
               PROVE  log'[i].type \notin {"label", "unlabel"}
    BY DEF Unlabelled
  <2>1. log'[i] = entry \/ (i \in DOMAIN log /\ log'[i] = log[i])
    BY <1>1
  <2> QED BY <1>3, <2>1 DEF TreeIntact, Unlabelled
<1> QED BY <1>18, <1>19, <1>20 DEF TreeIntact

LEMMA NothingRelabelled ==
  ASSUME Known, Intact, TreeIntact, up, "label" \notin Kinds, NEW path
  PROVE  Relabels(path) = <<>>
<1>1. \A e \in Range(fileEntries) : e.type # "label"
  BY CreatedFacts, FixedLines DEF Known, MemoryKnown, Knows, Created, TreeIntact, Unlabelled
<1>2. labelsById = LabelsOf(fileEntries) /\ IsSeq(fileEntries)
  BY DEF Intact, MemoryIntact, Known, MemoryKnown, Knows
<1>3. labelsById = {}
  <2>1. \A i \in DOMAIN fileEntries : fileEntries[i] \in Range(fileEntries)
    BY <1>2, SeqFacts
  <2> QED BY <1>1, <1>2, <2>1 DEF LabelsOf
<1> DEFINE onPath == IdsOf(path) \cap labelsById
           k == Cardinality(onPath)
           targets == SetToSortSeq(onPath, <)
<1>4. k = 0
  BY <1>3, FS_EmptySet
<1>5. Relabels(path) = [i \in 1..k |->
                         [type |-> "label", id |-> NextId + i - 1,
                          parentId |-> IF i > 1 THEN NextId + i - 2 ELSE LastOf(path), ref |-> targets[i]]]
  BY Zenon DEF Relabels
<1> HIDE DEF k, targets
<1>6. DOMAIN Relabels(path) = {}
  <2>1. DOMAIN Relabels(path) = 1..k
    BY <1>5
  <2> QED BY <1>4, <2>1
<1>7. Relabels(path) = [i \in DOMAIN Relabels(path) |-> Relabels(path)[i]]
  BY DEF Relabels
<1> QED BY <1>6, <1>7

LEMMA CreateBranchedSessionRooted ==
  ASSUME OnlyKilled, NoForkedLabels, Known, Intact, TreeIntact,
         NEW id, NEW f \in Files, CreateBranchedSession(id, f)
  PROVE  TreeIntact' /\ DOMAIN log' = DOMAIN log /\ Grows(log, log')
<1> DEFINE path == BranchedPath(id)
           labels == Relabels(path)
           entries == <<Header>> \o path \o labels
           assistant == HasAssistant(entries)
<1>1. /\ Forks /\ up /\ id \in DOMAIN byId
      /\ log' = [i \in DOMAIN log \cup IdsOf(labels) |->
                   IF i \in DOMAIN log THEN log[i] ELSE labels[i - NextId + 1]]
      /\ \/ /\ Index(entries) /\ up' = up
            /\ disk' = IF assistant THEN [disk EXCEPT ![f] = Written(EmptyFile, entries)] ELSE disk
         \/ (\E cut \in Cuts(EmptyFile, entries) : disk' = [disk EXCEPT ![f] = cut]) /\ Die
  BY Zenon DEF CreateBranchedSession, OnlyKilled
<1> HIDE DEF assistant
<1>2. "label" \notin Kinds
  BY <1>1 DEF NoForkedLabels
<1>3. labels = <<>>
  BY <1>1, <1>2, NothingRelabelled
<1>4. Knows(log, path) /\ LogOK(log)
  BY <1>1, BranchedPathKnown DEF Known
<1>5. RootedSeq(path)
  <2> DEFINE b == Branch(byId, id)
             types == {"label", "unlabel"}
  <2>1. IndexOK(byId)
    BY IndexIsOK
  <2>2. id \in 0..MaxEntries
    BY <1>1, <2>1, BoundsAssumption DEF IndexOK
  <2>3. \A i \in DOMAIN byId : byId[i].id = i /\ byId[i].parentId \in DOMAIN byId \cup {NoId}
    BY MemoryClosed DEF TreeIntact
  <2>4. RootedSeq(b)
    BY <2>1, <2>2, <2>3, RootedBranch
  <2>5. IsSeq(b) /\ \A e \in Range(b) : Created(log, e)
    BY <1>1, <2>1, <2>2, BranchIsSeq, BranchedPathKnown
  <2>6. \A e \in Range(b) : e.type \notin types
    BY <1>2, <2>5 DEF TreeIntact, Unlabelled, Created
  <2>7. path = Without(b, types)
    BY DEF BranchedPath
  <2> HIDE DEF b, types, path
  <2>8. Without(b, types) = b
    BY <2>5, <2>6, WithoutNothing DEF IsSeq
  <2> QED BY <2>4, <2>7, <2>8
<1>6. DOMAIN log' = DOMAIN log /\ Grows(log, log')
  <2>1. IdsOf(labels) = {}
    BY <1>3, NoIds
  <2> HIDE DEF labels
  <2> QED BY <1>1, <2>1 DEF Grows
<1> HIDE DEF path, labels
<1>7. entries = <<Header>> \o path
  <2> DEFINE s == <<Header>> \o path
  <2>1. IsSeq(s)
    BY <1>4, HeaderFirst DEF Knows
  <2> HIDE DEF s
  <2>2. s \o <<>> = s
    BY <2>1, ConcatEmpty
  <2> QED BY <1>3, <2>2 DEF s
<1> HIDE DEF entries
<1>8. IsSeq(entries) /\ entries # <<>> /\ entries[1] = Header /\ Range(entries) = {Header} \cup Range(path)
  BY <1>4, <1>7, HeaderFirst DEF Knows
<1>9. Garbage \notin Range(entries) /\ RootedSeq(entries)
  BY <1>4, <1>5, <1>7, <1>8, KnowsNoGarbage, FixedLines, RootedUnderHeader DEF Knows
<1>10. IntactFile(EmptyFile) /\ RootedSeq(EmptyFile.lines) /\ RootedBelow(IdsIn(EmptyFile.lines), entries)
  BY <1>9, FreshFiles, RootedEmpty, RootedAnywhere
<1>11. /\ RootedSeq(Written(EmptyFile, entries).lines)
       /\ \A cut \in Cuts(EmptyFile, entries) : RootedSeq(cut.lines)
  BY <1>8, <1>9, <1>10, RootedWrite
<1>12. disk' = disk \/ \E d : disk' = [disk EXCEPT ![f] = d] /\ RootedSeq(d.lines)
  BY <1>1, <1>11
<1>13. FilesRooted'
  <2>1. disk' = disk => FilesRooted'
    BY DEF TreeIntact, FilesRooted
  <2> QED BY <1>12, <2>1, FileRooted DEF TreeIntact
<1>14. MemoryRooted'
  BY <1>1, <1>9, IndexedRooted, DeadRooted
<1> QED BY <1>6, <1>13, <1>14 DEF TreeIntact, Unlabelled, Grows

LEMMA TreeIntactInitially == Init => TreeIntact
<1> SUFFICES ASSUME Init PROVE TreeIntact
  OBVIOUS
<1>1. ~up /\ DOMAIN byId = {} /\ DOMAIN log = {}
  BY DEF Init
<1>2. \A f \in Files : disk[f] = NoFile \/ disk[f] = EmptyFile
  <2>1. disk \in [Files -> IF EmptyFiles THEN {NoFile, EmptyFile} ELSE {NoFile}]
    BY DEF Init
  <2> QED BY <2>1
<1> QED BY <1>1, <1>2, FreshFiles, RootedEmpty DEF TreeIntact, FilesRooted, MemoryRooted, Unlabelled

LEMMA TreeIntactStep ==
  OnlyKilled /\ NoForkedLabels /\ Known /\ Intact /\ TreeIntact /\ [Next]_vars => TreeIntact'
<1> SUFFICES ASSUME OnlyKilled, NoForkedLabels, Known, Intact, TreeIntact, [Next]_vars PROVE TreeIntact'
  OBVIOUS
<1>1. ASSUME NEW f \in Files, NewSession(f) \/ SetSessionFileNew(f) PROVE TreeIntact'
  BY <1>1, NewSessionRooted
<1>2. ASSUME NEW f \in Files, SetSessionFile(f) PROVE TreeIntact'
  BY <1>2, SetSessionFileRooted
<1>3. ASSUME NEW f \in Files, SetSessionFileCorrupt(f) PROVE TreeIntact'
  BY <1>3, SetSessionFileCorruptRooted
<1>4. ASSUME NEW f \in Files, NEW source \in Files, ForkFrom(source, f) PROVE TreeIntact'
  BY <1>4, ForkFromRooted
<1>5. ASSUME NEW f \in Files, NEW id \in Ids, CreateBranchedSession(id, f) PROVE TreeIntact'
  BY <1>5, CreateBranchedSessionRooted
<1>6. ASSUME NEW id, MoveLeaf(id) PROVE TreeIntact'
  BY <1>6 DEF MoveLeaf, TreeIntact, FilesRooted, MemoryRooted, Unlabelled
<1>7. CASE \/ \E type \in {"user", "assistant"} : AppendMessage(type)
           \/ AppendSetting
           \/ \E id \in Ids : AppendCompaction(id) \/ \E type \in {"label", "unlabel"} : AppendLabelChange(type, id)
           \/ \E id \in Ids \cup {NoId} : BranchWithSummary(id)
  <2>1. PICK type \in EntryTypes, parent \in DOMAIN byId \cup {NoId}, ref \in Ids \cup {NoId} :
          AppendEntry(type, parent, ref) /\ (type \in {"label", "unlabel"} => "label" \in Kinds)
    BY <1>7, AppendingSteps
  <2> QED BY <2>1, AppendEntryRooted
<1>8. CASE UNCHANGED vars
  BY <1>8 DEF vars, TreeIntact, FilesRooted, MemoryRooted, Unlabelled
<1> QED BY <1>1, <1>2, <1>3, <1>4, <1>5, <1>6, <1>7, <1>8, Zenon DEF Next

LEMMA AlwaysTreeIntact ==
  ASSUME OnlyKilled, NoForkedLabels
  PROVE  Spec => []TreeIntact
<1>1. Init => TreeIntact
  BY TreeIntactInitially
<1>2. Known /\ Intact /\ TreeIntact /\ [Next]_vars => TreeIntact'
  BY TreeIntactStep
<1> QED BY <1>1, <1>2, AlwaysKnown, AlwaysIntact, PTL DEF Spec

-----------------------------------------------------------------------------
(* The session implements the tree.                                        *)

\* What the tree sees of the memory.
TreeMemory ==
  /\ DOMAIN byId \subseteq DOMAIN log
  /\ \A i \in DOMAIN byId : log[i].parentId \in DOMAIN byId \cup {NoId}
  /\ leafId \in DOMAIN byId \cup {NoId}

LEMMA MemoryIsTree == Known /\ Intact /\ TreeIntact => TreeMemory
<1> SUFFICES ASSUME Known, Intact, TreeIntact PROVE TreeMemory
  OBVIOUS
<1>1. \A i \in DOMAIN byId : log[i].parentId \in DOMAIN byId \cup {NoId}
  BY MemoryClosed DEF TreeIntact
<1> QED BY <1>1 DEF TreeMemory, Known, MemoryKnown

LEMMA PastAdded ==
  ASSUME NEW L, NEW e, NEW M, M = [i \in DOMAIN L \cup {e.id} |-> IF i = e.id THEN e ELSE L[i]],
         NEW P, P = [i \in DOMAIN L |-> L[i].parentId], NEW Q, Q = [i \in DOMAIN M |-> M[i].parentId],
         NEW parent, parent = e.parentId, NEW id, id = e.id
  PROVE  Q = [d \in DOMAIN P \cup {id} |-> IF d = id THEN parent ELSE P[d]]
<1>1. DOMAIN Q = DOMAIN P \cup {id}
  OBVIOUS
<1>2. \A d \in DOMAIN Q : Q[d] = IF d = id THEN parent ELSE P[d]
  OBVIOUS
<1>3. Q = [d \in DOMAIN Q |-> Q[d]]
  OBVIOUS
<1> QED BY <1>1, <1>2, <1>3

LEMMA SamePast ==
  ASSUME NEW L, NEW M, DOMAIN M = DOMAIN L, Grows(L, M)
  PROVE  [i \in DOMAIN M |-> M[i].parentId] = [i \in DOMAIN L |-> L[i].parentId]
BY DEF Grows

LEMMA TreeRestored ==
  ASSUME DOMAIN log' = DOMAIN log, Grows(log, log'), TreeMemory'
  PROVE  Tree!Restore
<1> DEFINE past == [id \in DOMAIN log |-> log[id].parentId]
<1>1. past' = past
  BY SamePast
<1>2. /\ DOMAIN byId' \subseteq DOMAIN log
      /\ \A i \in DOMAIN byId' : i \in DOMAIN log /\ log[i].parentId \in DOMAIN byId' \cup {NoId}
      /\ leafId' \in DOMAIN byId' \cup {NoId}
  BY DEF TreeMemory, Grows
<1>3. DOMAIN past = DOMAIN log /\ \A i \in DOMAIN log : past[i] = log[i].parentId
  OBVIOUS
<1>4. \A i \in DOMAIN byId' : past[i] \in DOMAIN byId' \cup {NoId}
  BY <1>2, <1>3
<1> QED BY <1>1, <1>2, <1>3, <1>4 DEF Tree!Restore, Tree!Rooted, NoId

LEMMA TreeGrown ==
  ASSUME OnlyKilled, Known, NEW type \in EntryTypes, NEW parent \in DOMAIN byId \cup {NoId}, NEW ref,
         AppendEntry(type, parent, ref)
  PROVE  Tree!Grow \/ Tree!Lose
<1> DEFINE entry == [type |-> type, id |-> NextId, parentId |-> parent, ref |-> ref]
           past == [id \in DOMAIN log |-> log[id].parentId]
           new == entry.id
<1>1. /\ NextId <= MaxEntries
      /\ log' = [id \in DOMAIN log \cup {entry.id} |-> IF id = entry.id THEN entry ELSE log[id]]
      /\ \/ /\ leafId' = entry.id
            /\ byId' = [id \in DOMAIN byId \cup {entry.id} |-> IF id = entry.id THEN entry ELSE byId[id]]
         \/ Die
  BY Zenon DEF AppendEntry, OnlyKilled
<1>2. /\ entry.id = Cardinality(DOMAIN log) + 1 /\ entry.id <= MaxEntries
      /\ entry.type \in EntryTypes /\ entry.parentId \in DOMAIN log \cup {NoId}
      /\ entry.parentId = parent
  BY <1>1 DEF NextId, Known, MemoryKnown
<1> HIDE DEF entry
<1>3. new \notin DOMAIN log
  BY <1>1, <1>2, LogAppended DEF Known
<1> HIDE DEF new
<1>4. past' = [d \in DOMAIN past \cup {new} |-> IF d = new THEN parent ELSE past[d]]
  BY <1>1, <1>2, PastAdded DEF new
<1>5. DOMAIN past = DOMAIN log /\ DOMAIN past' = DOMAIN log \cup {new}
  BY <1>1 DEF new
<1> HIDE DEF past
<1>6. new \in DOMAIN past' /\ new \notin DOMAIN past /\ parent \in DOMAIN byId \cup {0}
  BY <1>3, <1>5 DEF NoId
<1>7. CASE Die
  <2>1. byId' = IndexOf(<<>>) /\ leafId' = LastOf(<<>>)
    BY <1>7 DEF Die, Index
  <2>2. DOMAIN byId' = {}
    BY <2>1, NoIds DEF IndexOf
  <2>3. leafId' = 0
    <3>1. EntriesOf(<<>>) = <<>>
      BY WithoutEmpty DEF EntriesOf
    <3> QED BY <2>1, <3>1 DEF LastOf, NoId
  <2>4. Tree!Added(new, parent)
    BY <1>4, <1>6, Zenon DEF Tree!Added, past
  <2>5. new \in DOMAIN [id \in DOMAIN log |-> log[id].parentId]'
    BY <1>6 DEF past
  <2> QED BY <1>6, <2>2, <2>3, <2>4, <2>5, Zenon DEF Tree!Lose
<1>8. CASE /\ leafId' = entry.id
           /\ byId' = [id \in DOMAIN byId \cup {entry.id} |-> IF id = entry.id THEN entry ELSE byId[id]]
  <2>1. leafId' = new /\ DOMAIN byId' = DOMAIN byId \cup {new}
    BY <1>8 DEF new
  <2>2. Tree!Added(new, parent)
    BY <1>4, <1>6, Zenon DEF Tree!Added, past
  <2>3. new \in DOMAIN [id \in DOMAIN log |-> log[id].parentId]'
    BY <1>6 DEF past
  <2> QED BY <1>6, <2>1, <2>2, <2>3, Zenon DEF Tree!Grow
<1> QED BY <1>1, <1>7, <1>8

LEMMA TreeStep ==
  ASSUME OnlyKilled, NoForkedLabels, Known, Intact, TreeIntact, TreeMemory', [Next]_vars
  PROVE  Tree!Next \/ UNCHANGED Tree!tree
<1>1. ASSUME log' = log PROVE Tree!Next
  BY <1>1, GrowsReflexive, TreeRestored DEF Tree!Next
<1>2. ASSUME NEW f \in Files, NewSession(f) \/ SetSessionFileNew(f) PROVE Tree!Next
  BY <1>1, <1>2, NewSessionRooted
<1>3. ASSUME NEW f \in Files, SetSessionFile(f) PROVE Tree!Next
  BY <1>1, <1>3, SetSessionFileRooted
<1>4. ASSUME NEW f \in Files, SetSessionFileCorrupt(f) PROVE Tree!Next
  BY <1>1, <1>4, SetSessionFileCorruptRooted
<1>5. ASSUME NEW f \in Files, NEW source \in Files, ForkFrom(source, f) PROVE Tree!Next
  BY <1>1, <1>5, ForkFromRooted
<1>6. ASSUME NEW f \in Files, NEW id \in Ids, CreateBranchedSession(id, f) PROVE Tree!Next
  BY <1>6, CreateBranchedSessionRooted, TreeRestored DEF Tree!Next
<1>7. ASSUME NEW id, MoveLeaf(id) PROVE Tree!Next
  <2>1. leafId' \in DOMAIN byId \cup {0} /\ byId' = byId /\ log' = log
    BY <1>7 DEF MoveLeaf, NoId
  <2> QED BY <2>1 DEF Tree!Next, Tree!Move
<1>8. CASE \/ \E type \in {"user", "assistant"} : AppendMessage(type)
           \/ AppendSetting
           \/ \E id \in Ids : AppendCompaction(id) \/ \E type \in {"label", "unlabel"} : AppendLabelChange(type, id)
           \/ \E id \in Ids \cup {NoId} : BranchWithSummary(id)
  <2>1. PICK type \in EntryTypes, parent \in DOMAIN byId \cup {NoId}, ref \in Ids \cup {NoId} :
          AppendEntry(type, parent, ref)
    BY <1>8, AppendingSteps
  <2> QED BY <2>1, TreeGrown DEF Tree!Next
<1>9. CASE UNCHANGED vars
  BY <1>9 DEF vars, Tree!tree
<1> QED BY <1>2, <1>3, <1>4, <1>5, <1>6, <1>7, <1>8, <1>9, Zenon DEF Next

LEMMA TreeInitially == Init => Tree!Init
BY DEF Init, Tree!Init, NoId

-----------------------------------------------------------------------------
\* If the process may only die between two lines of a write, and labels do not
\* meet forks, the session is the promised conversation tree: entries are added
\* one by one below entries of the tree, and whatever is opened, forked, left or
\* killed, no entry is ever without its past.
THEOREM SessionIsTree ==
  ASSUME Faults \subseteq {"kill"}, ~(Forks /\ "label" \in Kinds)
  PROVE  Spec => ImplementsTree
<1>1. OnlyKilled /\ NoForkedLabels
  BY DEF OnlyKilled, NoForkedLabels
<1>2. Spec => [](Known /\ Intact /\ TreeIntact)
  BY <1>1, AlwaysKnown, AlwaysIntact, AlwaysTreeIntact, PTL
<1>3. Known /\ Intact /\ TreeIntact /\ TreeMemory' /\ [Next]_vars => [Tree!Next]_(Tree!tree)
  BY <1>1, TreeStep
<1> QED BY <1>2, <1>3, MemoryIsTree, TreeInitially, PTL DEF Spec, ImplementsTree, Tree!Spec

-----------------------------------------------------------------------------
(* The past of an entry.                                                   *)

PastStep(L, g, i) == IF i \notin DOMAIN L THEN {} ELSE g[L[i].parentId] \cup {i}
IsPastUpTo(L, n, g) == g = [i \in 0..n |-> PastStep(L, g, i)]
PastIn(L, id) == (CHOOSE g : IsPastUpTo(L, MaxEntries, g))[id]

LEMMA PastIsChosen == \A id : Past(id) = PastIn(log, id)
BY DEF Past, PastIn, IsPastUpTo, PastStep

LEMMA PastExists ==
  ASSUME NEW L, IndexOK(L)
  PROVE  \A n \in Nat : \E g : IsPastUpTo(L, n, g)
<1> DEFINE T == {n \in Nat : \E g : IsPastUpTo(L, n, g)}
<1>1. 0 \in T
  <2> DEFINE g == [i \in 0..0 |-> {}]
  <2>1. 0 \notin DOMAIN L
    BY DEF IndexOK
  <2>2. IsPastUpTo(L, 0, g)
    BY <2>1 DEF IsPastUpTo, PastStep
  <2> QED BY <2>2
<1>2. \A n \in Nat : n \in T => n + 1 \in T
  <2> SUFFICES ASSUME NEW n \in Nat, n \in T PROVE n + 1 \in T
    OBVIOUS
  <2> PICK g : IsPastUpTo(L, n, g)
    OBVIOUS
  <2> DEFINE last == PastStep(L, g, n + 1)
             h == [i \in 0..(n + 1) |-> IF i <= n THEN g[i] ELSE last]
  <2>1. \A i \in 0..n : g[i] = PastStep(L, g, i)
    BY DEF IsPastUpTo
  <2>2. ASSUME NEW i \in 0..(n + 1) PROVE h[i] = PastStep(L, h, i)
    <3>1. CASE i \notin DOMAIN L
      <4>1. h[i] = PastStep(L, g, i)
        BY <2>1
      <4> HIDE DEF h
      <4> QED BY <3>1, <4>1 DEF PastStep
    <3>2. CASE i \in DOMAIN L
      <4>1. L[i].parentId \in 0..(i - 1)
        BY <3>2 DEF IndexOK
      <4>2. h[i] = PastStep(L, g, i) /\ h[L[i].parentId] = g[L[i].parentId]
        BY <2>1, <4>1
      <4> HIDE DEF h
      <4> QED BY <3>2, <4>2 DEF PastStep
    <3> QED BY <3>1, <3>2
  <2>3. h = [i \in 0..(n + 1) |-> h[i]]
    OBVIOUS
  <2> HIDE DEF h
  <2>4. IsPastUpTo(L, n + 1, h)
    BY <2>2, <2>3 DEF IsPastUpTo
  <2> QED BY <2>4
<1> HIDE DEF T
<1>3. \A n \in Nat : n \in T
  BY <1>1, <1>2, NatSetInduction
<1> QED BY <1>3 DEF T

LEMMA PastEquation ==
  ASSUME NEW L, IndexOK(L), NEW i \in 0..MaxEntries
  PROVE  PastIn(L, i) = IF i \notin DOMAIN L THEN {} ELSE PastIn(L, L[i].parentId) \cup {i}
<1> DEFINE c == CHOOSE g : IsPastUpTo(L, MaxEntries, g)
<1>0. MaxEntries \in Nat
  BY BoundsAssumption
<1>1. IsPastUpTo(L, MaxEntries, c)
  BY <1>0, PastExists
<1>2. PastIn(L, i) = c[i] /\ PastIn(L, L[i].parentId) = c[L[i].parentId]
  BY DEF PastIn
<1> HIDE DEF c
<1>3. c[i] = PastStep(L, c, i)
  BY <1>1 DEF IsPastUpTo
<1> QED BY <1>2, <1>3 DEF PastStep

LEMMA LogIsIndex ==
  ASSUME NEW L, LogOK(L)
  PROVE  /\ IndexOK(L) /\ DOMAIN L \subseteq 1..MaxEntries /\ MaxEntries \in Nat
         /\ \A i \in DOMAIN L : L[i].parentId \in DOMAIN L \cup {0} /\ L[i].parentId \in 0..(i - 1)
<1>1. DOMAIN L = 1..Cardinality(DOMAIN L) /\ Cardinality(DOMAIN L) \in 0..MaxEntries /\ MaxEntries \in Nat
  BY LogSize, BoundsAssumption
<1>2. \A i \in DOMAIN L : L[i].parentId \in 0..(i - 1)
  BY DEF LogOK
<1>3. DOMAIN L \subseteq 1..MaxEntries
  BY <1>1
<1>4. \A i \in DOMAIN L : L[i].parentId \in DOMAIN L \cup {0}
  BY <1>1, <1>2
<1> QED BY <1>1, <1>2, <1>3, <1>4 DEF IndexOK

\* The past is made of earlier entries.
LEMMA PastIsOlder ==
  ASSUME NEW L, LogOK(L)
  PROVE  \A i \in DOMAIN L \cup {0} : PastIn(L, i) \subseteq DOMAIN L \cap 1..i
<1> DEFINE T == {i \in Nat : i \in DOMAIN L \cup {0} => PastIn(L, i) \subseteq DOMAIN L \cap 1..i}
<1>0. /\ IndexOK(L) /\ DOMAIN L \subseteq 1..MaxEntries /\ MaxEntries \in Nat
      /\ \A i \in DOMAIN L : L[i].parentId \in DOMAIN L \cup {0} /\ L[i].parentId \in 0..(i - 1)
  BY LogIsIndex
<1>1. ASSUME NEW n \in Nat, \A m \in 0..(n - 1) : m \in T PROVE n \in T
  <2> SUFFICES ASSUME n \in DOMAIN L \cup {0} PROVE PastIn(L, n) \subseteq DOMAIN L \cap 1..n
    OBVIOUS
  <2>1. n \in 0..MaxEntries
    BY <1>0
  <2>2. PastIn(L, n) = IF n \notin DOMAIN L THEN {} ELSE PastIn(L, L[n].parentId) \cup {n}
    BY <1>0, <2>1, PastEquation
  <2>3. CASE n \in DOMAIN L
    <3>1. PICK p \in 0..(n - 1) : p = L[n].parentId /\ p \in DOMAIN L \cup {0}
      BY <1>0, <2>3
    <3>2. PastIn(L, p) \subseteq DOMAIN L \cap 1..p
      BY <1>1, <3>1
    <3>3. n \in DOMAIN L \cap 1..n /\ 1..p \subseteq 1..n
      BY <1>0, <2>3, <3>1
    <3> QED BY <2>2, <2>3, <3>1, <3>2, <3>3
  <2> QED BY <2>2, <2>3
<1> HIDE DEF T
<1>2. \A n \in Nat : n \in T
  BY <1>1, NatSetStrongInduction
<1>3. ASSUME NEW i \in DOMAIN L \cup {0} PROVE i \in Nat
  BY <1>0
<1> QED BY <1>2, <1>3 DEF T

-----------------------------------------------------------------------------
(* Paths: their entries are the past, in the order of their creation.      *)

Rising(s) == \A i, j \in 1..Len(s) : i < j => s[i].id < s[j].id

LEMMA RisingAppend ==
  ASSUME NEW s, IsSeq(s), NEW e
  PROVE  Rising(Append(s, e)) <=> Rising(s) /\ \A x \in Range(s) : x.id < e.id
<1> DEFINE r == Append(s, e)
<1>1. /\ Len(r) = Len(s) + 1 /\ r[Len(s) + 1] = e /\ Len(s) \in Nat
      /\ \A i \in 1..Len(s) : r[i] = s[i]
  <2>1. Len(Append(s, e)) = Len(s) + 1 /\ Append(s, e)[Len(s) + 1] = e
    BY AppendIsSeq
  <2>2. \A i \in 1..Len(s) : Append(s, e)[i] = s[i]
    BY AppendIsSeq
  <2>3. Len(s) \in Nat
    BY SeqFacts
  <2> QED BY <2>1, <2>2, <2>3, Zenon DEF r
<1> HIDE DEF r
<1>2. ASSUME Rising(r) PROVE Rising(s) /\ \A x \in Range(s) : x.id < e.id
  <2>1. Rising(s)
    BY <1>1, <1>2 DEF Rising
  <2>2. ASSUME NEW x \in Range(s) PROVE x.id < e.id
    <3>1. PICK i \in 1..Len(s) : x = s[i]
      BY SeqFacts
    <3>2. i \in 1..Len(r) /\ Len(s) + 1 \in 1..Len(r) /\ i < Len(s) + 1
      BY <1>1
    <3> QED BY <1>1, <1>2, <3>1, <3>2 DEF Rising
  <2> QED BY <2>1, <2>2
<1>3. ASSUME Rising(s), \A x \in Range(s) : x.id < e.id PROVE Rising(r)
  <2> SUFFICES ASSUME NEW i \in 1..Len(r), NEW j \in 1..Len(r), i < j PROVE r[i].id < r[j].id
    BY DEF Rising
  <2>1. i \in 1..Len(s) /\ r[i] = s[i] /\ s[i] \in Range(s)
    <3>1. i \in 1..Len(s)
      BY <1>1
    <3> QED BY <1>1, <3>1, SeqFacts
  <2>2. CASE j = Len(s) + 1
    BY <1>1, <1>3, <2>1, <2>2
  <2>3. CASE j # Len(s) + 1
    <3>1. j \in 1..Len(s)
      BY <1>1, <2>3
    <3> QED BY <1>1, <1>3, <2>1, <3>1 DEF Rising
  <2> QED BY <2>2, <2>3
<1> QED BY <1>2, <1>3 DEF r

\* What is left of a rising sequence rises.
LEMMA RisingWithout ==
  ASSUME NEW S, NEW types
  PROVE  \A s \in Seq(S) : Rising(s) => Rising(Without(s, types))
<1> DEFINE T == {s \in Seq(S) : Rising(s) => Rising(Without(s, types))}
<1>1. <<>> \in T
  BY WithoutEmpty, EmptySeq
<1>2. \A s \in Seq(S), e \in S : s \in T => Append(s, e) \in T
  <2> SUFFICES ASSUME NEW s \in Seq(S), NEW e \in S, s \in T, Rising(Append(s, e))
               PROVE  Rising(Without(Append(s, e), types))
    BY AppendProperties
  <2>1. IsSeq(s)
    BY SeqIsSeq
  <2>2. Rising(s) /\ \A x \in Range(s) : x.id < e.id
    BY <2>1, RisingAppend
  <2>3. PICK w : w = Without(s, types)
    OBVIOUS
  <2>4. Rising(w) /\ w \in Seq(S) /\ Range(w) \subseteq Range(s)
    BY <2>2, <2>3, WithoutIsSeq, WithoutRange
  <2>5. IsSeq(w)
    BY <2>4, SeqIsSeq
  <2>6. Rising(Append(w, e))
    BY <2>2, <2>4, <2>5, RisingAppend
  <2>7. Without(Append(s, e), types) = IF e.type \in types THEN w ELSE Append(w, e)
    BY <2>3, WithoutAppend
  <2> QED BY <2>4, <2>6, <2>7
<1> HIDE DEF T
<1>3. \A s \in Seq(S) : s \in T
  BY <1>1, <1>2, SeqSetInduction
<1> QED BY <1>3 DEF T

\* A path through the history L that leads to the entry i.
IsPath(L, path, i) ==
  /\ IsSeq(path) /\ Rising(path)
  /\ \A e \in Range(path) : Created(L, e)
  /\ IdsIn(path) = PastIn(L, i)

LEMMA PathIsPast ==
  ASSUME NEW L, LogOK(L), NEW index, IndexOK(index), DOMAIN index \subseteq DOMAIN L,
         \A i \in DOMAIN index : index[i] = L[i] /\ index[i].parentId \in DOMAIN index \cup {0}
  PROVE  \A i \in DOMAIN index \cup {0} : IsPath(L, Branch(index, i), i)
<1> DEFINE T == {i \in Nat : i \in DOMAIN index \cup {0} => IsPath(L, Branch(index, i), i)}
<1>0. /\ IndexOK(L) /\ DOMAIN L \subseteq 1..MaxEntries /\ MaxEntries \in Nat
      /\ \A i \in DOMAIN L : L[i].parentId \in DOMAIN L \cup {0} /\ L[i].parentId \in 0..(i - 1)
  BY LogIsIndex
<1>1. ASSUME NEW n \in Nat, \A m \in 0..(n - 1) : m \in T PROVE n \in T
  <2> SUFFICES ASSUME n \in DOMAIN index \cup {0} PROVE IsPath(L, Branch(index, n), n)
    OBVIOUS
  <2>1. n \in 0..MaxEntries
    BY <1>0
  <2>2. PastIn(L, n) = IF n \notin DOMAIN L THEN {} ELSE PastIn(L, L[n].parentId) \cup {n}
    BY <1>0, <2>1, PastEquation
  <2>3. CASE n \in DOMAIN index
    <3>1. PICK p \in 0..(n - 1) : p = L[n].parentId /\ p \in DOMAIN index \cup {0} /\ index[n] = L[n]
      BY <1>0, <2>3
    <3>2. IsPath(L, Branch(index, p), p)
      BY <1>1, <3>1
    <3>3. PICK b : b = Branch(index, p)
      OBVIOUS
    <3>4. PICK e : e = L[n]
      OBVIOUS
    <3>5. Branch(index, n) = Append(b, e)
      BY <2>1, <2>3, <3>1, <3>3, <3>4, BranchEquation
    <3>6. IsSeq(b) /\ Rising(b) /\ (\A x \in Range(b) : Created(L, x)) /\ IdsIn(b) = PastIn(L, p)
      BY <3>2, <3>3 DEF IsPath
    <3>7. e.id = n /\ Created(L, e) /\ n \in DOMAIN L
      BY <2>3, <3>4 DEF LogOK, Created
    <3>8. \A x \in Range(b) : x.id < n
      <4>1. PastIn(L, p) \subseteq 1..p
        BY <3>1, PastIsOlder
      <4>2. ASSUME NEW x \in Range(b) PROVE x.id \in 1..p
        BY <3>6, <4>1 DEF IdsIn
      <4> QED BY <3>1, <4>2
    <3>9. IsSeq(Append(b, e)) /\ Range(Append(b, e)) = Range(b) \cup {e}
      BY <3>6, AppendIsSeq
    <3>10. Rising(Append(b, e))
      BY <3>6, <3>7, <3>8, RisingAppend
    <3>11. IdsIn(Append(b, e)) = PastIn(L, n)
      <4>1. IdsIn(Append(b, e)) = IdsIn(b) \cup {n}
        BY <3>7, <3>9 DEF IdsIn
      <4>2. PastIn(L, n) = PastIn(L, p) \cup {n}
        BY <2>2, <3>1, <3>7
      <4> QED BY <3>6, <4>1, <4>2
    <3>12. \A x \in Range(Append(b, e)) : Created(L, x)
      BY <3>6, <3>7, <3>9
    <3> QED BY <3>5, <3>9, <3>10, <3>11, <3>12 DEF IsPath
  <2>4. CASE n = 0 /\ n \notin DOMAIN index
    <3>1. Branch(index, n) = <<>>
      BY <2>1, <2>4, BranchEquation
    <3>2. PICK none : none = <<>>
      OBVIOUS
    <3>3. IsSeq(none) /\ Range(none) = {} /\ Len(none) = 0
      BY <3>2, EmptyIsSeq, RangeEmpty
    <3>4. Rising(none) /\ IdsIn(none) = {}
      BY <3>3 DEF Rising, IdsIn
    <3>5. PastIn(L, n) = {}
      BY <1>0, <2>2, <2>4
    <3> QED BY <3>1, <3>2, <3>3, <3>4, <3>5 DEF IsPath
  <2> QED BY <2>3, <2>4
<1> HIDE DEF T
<1>2. \A n \in Nat : n \in T
  BY <1>1, NatSetStrongInduction
<1>3. ASSUME NEW i \in DOMAIN index \cup {0} PROVE i \in Nat
  BY <1>0
<1> QED BY <1>2, <1>3 DEF T

-----------------------------------------------------------------------------
(* Contexts.                                                               *)

LEMMA Greatest ==
  \A n \in Nat : \A S \in SUBSET (1..n) : S # {} => \E m \in S : \A y \in S : m >= y
<1> DEFINE T == {n \in Nat : \A S \in SUBSET (1..n) : S # {} => \E m \in S : \A y \in S : m >= y}
<1>1. 0 \in T
  <2>1. \A S \in SUBSET (1..0) : S = {}
    OBVIOUS
  <2> QED BY <2>1
<1>2. \A n \in Nat : n \in T => n + 1 \in T
  <2> SUFFICES ASSUME NEW n \in Nat, n \in T, NEW S \in SUBSET (1..(n + 1)), S # {}
               PROVE  \E m \in S : \A y \in S : m >= y
    OBVIOUS
  <2>1. CASE n + 1 \in S
    BY <2>1
  <2>2. CASE n + 1 \notin S
    <3>1. S \in SUBSET (1..n)
      BY <2>2
    <3> QED BY <3>1
  <2> QED BY <2>1, <2>2
<1> HIDE DEF T
<1>3. \A n \in Nat : n \in T
  BY <1>1, <1>2, NatSetInduction
<1> QED BY <1>3 DEF T

LEMMA MaxIs ==
  ASSUME NEW S \in SUBSET Nat, NEW m \in S, \A y \in S : m >= y
  PROVE  Max(S) = m
<1>1. \A x \in S : (\A y \in S : x >= y) => x = m
  OBVIOUS
<1> QED BY <1>1 DEF Max

LEMMA MinIs == ASSUME NEW p \in Nat PROVE Min({p}) = p
BY DEF Min

LEMMA RisingIds ==
  ASSUME NEW L, LogOK(L), NEW path, NEW i, IsPath(L, path, i)
  PROVE  /\ Len(path) \in Nat /\ DOMAIN path = 1..Len(path)
         /\ \A p \in 1..Len(path) : path[p].id \in Nat /\ path[p] \in Range(path) /\ Created(L, path[p])
         /\ \A p, q \in 1..Len(path) : p < q <=> path[p].id < path[q].id
         /\ \A p, q \in 1..Len(path) : path[p].id = path[q].id => p = q
<1>1. /\ Len(path) \in Nat /\ DOMAIN path = 1..Len(path)
      /\ \A p \in 1..Len(path) : path[p] \in Range(path)
  BY SeqFacts DEF IsPath
<1>2. \A p \in 1..Len(path) : Created(L, path[p])
  BY <1>1 DEF IsPath
<1>3. ASSUME NEW p \in 1..Len(path) PROVE path[p].id \in Nat
  <2>1. path[p].id \in DOMAIN L
    BY <1>2 DEF Created
  <2> QED BY <2>1, LogIsIndex
<1>4. \A p, q \in 1..Len(path) : p < q => path[p].id < path[q].id
  BY DEF IsPath, Rising
<1>5. ASSUME NEW p \in 1..Len(path), NEW q \in 1..Len(path)
      PROVE  (p < q <=> path[p].id < path[q].id) /\ (path[p].id = path[q].id => p = q)
  <2>1. p < q \/ p = q \/ q < p
    BY <1>1
  <2>2. path[p].id \in Nat /\ path[q].id \in Nat
    BY <1>3
  <2>3. (p < q => path[p].id < path[q].id) /\ (q < p => path[q].id < path[p].id)
    BY <1>4
  <2>4. p = q => path[p].id = path[q].id
    OBVIOUS
  <2> QED BY <1>1, <2>1, <2>2, <2>3, <2>4
<1> QED BY <1>1, <1>2, <1>3, <1>5

\* The end of a path, from a place on.
LEMMA EndOfPath ==
  ASSUME NEW L, LogOK(L), NEW path, NEW i, IsPath(L, path, i), NEW p \in 1..Len(path)
  PROVE  LET t == SubSeq(path, p, Len(path)) IN
         /\ t \in Seq(Range(path)) /\ Rising(t)
         /\ Range(t) = {e \in Range(path) : e.id >= path[p].id}
<1> DEFINE n == Len(path)
<1>1. PICK t : t = SubSeq(path, p, n)
  OBVIOUS
<1>2. /\ n \in Nat
      /\ \A q \in 1..n : path[q].id \in Nat /\ path[q] \in Range(path)
      /\ \A q, r \in 1..n : q < r <=> path[q].id < path[r].id
  BY RisingIds
<1>3. \A q \in p..n : path[q] \in Range(path)
  BY <1>2
<1>4. /\ t \in Seq(Range(path)) /\ Len(t) = n - p + 1
      /\ \A q \in 1..(n - p + 1) : t[q] = path[p + q - 1]
  BY <1>1, <1>2, <1>3, SubSeqProperties
<1>5. IsSeq(t)
  BY <1>4, SeqIsSeq
<1>6. Rising(t)
  <2> SUFFICES ASSUME NEW q \in 1..Len(t), NEW r \in 1..Len(t), q < r PROVE t[q].id < t[r].id
    BY DEF Rising
  <2>1. p + q - 1 \in 1..n /\ p + r - 1 \in 1..n /\ p + q - 1 < p + r - 1
    BY <1>2, <1>4
  <2> QED BY <1>2, <1>4, <2>1
<1>7. ASSUME NEW e \in Range(t) PROVE e \in Range(path) /\ e.id >= path[p].id
  <2>1. PICK q \in 1..Len(t) : e = t[q]
    BY <1>5, SeqFacts
  <2>2. PICK r \in 1..n : r = p + q - 1 /\ r >= p
    BY <1>2, <1>4
  <2>3. e = path[r] /\ (p < r => path[p].id < path[r].id) /\ (r = p => path[p].id = path[r].id)
    BY <1>2, <1>4, <2>1, <2>2
  <2> QED BY <1>2, <2>2, <2>3
<1>8. ASSUME NEW e \in Range(path), e.id >= path[p].id PROVE e \in Range(t)
  <2>1. PICK r \in 1..n : e = path[r]
    BY SeqFacts DEF IsPath
  <2>2. ~(path[r].id < path[p].id)
    BY <1>2, <1>8, <2>1
  <2>3. ~(r < p)
    BY <1>2, <2>2
  <2>4. PICK q \in 1..Len(t) : p + q - 1 = r
    <3>1. r - p + 1 \in 1..Len(t) /\ p + (r - p + 1) - 1 = r
      BY <1>2, <1>4, <2>3
    <3> QED BY <3>1
  <2>5. e = t[q]
    BY <1>4, <2>1, <2>4
  <2> QED BY <1>5, <2>5, SeqFacts
<1>9. Range(t) = {e \in Range(path) : e.id >= path[p].id}
  BY <1>7, <1>8
<1> QED BY <1>1, <1>4, <1>6, <1>9

LEMMA WithoutSilent ==
  ASSUME NEW e, NEW types, e.type \in types
  PROVE  Without(<<e>>, types) = <<>>
<1>1. PICK h : h = <<e>>
  OBVIOUS
<1>2. IsSeq(h) /\ Range(h) = {e}
  BY <1>1, SingleIsSeq
<1>3. PICK w : w = Without(h, types)
  OBVIOUS
<1>4. IsSeq(w) /\ Range(w) = {}
  BY <1>2, <1>3, WithoutOfSeq
<1>5. Len(w) = 0
  <2>1. Len(w) \in Nat /\ \A i \in 1..Len(w) : w[i] \in Range(w)
    BY <1>4, SeqFacts
  <2>2. Len(w) # 0 => 1 \in 1..Len(w)
    BY <2>1
  <2> QED BY <1>4, <2>1, <2>2
<1> QED BY <1>1, <1>3, <1>4, <1>5, SeqFacts

ContextOf(path) ==
  LET compactions == {p \in DOMAIN path : path[p].type = "compaction"}
      messages(from, to) == Without(SubSeq(path, from, to), Silent)
  IN IF compactions = {} THEN messages(1, Len(path))
     ELSE LET c == Max(compactions)
              kept == KeptFrom(path, c)
          IN <<path[c]>> \o (IF kept = {} THEN <<>> ELSE messages(Min(kept), c - 1))
               \o messages(c + 1, Len(path))

LEMMA ContextOfBranch == \A index, id : Context(index, id) = ContextOf(Branch(index, id))
BY DEF Context, ContextOf

\* The summary, what is said before it and what is said after it: the summary itself is silent.
LEMMA SpokenTogether ==
  ASSUME NEW S, NEW a \in Seq(S), NEW h \in Seq(S), NEW b \in Seq(S)
  PROVE  Without(h, Silent) = <<>>
         => (h \o Without(a, Silent)) \o Without(b, Silent) = h \o Without(a \o (h \o b), Silent)
<1>1. PICK u \in Seq(S), v \in Seq(S) : u = Without(a, Silent) /\ v = Without(b, Silent)
  BY WithoutIsSeq
<1>2. PICK hb \in Seq(S) : hb = h \o b
  <2>1. h \o b \in Seq(S)
    BY ConcatProperties
  <2> QED BY <2>1, Zenon
<1>3. (h \o u) \o v = h \o (u \o v)
  BY ConcatAssociative
<1>4. ASSUME Without(h, Silent) = <<>> PROVE Without(hb, Silent) = v
  <2>1. Without(h \o b, Silent) = Without(h, Silent) \o Without(b, Silent)
    BY WithoutConcat
  <2>2. <<>> \o v = v
    BY ConcatEmptySeq
  <2> QED BY <1>1, <1>2, <1>4, <2>1, <2>2, Zenon
<1>5. Without(a \o hb, Silent) = Without(a, Silent) \o Without(hb, Silent)
  BY WithoutConcat
<1> QED BY <1>1, <1>2, <1>3, <1>4, <1>5, Zenon

\* A summary h, with a before it and b behind it, is all that is left out of the three together.
SaysAsMuch(a, h, b) ==
  (h \o Without(a, Silent)) \o Without(b, Silent) = h \o Without(a \o (h \o b), Silent)

LEMMA SpokenPieces ==
  ASSUME NEW S, NEW a \in Seq(S), NEW h \in Seq(S), NEW b \in Seq(S), Without(h, Silent) = <<>>
  PROVE  SaysAsMuch(a, h, b)
BY SpokenTogether DEF SaysAsMuch

\* A path cut at its summary: the parts before and behind it say what the path from p on says.
LEMMA CompactedPieces ==
  ASSUME NEW path, IsSeq(path), NEW c \in 1..Len(path), NEW p \in 1..(c - 1),
         path[c].type = "compaction"
  PROVE  (<<path[c]>> \o Without(SubSeq(path, p, c - 1), Silent))
           \o Without(SubSeq(path, c + 1, Len(path)), Silent)
         = <<path[c]>> \o Without(SubSeq(path, p, Len(path)), Silent)
<1> DEFINE n == Len(path)
           S == Range(path)
<1>1. n \in Nat /\ path \in Seq(S) /\ \A q \in 1..n : path[q] \in S
  BY SeqFacts DEF IsSeq
<1>2. PICK a : a = SubSeq(path, p, c - 1)
  OBVIOUS
<1>3. PICK b : b = SubSeq(path, c + 1, n)
  OBVIOUS
<1>4. PICK h : h = <<path[c]>>
  OBVIOUS
<1>5. a \in Seq(S) /\ b \in Seq(S) /\ h \in Seq(S)
  <2>1. a \in Seq(S)
    <3>1. \A q \in p..(c - 1) : path[q] \in S
      BY <1>1
    <3> QED BY <1>1, <1>2, <3>1, SubSeqProperties
  <2>2. b \in Seq(S)
    <3>1. \A q \in (c + 1)..n : path[q] \in S
      BY <1>1
    <3> QED BY <1>1, <1>3, <3>1, SubSeqProperties
  <2>3. path[c] \in S
    BY <1>1
  <2> QED BY <1>4, <2>1, <2>2, <2>3
<1>8. SubSeq(path, p, n) = a \o (h \o b)
  <2>1. SubSeq(path, c, n) = h \o b
    <3>1. c \in 1..n /\ n \in c..n
      BY <1>1
    <3>2. SubSeq(path, c, n) = <<path[c]>> \o SubSeq(path, c + 1, n)
      BY <1>1, <3>1, SubSeqRecursiveFirst
    <3> QED BY <1>3, <1>4, <3>2, Zenon
  <2>2. SubSeq(path, p, c - 1) \o SubSeq(path, (c - 1) + 1, n) = SubSeq(path, p, n)
    <3>1. p \in 1..(n + 1) /\ c - 1 \in (p - 1)..n /\ n \in (c - 1)..n
      BY <1>1
    <3> QED BY <1>1, <3>1, ConcatAdjacentSubSeq
  <2>3. (c - 1) + 1 = c
    BY <1>1
  <2> QED BY <1>2, <2>1, <2>2, <2>3
<1>9. SaysAsMuch(a, h, b)
  <2>1. Without(h, Silent) = <<>>
    <3>1. path[c].type \in Silent
      BY DEF Silent
    <3> QED BY <1>4, <3>1, WithoutSilent
  <2> HIDE DEF S, n
  <2> QED BY <1>5, <2>1, SpokenPieces
<1> QED BY <1>2, <1>3, <1>4, <1>8, <1>9, Zenon DEF SaysAsMuch

\* A compacted path: the summary, and what is no summary from the first kept entry on.
LEMMA CompactedContext ==
  ASSUME NEW path, IsSeq(path), NEW c \in 1..Len(path), NEW p \in 1..(c - 1),
         {q \in DOMAIN path : path[q].type = "compaction"} # {},
         c = Max({q \in DOMAIN path : path[q].type = "compaction"}),
         path[c].type = "compaction", KeptFrom(path, c) = {p}
  PROVE  ContextOf(path) = <<path[c]>> \o Without(SubSeq(path, p, Len(path)), Silent)
<1>1. Min({p}) = p
  BY MinIs
<1>2. ContextOf(path) = (<<path[c]>> \o Without(SubSeq(path, p, c - 1), Silent))
                          \o Without(SubSeq(path, c + 1, Len(path)), Silent)
  BY <1>1, Zenon DEF ContextOf
<1>3. (<<path[c]>> \o Without(SubSeq(path, p, c - 1), Silent))
        \o Without(SubSeq(path, c + 1, Len(path)), Silent)
      = <<path[c]>> \o Without(SubSeq(path, p, Len(path)), Silent)
  BY CompactedPieces
<1> QED BY <1>2, <1>3, Zenon

\* One that keeps nothing: the summary, and what is no summary behind it.
LEMMA BareContext ==
  ASSUME NEW path, IsSeq(path), NEW c \in 1..Len(path),
         {q \in DOMAIN path : path[q].type = "compaction"} # {},
         c = Max({q \in DOMAIN path : path[q].type = "compaction"}),
         path[c].type = "compaction", KeptFrom(path, c) = {}
  PROVE  ContextOf(path) = <<path[c]>> \o Without(SubSeq(path, c, Len(path)), Silent)
<1> DEFINE n == Len(path)
           S == Range(path)
<1>1. n \in Nat /\ path \in Seq(S) /\ \A q \in 1..n : path[q] \in S
  BY SeqFacts DEF IsSeq
<1>2. PICK b : b = SubSeq(path, c + 1, n)
  OBVIOUS
<1>3. PICK h : h = <<path[c]>>
  OBVIOUS
<1>4. b \in Seq(S) /\ h \in Seq(S)
  <2>1. \A q \in (c + 1)..n : path[q] \in S
    BY <1>1
  <2>2. b \in Seq(S)
    BY <1>1, <1>2, <2>1, SubSeqProperties
  <2>3. path[c] \in S
    BY <1>1
  <2> QED BY <1>3, <2>2, <2>3
<1>5. ContextOf(path) = (h \o <<>>) \o Without(b, Silent)
  BY <1>2, <1>3, Zenon DEF ContextOf
<1>6. h \o <<>> = h
  BY <1>4, ConcatEmptySeq
<1>7. SubSeq(path, c, n) = h \o b
  <2>1. c \in 1..n /\ n \in c..n
    BY <1>1
  <2>2. SubSeq(path, c, n) = <<path[c]>> \o SubSeq(path, c + 1, n)
    BY <1>1, <2>1, SubSeqRecursiveFirst
  <2> QED BY <1>2, <1>3, <2>2, Zenon
<1>8. Without(h \o b, Silent) = Without(b, Silent)
  <2>1. path[c].type \in Silent
    BY DEF Silent
  <2>2. Without(h, Silent) = <<>>
    BY <1>3, <2>1, WithoutSilent
  <2>3. PICK v \in Seq(S) : v = Without(b, Silent)
    BY <1>4, WithoutIsSeq
  <2>4. Without(h \o b, Silent) = Without(h, Silent) \o Without(b, Silent)
    BY <1>4, WithoutConcat
  <2>5. <<>> \o v = v
    BY ConcatEmptySeq
  <2> QED BY <2>2, <2>3, <2>4, <2>5, Zenon
<1> QED BY <1>3, <1>5, <1>6, <1>7, <1>8, Zenon

-----------------------------------------------------------------------------
(* Contexts and histories.                                                 *)

Compactions(L, past) == {k \in past : L[k].type = "compaction"}
Messages(L, past, from) == {k \in past : k >= from /\ L[k].type \in {"user", "assistant", "branch_summary"}}

\* ContextIsHistory, for one entry.
IsHistory(context, L, past) ==
  LET summary == context # <<>> /\ Head(context).type = "compaction"
      compactions == Compactions(L, past)
      c == Max(compactions)
      from == IF compactions = {} THEN 1
              ELSE IF L[c].ref \in past /\ L[c].ref < c THEN L[c].ref ELSE c
  IN /\ {e.id : e \in Range(context)} =
          Messages(L, past, from) \cup (IF compactions = {} THEN {} ELSE {c})
     /\ \A i, j \in DOMAIN context : i < j /\ (i > 1 \/ ~summary) => context[i].id < context[j].id

\* The messages of a part of a path.
LEMMA SpokenIds ==
  ASSUME NEW L, LogOK(L), NEW path, NEW i, IsPath(L, path, i), NEW from \in Nat,
         NEW t \in Seq(Range(path)), Range(t) = {e \in Range(path) : e.id >= from}
  PROVE  IdsIn(Without(t, Silent)) = Messages(L, PastIn(L, i), from)
<1>1. Range(Without(t, Silent)) = {e \in Range(t) : e.type \notin Silent}
  BY WithoutRange
<1>2. ASSUME NEW e \in Range(path)
      PROVE  /\ e.id \in PastIn(L, i) /\ e.id \in DOMAIN L /\ L[e.id] = e
             /\ (e.type \notin Silent <=> e.type \in {"user", "assistant", "branch_summary"})
  <2>1. Created(L, e)
    BY DEF IsPath
  <2>2. e.id \in DOMAIN L /\ e = L[e.id] /\ e.type \in EntryTypes
    BY <2>1, CreatedFacts
  <2>3. e.id \in PastIn(L, i)
    BY DEF IsPath, IdsIn
  <2>4. e.type \notin Silent <=> e.type \in {"user", "assistant", "branch_summary"}
    BY <2>2 DEF EntryTypes, Silent
  <2> QED BY <2>2, <2>3, <2>4
<1>3. ASSUME NEW k \in PastIn(L, i) PROVE \E e \in Range(path) : e.id = k
  BY DEF IsPath, IdsIn
<1>4. ASSUME NEW k \in IdsIn(Without(t, Silent)) PROVE k \in Messages(L, PastIn(L, i), from)
  <2>1. PICK e \in Range(path) : e.id = k /\ e.id >= from /\ e.type \notin Silent
    BY <1>1 DEF IdsIn
  <2> QED BY <1>2, <2>1 DEF Messages
<1>5. ASSUME NEW k \in Messages(L, PastIn(L, i), from) PROVE k \in IdsIn(Without(t, Silent))
  <2>1. PICK e \in Range(path) : e.id = k
    BY <1>3 DEF Messages
  <2>2. e.id >= from /\ e.type \notin Silent
    BY <1>2, <2>1 DEF Messages
  <2> QED BY <1>1, <2>1, <2>2 DEF IdsIn
<1> QED BY <1>4, <1>5

LEMMA PlainHistory ==
  ASSUME NEW L, LogOK(L), NEW i, NEW path, IsPath(L, path, i),
         {q \in DOMAIN path : path[q].type = "compaction"} = {}
  PROVE  IsHistory(ContextOf(path), L, PastIn(L, i))
<1> DEFINE P == PastIn(L, i)
<1>1. IsSeq(path) /\ path \in Seq(Range(path)) /\ Rising(path)
  BY DEF IsPath, IsSeq
<1>2. PICK w : w = Without(path, Silent)
  OBVIOUS
<1>3. ContextOf(path) = w
  <2>1. SubSeq(path, 1, Len(path)) = path
    BY <1>1, SubSeqFull
  <2> QED BY <1>2, <2>1 DEF ContextOf
<1>4. w \in Seq(Range(path)) /\ Rising(w)
  BY <1>1, <1>2, WithoutIsSeq, RisingWithout
<1>5. Compactions(L, P) = {}
  <2> SUFFICES ASSUME NEW k \in P, L[k].type = "compaction" PROVE FALSE
    BY DEF Compactions
  <2>1. PICK e \in Range(path) : e.id = k
    BY DEF IsPath, IdsIn
  <2>2. e = L[k]
    BY <2>1 DEF IsPath, Created
  <2>3. PICK q \in DOMAIN path : e = path[q]
    BY DEF Range
  <2> QED BY <2>2, <2>3
<1>6. IdsIn(w) = Messages(L, P, 1)
  <2>1. \A e \in Range(path) : e.id >= 1
    <3>1. ASSUME NEW e \in Range(path) PROVE e.id \in 1..MaxEntries
      <4>1. e.id \in DOMAIN L
        BY DEF IsPath, Created
      <4> QED BY <4>1, LogIsIndex
    <3> QED BY <3>1, BoundsAssumption
  <2>2. Range(path) = {e \in Range(path) : e.id >= 1}
    BY <2>1
  <2> QED BY <1>1, <1>2, <2>2, SpokenIds
<1>7. DOMAIN w = 1..Len(w)
  BY <1>4, LenProperties
<1>8. \A p, q \in DOMAIN w : p < q => w[p].id < w[q].id
  BY <1>4, <1>7 DEF Rising
<1>9. IsHistory(w, L, P)
  <2>1. {e.id : e \in Range(w)} = Messages(L, P, 1)
    BY <1>6 DEF IdsIn
  <2> HIDE DEF P
  <2> QED BY <1>5, <1>8, <2>1 DEF IsHistory
<1> QED BY <1>3, <1>9

LEMMA CompactedHistory ==
  ASSUME NEW L, LogOK(L), NEW i \in DOMAIN L \cup {0}, NEW path, IsPath(L, path, i),
         {q \in DOMAIN path : path[q].type = "compaction"} # {}
  PROVE  IsHistory(ContextOf(path), L, PastIn(L, i))
<1> DEFINE P == PastIn(L, i)
           Places == {q \in DOMAIN path : path[q].type = "compaction"}
           n == Len(path)
<1>1. /\ n \in Nat /\ DOMAIN path = 1..n
      /\ \A p \in 1..n : path[p].id \in Nat /\ path[p] \in Range(path) /\ Created(L, path[p])
      /\ \A p, q \in 1..n : p < q <=> path[p].id < path[q].id
      /\ \A p, q \in 1..n : path[p].id = path[q].id => p = q
  BY RisingIds
<1>2. PICK c \in Places : \A q \in Places : c >= q
  <2>1. Places \in SUBSET (1..n)
    BY <1>1
  <2> QED BY <1>1, <2>1, Greatest
<1>3. c \in 1..n /\ path[c].type = "compaction"
  BY <1>1, <1>2
<1>4. Max(Places) = c
  <2>1. Places \in SUBSET Nat
    BY <1>1
  <2> HIDE DEF Places
  <2> QED BY <1>2, <2>1, MaxIs
<1>5. PICK k \in DOMAIN L : k = path[c].id /\ path[c] = L[k] /\ k \in Nat
  BY <1>1, <1>3 DEF Created
<1>6. \A e \in Range(path) : e.id \in P /\ L[e.id] = e
  BY DEF IsPath, IdsIn, Created
<1>7. k \in P /\ P \subseteq Nat
  <2>1. k \in P
    BY <1>1, <1>3, <1>5, <1>6
  <2>2. P \subseteq Nat
    <3>1. P \subseteq 1..i
      BY PastIsOlder
    <3> QED BY <3>1
  <2> QED BY <2>1, <2>2
<1>8. ASSUME NEW x \in P PROVE \E q \in 1..n : path[q].id = x /\ path[q] = L[x]
  <2>1. PICK e \in Range(path) : e.id = x
    BY DEF IsPath, IdsIn
  <2>2. PICK q \in DOMAIN path : e = path[q]
    BY DEF Range
  <2> QED BY <1>1, <1>6, <2>1, <2>2
<1> HIDE DEF P
<1>9. Max(Compactions(L, P)) = k /\ Compactions(L, P) # {}
  <2>1. k \in Compactions(L, P)
    BY <1>3, <1>5, <1>7 DEF Compactions
  <2>2. ASSUME NEW x \in Compactions(L, P) PROVE k >= x
    <3>1. x \in P /\ L[x].type = "compaction" /\ x \in Nat
      BY <1>7 DEF Compactions
    <3>2. PICK q \in 1..n : path[q].id = x /\ path[q] = L[x]
      BY <1>8, <3>1
    <3>3. c >= q
      BY <1>1, <1>2, <3>1, <3>2
    <3>4. ~(c < q)
      BY <1>1, <1>3, <3>3
    <3>5. ~(path[c].id < path[q].id)
      BY <1>1, <1>3, <3>4
    <3> QED BY <1>5, <3>1, <3>2, <3>5
  <2>3. Compactions(L, P) \in SUBSET Nat
    BY <1>7 DEF Compactions
  <2> QED BY <2>1, <2>2, <2>3, MaxIs
<1>10. PICK from : from = (IF L[k].ref \in P /\ L[k].ref < k THEN L[k].ref ELSE k)
  OBVIOUS
<1>11. PICK p \in 1..n : path[p].id = from /\ ContextOf(path) = <<path[c]>> \o Without(SubSeq(path, p, n), Silent)
  <2>0. IsSeq(path)
    BY DEF IsPath
  <2>1. CASE L[k].ref \in P /\ L[k].ref < k
    <3>1. PICK p \in 1..n : path[p].id = L[k].ref
      BY <1>8, <2>1
    <3>2. p < c
      <4>1. path[p].id < path[c].id
        BY <1>5, <2>1, <3>1
      <4> QED BY <1>1, <1>3, <4>1
    <3>3. p \in 1..(c - 1)
      BY <1>1, <1>3, <3>2
    <3>4. path[c].ref = path[p].id
      BY <1>5, <3>1
    <3>5. ASSUME NEW q \in 1..(c - 1), path[q].id = path[c].ref PROVE q = p
      <4>1. q \in 1..n
        BY <1>1, <1>3
      <4> QED BY <1>1, <3>4, <3>5, <4>1
    <3>6. KeptFrom(path, c) = {p}
      BY <3>3, <3>4, <3>5 DEF KeptFrom
    <3>7. ContextOf(path) = <<path[c]>> \o Without(SubSeq(path, p, n), Silent)
      BY <1>3, <1>4, <2>0, <3>3, <3>6, CompactedContext
    <3> QED BY <1>10, <2>1, <3>1, <3>7
  <2>2. CASE ~(L[k].ref \in P /\ L[k].ref < k)
    <3>1. ASSUME NEW q \in 1..(c - 1), path[q].id = path[c].ref PROVE FALSE
      <4>1. q \in 1..n /\ q < c
        BY <1>1, <1>3
      <4>2. path[q].id < path[c].id /\ path[q].id \in P
        BY <1>1, <1>3, <1>6, <4>1
      <4> QED BY <1>5, <2>2, <3>1, <4>2
    <3>2. KeptFrom(path, c) = {}
      BY <3>1 DEF KeptFrom
    <3>3. ContextOf(path) = <<path[c]>> \o Without(SubSeq(path, c, n), Silent)
      BY <1>3, <1>4, <2>0, <3>2, BareContext
    <3> QED BY <1>3, <1>5, <1>10, <2>2, <3>3
  <2> QED BY <2>1, <2>2
<1>12. from \in Nat
  BY <1>1, <1>11
<1>13. PICK t : t = SubSeq(path, p, n)
  OBVIOUS
<1>14. t \in Seq(Range(path)) /\ Rising(t) /\ Range(t) = {e \in Range(path) : e.id >= from}
  BY <1>11, <1>13, EndOfPath
<1>15. PICK w : w = Without(t, Silent)
  OBVIOUS
<1>16. w \in Seq(Range(path)) /\ Rising(w)
  BY <1>14, <1>15, WithoutIsSeq, RisingWithout
<1>17. IdsIn(w) = Messages(L, P, from)
  BY <1>12, <1>14, <1>15, SpokenIds DEF P
<1>18. PICK h : h = <<path[c]>>
  OBVIOUS
<1>19. ContextOf(path) = h \o w
  BY <1>11, <1>13, <1>15, <1>18, Zenon
<1>20. PICK context : context = h \o w
  OBVIOUS
<1>21. IsSeq(h) /\ Range(h) = {path[c]} /\ Len(h) = 1 /\ h[1] = path[c]
  BY <1>18, SingleIsSeq
<1>22. IsSeq(w)
  BY <1>16, SeqIsSeq
<1>23. /\ IsSeq(context) /\ Range(context) = Range(h) \cup Range(w)
       /\ Len(context) = Len(h) + Len(w)
       /\ \A q \in 1..Len(h) : context[q] = h[q]
       /\ \A q \in 1..Len(w) : context[q + Len(h)] = w[q]
  <2>1. /\ IsSeq(h \o w) /\ Range(h \o w) = Range(h) \cup Range(w)
        /\ Len(h \o w) = Len(h) + Len(w)
        /\ \A q \in 1..Len(h) : (h \o w)[q] = h[q]
        /\ \A q \in 1..Len(w) : (h \o w)[q + Len(h)] = w[q]
    <3>1. IsSeq(h) /\ IsSeq(w)
      BY <1>21, <1>22, Zenon
    <3> QED BY <3>1, ConcatIsSeq
  <2> QED BY <1>20, <2>1, Zenon
<1>24. /\ Len(context) = 1 + Len(w) /\ Len(w) \in Nat /\ DOMAIN context = 1..Len(context)
       /\ context[1] = path[c] /\ \A q \in 1..Len(w) : context[q + 1] = w[q]
       /\ context # <<>> /\ Head(context) = path[c]
  <2>1. Len(w) \in Nat /\ DOMAIN context = 1..Len(context)
    BY <1>22, <1>23, SeqFacts
  <2>2. Len(context) = 1 + Len(w) /\ context[1] = path[c] /\ \A q \in 1..Len(w) : context[q + 1] = w[q]
    BY <1>21, <1>23
  <2>3. context # <<>>
    BY <2>1, <2>2, EmptySeq
  <2>4. Head(context) = context[1]
    BY <1>23, <2>3, SeqFacts
  <2> QED BY <2>1, <2>2, <2>3, <2>4
<1>25. {e.id : e \in Range(context)} = Messages(L, P, from) \cup {k}
  <2>1. {e.id : e \in Range(context)} = IdsIn(w) \cup {path[c].id}
    BY <1>21, <1>23 DEF IdsIn
  <2> QED BY <1>5, <1>17, <2>1
<1>26. ASSUME NEW q \in DOMAIN context, NEW r \in DOMAIN context, q < r, q > 1
       PROVE  context[q].id < context[r].id
  <2>1. q - 1 \in 1..Len(w) /\ r - 1 \in 1..Len(w) /\ q - 1 < r - 1
    BY <1>24, <1>26
  <2>2. w[q - 1].id < w[r - 1].id
    BY <1>16, <2>1 DEF Rising
  <2>3. context[q] = w[q - 1] /\ context[r] = w[r - 1]
    <3>1. (q - 1) + 1 = q /\ (r - 1) + 1 = r
      BY <1>24
    <3> QED BY <1>24, <2>1, <3>1
  <2> QED BY <2>2, <2>3
<1>27. IsHistory(context, L, P)
  <2>1. Head(context).type = "compaction"
    BY <1>3, <1>24
  <2> QED BY <1>9, <1>10, <1>24, <1>25, <1>26, <2>1 DEF IsHistory
<1> QED BY <1>19, <1>20, <1>27 DEF P

LEMMA ContextsAreHistories ==
  ASSUME Known, Intact, TreeIntact
  PROVE  ContextIsHistory
<1>1. LogOK(log) /\ IndexOK(byId) /\ DOMAIN byId \subseteq DOMAIN log
  BY IndexIsOK DEF Known, MemoryKnown
<1>2. \A i \in DOMAIN byId : byId[i] = log[i] /\ byId[i].parentId \in DOMAIN byId \cup {0}
  BY MemoryClosed DEF TreeIntact, NoId
<1>3. ASSUME NEW id \in DOMAIN byId PROVE IsHistory(Context(byId, id), log, Past(id))
  <2>1. PICK path : path = Branch(byId, id)
    OBVIOUS
  <2>2. IsPath(log, path, id)
    BY <1>1, <1>2, <2>1, PathIsPast
  <2>3. Context(byId, id) = ContextOf(path)
    BY <2>1, ContextOfBranch
  <2>4. IsHistory(ContextOf(path), log, PastIn(log, id))
    BY <1>1, <2>2, PlainHistory, CompactedHistory
  <2> QED BY <2>3, <2>4, PastIsChosen
<1>4. ASSUME NEW id \in DOMAIN byId
      PROVE  LET context == Context(byId, id)
                 summary == context # <<>> /\ Head(context).type = "compaction"
             IN /\ {e.id : e \in Range(context)} = Expected(id)
                /\ \A i, j \in DOMAIN context :
                     i < j /\ (i > 1 \/ ~summary) => context[i].id < context[j].id
  BY <1>3 DEF IsHistory, Expected, Compactions, Messages
<1> QED BY <1>4 DEF ContextIsHistory

-----------------------------------------------------------------------------
\* If the process may only die between two lines of a write, and labels do not
\* meet forks, the context built for any entry is the one of its conversation:
\* after the summary of the last compaction every message from its first kept
\* entry on, once and in order (session-manager.ts buildSessionContext,
\* getBranch), whatever was branched, forked, reopened or killed in between. A
\* compaction whose first kept entry is not on its path keeps nothing.
THEOREM ContextsAreComplete ==
  ASSUME Faults \subseteq {"kill"}, ~(Forks /\ "label" \in Kinds)
  PROVE  Spec => []ContextIsHistory
<1>1. OnlyKilled /\ NoForkedLabels
  BY DEF OnlyKilled, NoForkedLabels
<1>2. Spec => [](Known /\ Intact /\ TreeIntact)
  BY <1>1, AlwaysKnown, AlwaysIntact, AlwaysTreeIntact, PTL
<1>3. Known /\ Intact /\ TreeIntact => ContextIsHistory
  BY ContextsAreHistories
<1> QED BY <1>2, <1>3, PTL
=============================================================================
