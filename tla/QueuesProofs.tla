------------------------------- MODULE QueuesProofs ------------------------------
(***************************************************************************)
(* What is proved about the components of Queues, each by itself.          *)
(***************************************************************************)
EXTENDS Queues, SequenceTheorems, FiniteSetTheorems, TLAPS

-----------------------------------------------------------------------------
(***************************************************************************)
(* Mutual exclusion by chains of promises: however many calls come to      *)
(* however many keys, at most one of a key runs. The argument is that of a *)
(* ticket lock. A call's ticket is its turn; the invariant Chain says that *)
(* the map holds the last ticket of every key, that a call with an older   *)
(* one of its key still open waits for an open call at least as old, and   *)
(* that a call that runs is the oldest of its key.                         *)
(***************************************************************************)

\* c and d are open calls of one key.
Rivals(c, d) == Open(c) /\ Open(d) /\ calls[c].key = calls[d].key

TurnsDiffer ==
  /\ \A c \in Calls : Open(c) => turn[c] < clock
  /\ \A c, d \in Calls : Open(c) /\ Open(d) /\ turn[c] = turn[d] => c = d
TailIsLast ==
  /\ \A k \in Names : tail[k] # NoCall => Open(tail[k]) /\ calls[tail[k]].key = k
  /\ \A c \in Calls : Open(c) => /\ tail[calls[c].key] # NoCall
                                 /\ turn[c] <= turn[tail[calls[c].key]]
OlderAreBehindPrev ==
  \A c, d \in Calls :
    Rivals(c, d) /\ turn[d] < turn[c] =>
      /\ calls[c].prev # NoCall
      /\ Rivals(c, calls[c].prev)
      /\ turn[d] <= turn[calls[c].prev]
InsideIsOldest ==
  \A c, d \in Calls : Inside(c) /\ Rivals(c, d) => turn[c] <= turn[d]
Chain == TypeOK /\ TurnsDiffer /\ TailIsLast /\ OlderAreBehindPrev /\ InsideIsOldest

-----------------------------------------------------------------------------
LEMMA NewCallType == NewCall \in CallTypes
<1>1. PICK n \in Names : n = CHOOSE m \in Names : TRUE
  BY NamesAssumption
<1>2. <<>> \in Contained
  BY DEF Contained
<1>3. NewCall = [pc |-> "idle", op |-> "edit", name |-> n, key |-> n, prev |-> NoCall, seen |-> <<>>]
  BY <1>1 DEF NewCall
<1> QED
  BY <1>2, <1>3 DEF CallTypes, Places

LEMMA SettledType ==
  ASSUME NEW place \in Places
  PROVE  Settled(place) \in CallTypes /\ Settled(place).pc = place
  BY NewCallType DEF Settled, CallTypes

LEMMA FileType == \A n \in Names : FileOf[n] \in Files /\ FileOf[n] \in Names
  BY NamesAssumption DEF Files

\* A file may be read, and written, by any call.
LEMMA ContentsType ==
  ASSUME TypeOK, NEW c \in Calls
  PROVE  FileAt(c) \in Files /\ Contents(c) \in Contained
<1>1. calls[c] \in CallTypes
  BY DEF TypeOK
<1>2. <<c>> \in Contained /\ Append(calls[c].seen, c) \in Contained
  BY <1>1 DEF Contained, CallTypes
<1> QED
  BY <1>1, <1>2, FileType DEF FileAt, Contents, CallTypes

\* What is left of a write is a content.
LEMMA CutsType ==
  ASSUME NEW s \in Contained, NEW left \in Cuts(s)
  PROVE  left \in Contained
<1>1. PICK k \in 0..Len(s) : left = SubSeq(s, 1, k)
  BY DEF Cuts
<1>2. s \in Seq(Calls) /\ Len(s) \in Nat
  BY DEF Contained
<1>3. left \in Seq(Calls)
  <2>1. \A i \in 1..k : s[i] \in Calls
    BY <1>2
  <2> QED BY <1>1, <1>2, <2>1, SubSeqProperties
<1> QED
  BY <1>3 DEF Contained

LEMMA ReleaseType == ASSUME TypeOK, NEW S, Release(S) PROVE tail' \in [Names -> Calls \cup {NoCall}]
  BY DEF TypeOK, Release
LEMMA InitType == Init => TypeOK
<1> SUFFICES ASSUME Init PROVE TypeOK
  OBVIOUS
<1>1. <<>> \in Contained
  BY DEF Contained
<1>2. calls \in [Calls -> CallTypes]
  BY NewCallType DEF Init
<1> QED
  BY <1>1, <1>2 DEF Init, TypeOK, NoCall

\* What joining a chain changes.
LEMMA JoinEffect ==
  ASSUME TypeOK, NEW c \in Calls, Join(c)
  PROVE  \E k \in Names :
           /\ calls[c].pc = "resolving"
           /\ calls' \in [Calls -> CallTypes]
           /\ calls'[c].pc = "waiting" /\ calls'[c].key = k /\ calls'[c].prev = tail[k]
           /\ \A d \in Calls \ {c} : calls'[d] = calls[d]
           /\ tail' = [tail EXCEPT ![k] = c]
           /\ turn' = [turn EXCEPT ![c] = clock] /\ clock' = clock + 1
           /\ UNCHANGED <<disk, flying>>
<1>1. PICK k \in {calls[c].key, KeyOf(calls[c].name)} :
        /\ calls[c].pc = "resolving"
        /\ calls' = [calls EXCEPT ![c].pc = "waiting", ![c].key = k, ![c].prev = tail[k]]
        /\ tail' = [tail EXCEPT ![k] = c]
        /\ turn' = [turn EXCEPT ![c] = clock] /\ clock' = clock + 1
        /\ UNCHANGED <<disk, flying>>
  BY DEF Join
<1>2. calls[c] \in CallTypes
  BY DEF TypeOK
<1>3. k \in Names
  BY <1>2, FileType DEF KeyOf, CallTypes
<1>4. calls' \in [Calls -> CallTypes]
  BY <1>1, <1>2, <1>3 DEF TypeOK, CallTypes, Places
<1>5. calls'[c].pc = "waiting" /\ calls'[c].key = k /\ calls'[c].prev = tail[k]
  BY <1>1, <1>2 DEF TypeOK, CallTypes
<1>6. \A d \in Calls \ {c} : calls'[d] = calls[d]
  BY <1>1 DEF TypeOK
<1> QED
  BY <1>1, <1>3, <1>4, <1>5, <1>6

LEMMA StepType == ASSUME TypeOK, [Next]_vars PROVE TypeOK'
<1>1. ASSUME NEW c \in Calls, Start(c) PROVE TypeOK'
  <2>1. PICK op \in {"edit", "write"}, n \in Names :
          calls' = [calls EXCEPT ![c] = [NewCall EXCEPT !.pc = "resolving", !.op = op, !.name = n, !.key = KeyOf(n)]]
    BY <1>1 DEF Start
  <2>2. KeyOf(n) \in Names
    BY FileType DEF KeyOf
  <2>3. [NewCall EXCEPT !.pc = "resolving", !.op = op, !.name = n, !.key = KeyOf(n)] \in CallTypes
    BY <2>2, NewCallType DEF CallTypes, Places
  <2> QED
    BY <1>1, <2>1, <2>3 DEF Start, TypeOK
<1>2. ASSUME NEW c \in Calls, Join(c) PROVE TypeOK'
  BY <1>2, JoinEffect DEF TypeOK
<1>3. ASSUME NEW c \in Calls, Enter(c) PROVE TypeOK'
  <2>1. calls' \in [Calls -> CallTypes]
    BY <1>3 DEF Enter, TypeOK, CallTypes, Places
  <2> QED
    BY <1>3, <2>1 DEF Enter, TypeOK
<1>4. ASSUME NEW c \in Calls, Read(c) PROVE TypeOK'
  <2>1. calls[c] \in CallTypes
    BY DEF TypeOK
  <2>2. FileAt(c) \in Files
    BY ContentsType
  <2>3. (IF disk[FileAt(c)] = Absent THEN <<>> ELSE disk[FileAt(c)]) \in Contained
    BY <2>2 DEF TypeOK, Contained
  <2>4. calls' \in [Calls -> CallTypes]
    BY <1>4, <2>1, <2>3 DEF Read, TypeOK, CallTypes, Places
  <2> QED
    BY <1>4, <2>4 DEF Read, TypeOK
<1>5. ASSUME NEW c \in Calls, Fail(c) PROVE TypeOK'
  <2>1. calls' \in [Calls -> CallTypes]
    BY <1>5, SettledType DEF Fail, TypeOK, Places
  <2> QED
    BY <1>5, <2>1, ReleaseType DEF Fail, TypeOK
<1>6. ASSUME NEW c \in Calls, Write(c) PROVE TypeOK'
  <2>1. calls' \in [Calls -> CallTypes]
    BY <1>6, SettledType DEF Write, TypeOK, Places
  <2>2. disk' \in [Files -> Contained \cup {Absent}]
    BY <1>6, ContentsType DEF Write, TypeOK
  <2> QED
    BY <1>6, <2>1, <2>2, ReleaseType DEF Write, TypeOK
<1>10. ASSUME NEW c \in Calls, WriteFails(c) PROVE TypeOK'
  <2>1. PICK left \in Cuts(Contents(c)) :
          /\ disk' = [disk EXCEPT ![FileAt(c)] = left]
          /\ calls' = [calls EXCEPT ![c] = Settled("failed")]
          /\ Release({c})
          /\ UNCHANGED <<flying, turn, clock>>
    BY <1>10 DEF WriteFails
  <2>2. left \in Contained /\ FileAt(c) \in Files
    BY ContentsType, CutsType
  <2>3. calls' \in [Calls -> CallTypes]
    BY <2>1, SettledType DEF TypeOK, Places
  <2>4. disk' \in [Files -> Contained \cup {Absent}]
    BY <2>1, <2>2 DEF TypeOK
  <2> QED
    BY <2>1, <2>3, <2>4, ReleaseType DEF TypeOK
<1>7. ASSUME Abort PROVE TypeOK'
  <2>1. calls' \in [Calls -> CallTypes]
    BY <1>7, SettledType DEF Abort, TypeOK, Places
  <2>2. tail' \in [Names -> Calls \cup {NoCall}]
    BY <1>7, ReleaseType DEF Abort
  <2>3. flying' \subseteq [file : Files, content : Contained]
    BY <1>7, ContentsType DEF Abort, TypeOK
  <2> QED
    BY <1>7, <2>1, <2>2, <2>3 DEF Abort, TypeOK
<1>8. ASSUME Land PROVE TypeOK'
  <2>1. PICK w \in flying :
          /\ flying' = flying \ {w}
          /\ \/ \E left \in Cuts(w.content) : disk' = [disk EXCEPT ![w.file] = left]
             \/ UNCHANGED disk
          /\ UNCHANGED <<calls, tail, turn, clock>>
    BY <1>8 DEF Land
  <2>2. w.file \in Files /\ w.content \in Contained
    BY DEF TypeOK
  <2>3. disk' \in [Files -> Contained \cup {Absent}]
    BY <2>1, <2>2, CutsType DEF TypeOK
  <2> QED
    BY <2>1, <2>3 DEF TypeOK
<1>9. ASSUME UNCHANGED vars PROVE TypeOK'
  BY <1>9 DEF vars, TypeOK
<1> QED
  BY <1>1, <1>2, <1>3, <1>4, <1>5, <1>6, <1>7, <1>8, <1>9, <1>10 DEF Next, Step

\* Every value the queue works with has its type, for any number of calls and any names.
THEOREM QueueTypeOK == Spec => []TypeOK
<1>1. TypeOK /\ [Next]_vars => TypeOK'
  BY StepType
<1> QED
  BY InitType, <1>1, PTL DEF Spec
-----------------------------------------------------------------------------
(* The chain.                                                              *)

LEMMA InitChain == Init => Chain
<1> SUFFICES ASSUME Init PROVE Chain
  OBVIOUS
<1>1. TypeOK
  BY InitType
<1>2. \A c \in Calls : ~Open(c)
  BY DEF Init, NewCall, Open
<1>3. TurnsDiffer /\ OlderAreBehindPrev /\ InsideIsOldest
  BY <1>2 DEF TurnsDiffer, OlderAreBehindPrev, InsideIsOldest, Rivals
<1>4. TailIsLast
  BY <1>2 DEF Init, TailIsLast
<1> QED
  BY <1>1, <1>3, <1>4 DEF Chain

\* A step that opens and closes nothing.
LEMMA NobodyLeaves ==
  ASSUME Chain, TypeOK', UNCHANGED <<tail, turn, clock>>,
         \A d \in Calls : Open(d)' <=> Open(d),
         \A d \in Calls : Open(d) => calls'[d].key = calls[d].key /\ calls'[d].prev = calls[d].prev,
         \A d \in Calls : Inside(d)' => Inside(d) \/ \A e \in Calls : Rivals(d, e) => turn[d] <= turn[e]
  PROVE  Chain'
<1>1. \A d, e \in Calls : Rivals(d, e)' <=> Rivals(d, e)
  BY DEF Rivals
<1>2. TurnsDiffer'
  BY DEF Chain, TurnsDiffer
<1>3. TailIsLast'
  BY DEF Chain, TailIsLast, TypeOK, NoCall
<1>4. OlderAreBehindPrev'
  <2>1. ASSUME NEW c \in Calls, NEW d \in Calls, Rivals(c, d), turn[d] < turn[c]
        PROVE  /\ calls'[c].prev = calls[c].prev /\ calls[c].prev \in Calls
               /\ Rivals(c, calls[c].prev)' /\ turn[d] <= turn[calls[c].prev]
               /\ calls[c].prev # NoCall
    <3>1. calls[c].prev # NoCall /\ Rivals(c, calls[c].prev) /\ turn[d] <= turn[calls[c].prev]
      BY <2>1 DEF Chain, OlderAreBehindPrev
    <3>2. calls[c].prev \in Calls /\ calls'[c].prev = calls[c].prev
      BY <2>1, <3>1 DEF Chain, TypeOK, CallTypes, Rivals
    <3>3. PICK e \in Calls : e = calls[c].prev
      BY <3>2
    <3>4. Rivals(c, e)'
      BY <1>1, <3>1, <3>3
    <3> QED
      BY <3>1, <3>2, <3>3, <3>4
  <2> QED
    BY <1>1, <2>1 DEF OlderAreBehindPrev
<1>5. InsideIsOldest'
  BY <1>1 DEF Chain, InsideIsOldest
<1> QED
  BY <1>2, <1>3, <1>4, <1>5 DEF Chain

LEMMA JoinKeepsChain == ASSUME Chain, TypeOK', NEW c \in Calls, Join(c) PROVE Chain'
<1>1. PICK k \in Names :
        /\ calls[c].pc = "resolving"
        /\ calls'[c].pc = "waiting" /\ calls'[c].key = k /\ calls'[c].prev = tail[k]
        /\ \A d \in Calls \ {c} : calls'[d] = calls[d]
        /\ tail' = [tail EXCEPT ![k] = c]
        /\ turn' = [turn EXCEPT ![c] = clock] /\ clock' = clock + 1
  BY JoinEffect DEF Chain
<1>2. ~Open(c) /\ Open(c)' /\ ~Inside(c)' /\ tail'[k] = c /\ turn'[c] = clock
  BY <1>1 DEF Open, Inside, Chain, TypeOK
<1>3. \A d \in Calls \ {c} : /\ Open(d)' <=> Open(d)
                             /\ Inside(d)' <=> Inside(d)
                             /\ calls'[d] = calls[d] /\ turn'[d] = turn[d]
  BY <1>1 DEF Open, Inside, Chain, TypeOK
<1>4. \A d \in Calls : Open(d) => turn[d] < clock /\ turn[d] \in Nat /\ clock \in Nat
  BY DEF Chain, TurnsDiffer, TypeOK
<1>5. TurnsDiffer'
  BY <1>1, <1>2, <1>3, <1>4 DEF Chain, TurnsDiffer, TypeOK
<1>6. \A d \in Calls : calls[d].key \in Names
  BY DEF Chain, TypeOK, CallTypes
<1>7. TailIsLast'
  <2>1. \A l \in Names : l # k => tail'[l] = tail[l]
    BY <1>1 DEF Chain, TypeOK
  <2>2. \A l \in Names : tail[l] # NoCall => tail[l] \in Calls \ {c} /\ Open(tail[l]) /\ calls[tail[l]].key = l
    BY <1>2 DEF Chain, TailIsLast, TypeOK
  <2>3. \A l \in Names : tail'[l] # NoCall => Open(tail[l])' /\ calls'[tail'[l]].key = l
    BY <1>1, <1>2, <1>3, <2>1, <2>2 DEF Open
  <2>4. ASSUME NEW d \in Calls, Open(d)'
        PROVE  tail'[calls'[d].key] # NoCall /\ turn'[d] <= turn'[tail'[calls'[d].key]]
    <3>1. c # NoCall /\ clock \in Nat
      BY DEF Calls, NoCall, Chain, TypeOK
    <3>2. CASE d = c
      BY <1>1, <1>2, <3>1, <3>2
    <3>3. CASE d # c
      <4>1. Open(d) /\ calls'[d] = calls[d] /\ turn'[d] = turn[d]
        BY <1>3, <2>4, <3>3
      <4>2. CASE calls[d].key = k
        BY <1>2, <1>4, <3>1, <4>1, <4>2
      <4>3. CASE calls[d].key # k
        <5>1. PICK l \in Names : l = calls[d].key
          BY <1>6
        <5>2. tail'[l] = tail[l] /\ tail[l] # NoCall /\ turn[d] <= turn[tail[l]]
          BY <2>1, <4>1, <4>3, <5>1 DEF Chain, TailIsLast
        <5>3. turn'[tail[l]] = turn[tail[l]]
          BY <1>3, <2>2, <5>2
        <5> QED
          BY <4>1, <5>1, <5>2, <5>3
      <4> QED
        BY <4>2, <4>3
    <3> QED
      BY <3>2, <3>3
  <2> QED
    BY <2>3, <2>4 DEF TailIsLast
<1>8. OlderAreBehindPrev'
  <2> SUFFICES ASSUME NEW e \in Calls, NEW d \in Calls, Rivals(e, d)', turn'[d] < turn'[e]
               PROVE  /\ calls'[e].prev # NoCall
                      /\ Rivals(e, calls[e].prev)'
                      /\ turn'[d] <= turn'[calls'[e].prev]
    BY DEF OlderAreBehindPrev
  <2>1. d # c
    <3>1. CASE e = c
      BY <1>2, <1>4, <3>1 DEF Chain, TypeOK
    <3>2. CASE e # c
      <4>1. Open(e) /\ turn'[e] = turn[e]
        BY <1>3, <3>2 DEF Rivals
      <4> QED
        BY <1>2, <1>4, <4>1
    <3> QED
      BY <3>1, <3>2
  <2>2. Open(d) /\ calls'[d] = calls[d] /\ turn'[d] = turn[d] /\ calls'[e].key = calls[d].key
    BY <1>3, <2>1 DEF Rivals
  <2>3. CASE e = c
    <3>1. calls[d].key = k
      BY <1>1, <2>2, <2>3
    <3>2. tail[k] # NoCall /\ turn[d] <= turn[tail[k]] /\ Open(tail[k]) /\ calls[tail[k]].key = k
      BY <2>2, <3>1 DEF Chain, TailIsLast
    <3>3. PICK t \in Calls : t = tail[k]
      BY <3>2 DEF Chain, TypeOK
    <3>4. t # c
      BY <1>2, <3>2, <3>3
    <3>5. Open(t)' /\ calls'[t].key = k /\ turn'[t] = turn[t]
      BY <1>3, <3>2, <3>3, <3>4
    <3> QED
      BY <1>1, <1>2, <2>2, <2>3, <3>2, <3>3, <3>5 DEF Rivals
  <2>4. CASE e # c
    <3>1. Open(e) /\ calls'[e] = calls[e] /\ turn'[e] = turn[e]
      BY <1>3, <2>4 DEF Rivals
    <3>2. calls[e].prev # NoCall /\ Rivals(e, calls[e].prev) /\ turn[d] <= turn[calls[e].prev]
      BY <2>2, <3>1 DEF Chain, OlderAreBehindPrev, Rivals
    <3>3. PICK t \in Calls : t = calls[e].prev
      BY <3>2 DEF Chain, TypeOK, CallTypes
    <3>4. t # c
      BY <1>2, <3>2, <3>3 DEF Rivals
    <3>5. Open(t)' /\ calls'[t] = calls[t] /\ turn'[t] = turn[t]
      BY <1>3, <3>2, <3>3, <3>4 DEF Rivals
    <3> QED
      BY <1>3, <2>2, <2>4, <3>1, <3>2, <3>3, <3>5 DEF Rivals
  <2> QED
    BY <2>3, <2>4
<1>9. InsideIsOldest'
  <2> SUFFICES ASSUME NEW d \in Calls, NEW e \in Calls, Inside(d)', Rivals(d, e)'
               PROVE  turn'[d] <= turn'[e]
    BY DEF InsideIsOldest
  <2>1. d # c /\ Inside(d) /\ Open(d)
    BY <1>2, <1>3 DEF Inside, Open
  <2>2. CASE e = c
    BY <1>2, <1>3, <1>4, <2>1, <2>2
  <2>3. CASE e # c
    BY <1>3, <2>1, <2>3 DEF Chain, InsideIsOldest, Rivals
  <2> QED
    BY <2>2, <2>3
<1> QED
  BY <1>5, <1>7, <1>8, <1>9 DEF Chain

\* A call that runs leaves, and releases the next one.
LEMMA LeaveKeepsChain ==
  ASSUME Chain, TypeOK', NEW c \in Calls, Inside(c), Release({c}), UNCHANGED <<turn, clock>>,
         ~Open(c)', \A d \in Calls \ {c} : calls'[d] = calls[d]
  PROVE  Chain'
<1>1. Open(c)
  BY DEF Inside, Open
<1>2. \A d \in Calls : Open(d)' => d # c /\ Open(d) /\ calls'[d] = calls[d] /\ (Inside(d)' <=> Inside(d))
  BY DEF Open, Inside
<1>3. \A d \in Calls \ {c} : Open(d) => Open(d)'
  BY DEF Open
<1>4. \A d, e \in Calls : Rivals(d, e)' => Rivals(d, e) /\ d # c /\ e # c
  BY <1>2 DEF Rivals
<1>5. TurnsDiffer'
  BY <1>2 DEF Chain, TurnsDiffer
<1>6. \A d \in Calls : Open(d) => turn[d] \in Nat /\ calls[d].key \in Names
  BY DEF Chain, TypeOK, CallTypes
<1>7. TailIsLast'
  <2>1. ASSUME NEW k \in Names, tail'[k] # NoCall
        PROVE  Open(tail[k])' /\ calls'[tail[k]].key = k /\ tail'[k] = tail[k]
    <3>1. tail[k] # c /\ tail'[k] = tail[k] /\ tail[k] # NoCall
      BY <2>1 DEF Release
    <3>2. PICK t \in Calls : t = tail[k] /\ Open(t) /\ calls[t].key = k
      BY <3>1 DEF Chain, TailIsLast, TypeOK
    <3>3. Open(t)' /\ calls'[t].key = k
      BY <1>2, <1>3, <3>1, <3>2
    <3> QED
      BY <3>1, <3>2, <3>3
  <2>2. ASSUME NEW d \in Calls, Open(d)'
        PROVE  tail'[calls'[d].key] # NoCall /\ turn'[d] <= turn'[tail'[calls'[d].key]]
    <3>1. d # c /\ Open(d) /\ calls'[d] = calls[d]
      BY <1>2, <2>2
    <3>2. PICK k \in Names : k = calls[d].key
      BY <1>6, <3>1
    <3>3. tail[k] # NoCall /\ turn[d] <= turn[tail[k]]
      BY <3>1, <3>2 DEF Chain, TailIsLast
    <3>4. tail[k] # c
      <4>1. SUFFICES ASSUME tail[k] = c PROVE FALSE
        OBVIOUS
      <4>2. Rivals(c, d)
        BY <1>1, <3>1, <3>2, <3>3, <4>1 DEF Chain, TailIsLast, Rivals
      <4>3. turn[c] <= turn[d] /\ turn[d] <= turn[c]
        BY <3>3, <4>1, <4>2 DEF Chain, InsideIsOldest
      <4> QED
        BY <1>1, <1>6, <3>1, <4>3 DEF Chain, TurnsDiffer
    <3>5. tail'[k] = tail[k]
      BY <3>4 DEF Release
    <3> QED
      BY <3>1, <3>2, <3>3, <3>5
  <2> QED
    BY <2>1, <2>2 DEF TailIsLast
<1>8. OlderAreBehindPrev'
  <2> SUFFICES ASSUME NEW e \in Calls, NEW d \in Calls, Rivals(e, d)', turn'[d] < turn'[e]
               PROVE  /\ calls'[e].prev # NoCall
                      /\ Rivals(e, calls[e].prev)'
                      /\ turn'[d] <= turn'[calls'[e].prev]
    BY DEF OlderAreBehindPrev
  <2>1. Rivals(e, d) /\ d # c /\ e # c /\ calls'[e] = calls[e]
    BY <1>4
  <2>2. calls[e].prev # NoCall /\ Rivals(e, calls[e].prev) /\ turn[d] <= turn[calls[e].prev]
    BY <2>1 DEF Chain, OlderAreBehindPrev
  <2>3. PICK t \in Calls : t = calls[e].prev
    BY <2>2 DEF Chain, TypeOK, CallTypes
  <2>4. t # c
    <3>1. SUFFICES ASSUME t = c PROVE FALSE
      OBVIOUS
    <3>2. Rivals(c, d)
      BY <2>1, <2>2, <2>3, <3>1 DEF Rivals
    <3>3. turn[c] <= turn[d] /\ turn[d] <= turn[c]
      BY <2>2, <2>3, <3>1, <3>2 DEF Chain, InsideIsOldest
    <3> QED
      BY <1>1, <1>6, <2>1, <3>2, <3>3 DEF Chain, TurnsDiffer, Rivals
  <2>5. Open(t)' /\ calls'[t] = calls[t]
    BY <1>3, <2>2, <2>3, <2>4 DEF Rivals
  <2>6. Open(e)'
    BY <1>3, <2>1 DEF Rivals
  <2> QED
    BY <2>1, <2>2, <2>3, <2>5, <2>6 DEF Rivals
<1>9. InsideIsOldest'
  BY <1>2, <1>4 DEF Chain, InsideIsOldest, Rivals
<1> QED
  BY <1>5, <1>7, <1>8, <1>9 DEF Chain

\* Nobody is left in any chain.
LEMMA AbortKeepsChain == ASSUME Chain, TypeOK', Abort PROVE Chain'
<1>1. \A d \in Calls : ~Open(d)'
  BY SettledType DEF Abort, Open, Places
<1>2. \A k \in Names : tail'[k] = NoCall
  <2>1. SUFFICES ASSUME NEW k \in Names, tail[k] # NoCall PROVE tail'[k] = NoCall
    BY DEF Abort, Release
  <2>2. tail[k] \in Calls /\ Open(tail[k])
    BY <2>1 DEF Chain, TailIsLast, TypeOK
  <2> QED
    BY <2>2 DEF Abort, Release
<1>3. TurnsDiffer' /\ OlderAreBehindPrev' /\ InsideIsOldest'
  BY <1>1 DEF TurnsDiffer, OlderAreBehindPrev, InsideIsOldest, Rivals
<1>4. TailIsLast'
  BY <1>1, <1>2 DEF TailIsLast
<1> QED
  BY <1>3, <1>4 DEF Chain

LEMMA StepChain == ASSUME Chain, [Next]_vars PROVE Chain'
<1>1. TypeOK /\ TypeOK'
  BY StepType DEF Chain
<1>2. ASSUME NEW c \in Calls, Start(c) PROVE Chain'
  <2>1. PICK m \in CallTypes : calls' = [calls EXCEPT ![c] = m] /\ m.pc = "resolving"
    <3>1. PICK op \in {"edit", "write"}, n \in Names :
            calls' = [calls EXCEPT ![c] = [NewCall EXCEPT !.pc = "resolving", !.op = op, !.name = n, !.key = KeyOf(n)]]
      BY <1>2 DEF Start
    <3>2. KeyOf(n) \in Names
      BY FileType DEF KeyOf
    <3>3. [NewCall EXCEPT !.pc = "resolving", !.op = op, !.name = n, !.key = KeyOf(n)] \in CallTypes
      BY <3>2, NewCallType DEF CallTypes, Places
    <3>4. [NewCall EXCEPT !.pc = "resolving", !.op = op, !.name = n, !.key = KeyOf(n)].pc = "resolving"
      BY NewCallType DEF CallTypes
    <3> QED
      BY <3>1, <3>3, <3>4
  <2>2. ~Open(c) /\ ~Open(c)' /\ ~Inside(c)'
    BY <1>1, <1>2, <2>1 DEF Start, Open, Inside, TypeOK
  <2>3. \A d \in Calls \ {c} : calls'[d] = calls[d]
    BY <1>1, <2>1 DEF TypeOK
  <2>4. \A d \in Calls : (Open(d)' <=> Open(d)) /\ (Open(d) => calls'[d] = calls[d]) /\ (Inside(d)' => Inside(d))
    BY <2>2, <2>3 DEF Open, Inside
  <2> QED
    BY <1>1, <1>2, <2>4, NobodyLeaves DEF Start
<1>3. ASSUME NEW c \in Calls, Join(c) PROVE Chain'
  BY <1>1, <1>3, JoinKeepsChain
<1>4. ASSUME NEW c \in Calls, Enter(c) PROVE Chain'
  <2>1. \A d \in Calls : /\ calls'[d].key = calls[d].key /\ calls'[d].prev = calls[d].prev
                         /\ (d # c => calls'[d] = calls[d])
    BY <1>1, <1>4 DEF Enter, TypeOK, CallTypes
  <2>2. Open(c) /\ Open(c)'
    BY <1>1, <1>4 DEF Enter, Open, TypeOK, CallTypes
  <2>3. \A d \in Calls : Open(d)' <=> Open(d)
    BY <2>1, <2>2 DEF Open
  <2>4. \A d \in Calls : d # c /\ Inside(d)' => Inside(d)
    BY <2>1 DEF Inside
  <2>5. ASSUME NEW e \in Calls, Rivals(c, e) PROVE turn[c] <= turn[e]
    <3>1. calls[c].prev = NoCall \/ ~Open(calls[c].prev)
      BY <1>4 DEF Enter
    <3>2. ~(turn[e] < turn[c])
      BY <2>5, <3>1 DEF Chain, OlderAreBehindPrev, Rivals
    <3> QED
      BY <1>1, <3>2 DEF TypeOK
  <2>6. \A d \in Calls : Inside(d)' => Inside(d) \/ \A e \in Calls : Rivals(d, e) => turn[d] <= turn[e]
    BY <2>4, <2>5
  <2> QED
    BY <1>1, <1>4, <2>1, <2>3, <2>6, NobodyLeaves DEF Enter
<1>5. ASSUME NEW c \in Calls, Read(c) PROVE Chain'
  <2>1. \A d \in Calls : /\ calls'[d].key = calls[d].key /\ calls'[d].prev = calls[d].prev
                         /\ (d # c => calls'[d] = calls[d])
    BY <1>1, <1>5 DEF Read, TypeOK, CallTypes
  <2>2. Inside(c) /\ Open(c) /\ Open(c)'
    BY <1>1, <1>5 DEF Read, Open, Inside, TypeOK, CallTypes
  <2>3. \A d \in Calls : (Open(d)' <=> Open(d)) /\ (Inside(d)' => Inside(d))
    BY <2>1, <2>2 DEF Open, Inside
  <2> QED
    BY <1>1, <1>5, <2>1, <2>3, NobodyLeaves DEF Read
<1>6. ASSUME NEW c \in Calls, Fail(c) PROVE Chain'
  <2>1. ~Open(c)' /\ \A d \in Calls \ {c} : calls'[d] = calls[d]
    BY <1>1, <1>6, SettledType DEF Fail, Open, Places, TypeOK
  <2> QED
    BY <1>1, <1>6, <2>1, LeaveKeepsChain DEF Fail
<1>7. ASSUME NEW c \in Calls, Write(c) PROVE Chain'
  <2>1. Inside(c) /\ ~Open(c)' /\ \A d \in Calls \ {c} : calls'[d] = calls[d]
    BY <1>1, <1>7, SettledType DEF Write, Open, Inside, Places, TypeOK
  <2> QED
    BY <1>1, <1>7, <2>1, LeaveKeepsChain DEF Write
<1>10. ASSUME NEW c \in Calls, WriteFails(c) PROVE Chain'
  <2>1. /\ calls[c].pc = "writing"
        /\ calls' = [calls EXCEPT ![c] = Settled("failed")]
        /\ Release({c}) /\ UNCHANGED <<turn, clock>>
    BY <1>10 DEF WriteFails
  <2>2. Inside(c) /\ ~Open(c)' /\ \A d \in Calls \ {c} : calls'[d] = calls[d]
    BY <1>1, <2>1, SettledType DEF Open, Inside, Places, TypeOK
  <2> QED
    BY <1>1, <2>1, <2>2, LeaveKeepsChain
<1>8. ASSUME Abort PROVE Chain'
  BY <1>1, <1>8, AbortKeepsChain
<1>9. ASSUME UNCHANGED <<calls, tail, turn, clock>> PROVE Chain'
  BY <1>1, <1>9, NobodyLeaves DEF Open, Inside
<1> QED
  BY <1>2, <1>3, <1>4, <1>5, <1>6, <1>7, <1>8, <1>9, <1>10 DEF Next, Step, Land, vars

\* Calls that came to the same key run one at a time, however many calls, keys, failures
\* and aborts there are: withFileMutationQueue is a lock.
THEOREM QueueExcludes == Spec => []OneAtATime
<1>1. Chain /\ [Next]_vars => Chain'
  BY StepChain
<1>2. Chain => OneAtATime
  <2> SUFFICES ASSUME Chain, NEW c \in Calls, NEW d \in Calls,
                      Inside(c), Inside(d), calls[c].key = calls[d].key
               PROVE  c = d
    BY DEF OneAtATime
  <2>1. Rivals(c, d) /\ Rivals(d, c)
    BY DEF Rivals, Inside, Open
  <2>2. turn[c] <= turn[d] /\ turn[d] <= turn[c] /\ turn[c] \in Nat /\ turn[d] \in Nat
    BY <2>1 DEF Chain, InsideIsOldest, TypeOK
  <2>3. turn[c] = turn[d]
    BY <2>2
  <2> QED
    BY <2>1, <2>3 DEF Chain, TurnsDiffer, Rivals
<1> QED
  BY InitChain, <1>1, <1>2, PTL DEF Spec

-----------------------------------------------------------------------------
(* No edit is lost.                                                        *)

Coming(c) == calls[c].pc = "resolving" \/ Open(c)
\* A call has the key of its file, and will keep it when realpath answers late.
KeysAreFiles ==
  \A c \in Calls :
    Coming(c) /\ FileAt(c) \notin disturbed =>
      /\ calls[c].key = FileAt(c)
      /\ calls[c].name = FileAt(c) \/ disk[FileAt(c)] # Absent
\* What an edit is about to write is what the file still holds.
SeenIsFresh ==
  \A c \in Calls :
    calls[c].pc = "writing" /\ calls[c].op = "edit" /\ FileAt(c) \notin disturbed =>
      calls[c].seen = disk[FileAt(c)] /\ disk[FileAt(c)] # Absent
PromisesKept ==
  /\ promised \in [Files -> Contained \cup {Absent}]
  /\ \A f \in Files \ disturbed : disk[f] = promised[f]
Serial == Chain /\ KeysAreFiles /\ SeenIsFresh /\ PromisesKept

\* A step that leaves the disk alone and disturbs no less.
LEMMA DiskUntouched ==
  ASSUME Serial, TypeOK', UNCHANGED <<disk, promised>>, disturbed \subseteq disturbed',
         \A d \in Calls : Coming(d)' =>
           \/ /\ Coming(d) /\ calls'[d].name = calls[d].name
              /\ calls'[d].key = calls[d].key \/ calls'[d].key = KeyOf(calls[d].name)
           \/ FileAt(d)' \notin disturbed' =>
                /\ calls'[d].key = FileAt(d)'
                /\ calls'[d].name = FileAt(d)' \/ disk[FileAt(d)'] # Absent,
         \A d \in Calls : calls'[d].pc = "writing" /\ calls'[d].op = "edit" =>
           \/ calls'[d] = calls[d]
           \/ calls'[d].seen = disk[FileAt(d)'] /\ disk[FileAt(d)'] # Absent
  PROVE  KeysAreFiles' /\ SeenIsFresh' /\ PromisesKept'
<1>1. KeysAreFiles'
  <2> SUFFICES ASSUME NEW d \in Calls, Coming(d)', FileAt(d)' \notin disturbed'
               PROVE  /\ calls'[d].key = FileAt(d)'
                      /\ calls'[d].name = FileAt(d)' \/ disk[FileAt(d)'] # Absent
    BY DEF KeysAreFiles
  <2>1. CASE /\ Coming(d) /\ calls'[d].name = calls[d].name
             /\ calls'[d].key = calls[d].key \/ calls'[d].key = KeyOf(calls[d].name)
    <3>1. FileAt(d)' = FileAt(d)
      BY <2>1 DEF FileAt
    <3>2. calls[d].key = FileAt(d) /\ (calls[d].name = FileAt(d) \/ disk[FileAt(d)] # Absent)
      BY <2>1, <3>1 DEF Serial, KeysAreFiles
    <3>3. KeyOf(calls[d].name) = FileAt(d)
      BY <3>2 DEF KeyOf, FileAt
    <3> QED
      BY <2>1, <3>1, <3>2, <3>3
  <2> QED
    BY <2>1
<1>2. SeenIsFresh'
  <2> SUFFICES ASSUME NEW d \in Calls, calls'[d].pc = "writing", calls'[d].op = "edit",
                      FileAt(d)' \notin disturbed'
               PROVE  calls'[d].seen = disk[FileAt(d)'] /\ disk[FileAt(d)'] # Absent
    BY DEF SeenIsFresh
  <2>1. CASE calls'[d] = calls[d]
    <3>1. FileAt(d)' = FileAt(d)
      BY <2>1 DEF FileAt
    <3> QED
      BY <2>1, <3>1 DEF Serial, SeenIsFresh
  <2> QED
    BY <2>1
<1>3. PromisesKept'
  BY DEF Serial, PromisesKept
<1> QED
  BY <1>1, <1>2, <1>3

LEMMA InitSerial == Init => Serial
<1> SUFFICES ASSUME Init PROVE Serial
  OBVIOUS
<1>1. Chain /\ TypeOK
  BY InitChain, InitType
<1>2. \A c \in Calls : calls[c].pc = "idle"
  BY DEF Init, NewCall
<1>3. KeysAreFiles /\ SeenIsFresh
  BY <1>2 DEF KeysAreFiles, SeenIsFresh, Coming, Open
<1>4. PromisesKept
  BY <1>1 DEF Init, TypeOK, PromisesKept
<1> QED
  BY <1>1, <1>3, <1>4 DEF Serial

\* Two calls that run on an undisturbed file are one.
LEMMA AloneOnAFile ==
  ASSUME Serial, NEW c \in Calls, NEW d \in Calls, Inside(c), Inside(d),
         FileAt(c) = FileAt(d), FileAt(c) \notin disturbed
  PROVE  c = d
<1>1. calls[c].key = calls[d].key
  BY DEF Serial, KeysAreFiles, Coming, Open, Inside
<1>2. Rivals(c, d) /\ Rivals(d, c)
  BY <1>1 DEF Rivals, Inside, Open
<1>3. turn[c] <= turn[d] /\ turn[d] <= turn[c] /\ turn[c] \in Nat /\ turn[d] \in Nat
  BY <1>2 DEF Serial, Chain, InsideIsOldest, TypeOK
<1>4. turn[c] = turn[d]
  BY <1>3
<1> QED
  BY <1>2, <1>4 DEF Serial, Chain, TurnsDiffer, Rivals

\* A call that leaves having written what it stands for from now on.
LEMMA OverwritingKeepsPromises ==
  ASSUME Serial, NEW c \in Calls, calls[c].pc = "writing",
         NEW place \in {"done", "failed"}, calls' = [calls EXCEPT ![c] = Settled(place)],
         NEW text \in Contained, disk' = [disk EXCEPT ![FileAt(c)] = text],
         NEW next \in Contained, promised' = [promised EXCEPT ![FileAt(c)] = next],
         disturbed' = disturbed, FileAt(c) \notin disturbed => text = next
  PROVE  KeysAreFiles' /\ SeenIsFresh' /\ PromisesKept'
<1> DEFINE f0 == FileAt(c)
<1>1. TypeOK
  BY DEF Serial, Chain
<1>2. f0 \in Files /\ text # Absent
  BY <1>1, ContentsType, AbsentAssumption DEF Contained, Calls
<1>3. \A f \in Files : disk'[f] = IF f = f0 THEN text ELSE disk[f]
  BY <1>1, <1>2 DEF TypeOK
<1>4. calls'[c].pc = place /\ \A d \in Calls \ {c} : calls'[d] = calls[d]
  BY <1>1, SettledType DEF Places, TypeOK
<1>5. \A d \in Calls \ {c} : FileAt(d)' = FileAt(d) /\ FileAt(d) \in Files
  BY <1>1, <1>4, ContentsType DEF FileAt
<1>6. ASSUME NEW d \in Calls, Coming(d)', FileAt(d)' \notin disturbed'
      PROVE  /\ calls'[d].key = FileAt(d)'
             /\ calls'[d].name = FileAt(d)' \/ disk'[FileAt(d)'] # Absent
  <2>1. d # c /\ Coming(d)
    BY <1>4, <1>6 DEF Coming, Open
  <2>2. calls[d].key = FileAt(d) /\ (calls[d].name = FileAt(d) \/ disk[FileAt(d)] # Absent)
    BY <1>5, <1>6, <2>1 DEF Serial, KeysAreFiles
  <2> QED
    BY <1>2, <1>3, <1>4, <1>5, <2>1, <2>2
<1>7. ASSUME NEW d \in Calls, calls'[d].pc = "writing", calls'[d].op = "edit",
             FileAt(d)' \notin disturbed'
      PROVE  calls'[d].seen = disk'[FileAt(d)'] /\ disk'[FileAt(d)'] # Absent
  <2>1. d # c /\ calls'[d] = calls[d]
    BY <1>4, <1>7
  <2>2. calls[d].seen = disk[FileAt(d)] /\ disk[FileAt(d)] # Absent
    BY <1>5, <1>7, <2>1 DEF Serial, SeenIsFresh
  <2>3. FileAt(d) # f0
    BY <1>5, <1>7, <2>1, AloneOnAFile DEF Inside
  <2> QED
    BY <1>3, <1>5, <2>1, <2>2, <2>3
<1>8. PromisesKept'
  <2>1. promised \in [Files -> Contained \cup {Absent}]
    BY DEF Serial, PromisesKept
  <2>2. promised' \in [Files -> Contained \cup {Absent}]
    BY <2>1
  <2>3. ASSUME NEW f \in Files, f \notin disturbed' PROVE disk'[f] = promised'[f]
    <3>1. CASE f = f0
      BY <1>2, <1>3, <2>1, <2>3, <3>1
    <3>2. CASE f # f0
      BY <1>3, <2>1, <2>3, <3>2 DEF Serial, PromisesKept
    <3> QED
      BY <3>1, <3>2
  <2> QED
    BY <2>2, <2>3 DEF PromisesKept
<1> QED
  BY <1>6, <1>7, <1>8 DEF KeysAreFiles, SeenIsFresh

LEMMA WriteKeepsPromises ==
  ASSUME Serial, NEW c \in Calls, Write(c)
  PROVE  KeysAreFiles' /\ SeenIsFresh' /\ PromisesKept'
<1> DEFINE f0 == FileAt(c)
           next == IF calls[c].op = "edit" /\ promised[f0] # Absent THEN Append(promised[f0], c) ELSE <<c>>
<1>1. f0 \in Files /\ Contents(c) \in Contained
  BY ContentsType DEF Serial, Chain
<1>2. next \in Contained
  BY <1>1 DEF Serial, PromisesKept, Contained
<1>3. ASSUME f0 \notin disturbed PROVE Contents(c) = next
  <2>1. disk[f0] = promised[f0]
    BY <1>1, <1>3 DEF Serial, PromisesKept
  <2>2. calls[c].op = "edit" => calls[c].seen = disk[f0] /\ disk[f0] # Absent
    BY <1>3 DEF Serial, SeenIsFresh, Write
  <2> QED
    BY <2>1, <2>2 DEF Contents
<1>4. /\ calls[c].pc = "writing" /\ disturbed' = disturbed
      /\ calls' = [calls EXCEPT ![c] = Settled("done")]
      /\ disk' = [disk EXCEPT ![FileAt(c)] = Contents(c)]
      /\ promised' = [promised EXCEPT ![FileAt(c)] = next]
  BY DEF Write
<1> HIDE DEF next
<1> QED
  BY <1>1, <1>2, <1>3, <1>4, OverwritingKeepsPromises

LEMMA FailedWriteKeepsPromises ==
  ASSUME Serial, NEW c \in Calls, WriteFails(c)
  PROVE  KeysAreFiles' /\ SeenIsFresh' /\ PromisesKept'
<1>1. PICK left \in Cuts(Contents(c)) :
        /\ calls[c].pc = "writing" /\ disturbed' = disturbed
        /\ calls' = [calls EXCEPT ![c] = Settled("failed")]
        /\ disk' = [disk EXCEPT ![FileAt(c)] = left]
        /\ promised' = [promised EXCEPT ![FileAt(c)] = left]
  BY DEF WriteFails
<1>2. left \in Contained
  BY ContentsType, CutsType DEF Serial, Chain
<1> QED
  BY <1>1, <1>2, OverwritingKeepsPromises

LEMMA LandKeepsPromises ==
  ASSUME Serial, TypeOK', Land
  PROVE  KeysAreFiles' /\ SeenIsFresh' /\ PromisesKept'
<1>1. TypeOK
  BY DEF Serial, Chain
<1>2. PICK w \in flying :
        /\ \/ /\ \E left \in Cuts(w.content) : disk' = [disk EXCEPT ![w.file] = left]
              /\ disturbed' = disturbed \cup {w.file}
           \/ UNCHANGED <<disk, disturbed>>
        /\ UNCHANGED <<calls, promised>>
  BY DEF Land
<1>3. \A f \in Files : f \notin disturbed' => f \notin disturbed /\ disk'[f] = disk[f]
  BY <1>1, <1>2 DEF TypeOK
<1>4. \A d \in Calls : FileAt(d)' = FileAt(d) /\ FileAt(d) \in Files
  BY <1>1, <1>2, ContentsType DEF FileAt
<1>5. KeysAreFiles'
  BY <1>2, <1>3, <1>4 DEF Serial, KeysAreFiles, Coming, Open
<1>6. SeenIsFresh'
  BY <1>2, <1>3, <1>4 DEF Serial, SeenIsFresh
<1>7. PromisesKept'
  BY <1>2, <1>3 DEF Serial, PromisesKept
<1> QED
  BY <1>5, <1>6, <1>7

LEMMA StepSerial == ASSUME Serial, [Next]_vars PROVE Serial'
<1>1. Chain /\ TypeOK /\ Chain' /\ TypeOK'
  BY StepChain, StepType DEF Serial, Chain
<1>2. ASSUME NEW c \in Calls, Start(c) PROVE KeysAreFiles' /\ SeenIsFresh' /\ PromisesKept'
  <2>1. PICK op \in {"edit", "write"}, n \in Names :
          /\ calls' = [calls EXCEPT ![c] = [NewCall EXCEPT !.pc = "resolving", !.op = op, !.name = n, !.key = KeyOf(n)]]
          /\ disturbed' = IF disk[FileOf[n]] = Absent /\ n # FileOf[n] THEN disturbed \cup {FileOf[n]} ELSE disturbed
    BY <1>2 DEF Start
  <2> DEFINE m == [NewCall EXCEPT !.pc = "resolving", !.op = op, !.name = n, !.key = KeyOf(n)]
  <2>2. m.pc = "resolving" /\ m.name = n /\ m.key = KeyOf(n)
    BY NewCallType DEF CallTypes
  <2>3. calls'[c] = m /\ \A d \in Calls \ {c} : calls'[d] = calls[d]
    BY <1>1, <2>1 DEF TypeOK
  <2>4. FileAt(c)' = FileOf[n]
    BY <2>2, <2>3 DEF FileAt
  <2>5. FileAt(c)' \notin disturbed' =>
          calls'[c].key = FileAt(c)' /\ (calls'[c].name = FileAt(c)' \/ disk[FileAt(c)'] # Absent)
    BY <2>1, <2>2, <2>3, <2>4 DEF KeyOf
  <2>6. \A d \in Calls \ {c} : Coming(d)' => Coming(d) /\ calls'[d] = calls[d]
    BY <2>3 DEF Coming, Open
  <2>7. \A d \in Calls : calls'[d].pc = "writing" => calls'[d] = calls[d]
    BY <2>2, <2>3
  <2>8. disturbed \subseteq disturbed' /\ UNCHANGED <<disk, promised>>
    BY <1>2, <2>1 DEF Start
  <2> QED
    BY <1>1, <2>5, <2>6, <2>7, <2>8, DiskUntouched
<1>3. ASSUME NEW c \in Calls, Join(c) PROVE KeysAreFiles' /\ SeenIsFresh' /\ PromisesKept'
  <2>1. PICK k \in {calls[c].key, KeyOf(calls[c].name)} :
          /\ calls[c].pc = "resolving"
          /\ calls' = [calls EXCEPT ![c].pc = "waiting", ![c].key = k, ![c].prev = tail[k]]
          /\ UNCHANGED <<disk, promised, disturbed>>
    BY <1>3 DEF Join
  <2>2. calls'[c].pc = "waiting" /\ calls'[c].key = k /\ calls'[c].name = calls[c].name
    BY <1>1, <2>1 DEF TypeOK, CallTypes
  <2>3. \A d \in Calls \ {c} : calls'[d] = calls[d]
    BY <1>1, <2>1 DEF TypeOK
  <2>4. \A d \in Calls : Coming(d)' => /\ Coming(d) /\ calls'[d].name = calls[d].name
                                       /\ calls'[d].key = calls[d].key \/ calls'[d].key = KeyOf(calls[d].name)
    BY <2>1, <2>2, <2>3 DEF Coming, Open
  <2>5. \A d \in Calls : calls'[d].pc = "writing" => calls'[d] = calls[d]
    BY <2>2, <2>3
  <2> QED
    BY <1>1, <2>1, <2>4, <2>5, DiskUntouched
<1>4. ASSUME NEW c \in Calls, Enter(c) PROVE KeysAreFiles' /\ SeenIsFresh' /\ PromisesKept'
  <2>1. calls'[c].pc = "reading" /\ calls'[c].key = calls[c].key /\ calls'[c].name = calls[c].name
    BY <1>1, <1>4 DEF Enter, TypeOK, CallTypes
  <2>2. Coming(c) /\ \A d \in Calls \ {c} : calls'[d] = calls[d]
    BY <1>1, <1>4 DEF Enter, TypeOK, Coming, Open
  <2>3. \A d \in Calls : Coming(d)' => Coming(d) /\ calls'[d].name = calls[d].name /\ calls'[d].key = calls[d].key
    BY <2>1, <2>2 DEF Coming, Open
  <2>4. \A d \in Calls : calls'[d].pc = "writing" => calls'[d] = calls[d]
    BY <2>1, <2>2
  <2> QED
    BY <1>1, <1>4, <2>3, <2>4, DiskUntouched DEF Enter
<1>5. ASSUME NEW c \in Calls, Read(c) PROVE KeysAreFiles' /\ SeenIsFresh' /\ PromisesKept'
  <2>1. /\ calls'[c].key = calls[c].key /\ calls'[c].name = calls[c].name /\ calls'[c].op = calls[c].op
        /\ calls'[c].seen = IF disk[FileAt(c)] = Absent THEN <<>> ELSE disk[FileAt(c)]
    BY <1>1, <1>5 DEF Read, TypeOK, CallTypes
  <2>2. Coming(c) /\ \A d \in Calls \ {c} : calls'[d] = calls[d]
    BY <1>1, <1>5 DEF Read, TypeOK, Coming, Open
  <2>3. \A d \in Calls : Coming(d)' => Coming(d) /\ calls'[d].name = calls[d].name /\ calls'[d].key = calls[d].key
    BY <2>1, <2>2 DEF Coming, Open
  <2>4. FileAt(c)' = FileAt(c)
    BY <2>1 DEF FileAt
  <2>5. calls'[c].op = "edit" => calls'[c].seen = disk[FileAt(c)'] /\ disk[FileAt(c)'] # Absent
    BY <1>5, <2>1, <2>4 DEF Read
  <2>6. UNCHANGED <<disk, promised, disturbed>>
    BY <1>5 DEF Read
  <2> QED
    BY <1>1, <2>2, <2>3, <2>5, <2>6, DiskUntouched
<1>6. ASSUME NEW S \in SUBSET Calls,
             calls' = [d \in Calls |-> IF d \in S THEN Settled("failed") ELSE calls[d]],
             UNCHANGED <<disk, promised, disturbed>>
      PROVE  KeysAreFiles' /\ SeenIsFresh' /\ PromisesKept'
  <2>1. \A d \in Calls : d \in S => calls'[d].pc = "failed"
    BY <1>6, SettledType DEF Places
  <2>2. \A d \in Calls : Coming(d)' => Coming(d) /\ calls'[d].name = calls[d].name /\ calls'[d].key = calls[d].key
    BY <1>6, <2>1 DEF Coming, Open
  <2>3. \A d \in Calls : calls'[d].pc = "writing" => calls'[d] = calls[d]
    BY <1>6, <2>1
  <2> QED
    BY <1>1, <1>6, <2>2, <2>3, DiskUntouched
<1>7. ASSUME NEW c \in Calls, Fail(c) PROVE KeysAreFiles' /\ SeenIsFresh' /\ PromisesKept'
  <2>1. calls' = [d \in Calls |-> IF d \in {c} THEN Settled("failed") ELSE calls[d]]
    BY <1>1, <1>7 DEF Fail, TypeOK
  <2> QED
    BY <1>6, <1>7, <2>1 DEF Fail
<1>8. ASSUME Abort PROVE KeysAreFiles' /\ SeenIsFresh' /\ PromisesKept'
  <2> DEFINE hit == {c \in Calls : Open(c) \/ calls[c].pc = "resolving"}
  <2>1. /\ calls' = [d \in Calls |-> IF d \in hit THEN Settled("failed") ELSE calls[d]]
        /\ UNCHANGED <<disk, promised, disturbed>>
    BY <1>8 DEF Abort
  <2>2. hit \in SUBSET Calls
    OBVIOUS
  <2> HIDE DEF hit
  <2> QED
    BY <1>6, <2>1, <2>2
<1>9. ASSUME UNCHANGED vars PROVE KeysAreFiles' /\ SeenIsFresh' /\ PromisesKept'
  BY <1>1, <1>9, DiskUntouched DEF vars, Coming, Open
<1> QED
  BY <1>1, <1>2, <1>3, <1>4, <1>5, <1>7, <1>8, <1>9, WriteKeepsPromises,
     FailedWriteKeepsPromises, LandKeepsPromises
  DEF Serial, Next, Step

\* However many edits and writes run at once and fail, no edit that reported success is
\* overwritten by one that had not seen it. A write that fails halfway takes with it what
\* the file held; the files that are written late or under two names are excepted
\* (EditsSurvive).
THEOREM NoEditIsLost == Spec => []EditsSurvive
<1>1. Serial /\ [Next]_vars => Serial'
  BY StepSerial
<1>2. Serial => EditsSurvive
  BY DEF Serial, PromisesKept, EditsSurvive
<1> QED
  BY InitSerial, <1>1, <1>2, PTL DEF Spec

-----------------------------------------------------------------------------
(***************************************************************************)
(* The channel of the Slack bot, for any number of messages, restarts and  *)
(* waiting events: no message is in the context twice, and what was there  *)
(* when an answered run read the log is in the context file.               *)
(*                                                                         *)
(* Every copy of a text under a name has a line of the log to itself       *)
(* (Roomy), and while a message is about to be prompted its own lines are  *)
(* kept free for it: it cannot have been logged before, or is excepted,    *)
(* and what is synced has another message's line. The file is never ahead  *)
(* of the context (FileIsBehind), so what a run has found there is in what *)
(* it writes.                                                              *)
(***************************************************************************)

Messages == [kind : {"ask", "chatter", "bot"}, text : Texts]
Contexts == [of : [Texts -> [Channel!Authors -> Nat]], answer : BOOLEAN]
Posted == 1..Len(c_posted)
Runs == [pc : {"idle", "typing", "prompting", "answering"}, ts : Nat, logged : SUBSET Nat]

Types ==
  /\ c_posted \in Seq(Messages)
  /\ c_inbox \in SUBSET Posted
  /\ c_known \in SUBSET Texts
  /\ c_log \in SUBSET (Posted \X Channel!LogNames)
  /\ c_context \in Contexts /\ c_file \in Contexts
  /\ c_run \in Runs
  /\ c_answered \in SUBSET Posted /\ c_repeated \in SUBSET Posted

Human(t) == Channel!Human(t)
Text(t) == Channel!Text(t)
\* The messages logged with this text under this name.
Lines(x, n) == {t \in Posted : <<t, n>> \in c_log /\ Human(t) /\ Text(t) = x}
Pending == IF c_run.pc \in {"typing", "prompting"} THEN {c_run.ts} ELSE {}
Excepted == {Text(t) : t \in c_repeated}
Roomy(c, P) ==
  \A x \in Texts \ Excepted, n \in Channel!LogNames : c.of[x][n] <= Cardinality(Lines(x, n) \ P)
Has(c, x) == \E n \in Channel!Authors : c.of[x][n] # 0

RunIsLogged ==
  /\ c_run.pc = "idle" => c_run.ts = Channel!Event
  /\ c_run.ts # Channel!Event =>
       /\ c_run.ts \in Posted /\ Human(c_run.ts)
       /\ <<c_run.ts, Channel!LogName(Text(c_run.ts))>> \in c_log
FileIsBehind ==
  /\ c_up # "down" => \A x \in Texts : Has(c_file, x) => Has(c_context, x)
  /\ c_up \in {"down"} => c_run.pc = "idle"
RunHasSynced ==
  /\ c_run.logged \subseteq Posted
  /\ c_run.pc \in {"idle", "typing"} => c_run.logged = {}
  /\ c_run.pc = "prompting" =>
       \A t \in c_run.logged : Human(t) => Has(c_context, Text(t)) \/ t = c_run.ts
  /\ c_run.pc = "answering" => \A t \in c_run.logged : Human(t) => Has(c_context, Text(t))
AnsweredIsKept == \A t \in c_answered : Human(t) => Has(c_file, Text(t))
Inv == /\ Types /\ RunIsLogged /\ Roomy(c_context, Pending) /\ Roomy(c_file, {})
       /\ FileIsBehind /\ RunHasSynced /\ AnsweredIsKept

-----------------------------------------------------------------------------
LEMMA NamesFacts ==
  /\ Channel!LogNames \subseteq Channel!Authors /\ Channel!LogNames = {"name", "id"}
  /\ \A x : Channel!LogName(x) \in Channel!LogNames /\ Channel!PromptName(x) \in Channel!Authors
  /\ \A x : Channel!PromptName(x) \in Channel!LogNames => Channel!PromptName(x) = Channel!LogName(x)
  BY DEF Channel!LogNames, Channel!Authors, Channel!LogName, Channel!PromptName

LEMMA ContextFacts ==
  ASSUME NEW c \in Contexts
  PROVE  /\ \A x \in Texts, n \in Channel!Authors : c.of[x][n] \in Nat
         /\ c.of \in [Texts -> [Channel!Authors -> Nat]]
  BY DEF Contexts

LEMMA NoContextFacts ==
  /\ Channel!NoContext \in Contexts
  /\ \A x \in Texts, n \in Channel!Authors : Channel!NoContext.of[x][n] = 0
  BY DEF Channel!NoContext, Contexts

LEMMA NoRunFacts ==
  /\ Channel!NoRun \in Runs /\ Channel!NoRun.pc = "idle" /\ Channel!NoRun.ts = Channel!Event
  /\ Channel!NoRun.logged = {} /\ Channel!Event = 0
  BY DEF Channel!NoRun, Runs, Channel!Event

LEMMA PostedFacts ==
  ASSUME Types
  PROVE  /\ Len(c_posted) \in Nat /\ IsFiniteSet(Posted) /\ Posted \subseteq Nat
         /\ Channel!Event \notin Posted
         /\ \A t \in Posted : c_posted[t] \in Messages /\ Text(t) \in Texts
<1>1. Len(c_posted) \in Nat
  BY LenProperties DEF Types
<1>2. IsFiniteSet(Posted)
  BY <1>1, FS_Interval DEF Posted
<1>3. Posted \subseteq Nat /\ Channel!Event \notin Posted
  BY <1>1 DEF Posted, Channel!Event
<1>4. \A t \in Posted : c_posted[t] \in Messages
  BY ElementOfSeq DEF Types, Posted
<1>5. \A t \in Posted : Text(t) \in Texts
  BY <1>4 DEF Text, Channel!Text, Messages
<1> QED
  BY <1>1, <1>2, <1>3, <1>4, <1>5

LEMMA LoggedFacts ==
  ASSUME Types
  PROVE  /\ Channel!Logged(c_log) \subseteq Posted
         /\ \A t, n : <<t, n>> \in c_log => t \in Channel!Logged(c_log) /\ n \in Channel!LogNames
         /\ \A t \in Channel!Logged(c_log) : \E n \in Channel!LogNames : <<t, n>> \in c_log
<1>1. \A line \in c_log : line \in Posted \X Channel!LogNames
  BY DEF Types
<1> QED
  BY <1>1 DEF Channel!Logged

\* What Slack and the log have of old stays as it is.
Grows ==
  /\ Posted \subseteq Posted' /\ \A t \in Posted : c_posted'[t] = c_posted[t]
  /\ c_log \subseteq c_log'

LEMMA GrowthFacts ==
  ASSUME Types, Grows
  PROVE  /\ \A t \in Posted : (Human(t)' <=> Human(t)) /\ Text(t)' = Text(t)
         /\ \A x, n : Lines(x, n) \subseteq Lines(x, n)'
<1>1. \A t \in Posted : (Human(t)' <=> Human(t)) /\ Text(t)' = Text(t)
  BY DEF Grows, Human, Text, Channel!Human, Channel!Text
<1> QED
  BY <1>1 DEF Grows, Lines

\* A copy that has a line keeps one.
LEMMA RoomKept ==
  ASSUME Types, Types', NEW c \in Contexts, NEW P, NEW Q, Roomy(c, P), Excepted \subseteq Excepted',
         \A x \in Texts \ Excepted', n \in Channel!LogNames : Lines(x, n) \ P \subseteq Lines(x, n)' \ Q
  PROVE  \A x \in Texts \ Excepted', n \in Channel!LogNames :
           c.of[x][n] <= Cardinality(Lines(x, n)' \ Q)
<1> SUFFICES ASSUME NEW x \in Texts \ Excepted', NEW n \in Channel!LogNames
             PROVE  c.of[x][n] <= Cardinality(Lines(x, n)' \ Q)
  OBVIOUS
<1>1. PICK S : S = Lines(x, n) \ P
  OBVIOUS
<1>2. PICK T : T = Lines(x, n)' \ Q
  OBVIOUS
<1>3. IsFiniteSet(T)
  <2>1. Lines(x, n)' \subseteq Posted'
    BY DEF Lines
  <2>2. IsFiniteSet(Posted')
    <3>1. Len(c_posted') \in Nat
      BY LenProperties DEF Types
    <3> QED BY <3>1, FS_Interval DEF Posted
  <2>3. T \subseteq Posted'
    BY <1>2, <2>1
  <2> QED BY <2>2, <2>3, FS_Subset
<1>4. S \subseteq T
  BY <1>1, <1>2
<1>5. Cardinality(S) <= Cardinality(T) /\ Cardinality(S) \in Nat /\ Cardinality(T) \in Nat
  BY <1>3, <1>4, FS_Subset, FS_CardinalityType
<1>6. c.of[x][n] <= Cardinality(S)
  BY <1>1 DEF Roomy
<1>7. c.of[x][n] \in Nat
  BY ContextFacts, NamesFacts
<1> QED
  BY <1>2, <1>5, <1>6, <1>7

LEMMA ExceptedGrow ==
  ASSUME Types, Grows, c_repeated \subseteq c_repeated'
  PROVE  Excepted \subseteq Excepted'
<1>1. \A t \in c_repeated : t \in c_repeated' /\ Text(t)' = Text(t)
  BY GrowthFacts DEF Types
<1> QED
  BY <1>1 DEF Excepted

-----------------------------------------------------------------------------
LEMMA InitInv == Channel!Init => Inv
<1> SUFFICES ASSUME Channel!Init PROVE Inv
  OBVIOUS
<1>1. /\ c_posted = <<>> /\ Len(c_posted) = 0 /\ c_posted \in Seq(Messages) /\ Posted = {}
  BY EmptySeq DEF Channel!Init, Posted
<1>2. /\ c_inbox = {} /\ c_up = "up" /\ c_known \in SUBSET Texts /\ c_log = {}
      /\ c_context = Channel!NoContext /\ c_file = Channel!NoContext /\ c_run = Channel!NoRun
      /\ c_answered = {} /\ c_repeated = {}
  BY DEF Channel!Init
<1>3. Types
  BY <1>1, <1>2, NoContextFacts, NoRunFacts DEF Types
<1>4. \A x, n : Lines(x, n) = {}
  BY <1>1 DEF Lines
<1>5. Roomy(c_context, Pending) /\ Roomy(c_file, {})
  <2>1. \A x, n, P : Cardinality(Lines(x, n) \ P) = 0
    <3>1. \A P : {} \ P = {}
      OBVIOUS
    <3> QED BY <1>4, <3>1, FS_EmptySet, Zenon
  <2>2. PICK c : c = Channel!NoContext /\ \A x \in Texts, n \in Channel!LogNames : c.of[x][n] = 0
    BY NoContextFacts, NamesFacts
  <2>3. \A P : \A x \in Texts, n \in Channel!LogNames : c.of[x][n] <= Cardinality(Lines(x, n) \ P)
    BY <2>1, <2>2
  <2>4. \A P : Roomy(c, P)
    BY <2>3, Zenon DEF Roomy
  <2>5. c_context = c /\ c_file = c
    BY <1>2, <2>2
  <2> QED BY <2>4, <2>5
<1>6. RunIsLogged /\ FileIsBehind /\ RunHasSynced /\ AnsweredIsKept
  BY <1>2, NoContextFacts, NoRunFacts DEF RunIsLogged, FileIsBehind, RunHasSynced, AnsweredIsKept, Has
<1> QED
  BY <1>3, <1>5, <1>6 DEF Inv

\* A step that leaves the contexts alone: a run goes on, starts or ends.
LEMMA QuietStep ==
  ASSUME Inv, Types', Grows, UNCHANGED <<c_context, c_file, c_answered>>,
         c_repeated \subseteq c_repeated', c_up' = "down" <=> c_up = "down",
         RunIsLogged',
         c_run' = c_run \/ (c_run'.pc \in {"idle", "typing"} /\ c_run'.logged = {}),
         c_up = "down" => c_run'.pc = "idle",
         \A x \in Texts \ Excepted', n \in Channel!LogNames :
           Lines(x, n) \ Pending \subseteq Lines(x, n)' \ Pending'
  PROVE  Inv'
<1>1. Types /\ Excepted \subseteq Excepted'
  BY ExceptedGrow DEF Inv
<1>2. c_context \in Contexts /\ c_file \in Contexts /\ c_answered \subseteq Posted
  BY <1>1 DEF Types
<1>3. \A t \in Posted : (Human(t)' <=> Human(t)) /\ Text(t)' = Text(t)
  BY <1>1, GrowthFacts
<1>4. \A x, n : Lines(x, n) \subseteq Lines(x, n)'
  BY <1>1, GrowthFacts
<1>5. Roomy(c_context, Pending)'
  <2>1. PICK P : P = Pending
    OBVIOUS
  <2>2. PICK Q : Q = Pending'
    OBVIOUS
  <2>3. Roomy(c_context, P)
    BY <2>1 DEF Inv
  <2>4. \A x \in Texts \ Excepted', n \in Channel!LogNames : Lines(x, n) \ P \subseteq Lines(x, n)' \ Q
    BY <2>1, <2>2
  <2>5. \A x \in Texts \ Excepted', n \in Channel!LogNames :
          c_context.of[x][n] <= Cardinality(Lines(x, n)' \ Q)
    BY <1>1, <1>2, <2>3, <2>4, RoomKept
  <2> QED BY <2>2, <2>5 DEF Roomy
<1>6. Roomy(c_file, {})'
  <2>1. Roomy(c_file, {})
    BY DEF Inv
  <2>2. \A x \in Texts \ Excepted', n \in Channel!LogNames : Lines(x, n) \ {} \subseteq Lines(x, n)' \ {}
    BY <1>4
  <2>3. \A x \in Texts \ Excepted', n \in Channel!LogNames :
          c_file.of[x][n] <= Cardinality(Lines(x, n)' \ {})
    BY <1>1, <1>2, <2>1, <2>2, RoomKept
  <2> QED BY <2>3 DEF Roomy
<1>7. \A x : (Has(c_context, x)' <=> Has(c_context, x)) /\ (Has(c_file, x)' <=> Has(c_file, x))
  BY DEF Has
<1>8. FileIsBehind'
  BY <1>7 DEF Inv, FileIsBehind
<1>9. RunHasSynced'
  <2>1. CASE c_run' = c_run
    <3>1. \A t : t \in c_run.logged => t \in Posted /\ t \in Posted'
      BY DEF Inv, RunHasSynced, Grows
    <3>2. \A t \in c_run.logged : /\ Human(t)' <=> Human(t)
                                  /\ \A x : x = Text(t) => Text(t)' = x
      BY <1>3, <3>1
    <3>3. \A t \in c_run.logged : Has(c_context, Text(t))' <=> Has(c_context, Text(t))
      <4> SUFFICES ASSUME NEW t \in c_run.logged
                   PROVE  Has(c_context, Text(t))' <=> Has(c_context, Text(t))
        OBVIOUS
      <4>1. Text(t)' = Text(t)
        BY <3>2
      <4> QED BY <4>1 DEF Has
    <3> QED BY <2>1, <3>1, <3>2, <3>3 DEF Inv, RunHasSynced
  <2>2. CASE c_run'.pc \in {"idle", "typing"} /\ c_run'.logged = {}
    BY <2>2 DEF RunHasSynced
  <2> QED BY <2>1, <2>2
<1>10. AnsweredIsKept'
  <2> SUFFICES ASSUME NEW t \in c_answered, Human(t)'
               PROVE  Has(c_file, Text(t))'
    BY DEF AnsweredIsKept
  <2>1. Human(t) /\ Text(t)' = Text(t)
    BY <1>2, <1>3
  <2>2. Has(c_file, Text(t))
    BY <2>1 DEF Inv, AnsweredIsKept
  <2> QED BY <2>1, <2>2 DEF Has
<1> QED
  BY <1>5, <1>6, <1>8, <1>9, <1>10 DEF Inv

\* ... and leaves the run alone too.
LEMMA RunUntouched ==
  ASSUME Inv, Types', Grows, UNCHANGED <<c_context, c_file, c_answered, c_repeated, c_run, c_known>>,
         c_up' = "down" <=> c_up = "down"
  PROVE  Inv'
<1>1. Types
  BY DEF Inv
<1>2. RunIsLogged'
  <2>1. CASE c_run.ts = Channel!Event
    BY <2>1 DEF Inv, RunIsLogged
  <2>2. CASE c_run.ts # Channel!Event
    <3>1. PICK t \in Posted : t = c_run.ts /\ Human(t) /\ <<t, Channel!LogName(Text(t))>> \in c_log
      BY <2>2 DEF Inv, RunIsLogged
    <3>2. t \in Posted' /\ Human(t)' /\ Text(t)' = Text(t)
      BY <1>1, <3>1, GrowthFacts DEF Grows
    <3>3. <<t, Channel!LogName(Text(t))'>> \in c_log'
      BY <3>1, <3>2 DEF Channel!LogName, Grows
    <3>4. c_run.pc # "idle"
      BY <2>2 DEF Inv, RunIsLogged
    <3> QED BY <3>1, <3>2, <3>3, <3>4 DEF RunIsLogged, Human, Text
  <2> QED BY <2>1, <2>2
<1>3. Pending' = Pending
  BY DEF Pending
<1>4. \A x, n : Lines(x, n) \subseteq Lines(x, n)'
  BY <1>1, GrowthFacts
<1>5. \A x \in Texts \ Excepted', n \in Channel!LogNames :
           Lines(x, n) \ Pending \subseteq Lines(x, n)' \ Pending'
  BY <1>3, <1>4
<1>6. c_up = "down" => c_run'.pc = "idle"
  BY DEF Inv, FileIsBehind
<1> QED BY <1>2, <1>5, <1>6, QuietStep


-----------------------------------------------------------------------------
\* Slack gets one more message.
LEMMA PostingEffect ==
  ASSUME Types, NEW m \in Messages, c_posted' = Append(c_posted, m)
  PROVE  /\ c_posted' \in Seq(Messages)
         /\ Len(c_posted) + 1 \in Posted' /\ Len(c_posted) + 1 \notin Posted
         /\ Posted \subseteq Posted' /\ \A t \in Posted : c_posted'[t] = c_posted[t]
         /\ c_posted'[Len(c_posted) + 1] = m
<1>1. c_posted \in Seq(Messages) /\ Len(c_posted) \in Nat
  BY LenProperties DEF Types
<1>2. /\ Append(c_posted, m) \in Seq(Messages) /\ Len(Append(c_posted, m)) = Len(c_posted) + 1
      /\ \A t \in 1..Len(c_posted) : Append(c_posted, m)[t] = c_posted[t]
      /\ Append(c_posted, m)[Len(c_posted) + 1] = m
  BY <1>1, AppendProperties
<1> QED
  BY <1>1, <1>2 DEF Posted

LEMMA PostKeepsInv ==
  ASSUME Inv, NEW kind \in {"ask", "chatter"}, NEW x \in Texts, Channel!Post(kind, x)
  PROVE  Inv'
<1>1. Types
  BY DEF Inv
<1>2. Channel!Message(kind, x) \in Messages
  BY DEF Channel!Message, Messages
<1>3. c_posted' = Append(c_posted, Channel!Message(kind, x))
  BY DEF Channel!Post
<1>4. /\ c_posted' \in Seq(Messages) /\ Len(c_posted) + 1 \in Posted'
      /\ Posted \subseteq Posted' /\ \A t \in Posted : c_posted'[t] = c_posted[t]
  BY <1>1, <1>2, <1>3, PostingEffect
<1>5. /\ c_inbox' = c_inbox \cup {Len(c_posted) + 1}
      /\ UNCHANGED <<c_up, c_known, c_log, c_context, c_file, c_run, c_answered, c_repeated>>
  BY DEF Channel!Post
<1>6. Types'
  BY <1>1, <1>4, <1>5 DEF Types
<1>7. Grows
  BY <1>4, <1>5 DEF Grows
<1> QED
  BY <1>5, <1>6, <1>7, RunUntouched

\* What is not said to the channel by a message leaves it as it is.
LEMMA NothingPosted ==
  ASSUME c_posted' = c_posted, c_log \subseteq c_log'
  PROVE  Grows /\ Posted' = Posted
  BY DEF Grows, Posted

LEMMA UndeliverableKeepsInv ==
  ASSUME Inv, NEW t, Channel!Undeliverable(t)
  PROVE  Inv'
<1>1. /\ c_inbox' = c_inbox \ {t}
      /\ UNCHANGED <<c_posted, c_up, c_known, c_log, c_context, c_file, c_run, c_answered, c_repeated>>
  BY DEF Channel!Undeliverable
<1>2. Grows /\ Posted' = Posted
  BY <1>1, NothingPosted
<1>3. Types'
  BY <1>1, <1>2 DEF Inv, Types
<1> QED
  BY <1>1, <1>2, <1>3, RunUntouched

LEMMA RecordStartupKeepsInv ==
  ASSUME Inv, Channel!RecordStartup
  PROVE  Inv'
<1>1. /\ c_up = "connecting" /\ c_up' = "up"
      /\ UNCHANGED <<c_posted, c_inbox, c_known, c_log, c_context, c_file, c_run, c_answered,
                     c_repeated>>
  BY DEF Channel!RecordStartup
<1>2. Grows /\ Posted' = Posted
  BY <1>1, NothingPosted
<1>3. Types'
  BY <1>1, <1>2 DEF Inv, Types
<1> QED
  BY <1>1, <1>2, <1>3, RunUntouched

LEMMA BackfillKeepsInv ==
  ASSUME Inv, Channel!Backfill
  PROVE  Inv'
<1>1. /\ c_up = "fetching" /\ c_up' = "connecting"
      /\ UNCHANGED <<c_posted, c_inbox, c_known, c_context, c_file, c_run, c_answered, c_repeated>>
  BY DEF Channel!Backfill
<1>2. c_log \subseteq c_log' /\ c_log' \subseteq Posted \X Channel!LogNames
  <2>1. c_log \subseteq Posted \X Channel!LogNames
    BY DEF Inv, Types
  <2>2. \A t \in Posted : (IF Channel!Human(t) THEN Channel!LogName(Channel!Text(t)) ELSE "name")
                            \in Channel!LogNames
    BY NamesFacts
  <2>3. CASE UNCHANGED c_log
    BY <2>1, <2>3
  <2>4. CASE c_log' = c_log \cup
          {<<t, IF Channel!Human(t) THEN Channel!LogName(Channel!Text(t)) ELSE "name">> :
             t \in {s \in 1..Len(c_posted) : /\ Channel!Logged(c_log) # {}
                                             /\ \A l \in Channel!Logged(c_log) : s > l}}
    BY <2>1, <2>2, <2>4 DEF Posted
  <2> QED BY <2>3, <2>4 DEF Channel!Backfill
<1>3. Grows /\ Posted' = Posted
  BY <1>1, <1>2, NothingPosted
<1>4. Types'
  BY <1>1, <1>2, <1>3 DEF Inv, Types
<1> QED
  BY <1>1, <1>3, <1>4, RunUntouched

LEMMA StutterKeepsInv ==
  ASSUME Inv, UNCHANGED Channel!vars
  PROVE  Inv'
<1>1. UNCHANGED <<c_posted, c_inbox, c_up, c_known, c_log, c_context, c_file, c_run, c_answered,
                  c_repeated>>
  BY DEF Channel!vars
<1>2. Grows /\ Posted' = Posted
  BY <1>1, NothingPosted
<1>3. Types'
  BY <1>1, <1>2 DEF Inv, Types
<1> QED
  BY <1>1, <1>2, <1>3, RunUntouched

-----------------------------------------------------------------------------
\* A run that starts or ends.
LEMMA BeginFacts ==
  ASSUME NEW t \in Nat, Channel!Begin(t)
  PROVE  c_run' \in Runs /\ c_run'.pc = "typing" /\ c_run'.ts = t /\ c_run'.logged = {}
  BY DEF Channel!Begin, Runs

LEMMA ProceedFacts ==
  ASSUME Channel!Proceed
  PROVE  /\ c_run' \in Runs /\ c_run'.pc \in {"idle", "typing"}
         /\ c_run'.ts = Channel!Event /\ c_run'.logged = {}
<1>1. CASE c_run' = Channel!NoRun
  BY <1>1, NoRunFacts
<1>2. CASE Channel!Begin(Channel!Event)
  BY <1>2, BeginFacts, NoRunFacts
<1> QED
  BY <1>1, <1>2 DEF Channel!Proceed

\* The run becomes that of an event, or ends.
LEMMA EventRunKeepsInv ==
  ASSUME Inv, UNCHANGED <<c_posted, c_inbox, c_up, c_known, c_log, c_context, c_file, c_answered,
                          c_repeated>>,
         c_up # "down", c_run' \in Runs, c_run'.pc \in {"idle", "typing"},
         c_run'.ts = Channel!Event, c_run'.logged = {}
  PROVE  Inv'
<1>1. Grows /\ Posted' = Posted
  BY NothingPosted
<1>2. Types /\ Types'
  BY <1>1 DEF Inv, Types
<1>3. RunIsLogged'
  BY DEF RunIsLogged
<1>4. \A x, n : Lines(x, n) \subseteq Lines(x, n)'
  BY <1>1, <1>2, GrowthFacts
<1>5. Pending' \cap Posted' = {}
  BY <1>1, <1>2, PostedFacts DEF Pending
<1>6. \A x, n : Lines(x, n)' \subseteq Posted'
  BY DEF Lines
<1>7. \A x \in Texts \ Excepted', n \in Channel!LogNames :
        Lines(x, n) \ Pending \subseteq Lines(x, n)' \ Pending'
  BY <1>4, <1>5, <1>6
<1> QED
  BY <1>1, <1>2, <1>3, <1>7, QuietStep

LEMMA EnqueueEventKeepsInv ==
  ASSUME Inv, Channel!EnqueueEvent
  PROVE  Inv'
<1>1. /\ c_up # "down"
      /\ UNCHANGED <<c_posted, c_inbox, c_up, c_known, c_log, c_context, c_file, c_answered,
                     c_repeated>>
  BY DEF Channel!EnqueueEvent
<1>2. CASE Channel!Begin(Channel!Event)
  <2>1. c_run' \in Runs /\ c_run'.pc = "typing" /\ c_run'.ts = Channel!Event /\ c_run'.logged = {}
    BY <1>2, BeginFacts, NoRunFacts
  <2> QED BY <1>1, <2>1, EventRunKeepsInv
<1>3. CASE UNCHANGED c_run
  <2>1. Grows /\ Posted' = Posted
    BY <1>1, NothingPosted
  <2>2. Types'
    BY <1>1, <1>3, <2>1 DEF Inv, Types
  <2> QED BY <1>1, <1>3, <2>1, <2>2, RunUntouched
<1> QED
  BY <1>2, <1>3 DEF Channel!EnqueueEvent

LEMMA RunFailsKeepsInv ==
  ASSUME Inv, Channel!RunFails
  PROVE  Inv'
<1>1. /\ c_run.pc # "idle" /\ Channel!Proceed
      /\ UNCHANGED <<c_posted, c_inbox, c_up, c_known, c_log, c_context, c_file, c_answered,
                     c_repeated>>
  BY DEF Channel!RunFails
<1>2. c_up # "down"
  BY <1>1 DEF Inv, FileIsBehind
<1>3. /\ c_run' \in Runs /\ c_run'.pc \in {"idle", "typing"}
      /\ c_run'.ts = Channel!Event /\ c_run'.logged = {}
  BY <1>1, ProceedFacts
<1> QED
  BY <1>1, <1>2, <1>3, EventRunKeepsInv

-----------------------------------------------------------------------------
\* A message is logged, and may start a run.
LEMMA DeliverKeepsInv ==
  ASSUME Inv, NEW t \in c_inbox, Channel!Deliver(t)
  PROVE  Inv'
<1> DEFINE line == <<t, Channel!LogName(Text(t))>>
           starts == c_posted[t].kind = "ask" /\ t > c_startup /\ c_run.pc = "idle"
<1>1. /\ c_up # "down" /\ c_log' = c_log \cup {line} /\ c_inbox' \subseteq c_inbox
      /\ UNCHANGED <<c_posted, c_up, c_known, c_context, c_file, c_answered>>
  BY DEF Channel!Deliver, Text
<1>2. Grows /\ Posted' = Posted
  BY <1>1, NothingPosted
<1>3. Types /\ t \in Posted
  BY DEF Inv, Types
<1>4. line \in Posted \X Channel!LogNames
  BY <1>3, NamesFacts
<1>5. c_run' \in Runs /\ c_repeated' \subseteq Posted /\ c_repeated \subseteq c_repeated'
  <2>1. CASE starts
    <3>1. t \in Nat
      BY <1>3, PostedFacts
    <3>2. c_run' \in Runs
      BY <2>1, <3>1, BeginFacts DEF Channel!Deliver
    <3>3. c_repeated' = c_repeated \/ c_repeated' = c_repeated \cup {t}
      BY <2>1 DEF Channel!Deliver
    <3> QED BY <1>3, <3>2, <3>3 DEF Types
  <2>2. CASE ~starts
    BY <1>3, <2>2 DEF Channel!Deliver, Types
  <2> QED BY <2>1, <2>2
<1>6. Types'
  BY <1>1, <1>2, <1>3, <1>4, <1>5 DEF Types
<1>7. \A x, n : Lines(x, n) \subseteq Lines(x, n)'
  BY <1>2, <1>3, GrowthFacts
<1>8. \A u \in Posted : (Human(u)' <=> Human(u)) /\ Text(u)' = Text(u)
  BY <1>2, <1>3, GrowthFacts
<1>9. CASE ~starts
  <2>1. c_run' = c_run /\ c_repeated' = c_repeated
    BY <1>9 DEF Channel!Deliver
  <2> QED BY <1>1, <1>2, <1>6, <2>1, RunUntouched
<1>10. CASE starts
  <2>1. /\ c_run'.pc = "typing" /\ c_run'.ts = t /\ c_run'.logged = {}
        /\ c_repeated' = IF t \in Channel!Logged(c_log) THEN c_repeated \cup {t} ELSE c_repeated
    <3>1. t \in Nat
      BY <1>3, PostedFacts
    <3> QED BY <1>10, <3>1, BeginFacts DEF Channel!Deliver
  <2>2. c_run.pc = "idle" /\ Pending = {} /\ Pending' = {t}
    BY <1>10, <2>1 DEF Pending
  <2>3. RunIsLogged'
    <3>1. Human(t)
      BY <1>10 DEF Human, Channel!Human
    <3>2. Human(t)' /\ Text(t)' = Text(t) /\ t \in Posted'
      BY <1>2, <1>3, <1>8, <3>1
    <3>3. <<t, Channel!LogName(Text(t))'>> \in c_log'
      BY <1>1, <3>2 DEF Channel!LogName
    <3> QED BY <2>1, <3>2, <3>3 DEF RunIsLogged, Human, Text
  <2>4. \A x \in Texts \ Excepted', n \in Channel!LogNames :
          Lines(x, n) \ Pending \subseteq Lines(x, n)' \ Pending'
    <3> SUFFICES ASSUME NEW x \in Texts \ Excepted', NEW n \in Channel!LogNames
                 PROVE  t \notin Lines(x, n)
      BY <1>7, <2>2
    <3>1. CASE t \in Channel!Logged(c_log)
      <4>1. t \in c_repeated'
        BY <2>1, <3>1
      <4>2. Text(t)' \in Excepted'
        BY <4>1 DEF Excepted, Text
      <4>3. Text(t) # x
        BY <1>3, <1>8, <4>2
      <4> QED BY <4>3 DEF Lines
    <3>2. CASE t \notin Channel!Logged(c_log)
      BY <1>3, <3>2, LoggedFacts DEF Lines
    <3> QED BY <3>1, <3>2
  <2> QED BY <1>1, <1>2, <1>5, <1>6, <2>1, <2>3, <2>4, QuietStep
<1> QED
  BY <1>9, <1>10

-----------------------------------------------------------------------------
\* A restart: the context is lost with the process, and read from the file again.
LEMMA LinesAreFinite ==
  ASSUME Types, NEW x, NEW n, NEW P
  PROVE  Cardinality(Lines(x, n) \ P) \in Nat
<1>1. Lines(x, n) \ P \subseteq Posted
  BY DEF Lines
<1>2. IsFiniteSet(Posted)
  BY PostedFacts
<1> QED
  BY <1>1, <1>2, FS_Subset, FS_CardinalityType

LEMMA CrashKeepsInv ==
  ASSUME Inv, Channel!Crash
  PROVE  Inv'
<1>1. /\ c_up' = "down" /\ c_run' = Channel!NoRun /\ c_context' = Channel!NoContext
      /\ UNCHANGED <<c_posted, c_inbox, c_known, c_log, c_file, c_answered, c_repeated>>
  BY DEF Channel!Crash
<1>2. Grows /\ Posted' = Posted
  BY <1>1, NothingPosted
<1>3. Types'
  BY <1>1, <1>2, NoRunFacts, NoContextFacts DEF Inv, Types
<1>4. Pending' = {}
  BY <1>1, NoRunFacts DEF Pending
<1>5. Roomy(c_context, Pending)'
  <2>1. PICK P : P = Pending'
    OBVIOUS
  <2>2. \A x, n : Lines(x, n)' = Lines(x, n)
    BY <1>1 DEF Lines, Human, Text, Channel!Human, Channel!Text, Posted
  <2>3. \A x, n : Cardinality(Lines(x, n) \ P) \in Nat
    BY LinesAreFinite DEF Inv
  <2>4. PICK c \in Contexts : c = c_context' /\ \A x \in Texts, n \in Channel!LogNames : c.of[x][n] = 0
    BY <1>1, NoContextFacts, NamesFacts
  <2>5. \A x \in Texts \ Excepted', n \in Channel!LogNames : c.of[x][n] <= Cardinality(Lines(x, n)' \ P)
    BY <2>2, <2>3, <2>4
  <2>6. c_context' = c
    BY <2>4
  <2> QED BY <2>1, <2>5, <2>6, Zenon DEF Roomy
<1>6. Roomy(c_file, {})'
  BY <1>1 DEF Inv, Roomy, Lines, Human, Text, Channel!Human, Channel!Text, Excepted, Posted
<1>7. RunIsLogged' /\ FileIsBehind' /\ RunHasSynced'
  BY <1>1, NoRunFacts DEF RunIsLogged, FileIsBehind, RunHasSynced
<1>8. AnsweredIsKept'
  BY <1>1 DEF Inv, AnsweredIsKept, Has, Human, Text, Channel!Human, Channel!Text
<1> QED
  BY <1>3, <1>5, <1>6, <1>7, <1>8 DEF Inv

LEMMA LaunchKeepsInv ==
  ASSUME Inv, Channel!Launch
  PROVE  Inv'
<1>1. /\ c_up = "down" /\ c_up' = "fetching" /\ c_context' = c_file
      /\ UNCHANGED <<c_posted, c_inbox, c_log, c_file, c_run, c_answered, c_repeated>>
  BY DEF Channel!Launch
<1>2. Grows /\ Posted' = Posted
  BY <1>1, NothingPosted
<1>3. Types /\ c_run.pc = "idle" /\ c_run.ts = Channel!Event /\ Pending = {}
  BY <1>1 DEF Inv, FileIsBehind, RunIsLogged, Pending
<1>4. Types'
  <2>1. \A t \in Posted : Channel!Text(t) \in Texts
    BY <1>3, PostedFacts DEF Text
  <2>2. c_known' \subseteq Texts
    BY <1>3, <2>1 DEF Channel!Launch, Types, Posted
  <2> QED BY <1>1, <1>2, <1>3, <2>2 DEF Types
<1>5. Roomy(c_context, Pending)' /\ Roomy(c_file, {})'
  BY <1>1, <1>3 DEF Inv, Roomy, Lines, Human, Text, Channel!Human, Channel!Text, Excepted, Posted,
                    Pending
<1>6. RunIsLogged' /\ RunHasSynced'
  BY <1>1, <1>3 DEF Inv, RunIsLogged, RunHasSynced
<1>7. FileIsBehind'
  BY <1>1, <1>3 DEF FileIsBehind, Has
<1>8. AnsweredIsKept'
  BY <1>1 DEF Inv, AnsweredIsKept, Has, Human, Text, Channel!Human, Channel!Text
<1> QED
  BY <1>4, <1>5, <1>6, <1>7, <1>8 DEF Inv

-----------------------------------------------------------------------------
\* A run adds to the context, and to the file if there is an answer. What has room before
\* the step has it afterwards.
LEMMA ExtendKeeps ==
  ASSUME Inv, Types', Grows, UNCHANGED <<c_repeated, c_up>>, c_run.pc # "idle",
         NEW c \in Contexts, Channel!Extend(c),
         \A x \in Texts : Has(c_context, x) => Has(c, x),
         NEW P, Roomy(c, P),
         \A x, n : Lines(x, n) \ P \subseteq Lines(x, n)' \ Pending'
  PROVE  /\ Roomy(c_context, Pending)' /\ Roomy(c_file, {})' /\ FileIsBehind'
         /\ c_context' = c /\ (c.answer => c_file' = c)
         /\ \A x \in Texts : Has(c_file, x) => Has(c_file', x)
<1>1. Types /\ Excepted \subseteq Excepted' /\ c_up # "down" /\ c_up' # "down"
  BY ExceptedGrow DEF Inv, FileIsBehind
<1>2. c_context' = c /\ c_file' = IF c.answer THEN c ELSE c_file
  BY DEF Channel!Extend, Channel!Written
<1>3. Roomy(c_context, Pending)'
  <2>1. PICK Q : Q = Pending'
    OBVIOUS
  <2>2. \A x \in Texts \ Excepted', n \in Channel!LogNames : Lines(x, n) \ P \subseteq Lines(x, n)' \ Q
    BY <2>1
  <2>3. \A x \in Texts \ Excepted', n \in Channel!LogNames : c.of[x][n] <= Cardinality(Lines(x, n)' \ Q)
    BY <1>1, <2>2, RoomKept
  <2>4. c_context' = c
    BY <1>2
  <2> QED BY <2>1, <2>3, <2>4, Zenon DEF Roomy
<1>4. \A x, n : Lines(x, n) \subseteq Lines(x, n)'
  BY <1>1, GrowthFacts
<1>5. Roomy(c_file, {})'
  <2>1. CASE c.answer
    <3>1. \A x, n : Lines(x, n) \ P \subseteq Lines(x, n)' \ {}
      BY <1>4
    <3>2. \A x \in Texts \ Excepted', n \in Channel!LogNames :
            c.of[x][n] <= Cardinality(Lines(x, n)' \ {})
      BY <1>1, <3>1, RoomKept
    <3> QED BY <1>2, <2>1, <3>2 DEF Roomy
  <2>2. CASE ~c.answer
    <3>1. c_file \in Contexts /\ Roomy(c_file, {}) /\ c_file' = c_file
      BY <1>1, <1>2, <2>2 DEF Inv, Types
    <3>2. \A x, n : Lines(x, n) \ {} \subseteq Lines(x, n)' \ {}
      BY <1>4
    <3>3. \A x \in Texts \ Excepted', n \in Channel!LogNames :
            c_file.of[x][n] <= Cardinality(Lines(x, n)' \ {})
      BY <1>1, <3>1, <3>2, RoomKept
    <3> QED BY <3>1, <3>3 DEF Roomy
  <2> QED BY <2>1, <2>2
<1>6. \A x \in Texts : Has(c_file, x) => Has(c, x)
  BY <1>1 DEF Inv, FileIsBehind
<1>7. \A x \in Texts : Has(c_file, x) => Has(c_file', x)
  BY <1>2, <1>6 DEF Has
<1>8. \A x \in Texts : Has(c_file', x) => Has(c, x)
  BY <1>2, <1>6 DEF Has
<1>9. FileIsBehind'
  BY <1>1, <1>2, <1>8 DEF FileIsBehind, Has
<1> QED
  BY <1>2, <1>3, <1>5, <1>7, <1>9

-----------------------------------------------------------------------------
LEMMA RunSyncsKeepsInv ==
  ASSUME Inv, Channel!RunSyncs
  PROVE  Inv'
<1> DEFINE of == [x \in Texts |-> [n \in Channel!Authors |-> Channel!Synced(x, n)]]
           c == [c_context EXCEPT !.of = of]
<1>1. /\ c_run.pc = "typing" /\ Channel!Extend(c)
      /\ c_run' = [c_run EXCEPT !.pc = "prompting", !.logged = Channel!Logged(c_log)]
      /\ UNCHANGED <<c_posted, c_inbox, c_up, c_known, c_log, c_answered, c_repeated>>
  BY DEF Channel!RunSyncs
<1>2. Grows /\ Posted' = Posted
  BY <1>1, NothingPosted
<1>3. Types /\ c_run \in Runs /\ c_context \in Contexts
  BY DEF Inv, Types
<1>4. /\ c_run' \in Runs /\ c_run'.pc = "prompting" /\ c_run'.ts = c_run.ts
      /\ c_run'.logged = Channel!Logged(c_log) /\ Channel!Logged(c_log) \subseteq Posted
  BY <1>1, <1>3, LoggedFacts, PostedFacts DEF Runs
<1>5. \A x \in Texts, n \in Channel!Authors : Channel!Synced(x, n) \in Nat
  BY <1>3, ContextFacts DEF Channel!Synced
<1>6. c \in Contexts /\ c.of = of
  BY <1>3, <1>5 DEF Contexts
<1>7. \A x \in Texts, n \in Channel!Authors : c.of[x][n] = Channel!Synced(x, n)
  BY <1>6
<1>8. \A x \in Texts : Has(c_context, x) => Has(c, x)
  <2>1. \A x \in Texts, n \in Channel!Authors : c_context.of[x][n] # 0 => c.of[x][n] # 0
    BY <1>7 DEF Channel!Synced
  <2> HIDE DEF c
  <2> QED BY <2>1 DEF Has
<1>9. Pending = {c_run.ts} /\ Pending' = {c_run.ts}
  BY <1>1, <1>4 DEF Pending
<1>10. Types'
  <2>1. c_file' \in Contexts /\ c_context' \in Contexts
    BY <1>1, <1>3, <1>6 DEF Channel!Extend, Channel!Written, Types
  <2> QED BY <1>1, <1>2, <1>3, <1>4, <2>1 DEF Types
<1>11. Roomy(c, {c_run.ts})
  <2> SUFFICES ASSUME NEW x \in Texts \ Excepted, NEW n \in Channel!LogNames
               PROVE  c.of[x][n] <= Cardinality(Lines(x, n) \ {c_run.ts})
    BY DEF Roomy
  <2>1. c.of[x][n] = Channel!Synced(x, n)
    BY <1>7, NamesFacts
  <2>2. CASE Channel!Missing(x, n)
    <3>1. PICK t \in Channel!Logged(c_log) :
            t # c_run.ts /\ <<t, n>> \in c_log /\ Human(t) /\ Text(t) = x
      BY <2>2 DEF Channel!Missing, Human, Text
    <3>2. PICK S : S = Lines(x, n) \ {c_run.ts}
      OBVIOUS
    <3>3. t \in S
      BY <1>4, <3>1, <3>2 DEF Lines
    <3>4. IsFiniteSet(S)
      <4>1. Lines(x, n) \subseteq Posted
        BY DEF Lines
      <4>2. S \subseteq Posted /\ IsFiniteSet(Posted)
        BY <1>3, <3>2, <4>1, PostedFacts
      <4> QED BY <4>2, FS_Subset
    <3>5. Cardinality(S) \in Nat /\ Cardinality(S) # 0
      BY <3>3, <3>4, FS_CardinalityType, FS_EmptySet
    <3>6. Channel!Synced(x, n) = 1
      BY <2>2 DEF Channel!Synced
    <3> QED BY <2>1, <3>2, <3>5, <3>6
  <2>3. CASE ~Channel!Missing(x, n)
    <3>1. Channel!Synced(x, n) = c_context.of[x][n]
      BY <2>3 DEF Channel!Synced
    <3>2. PICK P : P = Pending
      OBVIOUS
    <3>3. Roomy(c_context, P)
      BY <3>2 DEF Inv
    <3>4. c_context.of[x][n] <= Cardinality(Lines(x, n) \ P)
      BY <3>3 DEF Roomy
    <3> QED BY <1>9, <2>1, <3>1, <3>2, <3>4
  <2> QED BY <2>2, <2>3
<1>12. \A x, n : Lines(x, n) \ {c_run.ts} \subseteq Lines(x, n)' \ Pending'
  BY <1>2, <1>3, <1>9, GrowthFacts
<1> HIDE DEF c
<1>13. /\ Roomy(c_context, Pending)' /\ Roomy(c_file, {})' /\ FileIsBehind' /\ c_context' = c
       /\ \A x \in Texts : Has(c_file, x) => Has(c_file', x)
  <2>1. PICK P : P = {c_run.ts}
    OBVIOUS
  <2>2. Roomy(c, P) /\ \A x, n : Lines(x, n) \ P \subseteq Lines(x, n)' \ Pending'
    BY <1>11, <1>12, <2>1
  <2>3. c_run.pc # "idle" /\ UNCHANGED <<c_repeated, c_up>> /\ Channel!Extend(c)
    BY <1>1
  <2> QED BY <1>2, <1>6, <1>8, <1>10, <2>2, <2>3, ExtendKeeps
<1>14. RunIsLogged'
  <2>1. c_run.ts # Channel!Event =>
          /\ c_run.ts \in Posted /\ Human(c_run.ts)
          /\ <<c_run.ts, Channel!LogName(Text(c_run.ts))>> \in c_log
    BY DEF Inv, RunIsLogged
  <2>2. /\ c_run'.pc # "idle" /\ c_run'.ts = c_run.ts
        /\ UNCHANGED <<c_posted, c_log, c_known>>
    BY <1>1, <1>4
  <2> QED BY <1>2, <2>1, <2>2
         DEF RunIsLogged, Human, Text, Channel!Human, Channel!Text, Channel!LogName
<1>15. \A t \in Posted : (Human(t)' <=> Human(t)) /\ Text(t)' = Text(t)
  BY <1>2, <1>3, GrowthFacts
<1>16. RunHasSynced'
  <2>1. \A t \in Channel!Logged(c_log) : Human(t) => Has(c, Text(t)) \/ t = c_run.ts
    <3> SUFFICES ASSUME NEW t \in Channel!Logged(c_log), Human(t), t # c_run.ts
                 PROVE  Has(c, Text(t))
      OBVIOUS
    <3>1. PICK n \in Channel!LogNames : <<t, n>> \in c_log
      BY <1>3, LoggedFacts
    <3>2. PICK x \in Texts : x = Text(t)
      BY <1>3, <1>4, PostedFacts
    <3>3. Channel!Missing(x, n) \/ c_context.of[x][n] # 0
      BY <3>1, <3>2 DEF Channel!Missing, Human, Text
    <3>4. Channel!Synced(x, n) # 0
      BY <3>3 DEF Channel!Synced
    <3>5. n \in Channel!Authors /\ c.of[x][n] # 0
      BY <1>7, <3>4, NamesFacts
    <3> QED BY <3>2, <3>5 DEF Has
  <2>2. \A t \in c_run'.logged : Human(t)' => Has(c_context', Text(t)') \/ t = c_run'.ts
    BY <1>4, <1>13, <1>15, <2>1
  <2>3. c_run'.logged \subseteq Posted'
    BY <1>2, <1>4
  <2> QED BY <1>4, <2>2, <2>3 DEF RunHasSynced, Has
<1>17. AnsweredIsKept'
  <2>1. \A t \in c_answered : Human(t)' => Has(c_file', Text(t)')
    BY <1>3, <1>13, <1>15, PostedFacts DEF Inv, AnsweredIsKept, Types
  <2> QED BY <1>1, <2>1 DEF AnsweredIsKept, Has
<1> QED
  BY <1>10, <1>13, <1>14, <1>16, <1>17 DEF Inv

-----------------------------------------------------------------------------
LEMMA AddFacts ==
  ASSUME NEW c \in Contexts, NEW x \in Texts, NEW n \in Channel!Authors
  PROVE  /\ Channel!Add(c, x, n) \in Contexts
         /\ \A y \in Texts, m \in Channel!Authors :
              Channel!Add(c, x, n).of[y][m] = IF y = x /\ m = n THEN c.of[y][m] + 1 ELSE c.of[y][m]
<1>1. c.of \in [Texts -> [Channel!Authors -> Nat]] /\ c.of[x] \in [Channel!Authors -> Nat]
      /\ c.of[x][n] \in Nat
  BY ContextFacts
<1>2. Channel!Add(c, x, n) = [c EXCEPT !.of = [c.of EXCEPT ![x] = [c.of[x] EXCEPT ![n] = c.of[x][n] + 1]]]
  BY DEF Channel!Add, Contexts
<1>3. Channel!Add(c, x, n).of = [c.of EXCEPT ![x] = [c.of[x] EXCEPT ![n] = c.of[x][n] + 1]]
  BY <1>2 DEF Contexts
<1>4. Channel!Add(c, x, n).of \in [Texts -> [Channel!Authors -> Nat]]
  BY <1>1, <1>3
<1>5. Channel!Add(c, x, n) \in Contexts
  BY <1>2, <1>3, <1>4 DEF Contexts
<1>6. \A y \in Texts, m \in Channel!Authors :
         Channel!Add(c, x, n).of[y][m] = IF y = x /\ m = n THEN c.of[y][m] + 1 ELSE c.of[y][m]
  BY <1>1, <1>3
<1> QED
  BY <1>5, <1>6

LEMMA RunPromptsKeepsInv ==
  ASSUME Inv, Channel!RunPrompts
  PROVE  Inv'
<1> DEFINE ts == c_run.ts
           c == IF ts = Channel!Event THEN c_context
                ELSE Channel!Add(c_context, Text(ts), Channel!PromptName(Text(ts)))
<1>1. /\ c_run.pc = "prompting" /\ Channel!Extend(c)
      /\ c_run' = [c_run EXCEPT !.pc = "answering"]
      /\ UNCHANGED <<c_posted, c_inbox, c_up, c_known, c_log, c_answered, c_repeated>>
  BY DEF Channel!RunPrompts, Text
<1>2. Grows /\ Posted' = Posted
  BY <1>1, NothingPosted
<1>3. Types /\ c_run \in Runs /\ c_context \in Contexts
  BY DEF Inv, Types
<1>4. /\ c_run' \in Runs /\ c_run'.pc = "answering" /\ c_run'.ts = ts
      /\ c_run'.logged = c_run.logged /\ c_run.logged \subseteq Posted
  BY <1>1, <1>3 DEF Runs, Inv, RunHasSynced
<1>5. ts # Channel!Event =>
        /\ ts \in Posted /\ Human(ts) /\ Text(ts) \in Texts
        /\ <<ts, Channel!LogName(Text(ts))>> \in c_log
  BY <1>3, PostedFacts DEF Inv, RunIsLogged
<1>6. c \in Contexts
  BY <1>3, <1>5, AddFacts, NamesFacts
<1>7. \A x \in Texts, n \in Channel!Authors : c_context.of[x][n] # 0 => c.of[x][n] # 0
  <2>1. CASE ts = Channel!Event
    BY <2>1
  <2>2. CASE ts # Channel!Event
    <3>1. \A x \in Texts, n \in Channel!Authors :
            /\ c_context.of[x][n] \in Nat
            /\ c.of[x][n] = c_context.of[x][n] \/ c.of[x][n] = c_context.of[x][n] + 1
      BY <1>3, <1>5, <2>2, AddFacts, ContextFacts, NamesFacts
    <3> HIDE DEF c
    <3> QED BY <3>1
  <2> QED BY <2>1, <2>2
<1>8. \A x \in Texts : Has(c_context, x) => Has(c, x)
  <2> HIDE DEF c
  <2> QED BY <1>7 DEF Has
<1>9. Pending = {ts} /\ Pending' = {}
  BY <1>1, <1>4 DEF Pending
<1>10. Types'
  <2>1. c_file' \in Contexts /\ c_context' \in Contexts
    BY <1>1, <1>3, <1>6 DEF Channel!Extend, Channel!Written, Types
  <2> QED BY <1>1, <1>2, <1>3, <1>4, <2>1 DEF Types
<1>11. Roomy(c, {})
  <2> SUFFICES ASSUME NEW x \in Texts \ Excepted, NEW n \in Channel!LogNames
               PROVE  c.of[x][n] <= Cardinality(Lines(x, n) \ {})
    BY DEF Roomy
  <2>1. PICK T : T = Lines(x, n)
    OBVIOUS
  <2>2. IsFiniteSet(T) /\ Lines(x, n) \ {} = T
    <3>1. T \subseteq Posted
      BY <2>1 DEF Lines
    <3> QED BY <1>3, <2>1, <3>1, PostedFacts, FS_Subset
  <2>3. c_context.of[x][n] <= Cardinality(T \ {ts})
    <3>1. PICK P : P = Pending
      OBVIOUS
    <3>2. Roomy(c_context, P)
      BY <3>1 DEF Inv
    <3>3. c_context.of[x][n] <= Cardinality(Lines(x, n) \ P)
      BY <3>2 DEF Roomy
    <3> QED BY <1>9, <2>1, <3>1, <3>3
  <2>4. /\ Cardinality(T) \in Nat /\ Cardinality(T \ {ts}) \in Nat
        /\ Cardinality(T \ {ts}) = IF ts \in T THEN Cardinality(T) - 1 ELSE Cardinality(T)
    BY <2>2, FS_CardinalityType, FS_RemoveElement
  <2>5. c_context.of[x][n] \in Nat
    BY <1>3, ContextFacts, NamesFacts
  <2>6. CASE ts = Channel!Event \/ x # Text(ts) \/ n # Channel!PromptName(Text(ts))
    <3>1. c.of[x][n] = c_context.of[x][n]
      <4>1. CASE ts = Channel!Event
        BY <4>1
      <4>2. CASE ts # Channel!Event
        <5>1. PICK y \in Texts, m \in Channel!Authors : y = Text(ts) /\ m = Channel!PromptName(Text(ts))
          BY <1>5, <4>2, NamesFacts
        <5>2. c = Channel!Add(c_context, y, m)
          BY <4>2, <5>1
        <5>3. ~(x = y /\ n = m) /\ n \in Channel!Authors
          BY <2>6, <4>2, <5>1, NamesFacts
        <5> HIDE DEF c
        <5> QED BY <1>3, <5>2, <5>3, AddFacts
      <4> QED BY <4>1, <4>2
    <3> QED BY <2>2, <2>3, <2>4, <2>5, <3>1
  <2>7. CASE ts # Channel!Event /\ x = Text(ts) /\ n = Channel!PromptName(Text(ts))
    <3>1. c.of[x][n] = c_context.of[x][n] + 1
      BY <1>3, <1>5, <2>7, AddFacts, NamesFacts
    <3>2. n = Channel!LogName(Text(ts))
      BY <2>7, NamesFacts
    <3>3. ts \in T
      BY <1>5, <2>1, <2>7, <3>2 DEF Lines
    <3> QED BY <2>2, <2>3, <2>4, <2>5, <3>1, <3>3
  <2> QED BY <2>6, <2>7
<1>12. \A x, n : Lines(x, n) \ {} \subseteq Lines(x, n)' \ Pending'
  BY <1>2, <1>3, <1>9, GrowthFacts
<1>13. /\ Roomy(c_context, Pending)' /\ Roomy(c_file, {})' /\ FileIsBehind' /\ c_context' = c
       /\ \A x \in Texts : Has(c_file, x) => Has(c_file', x)
  <2>1. PICK P : P = {}
    OBVIOUS
  <2>2. PICK d \in Contexts : d = c
    BY <1>6
  <2>3. Roomy(d, P) /\ \A x, n : Lines(x, n) \ P \subseteq Lines(x, n)' \ Pending'
    BY <1>11, <1>12, <2>1, <2>2
  <2>4. /\ c_run.pc # "idle" /\ UNCHANGED <<c_repeated, c_up>> /\ Channel!Extend(d)
        /\ \A x \in Texts : Has(c_context, x) => Has(d, x)
    BY <1>1, <1>8, <2>2
  <2>5. /\ Roomy(c_context, Pending)' /\ Roomy(c_file, {})' /\ FileIsBehind' /\ c_context' = d
        /\ \A x \in Texts : Has(c_file, x) => Has(c_file', x)
    BY <1>2, <1>10, <2>3, <2>4, ExtendKeeps
  <2> QED BY <2>2, <2>5
<1>14. RunIsLogged'
  <2>1. /\ c_run'.pc # "idle" /\ c_run'.ts = ts
        /\ UNCHANGED <<c_posted, c_log, c_known>>
    BY <1>1, <1>4
  <2> QED BY <1>2, <1>5, <2>1
         DEF RunIsLogged, Human, Text, Channel!Human, Channel!Text, Channel!LogName
<1>15. \A t \in Posted : (Human(t)' <=> Human(t)) /\ Text(t)' = Text(t)
  BY <1>2, <1>3, GrowthFacts
<1>16. RunHasSynced'
  <2>1. \A t \in c_run.logged : Human(t) => Has(c, Text(t))
    <3> SUFFICES ASSUME NEW t \in c_run.logged, Human(t)
                 PROVE  Has(c, Text(t))
      OBVIOUS
    <3>1. PICK x \in Texts : x = Text(t)
      BY <1>3, <1>4, PostedFacts
    <3>2. Has(c_context, x) \/ t = ts
      BY <1>1, <3>1 DEF Inv, RunHasSynced
    <3>3. CASE Has(c_context, x)
      BY <1>8, <3>1, <3>3
    <3>4. CASE t = ts
      <4>1. ts # Channel!Event
        BY <1>3, <1>4, <3>4, PostedFacts
      <4>2. PICK n \in Channel!Authors : n = Channel!PromptName(x)
        BY NamesFacts
      <4>3. c.of[x][n] = c_context.of[x][n] + 1
        BY <1>3, <3>1, <3>4, <4>1, <4>2, AddFacts
      <4>4. c_context.of[x][n] \in Nat
        BY <1>3, ContextFacts
      <4>5. c.of[x][n] # 0
        BY <4>3, <4>4
      <4> HIDE DEF c
      <4> QED BY <3>1, <4>5 DEF Has
    <3> QED BY <3>2, <3>3, <3>4
  <2> HIDE DEF c
  <2>2. \A t \in c_run'.logged : Human(t)' => Has(c_context', Text(t)')
    BY <1>4, <1>13, <1>15, <2>1
  <2>3. c_run'.logged \subseteq Posted'
    BY <1>2, <1>4
  <2> QED BY <1>4, <2>2, <2>3 DEF RunHasSynced, Has
<1>17. AnsweredIsKept'
  <2>1. \A t \in c_answered : Human(t)' => Has(c_file', Text(t)')
    BY <1>3, <1>13, <1>15, PostedFacts DEF Inv, AnsweredIsKept, Types
  <2> QED BY <1>1, <2>1 DEF AnsweredIsKept, Has
<1> HIDE DEF c, ts
<1> QED
  BY <1>10, <1>13, <1>14, <1>16, <1>17 DEF Inv

-----------------------------------------------------------------------------
\* What Extend writes when there is an answer, and what the bot says besides.
LEMMA AnswerEffect ==
  ASSUME Inv, Channel!RunAnswers
  PROVE  Types' /\ Grows /\ \A x, n : Lines(x, n) \subseteq Lines(x, n)'
<1> DEFINE bot == Channel!Message("bot", CHOOSE x \in Texts : TRUE)
<1>0. Types /\ c_run.logged \subseteq Posted
  BY DEF Inv, RunHasSynced
<1>1. UNCHANGED <<c_inbox, c_up, c_known, c_repeated>>
  BY DEF Channel!RunAnswers
<1>2. bot \in Messages
  BY TextsAssumption DEF Channel!Message, Messages
<1>3. \/ c_posted' = Append(c_posted, bot) /\ c_log' = c_log \cup {<<Len(c_posted) + 1, "name">>}
      \/ UNCHANGED <<c_posted, c_log>>
  BY DEF Channel!RunAnswers
<1> HIDE DEF bot
<1>4. /\ c_posted' \in Seq(Messages) /\ Posted \subseteq Posted'
      /\ \A t \in Posted : c_posted'[t] = c_posted[t]
      /\ c_log \subseteq c_log' /\ c_log' \in SUBSET (Posted' \X Channel!LogNames)
  <2>1. CASE UNCHANGED <<c_posted, c_log>>
    BY <1>0, <2>1 DEF Types, Posted
  <2>2. CASE c_posted' = Append(c_posted, bot) /\ c_log' = c_log \cup {<<Len(c_posted) + 1, "name">>}
    <3>1. /\ c_posted' \in Seq(Messages) /\ Len(c_posted) + 1 \in Posted'
          /\ Posted \subseteq Posted' /\ \A t \in Posted : c_posted'[t] = c_posted[t]
      BY <1>0, <1>2, <2>2, PostingEffect
    <3>2. <<Len(c_posted) + 1, "name">> \in Posted' \X Channel!LogNames
      BY <3>1, NamesFacts
    <3> QED BY <1>0, <2>2, <3>1, <3>2 DEF Types
  <2> QED BY <1>3, <2>1, <2>2
<1>5. Grows
  BY <1>4 DEF Grows
<1>6. c_context' \in Contexts /\ c_file' \in Contexts
  BY <1>0 DEF Channel!RunAnswers, Channel!Extend, Channel!Written, Types, Contexts
<1>7. c_run' \in Runs
  BY ProceedFacts DEF Channel!RunAnswers
<1>8. c_answered' \subseteq Posted
  BY <1>0 DEF Channel!RunAnswers, Types
<1>9. Types'
  <2>1. c_inbox' \in SUBSET Posted' /\ c_repeated' \in SUBSET Posted' /\ c_answered' \in SUBSET Posted'
    BY <1>0, <1>1, <1>4, <1>8 DEF Types
  <2>2. c_known' \in SUBSET Texts
    BY <1>0, <1>1 DEF Types
  <2> QED BY <1>4, <1>6, <1>7, <2>1, <2>2 DEF Types
<1> QED
  BY <1>0, <1>5, <1>9, GrowthFacts

LEMMA RunAnswersKeepsInv ==
  ASSUME Inv, Channel!RunAnswers
  PROVE  Inv'
<1> DEFINE c == [c_context EXCEPT !.answer = TRUE]
<1>1. /\ c_run.pc = "answering" /\ Channel!Extend(c) /\ Channel!Proceed
      /\ c_answered' = c_answered \cup c_run.logged
      /\ UNCHANGED <<c_inbox, c_up, c_known, c_repeated>>
  BY DEF Channel!RunAnswers
<1>2. Types' /\ Grows /\ \A x, n : Lines(x, n) \subseteq Lines(x, n)'
  BY AnswerEffect
<1>3. Types /\ c_context \in Contexts
  BY DEF Inv, Types
<1>4. c \in Contexts /\ c.of = c_context.of /\ c.answer
  BY <1>3 DEF Contexts
<1>5. \A x : Has(c, x) <=> Has(c_context, x)
  BY <1>4 DEF Has
<1>6. /\ c_run'.pc \in {"idle", "typing"} /\ c_run'.ts = Channel!Event /\ c_run'.logged = {}
  BY <1>1, ProceedFacts
<1>7. Pending = {}
  BY <1>1 DEF Pending
<1>8. Roomy(c, {})
  <2>1. Roomy(c_context, {})
    BY <1>7 DEF Inv
  <2> QED BY <1>4, <2>1 DEF Roomy
<1>9. \A x, n : Lines(x, n) \subseteq Posted
  BY DEF Lines
<1>10. \A x, n : Lines(x, n) \ {} \subseteq Lines(x, n)' \ Pending'
  <2>1. Pending' \cap Posted = {}
    BY <1>3, <1>6, PostedFacts DEF Pending
  <2> QED BY <1>2, <1>9, <2>1
<1> HIDE DEF c
<1>11. /\ Roomy(c_context, Pending)' /\ Roomy(c_file, {})' /\ FileIsBehind'
       /\ c_context' = c /\ c_file' = c
  <2>1. PICK P : P = {}
    OBVIOUS
  <2>2. Roomy(c, P) /\ \A x, n : Lines(x, n) \ P \subseteq Lines(x, n)' \ Pending'
    BY <1>8, <1>10, <2>1
  <2>3. /\ c_run.pc # "idle" /\ UNCHANGED <<c_repeated, c_up>>
        /\ \A x \in Texts : Has(c_context, x) => Has(c, x)
    BY <1>1, <1>5
  <2> QED BY <1>1, <1>2, <1>4, <2>2, <2>3, ExtendKeeps
<1>12. RunIsLogged' /\ RunHasSynced'
  BY <1>6 DEF RunIsLogged, RunHasSynced
<1>13. \A t \in Posted : (Human(t)' <=> Human(t)) /\ Text(t)' = Text(t)
  BY <1>2, <1>3, GrowthFacts
<1>14. AnsweredIsKept'
  <2>1. c_run.logged \subseteq Posted /\ c_answered \subseteq Posted
    BY <1>3 DEF Inv, RunHasSynced, Types
  <2>2. \A t \in c_run.logged : Human(t) => Has(c, Text(t))
    BY <1>1, <1>5 DEF Inv, RunHasSynced
  <2>3. \A t \in c_answered : Human(t) => Has(c, Text(t))
    <3>1. c_up # "down"
      BY <1>1 DEF Inv, FileIsBehind
    <3>2. \A x \in Texts : Has(c_file, x) => Has(c, x)
      BY <1>5, <3>1 DEF Inv, FileIsBehind
    <3>3. \A t \in c_answered : Text(t) \in Texts
      BY <1>3, <2>1, PostedFacts
    <3> QED BY <3>2, <3>3 DEF Inv, AnsweredIsKept
  <2>4. \A t \in c_answered' : Human(t)' => Has(c_file', Text(t)')
    BY <1>1, <1>11, <1>13, <2>1, <2>2, <2>3
  <2> QED BY <2>4 DEF AnsweredIsKept, Has
<1> QED
  BY <1>2, <1>11, <1>12, <1>14 DEF Inv

-----------------------------------------------------------------------------
LEMMA NextKeepsInv == Inv /\ [Channel!Next]_(Channel!vars) => Inv'
<1> SUFFICES ASSUME Inv, [Channel!Next]_(Channel!vars)
             PROVE  Inv'
  OBVIOUS
<1>1. ASSUME NEW kind \in {"ask", "chatter"}, NEW x \in Texts, Channel!Post(kind, x) PROVE Inv'
  BY <1>1, PostKeepsInv
<1>2. ASSUME NEW t \in c_inbox, Channel!Deliver(t) \/ Channel!Undeliverable(t) PROVE Inv'
  BY <1>2, DeliverKeepsInv, UndeliverableKeepsInv
<1>3. ASSUME Channel!EnqueueEvent PROVE Inv'
  BY <1>3, EnqueueEventKeepsInv
<1>4. ASSUME Channel!RunSyncs PROVE Inv'
  BY <1>4, RunSyncsKeepsInv
<1>5. ASSUME Channel!RunPrompts PROVE Inv'
  BY <1>5, RunPromptsKeepsInv
<1>6. ASSUME Channel!RunAnswers PROVE Inv'
  BY <1>6, RunAnswersKeepsInv
<1>7. ASSUME Channel!RunFails PROVE Inv'
  BY <1>7, RunFailsKeepsInv
<1>8. ASSUME Channel!Crash PROVE Inv'
  BY <1>8, CrashKeepsInv
<1>9. ASSUME Channel!Launch PROVE Inv'
  BY <1>9, LaunchKeepsInv
<1>10. ASSUME Channel!Backfill PROVE Inv'
  BY <1>10, BackfillKeepsInv
<1>11. ASSUME Channel!RecordStartup PROVE Inv'
  BY <1>11, RecordStartupKeepsInv
<1>12. ASSUME UNCHANGED Channel!vars PROVE Inv'
  BY <1>12, StutterKeepsInv
<1> QED
  BY <1>1, <1>2, <1>3, <1>4, <1>5, <1>6, <1>7, <1>8, <1>9, <1>10, <1>11, <1>12 DEF Channel!Next

LEMMA InvAlways == Channel!Spec => []Inv
  BY InitInv, NextKeepsInv, PTL DEF Channel!Spec

-----------------------------------------------------------------------------
\* context.ts and slack.ts: prompted, synced, backfilled or delivered again, a text is in the
\* context no more often than it was said, over any number of restarts. Excepted are the texts
\* of messages that started a run when they had been logged before.
THEOREM NoMessageTwice == Channel!Spec => []EachMessageOnce
<1>1. ASSUME Inv, NEW x \in Texts \ Excepted, NEW n \in Channel!LogNames
      PROVE  c_context.of[x][n] <= Channel!Cardinality(Lines(x, n))
  <2>0. \A S : Channel!Cardinality(S) = Cardinality(S)
    BY Zenon DEF Channel!Cardinality, Cardinality
  <2>1. PICK P : P = Pending
    OBVIOUS
  <2>2. PICK S : S = Lines(x, n) \ P
    OBVIOUS
  <2>3. PICK T : T = Lines(x, n)
    OBVIOUS
  <2>4. T \subseteq Posted /\ IsFiniteSet(Posted)
    BY <1>1, <2>3, PostedFacts DEF Inv, Lines
  <2>5. IsFiniteSet(T) /\ S \subseteq T
    BY <2>2, <2>3, <2>4, FS_Subset
  <2>6. Cardinality(S) <= Cardinality(T) /\ Cardinality(S) \in Nat /\ Cardinality(T) \in Nat
    BY <2>5, FS_Subset, FS_CardinalityType
  <2>7. Roomy(c_context, P) /\ c_context \in Contexts
    BY <1>1, <2>1 DEF Inv, Types
  <2>8. c_context.of[x][n] <= Cardinality(S)
    BY <2>2, <2>7 DEF Roomy
  <2>9. c_context.of[x][n] \in Nat
    BY <2>7, ContextFacts, NamesFacts
  <2>10. c_context.of[x][n] <= Cardinality(T)
    BY <2>6, <2>8, <2>9
  <2> QED BY <2>0, <2>3, <2>10
<1>2. Inv => EachMessageOnce
  BY <1>1 DEF EachMessageOnce, Channel!EachMessageOnce, Excepted, Lines, Posted, Human, Text
<1> QED BY <1>2, InvAlways, PTL

\* context.ts: what was logged when a run that was answered read the log is in the context
\* file as what was said, over any number of restarts.
THEOREM AnsweredMessagesAreKept == Channel!Spec => []NothingMissed
<1>1. Inv => NothingMissed
  BY DEF Inv, AnsweredIsKept, Has, NothingMissed, Channel!NothingMissed, Human, Text
<1> QED BY <1>1, InvAlways, PTL
=============================================================================
