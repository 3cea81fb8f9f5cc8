---------------------------- MODULE SharedFilesProofs ----------------------------
(***************************************************************************)
(* What is proved about the components of SharedFiles, each by itself.     *)
(***************************************************************************)
EXTENDS SharedFiles, SequenceTheorems, FiniteSetTheorems, TLAPS

-----------------------------------------------------------------------------
(***************************************************************************)
(* The lock of auth.json, for any number of programs: as long as it is not *)
(* taken from a program that is still refreshing, a refresh token is used  *)
(* once and no saved change is undone; the one unless an answer of the     *)
(* provider gets lost, the other unless the file is created over what it   *)
(* has.                                                                    *)
(*                                                                         *)
(* The invariant says what the lock is good for: who refreshes holds it    *)
(* (Exclusive); a token that has been exchanged is in the file only while  *)
(* the one who holds the lock has the answer in hand (Fresh); and the file *)
(* has what was saved, as has what was read from it (Kept).                *)
(***************************************************************************)

Credentials == [oauth : Nat, key : Nat]
Programs == [pc : Places, knows : Nat, loadError : BOOLEAN, read : Credentials, own : BOOLEAN,
             answer : Nat, told : BOOLEAN]
\* The credentials a program knows of have been issued.
Fits(m, n) ==
  /\ m.knows <= n /\ m.read.oauth <= n /\ m.answer <= n
  /\ m.pc = "asking" => m.read.oauth # 0 /\ m.answer = 0
Types ==
  /\ file \in Credentials /\ saved \in Credentials
  /\ inst \in [Instances -> Programs]
  /\ issued \in Nat /\ expired \in 0..issued
  /\ spent \in SUBSET (1..issued)
  /\ file.oauth <= issued
  /\ \A i \in Instances : Fits(inst[i], issued)
  /\ taken \in BOOLEAN /\ lostAnswer \in BOOLEAN /\ wiped \in BOOLEAN

Exclusive == \A i \in Instances : Refreshing(i) => lock = i /\ ~inst[i].told
Fresh ==
  /\ file.oauth \in spent => \E i \in Instances : inst[i].pc = "answered" /\ inst[i].answer # 0
  /\ \A i \in Instances :
       /\ inst[i].pc = "asking" => inst[i].read.oauth \notin spent
       /\ inst[i].pc = "answered" => inst[i].answer \notin spent
Kept ==
  /\ file = saved
  /\ \A i \in Instances : Refreshing(i) /\ ~inst[i].own => inst[i].read.key = saved.key
Sound == Exclusive /\ (~lostAnswer => Fresh) /\ (~wiped => Kept)
Inv == Types /\ (~taken => Sound)

-----------------------------------------------------------------------------
LEMMA SettledType ==
  /\ Settled \in Programs /\ Settled.pc = "idle" /\ Settled.answer = 0 /\ ~Settled.told
  /\ Settled.knows = 0 /\ Settled.read = Empty /\ Empty \in Credentials /\ ~Settled.own
  BY DEF Settled, Programs, Empty, Credentials, Places

LEMMA InitInv == Init => Inv
<1> SUFFICES ASSUME Init PROVE Inv
  OBVIOUS
<1> DEFINE m == [Settled EXCEPT !.pc = "starting"]
<1>1. m \in Programs /\ m.pc = "starting" /\ m.knows = 0 /\ m.read = Empty /\ m.answer = 0
  BY SettledType DEF Programs, Places
<1>2. inst = [i \in Instances |-> m]
  BY DEF Init
<1> HIDE DEF m
<1>3. inst \in [Instances -> Programs] /\ \A i \in Instances : inst[i] = m /\ ~Refreshing(i)
  BY <1>1, <1>2 DEF Refreshing
<1>4. file \in Credentials /\ saved = file /\ issued = file.oauth /\ expired = 0 /\ spent = {}
  BY DEF Init, Empty, Credentials
<1>5. Types
  <2>1. Empty.oauth = 0 /\ issued \in Nat
    BY <1>4 DEF Empty, Credentials
  <2>2. \A i \in Instances : Fits(inst[i], issued)
    BY <1>1, <1>3, <2>1 DEF Fits
  <2>3. taken \in BOOLEAN /\ lostAnswer \in BOOLEAN /\ wiped \in BOOLEAN
    BY DEF Init
  <2> QED
    BY <1>3, <1>4, <2>1, <2>2, <2>3 DEF Types
<1>6. Sound
  BY <1>3, <1>4 DEF Sound, Exclusive, Fresh, Kept
<1> QED
  BY <1>5, <1>6 DEF Inv

\* A free lock, or one nobody is at any more.
LEMMA NobodyRefreshes ==
  ASSUME Nobody \notin Instances, Inv, Takeable, ~TakenOver
  PROVE  /\ ~taken /\ Sound
         /\ \A i \in Instances : ~Refreshing(i)
         /\ ~lostAnswer => file.oauth \notin spent
         /\ ~wiped => file = saved
<1>1. ~taken /\ Sound
  BY DEF TakenOver, Inv
<1>2. ASSUME NEW i \in Instances PROVE ~Refreshing(i)
  <2>1. SUFFICES ASSUME Refreshing(i) PROVE FALSE
    OBVIOUS
  <2>2. lock = i
    BY <1>1, <2>1 DEF Sound, Exclusive
  <2> QED
    BY <2>1, <2>2 DEF TakenOver
<1>3. ~lostAnswer => file.oauth \notin spent
  BY <1>1, <1>2 DEF Sound, Fresh, Refreshing
<1>4. ~wiped => file = saved
  BY <1>1 DEF Sound, Kept
<1> QED
  BY <1>1, <1>2, <1>3, <1>4

\* Nobody refreshes afterwards.
LEMMA QuietIsSound ==
  ASSUME \A j \in Instances : ~Refreshing(j)',
         ~lostAnswer' => file'.oauth \notin spent', ~wiped' => file' = saved'
  PROVE  Sound'
<1>1. Exclusive'
  BY DEF Exclusive
<1>2. ~lostAnswer' => Fresh'
  BY DEF Fresh, Refreshing
<1>3. ~wiped' => Kept'
  BY DEF Kept
<1> QED
  BY <1>1, <1>2, <1>3 DEF Sound

\* The lock is taken, and given back before anybody else moves.
LEMMA PassingKeepsInv ==
  ASSUME Nobody \notin Instances, Inv, Types', PassThrough, UNCHANGED <<spent, lostAnswer, wiped>>,
         \A j \in Instances : Refreshing(j)' => Refreshing(j),
         file = saved => file' = saved',
         file'.oauth = file.oauth \/ file'.oauth \notin spent
  PROVE  Inv'
<1> SUFFICES ASSUME ~taken' PROVE Sound'
  BY DEF Inv
<1>1. Takeable /\ ~TakenOver
  BY DEF PassThrough
<1>2. /\ \A j \in Instances : ~Refreshing(j)'
      /\ ~lostAnswer' => file'.oauth \notin spent'
      /\ ~wiped' => file' = saved'
  BY <1>1, NobodyRefreshes
<1> QED
  BY <1>2, QuietIsSound

\* Nothing happens to the files and to those who refresh, except that keys are set.
LEMMA OthersKeepInv ==
  ASSUME Inv, Types', UNCHANGED <<file, saved, lock, spent>>,
         taken => taken', lostAnswer => lostAnswer', wiped => wiped',
         \A j \in Instances :
           /\ Refreshing(j)' => /\ inst'[j].pc = inst[j].pc /\ inst'[j].answer = inst[j].answer
                                /\ inst'[j].told = inst[j].told
                                /\ inst'[j].read.oauth = inst[j].read.oauth
                                /\ \/ inst'[j].own
                                   \/ inst'[j].own = inst[j].own /\ inst'[j].read.key = inst[j].read.key
           /\ inst[j].pc = "answered" /\ inst[j].answer # 0 =>
                \/ lostAnswer'
                \/ inst'[j].pc = "answered" /\ inst'[j].answer = inst[j].answer
  PROVE  Inv'
<1> SUFFICES ASSUME ~taken' PROVE Sound'
  BY DEF Inv
<1>1. ~taken /\ Sound
  BY DEF Inv
<1>2. \A j \in Instances : Refreshing(j)' => Refreshing(j)
  BY DEF Refreshing
<1>3. Exclusive'
  BY <1>1, <1>2 DEF Sound, Exclusive
<1>4. ASSUME ~lostAnswer' PROVE Fresh'
  <2>1. Fresh
    BY <1>1, <1>4 DEF Sound
  <2>2. file'.oauth \in spent' => \E i \in Instances : inst'[i].pc = "answered" /\ inst'[i].answer # 0
    BY <1>4, <2>1 DEF Fresh
  <2>3. ASSUME NEW i \in Instances
        PROVE  /\ inst'[i].pc = "asking" => inst'[i].read.oauth \notin spent'
               /\ inst'[i].pc = "answered" => inst'[i].answer \notin spent'
    BY <2>1 DEF Fresh, Refreshing
  <2> QED
    BY <2>2, <2>3 DEF Fresh
<1>5. ASSUME ~wiped' PROVE Kept'
  BY <1>1, <1>2, <1>5 DEF Sound, Kept
<1> QED
  BY <1>3, <1>4, <1>5 DEF Sound

\* What persistProviderChange does to the files.
LEMMA PersistType ==
  ASSUME Types, NEW i \in Instances, NEW entry \in {"oauth", "key"}, NEW value \in Nat,
         Persist(i, entry, value)
  PROVE  /\ file' \in Credentials /\ saved' \in Credentials /\ taken' \in BOOLEAN
         /\ file'.oauth = file.oauth \/ (entry = "oauth" /\ file'.oauth = value)
         /\ file = saved => file' = saved'
         /\ PassThrough \/ UNCHANGED <<file, saved, lock, stale, taken>>
<1>1. CASE UNCHANGED <<file, saved, lock, stale, taken>>
  BY <1>1 DEF Types
<1>2. CASE /\ PassThrough
           /\ file' = [file EXCEPT ![entry] = value]
           /\ saved' = [saved EXCEPT ![entry] = value]
  <2>1. file' \in Credentials /\ saved' \in Credentials
    BY <1>2 DEF Types, Credentials
  <2>2. file'.oauth = file.oauth \/ (entry = "oauth" /\ file'.oauth = value)
    BY <1>2 DEF Types, Credentials
  <2>3. taken' \in BOOLEAN
    BY <1>2 DEF PassThrough, TakenOver, Types
  <2> QED
    BY <1>2, <2>1, <2>2, <2>3
<1> QED
  BY <1>1, <1>2 DEF Persist

LEMMA LoginKeepsInv ==
  ASSUME Nobody \notin Instances, Inv, NEW i \in Instances, Login(i) PROVE Inv'
<1>1. Types
  BY DEF Inv
<1>2. /\ issued \in Nat /\ issued' = issued + 1
      /\ inst' = [inst EXCEPT ![i].knows = issued + 1]
      /\ Persist(i, "oauth", issued + 1) /\ UNCHANGED <<expired, spent, lostAnswer, wiped>>
  BY <1>1 DEF Login, Types
<1>3. \A j \in Instances : /\ inst'[j] \in Programs /\ Fits(inst'[j], issued')
                           /\ inst'[j].pc = inst[j].pc /\ inst'[j].answer = inst[j].answer
                           /\ inst'[j].told = inst[j].told /\ inst'[j].read = inst[j].read
                           /\ inst'[j].own = inst[j].own
  BY <1>1, <1>2 DEF Types, Programs, Credentials, Fits
<1>4. Types'
  BY <1>1, <1>2, <1>3, PersistType DEF Types, Credentials
<1>5. CASE PassThrough
  <2>1. file'.oauth = file.oauth \/ file'.oauth \notin spent
    BY <1>1, <1>2, PersistType DEF Types
  <2> QED
    BY <1>1, <1>2, <1>3, <1>4, <1>5, <2>1, PersistType, PassingKeepsInv DEF Refreshing
<1>6. CASE UNCHANGED <<file, saved, lock, stale, taken>>
  BY <1>2, <1>3, <1>4, <1>6, OthersKeepInv
<1> QED
  BY <1>1, <1>2, <1>5, <1>6, PersistType

LEMMA LogoutKeepsInv ==
  ASSUME Nobody \notin Instances, Inv, NEW i \in Instances, Logout(i) PROVE Inv'
<1>1. Types
  BY DEF Inv
<1>2. /\ inst' = [inst EXCEPT ![i].knows = 0]
      /\ Persist(i, "oauth", 0) /\ UNCHANGED <<issued, expired, spent, lostAnswer, wiped>>
  BY DEF Logout
<1>3. \A j \in Instances : /\ inst'[j] \in Programs /\ Fits(inst'[j], issued')
                           /\ inst'[j].pc = inst[j].pc /\ inst'[j].answer = inst[j].answer
                           /\ inst'[j].told = inst[j].told /\ inst'[j].read = inst[j].read
                           /\ inst'[j].own = inst[j].own
  BY <1>1, <1>2 DEF Types, Programs, Credentials, Fits
<1>4. Types'
  BY <1>1, <1>2, <1>3, PersistType DEF Types, Credentials
<1>5. CASE PassThrough
  <2>1. file'.oauth = file.oauth \/ file'.oauth \notin spent
    BY <1>1, <1>2, PersistType DEF Types
  <2> QED
    BY <1>1, <1>2, <1>3, <1>4, <1>5, <2>1, PersistType, PassingKeepsInv DEF Refreshing
<1>6. CASE UNCHANGED <<file, saved, lock, stale, taken>>
  BY <1>1, <1>2, <1>3, <1>4, <1>6, OthersKeepInv DEF Types
<1> QED
  BY <1>1, <1>2, <1>5, <1>6, PersistType

LEMMA SetKeyKeepsInv ==
  ASSUME Nobody \notin Instances, Inv, NEW i \in Instances, NEW value \in 0..1, SetKey(i, value)
  PROVE  Inv'
<1>1. Types
  BY DEF Inv
<1>2. /\ inst' = IF Refreshing(i) THEN [inst EXCEPT ![i].read.key = value, ![i].own = TRUE] ELSE inst
      /\ Persist(i, "key", value) /\ UNCHANGED <<issued, expired, spent, lostAnswer, wiped>>
  BY DEF SetKey
<1>3. \A j \in Instances : /\ inst'[j] \in Programs /\ inst'[j].knows = inst[j].knows
                           /\ inst'[j].pc = inst[j].pc /\ inst'[j].answer = inst[j].answer
                           /\ inst'[j].told = inst[j].told
                           /\ inst'[j].read.oauth = inst[j].read.oauth
                           /\ inst'[j].own \/ (inst'[j].own = inst[j].own /\ inst'[j].read.key = inst[j].read.key)
  <2>1. CASE Refreshing(i)
    <3>1. [inst[i].read EXCEPT !.key = value] \in Credentials /\ [inst[i].read EXCEPT !.key = value].oauth = inst[i].read.oauth
      BY <1>1 DEF Types, Programs, Credentials
    <3>2. inst' = [inst EXCEPT ![i] = [inst[i] EXCEPT !.read = [inst[i].read EXCEPT !.key = value], !.own = TRUE]]
      BY <1>1, <1>2, <2>1 DEF Types, Programs
    <3>3. inst[i] \in Programs
      BY <1>1 DEF Types
    <3>4. /\ inst'[i] \in Programs /\ inst'[i].own
          /\ inst'[i].knows = inst[i].knows /\ inst'[i].pc = inst[i].pc
          /\ inst'[i].answer = inst[i].answer /\ inst'[i].told = inst[i].told
          /\ inst'[i].read.oauth = inst[i].read.oauth
      BY <1>1, <3>1, <3>2, <3>3 DEF Types, Programs
    <3>5. \A j \in Instances \ {i} : inst'[j] = inst[j] /\ inst[j] \in Programs
      BY <1>1, <3>2 DEF Types
    <3> QED
      BY <3>4, <3>5
  <2>2. CASE ~Refreshing(i)
    BY <1>1, <1>2, <2>2 DEF Types
  <2> QED
    BY <2>1, <2>2
<1>4. inst' \in [Instances -> Programs]
  BY <1>1, <1>2, <1>3 DEF Types
<1>5. Types'
  <2>1. \A j \in Instances : Fits(inst'[j], issued')
    BY <1>1, <1>2, <1>3 DEF Types, Fits
  <2> QED
    BY <1>1, <1>2, <1>4, <2>1, PersistType DEF Types, Credentials
<1>6. UNCHANGED <<spent, lostAnswer, wiped>> /\ value \in Nat /\ Persist(i, "key", value)
  BY <1>1, <1>2 DEF Types
<1>7. CASE PassThrough
  BY <1>1, <1>3, <1>5, <1>6, <1>7, PersistType, PassingKeepsInv DEF Refreshing
<1>8. CASE UNCHANGED <<file, saved, lock, stale, taken>>
  BY <1>3, <1>5, <1>6, <1>8, OthersKeepInv
<1> QED
  BY <1>1, <1>6, <1>7, <1>8, PersistType

\* One program changes, and does not refresh afterwards or before.
LEMMA IdleKeepsInv ==
  ASSUME Inv, NEW i \in Instances, NEW m \in Programs, inst' = [inst EXCEPT ![i] = m],
         m.pc \notin {"asking", "answered"}, Fits(m, issued),
         UNCHANGED <<file, saved, issued, expired, spent, wiped>>,
         taken' \in BOOLEAN, lostAnswer' \in BOOLEAN
  PROVE  /\ Types' /\ \A j \in Instances : Refreshing(j)' => Refreshing(j)
         /\ /\ UNCHANGED <<lock, taken>> /\ (lostAnswer => lostAnswer')
            /\ inst[i].pc = "answered" /\ inst[i].answer # 0 => lostAnswer'
            => Inv'
<1>1. Types
  BY DEF Inv
<1>2. inst'[i] = m /\ \A j \in Instances \ {i} : inst'[j] = inst[j]
  BY <1>1 DEF Types
<1>3. Types'
  <2>1. inst' \in [Instances -> Programs]
    BY <1>1 DEF Types
  <2>2. \A j \in Instances : Fits(inst'[j], issued')
    BY <1>1, <1>2 DEF Types
  <2> QED
    BY <1>1, <2>1, <2>2 DEF Types
<1>4. \A j \in Instances : Refreshing(j)' => j # i /\ Refreshing(j)
  BY <1>2 DEF Refreshing
<1>5. ASSUME UNCHANGED <<lock, taken>>, lostAnswer => lostAnswer',
             inst[i].pc = "answered" /\ inst[i].answer # 0 => lostAnswer'
      PROVE  Inv'
  BY <1>2, <1>3, <1>4, <1>5, OthersKeepInv
<1> QED
  BY <1>3, <1>4, <1>5

LEMMA ReloadKeepsInv ==
  ASSUME Nobody \notin Instances, Inv, NEW i \in Instances, NEW place \in {"idle", "locking"},
         Reloaded(i, place), inst[i].pc \in {"starting", "idle", "locking", "failing"},
         UNCHANGED <<file, saved, issued, expired, spent, lostAnswer, wiped>>
  PROVE  Inv'
<1>1. Types
  BY DEF Inv
<1>2. CASE /\ PassThrough
           /\ inst' = [inst EXCEPT ![i] = [Settled EXCEPT !.pc = place, !.knows = file.oauth]]
  <2> DEFINE m == [Settled EXCEPT !.pc = place, !.knows = file.oauth]
  <2>1. m \in Programs /\ m.pc = place /\ m.knows = file.oauth
    BY <1>1, SettledType DEF Programs, Places, Types, Credentials
  <2>2. taken' \in BOOLEAN /\ lostAnswer' \in BOOLEAN
    BY <1>1, <1>2 DEF PassThrough, TakenOver, Types
  <2>3. Fits(m, issued)
    BY <1>1, SettledType DEF Types, Fits, Programs, Empty, Credentials
  <2> HIDE DEF m
  <2>4. Types' /\ \A j \in Instances : Refreshing(j)' => Refreshing(j)
    BY <1>2, <2>1, <2>2, <2>3, IdleKeepsInv DEF m
  <2> QED
    BY <1>2, <2>4, PassingKeepsInv
<1>3. CASE /\ inst' = [inst EXCEPT ![i] = [Settled EXCEPT !.pc = place, !.knows = inst[i].knows, !.loadError = TRUE]]
           /\ UNCHANGED <<lock, stale, taken>>
  <2> DEFINE m == [Settled EXCEPT !.pc = place, !.knows = inst[i].knows, !.loadError = TRUE]
  <2>1. inst[i].knows \in Nat /\ inst[i].knows <= issued /\ issued \in Nat
    BY <1>1 DEF Types, Programs, Fits
  <2>2. m \in Programs /\ m.pc = place /\ Fits(m, issued)
    <3>1. /\ m \in Programs /\ m.pc = place /\ m.knows = inst[i].knows
          /\ m.read = Empty /\ m.answer = 0
      BY <2>1, SettledType DEF Programs, Places
    <3> HIDE DEF m
    <3> QED
      BY <2>1, <3>1 DEF Fits, Empty
  <2>3. taken' \in BOOLEAN /\ lostAnswer' \in BOOLEAN
    BY <1>1, <1>3 DEF Types
  <2> HIDE DEF m
  <2> QED
    BY <1>3, <2>1, <2>2, <2>3, IdleKeepsInv DEF m
<1> QED
  BY <1>2, <1>3 DEF Reloaded

LEMMA GetApiKeyKeepsInv == ASSUME Inv, NEW i \in Instances, GetApiKey(i) \/ LockFails(i) PROVE Inv'
<1>1. PICK place \in {"locking", "failing"} :
        /\ inst' = [inst EXCEPT ![i].pc = place] /\ inst[i].pc \in {"idle", "locking"}
        /\ UNCHANGED <<file, lock, stale, issued, expired, spent, saved, taken, lostAnswer, wiped>>
  BY DEF GetApiKey, LockFails
<1>2. Types
  BY DEF Inv
<1>3. [inst[i] EXCEPT !.pc = place] \in Programs /\ [inst[i] EXCEPT !.pc = place].pc = place
      /\ Fits([inst[i] EXCEPT !.pc = place], issued)
  BY <1>2 DEF Types, Programs, Places, Fits
<1>4. inst' = [inst EXCEPT ![i] = [inst[i] EXCEPT !.pc = place]]
      /\ taken' \in BOOLEAN /\ lostAnswer' \in BOOLEAN
  BY <1>1, <1>2 DEF Types
<1> QED
  BY <1>1, <1>3, <1>4, IdleKeepsInv

LEMMA LockKeepsInv ==
  ASSUME Nobody \notin Instances, Inv, NEW i \in Instances, Lock(i) PROVE Inv'
<1>1. Types
  BY DEF Inv
<1>2. Takeable /\ taken' = TakenOver
      /\ UNCHANGED <<file, issued, expired, spent, saved, lostAnswer, wiped>>
      /\ inst[i].pc = "locking"
  BY DEF Lock
<1>3. taken' \in BOOLEAN /\ lostAnswer' \in BOOLEAN
  BY <1>1, <1>2 DEF TakenOver, Types
<1>4. file.oauth \in Nat /\ file \in Credentials /\ file.oauth <= issued
  BY <1>1 DEF Types, Credentials
<1>5. CASE file.oauth \in 1..expired
  <2> DEFINE m == [Settled EXCEPT !.pc = "asking", !.knows = file.oauth, !.read = file]
  <2>1. m \in Programs /\ m.pc = "asking" /\ m.knows = file.oauth /\ m.read = file /\ m.answer = 0 /\ ~m.told
    BY <1>4, SettledType DEF Programs, Places
  <2>2. [file EXCEPT !.oauth = file.oauth] = file
    BY <1>4 DEF Credentials
  <2>3. inst' = [inst EXCEPT ![i] = m] /\ lock' = i
    BY <1>5, <2>2 DEF Lock, Current
  <2> HIDE DEF m
  <2>4. inst'[i] = m /\ \A j \in Instances \ {i} : inst'[j] = inst[j]
    BY <1>1, <2>3 DEF Types
  <2>5. Types'
    <3>1. inst' \in [Instances -> Programs]
      BY <1>1, <2>1, <2>3 DEF Types
    <3>2. \A j \in Instances : Fits(inst'[j], issued')
      BY <1>1, <1>2, <1>4, <1>5, <2>1, <2>4 DEF Types, Fits
    <3> QED
      BY <1>1, <1>2, <1>3, <3>1, <3>2 DEF Types
  <2>6. ASSUME ~taken' PROVE Sound'
    <3>1. /\ ~lostAnswer => file.oauth \notin spent
          /\ ~wiped => file = saved
          /\ \A j \in Instances : ~Refreshing(j)
      BY <1>2, <2>6, NobodyRefreshes
    <3>2. \A j \in Instances : Refreshing(j)' => j = i
      BY <2>4, <3>1 DEF Refreshing
    <3>3. Exclusive'
      BY <2>1, <2>3, <2>4, <3>2 DEF Exclusive
    <3>4. ~lostAnswer' => Fresh'
      BY <1>2, <2>1, <2>4, <3>1, <3>2 DEF Fresh, Refreshing
    <3>5. ~wiped' => Kept'
      BY <1>2, <2>1, <2>4, <3>1, <3>2 DEF Kept
    <3> QED
      BY <3>3, <3>4, <3>5 DEF Sound
  <2> QED
    BY <2>5, <2>6 DEF Inv
<1>6. CASE file.oauth \notin 1..expired
  <2> DEFINE m == [Settled EXCEPT !.knows = file.oauth]
  <2>1. m \in Programs /\ m.pc = "idle" /\ Fits(m, issued)
    BY <1>1, <1>4, SettledType DEF Programs, Fits, Types, Empty
  <2>2. inst' = [inst EXCEPT ![i] = m] /\ lock' = Nobody /\ stale' = FALSE
    BY <1>6 DEF Lock, Current
  <2> HIDE DEF m
  <2>3. Types' /\ \A j \in Instances : Refreshing(j)' => Refreshing(j)
    BY <1>2, <1>3, <1>4, <2>1, <2>2, IdleKeepsInv
  <2>4. PassThrough
    BY <1>2, <2>2 DEF PassThrough
  <2> QED
    BY <1>2, <2>3, <2>4, PassingKeepsInv
<1> QED
  BY <1>5, <1>6

\* The provider has answered with a new token, or, with 0, with none; the token is spent,
\* unless it was refused.
Answered(i, a) ==
  /\ inst[i].pc = "asking"
  /\ inst' = [inst EXCEPT ![i] = [inst[i] EXCEPT !.pc = "answered", !.answer = a]]
  /\ \/ /\ spent' = spent \cup {inst[i].read.oauth} /\ UNCHANGED lostAnswer
        /\ a = issued + 1 /\ issued' = a
     \/ /\ spent' = spent \cup {inst[i].read.oauth} /\ lostAnswer' = TRUE
        /\ a = 0 /\ issued' = issued
     \/ /\ a = 0 /\ UNCHANGED <<issued, spent, lostAnswer>>
  /\ UNCHANGED <<file, lock, expired, saved, taken, wiped>>

LEMMA AnswerKeepsInv ==
  ASSUME Inv, NEW i \in Instances, NEW a \in Nat, Answered(i, a)
  PROVE  Inv'
<1>1. Types
  BY DEF Inv
<1>2. /\ inst[i].pc = "asking" /\ inst[i].read.oauth \in 1..issued /\ issued \in Nat
      /\ UNCHANGED <<file, lock, expired, saved, taken, wiped>>
  BY <1>1 DEF Answered, Types, Fits, Programs, Credentials
<1>3. /\ inst' \in [Instances -> Programs]
      /\ inst'[i].pc = "answered" /\ inst'[i].answer = a /\ inst'[i].told = inst[i].told
      /\ inst'[i].read = inst[i].read /\ inst'[i].own = inst[i].own /\ inst'[i].knows = inst[i].knows
      /\ \A j \in Instances \ {i} : inst'[j] = inst[j]
  BY <1>1 DEF Answered, Types, Programs, Places
<1>4. issued' \in Nat /\ issued <= issued' /\ a <= issued' /\ spent' \in SUBSET (1..issued')
      /\ a \notin spent /\ a \notin spent' /\ lostAnswer' \in BOOLEAN
  <2>1. lostAnswer' \in BOOLEAN
    BY <1>1 DEF Answered, Types
  <2>2. spent' = spent \/ spent' = spent \cup {inst[i].read.oauth}
    BY DEF Answered
  <2>3. (a = 0 /\ issued' = issued) \/ (a = issued + 1 /\ issued' = issued + 1)
    BY DEF Answered
  <2>4. spent \in SUBSET (1..issued) /\ spent' \in SUBSET (1..issued)
    BY <1>1, <1>2, <2>2 DEF Types
  <2> QED
    BY <1>2, <2>1, <2>3, <2>4
<1>5. Types'
  <2>1. \A j \in Instances : Fits(inst'[j], issued')
    BY <1>1, <1>2, <1>3, <1>4 DEF Types, Fits, Programs, Credentials
  <2>2. file'.oauth <= issued' /\ expired' \in 0..issued'
    BY <1>1, <1>2, <1>4 DEF Types, Credentials
  <2>3. taken' \in BOOLEAN /\ wiped' \in BOOLEAN
        /\ file' \in Credentials /\ saved' \in Credentials
    BY <1>1, <1>2 DEF Types
  <2> QED
    BY <1>3, <1>4, <2>1, <2>2, <2>3 DEF Types
<1>6. ASSUME ~taken' PROVE Sound'
  <2>1. Sound /\ Refreshing(i) /\ lock = i
    BY <1>2, <1>6 DEF Inv, Sound, Exclusive, Refreshing
  <2>2. \A j \in Instances : Refreshing(j) <=> j = i
    BY <2>1 DEF Sound, Exclusive
  <2>3. \A j \in Instances : Refreshing(j)' <=> j = i
    BY <1>3, <2>2 DEF Refreshing
  <2>4. Exclusive'
    BY <1>2, <1>3, <2>1, <2>3 DEF Sound, Exclusive
  <2>5. ASSUME ~lostAnswer' PROVE Fresh'
    <3>1. ~lostAnswer /\ Fresh /\ (a = 0 => spent' = spent)
      <4>1. ~lostAnswer /\ (a # 0 \/ spent' = spent)
        BY <1>2, <2>5 DEF Answered
      <4> QED
        BY <2>1, <4>1 DEF Sound
    <3>2. file.oauth \notin spent
      BY <1>2, <2>2, <3>1 DEF Fresh, Refreshing
    <3>3. file'.oauth \in spent' => inst'[i].pc = "answered" /\ inst'[i].answer # 0
      BY <1>2, <1>3, <3>1, <3>2
    <3>4. \A j \in Instances : /\ inst'[j].pc # "asking"
                               /\ inst'[j].pc = "answered" => j = i
      BY <1>3, <2>3 DEF Refreshing
    <3> QED
      BY <1>3, <1>4, <3>3, <3>4 DEF Fresh
  <2>6. ~wiped' => Kept'
    BY <1>2, <1>3, <2>1, <2>3 DEF Sound, Kept
  <2> QED
    BY <2>4, <2>5, <2>6 DEF Sound
<1> QED
  BY <1>5, <1>6 DEF Inv

LEMMA ProviderAnswersKeepsInv == ASSUME Inv, NEW i \in Instances, ProviderAnswers(i) PROVE Inv'
<1>1. Types /\ issued + 1 \in Nat /\ inst[i] \in Programs
  BY DEF Inv, Types
<1>2. inst[i].pc = "asking" /\ inst[i].answer = 0
  BY <1>1 DEF ProviderAnswers, Types, Fits
<1>3. UNCHANGED <<file, lock, expired, saved, taken, wiped>>
  BY DEF ProviderAnswers
<1>4. CASE /\ issued' = issued + 1
           /\ inst' = [inst EXCEPT ![i].pc = "answered", ![i].answer = issued + 1]
           /\ spent' = spent \cup {inst[i].read.oauth}
           /\ UNCHANGED lostAnswer
  <2>1. inst' = [inst EXCEPT ![i] = [inst[i] EXCEPT !.pc = "answered", !.answer = issued + 1]]
    BY <1>1, <1>4 DEF Types
  <2>2. Answered(i, issued + 1)
    BY <1>2, <1>3, <1>4, <2>1 DEF Answered
  <2> QED
    BY <1>1, <2>2, AnswerKeepsInv
<1>5. CASE /\ inst' = [inst EXCEPT ![i].pc = "answered"]
           /\ \/ spent' = spent \cup {inst[i].read.oauth} /\ lostAnswer' = TRUE /\ UNCHANGED issued
              \/ UNCHANGED <<issued, spent, lostAnswer>>
  <2>1. [inst[i] EXCEPT !.pc = "answered", !.answer = 0] = [inst[i] EXCEPT !.pc = "answered"]
    BY <1>1, <1>2 DEF Programs
  <2>2. inst' = [inst EXCEPT ![i] = [inst[i] EXCEPT !.pc = "answered", !.answer = 0]]
    BY <1>5, <2>1
  <2>3. Answered(i, 0)
    BY <1>2, <1>3, <1>5, <2>2 DEF Answered
  <2> QED
    BY <2>3, AnswerKeepsInv
<1> QED
  BY <1>4, <1>5 DEF ProviderAnswers

LEMMA StoreKeepsInv ==
  ASSUME Nobody \notin Instances, Inv, NEW i \in Instances, Store(i) PROVE Inv'
<1>1. Types
  BY DEF Inv
<1>2. /\ inst[i].pc = "answered" /\ inst[i].answer # 0 /\ Unlocked(i)
      /\ UNCHANGED <<issued, expired, spent, taken, lostAnswer, wiped>>
  BY DEF Store
<1>3. /\ inst[i].answer \in Nat /\ inst[i].answer <= issued /\ issued \in Nat
      /\ inst[i].read \in Credentials
  BY <1>1 DEF Types, Programs, Fits
<1>4. PICK place \in {"idle", "failing"} :
        inst' = [inst EXCEPT ![i] = [Settled EXCEPT !.pc = place, !.knows = inst[i].answer]]
  <2>1. [Settled EXCEPT !.knows = inst[i].answer] = [Settled EXCEPT !.pc = "idle", !.knows = inst[i].answer]
    BY <1>3, SettledType DEF Programs, Places
  <2> QED
    BY <2>1 DEF Store
<1> DEFINE m == [Settled EXCEPT !.pc = place, !.knows = inst[i].answer]
<1>5. m \in Programs /\ m.pc = place /\ Fits(m, issued)
  <2>1. /\ m \in Programs /\ m.pc = place /\ m.knows = inst[i].answer
        /\ m.read = Empty /\ m.answer = 0
    BY <1>3, SettledType DEF Programs, Places
  <2> HIDE DEF m
  <2> QED
    BY <1>3, <2>1 DEF Fits, Empty
<1>6. inst'[i] = m /\ \A j \in Instances \ {i} : inst'[j] = inst[j]
  BY <1>1, <1>4 DEF Types
<1> HIDE DEF m
<1>7. inst' \in [Instances -> Programs] /\ \A j \in Instances : Fits(inst'[j], issued')
  BY <1>1, <1>2, <1>4, <1>5, <1>6 DEF Types, m
<1>8. CASE inst[i].told /\ UNCHANGED <<file, saved>>
  <2>1. Types'
    BY <1>1, <1>2, <1>7, <1>8 DEF Types
  <2>2. taken
    BY <1>2, <1>8 DEF Inv, Sound, Exclusive, Refreshing
  <2> QED
    BY <1>2, <2>1, <2>2 DEF Inv
<1>9. CASE /\ ~inst[i].told
           /\ file' = [inst[i].read EXCEPT !.oauth = inst[i].answer]
           /\ saved' = [oauth |-> inst[i].answer,
                        key |-> IF inst[i].own THEN inst[i].read.key ELSE saved.key]
  <2>1. /\ file' \in Credentials /\ saved' \in Credentials
        /\ file'.oauth = inst[i].answer /\ file'.key = inst[i].read.key
    BY <1>1, <1>3, <1>9 DEF Types, Credentials
  <2>2. Types'
    BY <1>1, <1>2, <1>3, <1>7, <2>1 DEF Types
  <2>3. ASSUME ~taken' PROVE Sound'
    <3>1. Sound /\ Refreshing(i)
      BY <1>2, <2>3 DEF Inv, Refreshing
    <3>2. \A j \in Instances : ~Refreshing(j)'
      BY <1>5, <1>6, <3>1 DEF Sound, Exclusive, Refreshing
    <3>3. ~lostAnswer' => file'.oauth \notin spent'
      BY <1>2, <2>1, <3>1 DEF Sound, Fresh
    <3>4. ASSUME ~wiped' PROVE file' = saved'
      <4>1. file'.key = saved'.key /\ file'.oauth = saved'.oauth
        BY <1>2, <1>9, <2>1, <3>1, <3>4 DEF Sound, Kept
      <4> QED
        BY <2>1, <4>1 DEF Credentials
    <3> QED
      BY <3>2, <3>3, <3>4, QuietIsSound
  <2> QED
    BY <2>2, <2>3 DEF Inv
<1> QED
  BY <1>8, <1>9 DEF Store

LEMMA RefusedKeepsInv ==
  ASSUME Nobody \notin Instances, Inv, NEW i \in Instances, Refused(i) PROVE Inv'
<1>1. Types
  BY DEF Inv
<1>2. /\ inst[i].pc = "answered" /\ inst[i].answer = 0
      /\ inst' = [inst EXCEPT ![i] = [Settled EXCEPT !.pc = "failing", !.knows = inst[i].knows]]
      /\ UNCHANGED <<file, issued, expired, spent, saved, taken, lostAnswer, wiped>>
  BY DEF Refused
<1> DEFINE m == [Settled EXCEPT !.pc = "failing", !.knows = inst[i].knows]
<1>3. m \in Programs /\ m.pc = "failing" /\ Fits(m, issued)
  <2>1. inst[i].knows \in Nat /\ inst[i].knows <= issued /\ issued \in Nat
    BY <1>1 DEF Types, Programs, Fits
  <2>2. /\ m \in Programs /\ m.pc = "failing" /\ m.knows = inst[i].knows
        /\ m.read = Empty /\ m.answer = 0
    BY <2>1, SettledType DEF Programs, Places
  <2> HIDE DEF m
  <2> QED
    BY <2>1, <2>2 DEF Fits, Empty
<1>4. inst'[i] = m /\ \A j \in Instances \ {i} : inst'[j] = inst[j]
  BY <1>1, <1>2 DEF Types
<1>5. taken' \in BOOLEAN /\ lostAnswer' \in BOOLEAN /\ inst' = [inst EXCEPT ![i] = m]
  BY <1>1, <1>2 DEF Types
<1> HIDE DEF m
<1>6. Types' /\ \A j \in Instances : Refreshing(j)' => Refreshing(j)
  BY <1>2, <1>3, <1>5, IdleKeepsInv
<1>7. ASSUME ~taken' PROVE Sound'
  <2>1. Sound /\ Refreshing(i)
    BY <1>2, <1>7 DEF Inv, Refreshing
  <2>2. \A j \in Instances : Refreshing(j) => j = i
    BY <2>1 DEF Sound, Exclusive
  <2>3. ~lostAnswer' => file'.oauth \notin spent'
    BY <1>2, <2>1, <2>2 DEF Sound, Fresh, Refreshing
  <2>4. \A j \in Instances : ~Refreshing(j)'
    BY <1>3, <1>4, <1>6, <2>2 DEF Refreshing
  <2>5. ~wiped' => file' = saved'
    BY <1>2, <2>1 DEF Sound, Kept
  <2> QED
    BY <2>3, <2>4, <2>5, QuietIsSound
<1> QED
  BY <1>6, <1>7 DEF Inv

\* The holder of the lock is not told that it has lost it.
LEMMA CompromisedKeepsInv == ASSUME Inv, NEW i \in Instances, Compromised(i) PROVE Inv'
<1>1. Types
  BY DEF Inv
<1>2. /\ Refreshing(i) /\ lock # i /\ inst' = [inst EXCEPT ![i].told = TRUE]
      /\ UNCHANGED <<file, issued, expired, spent, saved, taken, lostAnswer, wiped>>
  BY DEF Compromised
<1>3. taken
  BY <1>2 DEF Inv, Sound, Exclusive
<1>4. /\ inst' \in [Instances -> Programs]
      /\ \A j \in Instances : /\ inst'[j].pc = inst[j].pc /\ inst'[j].knows = inst[j].knows
                              /\ inst'[j].read = inst[j].read /\ inst'[j].answer = inst[j].answer
  BY <1>1, <1>2 DEF Types, Programs
<1>5. Types'
  BY <1>1, <1>2, <1>4 DEF Types, Fits
<1> QED
  BY <1>2, <1>3, <1>5 DEF Inv

LEMMA DieKeepsInv == ASSUME Inv, NEW i \in Instances, Die(i) PROVE Inv'
<1>1. Types
  BY DEF Inv
<1>2. /\ inst' = [inst EXCEPT ![i] = [Settled EXCEPT !.pc = "dead"]]
      /\ lostAnswer' = (lostAnswer \/ inst[i].answer # 0)
      /\ UNCHANGED <<file, lock, issued, expired, spent, saved, taken, wiped>>
  BY DEF Die
<1> DEFINE m == [Settled EXCEPT !.pc = "dead"]
<1>3. /\ m \in Programs /\ m.pc = "dead" /\ m.knows = 0 /\ m.read = Empty /\ m.answer = 0
  BY SettledType DEF Programs, Places
<1> HIDE DEF m
<1>4. issued \in Nat /\ taken' \in BOOLEAN /\ lostAnswer' \in BOOLEAN
  BY <1>1, <1>2 DEF Types
<1>5. Fits(m, issued)
  BY <1>3, <1>4 DEF Fits, Empty
<1>6. inst' = [inst EXCEPT ![i] = m] /\ (inst[i].pc = "answered" /\ inst[i].answer # 0 => lostAnswer')
      /\ (lostAnswer => lostAnswer') /\ m.pc \notin {"asking", "answered"}
  BY <1>2, <1>3 DEF m
<1> QED
  BY <1>2, <1>3, <1>4, <1>5, <1>6, IdleKeepsInv

\* An instance that finds no file has not refreshed anything yet.
LEMMA FindNoAuthFileKeepsInv == ASSUME Inv, NEW i \in Instances, FindNoFile(i) PROVE Inv'
<1>1. Types
  BY DEF Inv
<1> DEFINE m == [inst[i] EXCEPT !.pc = "creating"]
<1>2. inst[i].pc = "starting" /\ inst' = [inst EXCEPT ![i] = m]
      /\ UNCHANGED <<file, lock, issued, expired, spent, saved, taken, lostAnswer, wiped>>
  BY DEF FindNoFile
<1>3. m \in Programs /\ m.pc = "creating" /\ Fits(m, issued)
  BY <1>1 DEF Types, Programs, Places, Fits
<1> HIDE DEF m
<1>4. taken' \in BOOLEAN /\ lostAnswer' \in BOOLEAN
  BY <1>1, <1>2 DEF Types
<1> QED
  BY <1>2, <1>3, <1>4, IdleKeepsInv

\* An empty file takes the place of one that was empty, or it is known that it did not.
LEMMA CreateAuthFileKeepsInv == ASSUME Inv, NEW i \in Instances, Create(i) PROVE Inv'
<1>1. Types
  BY DEF Inv
<1> DEFINE m == [inst[i] EXCEPT !.pc = "starting"]
<1>2. /\ inst[i].pc = "creating" /\ inst' = [inst EXCEPT ![i] = m]
      /\ file' = Empty /\ wiped' = (wiped \/ file # Empty)
      /\ UNCHANGED <<lock, issued, expired, spent, saved, taken, lostAnswer>>
  BY DEF Create
<1>3. m \in Programs /\ m.pc = "starting" /\ Fits(m, issued)
  BY <1>1 DEF Types, Programs, Places, Fits
<1> HIDE DEF m
<1>4. inst'[i] = m /\ \A j \in Instances \ {i} : inst'[j] = inst[j]
  BY <1>1, <1>2 DEF Types
<1>5. Types'
  <2>1. inst' \in [Instances -> Programs] /\ \A j \in Instances : Fits(inst'[j], issued')
    BY <1>1, <1>2, <1>3, <1>4 DEF Types
  <2>2. file' \in Credentials /\ file'.oauth = 0 /\ wiped' \in BOOLEAN
    BY <1>1, <1>2, SettledType DEF Types, Empty
  <2> QED
    BY <1>1, <1>2, <2>1, <2>2 DEF Types
<1>6. ASSUME ~taken' PROVE Sound'
  <2>1. Sound
    BY <1>2, <1>6 DEF Inv
  <2>2. \A j \in Instances : Refreshing(j)' => j # i /\ Refreshing(j)
    BY <1>3, <1>4 DEF Refreshing
  <2>3. Exclusive'
    BY <1>2, <1>4, <2>1, <2>2 DEF Sound, Exclusive
  <2>4. ASSUME ~lostAnswer' PROVE Fresh'
    <3>1. Fresh
      BY <1>2, <2>1, <2>4 DEF Sound
    <3>2. file'.oauth \notin spent'
      BY <1>1, <1>2 DEF Types, Empty
    <3>3. ASSUME NEW j \in Instances
          PROVE  /\ inst'[j].pc = "asking" => inst'[j].read.oauth \notin spent'
                 /\ inst'[j].pc = "answered" => inst'[j].answer \notin spent'
      BY <1>2, <1>3, <1>4, <3>1 DEF Fresh
    <3> QED
      BY <3>2, <3>3 DEF Fresh
  <2>5. ASSUME ~wiped' PROVE Kept'
    BY <1>2, <1>4, <2>1, <2>2, <2>5 DEF Sound, Kept
  <2> QED
    BY <2>3, <2>4, <2>5 DEF Sound
<1> QED
  BY <1>5, <1>6 DEF Inv

LEMMA WorldKeepsInv == ASSUME Inv, Expire \/ GoStale PROVE Inv'
<1>1. Types
  BY DEF Inv
<1>2. /\ UNCHANGED <<file, inst, lock, issued, spent, saved, taken, lostAnswer, wiped>>
      /\ expired' \in 0..issued
  BY <1>1 DEF Expire, GoStale, Types
<1>3. Types'
  BY <1>1, <1>2 DEF Types
<1> QED
  BY <1>2, <1>3, OthersKeepInv

LEMMA StepKeepsInv == ASSUME Nobody \notin Instances, Inv, [Next]_vars PROVE Inv'
<1>1. CASE UNCHANGED vars
  BY <1>1 DEF vars, Inv, Types, Sound, Exclusive, Fresh, Kept, Refreshing
<1>2. CASE Expire \/ GoStale
  BY <1>2, WorldKeepsInv
<1>3. ASSUME NEW i \in Instances, RefreshStep(i) PROVE Inv'
  <2>1. ASSUME Recover(i) PROVE Inv'
    BY <2>1, ReloadKeepsInv DEF Recover
  <2> QED
    BY <1>3, <2>1, LockKeepsInv, GetApiKeyKeepsInv, ProviderAnswersKeepsInv, StoreKeepsInv,
       RefusedKeepsInv DEF RefreshStep
<1>4. ASSUME NEW i \in Instances, Reload(i) PROVE Inv'
  BY <1>4, ReloadKeepsInv DEF Reload
<1> QED
  BY <1>1, <1>2, <1>3, <1>4, FindNoAuthFileKeepsInv, CreateAuthFileKeepsInv, LoginKeepsInv, LogoutKeepsInv,
     SetKeyKeepsInv, GetApiKeyKeepsInv, CompromisedKeepsInv, DieKeepsInv DEF Next

LEMMA InvHolds == ASSUME Nobody \notin Instances PROVE Spec => []Inv
<1>1. Init => Inv
  BY InitInv
<1>2. Inv /\ [Next]_vars => Inv'
  BY StepKeepsInv
<1> QED
  BY <1>1, <1>2, PTL DEF Spec

-----------------------------------------------------------------------------
\* refreshOAuthTokenWithLock reads the file again under the lock, and so a refresh token is
\* used once, however many programs find it expired together: until a lock is taken from a
\* program that is still refreshing, or an answer of the provider is lost on its way or with
\* the program that had it.
THEOREM TokensAreUsedOnce == ASSUME Nobody \notin Instances PROVE Spec => []TokenUsedOnce
<1>1. Inv => TokenUsedOnce
  BY DEF Inv, Sound, Fresh, TokenUsedOnce
<1> QED
  BY <1>1, InvHolds, PTL

\* persistProviderChange and the refresh merge into what is in the file, and so auth.json
\* always has what was saved last, of every entry: until a lock is taken from a program that
\* is still refreshing, or a program that found no file creates it over what another saved.
THEOREM NoUpdateIsLost == ASSUME Nobody \notin Instances PROVE Spec => []NoLostUpdate
<1>1. Inv => NoLostUpdate
  BY DEF Inv, Sound, Kept, NoLostUpdate
<1> QED
  BY <1>1, InvHolds, PTL

-----------------------------------------------------------------------------
(***************************************************************************)
(* settings.json, for any number of programs, fields, changes and faults:  *)
(* what one program alone has set survives what the others write.          *)
(*                                                                         *)
(* The invariant follows a value on its way: it is marked in memory, or it *)
(* is in a queued write, or in the file; and nothing queued behind it has  *)
(* an older one. So a write that takes the mark away with it has either    *)
(* the value itself, or a later write has, or the field is lost.           *)
(***************************************************************************)

Values == [Settings -> Nat]
Tasks == [settings : Values, marks : SUBSET Settings]
Files == [is : {"absent", "fine", "broken"}, has : Values]
Memories == [pc : {"idle", "creating"}, settings : Values, marks : SUBSET Settings,
             loadError : BOOLEAN, queue : Seq(Tasks)]

\* Who creates the file has a write to do.
SettingsTypes ==
  /\ s_disk \in Files
  /\ s_prog \in [Instances -> Memories]
  /\ s_changes \in Nat /\ s_faults \in Nat
  /\ s_setter \in [Settings -> SUBSET (Instances \cup {User})]
  /\ s_wanted \in Values
  /\ s_lost \in SUBSET Settings
  /\ \A p \in Instances : s_prog[p].pc = "creating" => s_prog[p].queue # <<>>

\* Task i of program p writes f.
Writes(p, i, f) == i \in 1..Len(s_prog[p].queue) /\ f \in s_prog[p].queue[i].marks
\* ... with the value that was set last.
HasLatest(p, i, f) == s_prog[p].queue[i].settings[f] = s_wanted[f]

\* Only those who have set a field write it.
OnlySettersWrite ==
  \A p \in Instances, f \in Settings :
    /\ f \in s_prog[p].marks => p \in s_setter[f]
    /\ \A i \in Nat : Writes(p, i, f) => p \in s_setter[f]
\* No value is from the future.
ValuesAreOld ==
  \A p \in Instances, f \in Settings :
    /\ f \in s_prog[p].marks => s_prog[p].settings[f] <= s_changes
    /\ \A i \in Nat : Writes(p, i, f) => s_prog[p].queue[i].settings[f] <= s_changes
\* A mark is on the value that was set last; behind a write of it there are only such.
MarksAreCurrent ==
  \A p \in Instances, f \in Settings :
    s_setter[f] = {p} =>
      /\ f \in s_prog[p].marks => s_prog[p].settings[f] = s_wanted[f]
      /\ \A i, j \in Nat :
           i < j /\ Writes(p, i, f) /\ Writes(p, j, f) /\ HasLatest(p, i, f) => HasLatest(p, j, f)
\* Where the value that was set last is.
InQueue(p, f) ==
  \E i \in Nat : /\ Writes(p, i, f) /\ HasLatest(p, i, f)
InFile(p, f) ==
  s_disk.has[f] = s_wanted[f] /\ \A i \in Nat : Writes(p, i, f) => HasLatest(p, i, f)
OnItsWay ==
  \A f \in Settings \ s_lost :
    /\ \A p \in Instances :
         s_setter[f] = {p} => f \in s_prog[p].marks \/ InQueue(p, f) \/ InFile(p, f)
    /\ s_setter[f] = {User} => s_disk.has[f] = s_wanted[f]

SettingsInv == SettingsTypes /\ OnlySettersWrite /\ ValuesAreOld /\ MarksAreCurrent /\ OnItsWay

-----------------------------------------------------------------------------
LEMMA UnsetType == Shared!Unset \in Values /\ \A f \in Settings : Shared!Unset[f] = 0
  BY DEF Shared!Unset, Values

LEMMA FreshType ==
  /\ Shared!Fresh \in Memories /\ Shared!Fresh.pc = "idle" /\ Shared!Fresh.marks = {} /\ Shared!Fresh.queue = <<>>
<1>1. <<>> \in Seq(Tasks)
  OBVIOUS
<1> QED
  BY <1>1, UnsetType DEF Shared!Fresh, Memories

LEMMA SettingsInitInv == Shared!Init => SettingsInv
<1> SUFFICES ASSUME Shared!Init PROVE SettingsInv
  OBVIOUS
<1>1. s_prog \in [Instances -> Memories]
  BY FreshType DEF Shared!Init
<1>2. \A p \in Instances : s_prog[p].pc = "idle" /\ s_prog[p].marks = {} /\ s_prog[p].queue = <<>>
  BY FreshType DEF Shared!Init
<1>3. \A p, i, f : p \in Instances => ~Writes(p, i, f)
  BY <1>2 DEF Writes
<1>4. s_disk \in Files /\ s_disk.has = Shared!Unset
  BY UnsetType DEF Shared!Init, Files
<1>5. SettingsTypes
  BY <1>1, <1>2, <1>4, UnsetType DEF SettingsTypes, Shared!Init
<1>6. \A f \in Settings : s_setter[f] = {}
  BY DEF Shared!Init
<1>7. OnlySettersWrite /\ ValuesAreOld
  BY <1>2, <1>3 DEF OnlySettersWrite, ValuesAreOld
<1>8. MarksAreCurrent /\ OnItsWay
  BY <1>6 DEF MarksAreCurrent, OnItsWay
<1> QED
  BY <1>5, <1>7, <1>8 DEF SettingsInv

\* The parts of what is stored.
LEMMA Parts ==
  ASSUME SettingsTypes, NEW p \in Instances
  PROVE  /\ s_prog[p] \in Memories /\ s_prog[p].settings \in Values /\ s_prog[p].marks \in SUBSET Settings
         /\ s_prog[p].queue \in Seq(Tasks) /\ Len(s_prog[p].queue) \in Nat
         /\ \A i \in 1..Len(s_prog[p].queue) :
              /\ s_prog[p].queue[i] \in Tasks
              /\ s_prog[p].queue[i].settings \in Values /\ s_prog[p].queue[i].marks \in SUBSET Settings
<1>1. s_prog[p] \in Memories
  BY DEF SettingsTypes
<1>2. s_prog[p].queue \in Seq(Tasks)
  BY <1>1 DEF Memories
<1>3. Len(s_prog[p].queue) \in Nat /\ \A i \in 1..Len(s_prog[p].queue) : s_prog[p].queue[i] \in Tasks
  BY <1>2, LenProperties, ElementOfSeq
<1> QED
  BY <1>1, <1>2, <1>3 DEF Memories, Tasks

\* The first of the queued writes is done, or has failed.
LEMMA TaskDoneEffect ==
  ASSUME SettingsTypes, NEW p \in Instances, NEW written \in BOOLEAN, s_prog[p].queue # <<>>, Shared!TaskDone(p, written)
  PROVE  /\ s_prog' \in [Instances -> Memories]
         /\ s_prog'[p].pc = "idle" /\ s_prog'[p].settings = s_prog[p].settings
         /\ s_prog'[p].marks = Shared!MarksAfter(p, written)
         /\ Len(s_prog'[p].queue) + 1 = Len(s_prog[p].queue)
         /\ \A i \in 1..Len(s_prog'[p].queue) : s_prog'[p].queue[i] = s_prog[p].queue[i + 1]
         /\ \A q \in Instances : q # p => s_prog'[q] = s_prog[q]
<1> DEFINE rest == Tail(s_prog[p].queue)
           m == [s_prog[p] EXCEPT !.pc = "idle", !.queue = rest, !.marks = Shared!MarksAfter(p, written)]
<1>1. /\ rest \in Seq(Tasks) /\ Len(rest) + 1 = Len(s_prog[p].queue)
      /\ \A i \in 1..Len(rest) : rest[i] = s_prog[p].queue[i + 1]
  BY Parts, HeadTailProperties
<1>2. Shared!MarksAfter(p, written) \in SUBSET Settings
  BY Parts DEF Shared!MarksAfter
<1>3. s_prog' = [s_prog EXCEPT ![p] = m]
  BY DEF Shared!TaskDone
<1>4. s_prog \in [Instances -> Memories]
  BY DEF SettingsTypes
<1> HIDE DEF rest
<1>5. /\ m \in Memories /\ m.pc = "idle" /\ m.settings = s_prog[p].settings /\ m.queue = rest
      /\ m.marks = Shared!MarksAfter(p, written)
  BY <1>1, <1>2, Parts DEF Memories
<1> HIDE DEF m
<1>6. s_prog' \in [Instances -> Memories] /\ s_prog'[p] = m /\ \A q \in Instances : q # p => s_prog'[q] = s_prog[q]
  BY <1>3, <1>4, <1>5
<1> QED
  BY <1>1, <1>5, <1>6

\* A write that merges: what is marked is written, the rest is left.
LEMMA MergedType ==
  ASSUME NEW has \in Values, NEW task \in Tasks
  PROVE  /\ Shared!Merged(has, task) \in Values
         /\ \A f \in Settings :
              Shared!Merged(has, task)[f] = IF f \in task.marks THEN task.settings[f] ELSE has[f]
  BY DEF Shared!Merged, Values, Tasks

\* What a task that is done, or has failed, leaves of the queue.
LEMMA QueueShifts ==
  ASSUME SettingsTypes, NEW p \in Instances, NEW written \in BOOLEAN, s_prog[p].queue # <<>>, Shared!TaskDone(p, written),
         UNCHANGED s_wanted
  PROVE  /\ \A i \in Nat, f \in Settings :
              /\ Writes(p, i, f)' <=> i # 0 /\ Writes(p, i + 1, f)
              /\ Writes(p, i, f)' => (HasLatest(p, i, f)' <=> HasLatest(p, i + 1, f))
         /\ \A q \in Instances : q # p => \A i, f :
              (Writes(q, i, f)' <=> Writes(q, i, f)) /\ (HasLatest(q, i, f)' <=> HasLatest(q, i, f))
         /\ \A f : Writes(p, 1, f) <=> f \in Head(s_prog[p].queue).marks
         /\ \A f : HasLatest(p, 1, f) <=> Head(s_prog[p].queue).settings[f] = s_wanted[f]
<1>1. /\ s_prog[p].queue \in Seq(Tasks) /\ Len(s_prog[p].queue) \in Nat /\ Len(s_prog[p].queue) >= 1
      /\ Head(s_prog[p].queue) = s_prog[p].queue[1]
  BY Parts, HeadTailProperties, EmptySeq, LenProperties
<1>2. /\ Len(s_prog'[p].queue) + 1 = Len(s_prog[p].queue)
      /\ \A i \in 1..Len(s_prog'[p].queue) : s_prog'[p].queue[i] = s_prog[p].queue[i + 1]
      /\ \A q \in Instances : q # p => s_prog'[q] = s_prog[q]
      /\ s_prog' \in [Instances -> Memories]
  BY TaskDoneEffect
<1>3. Len(s_prog'[p].queue) \in Nat
  <2>1. s_prog'[p].queue \in Seq(Tasks)
    BY <1>2 DEF Memories
  <2> QED BY <2>1, LenProperties
<1>4. \A i \in Nat, f \in Settings :
        /\ Writes(p, i, f)' <=> i # 0 /\ Writes(p, i + 1, f)
        /\ Writes(p, i, f)' => (HasLatest(p, i, f)' <=> HasLatest(p, i + 1, f))
  <2> SUFFICES ASSUME NEW i \in Nat, NEW f \in Settings
               PROVE  /\ Writes(p, i, f)' <=> i # 0 /\ Writes(p, i + 1, f)
                      /\ Writes(p, i, f)' => (HasLatest(p, i, f)' <=> HasLatest(p, i + 1, f))
    OBVIOUS
  <2>1. i \in 1..Len(s_prog'[p].queue) <=> i # 0 /\ i + 1 \in 1..Len(s_prog[p].queue)
    BY <1>1, <1>2, <1>3
  <2> QED BY <1>2, <2>1 DEF Writes, HasLatest
<1>5. \A q \in Instances : q # p => \A i, f :
        (Writes(q, i, f)' <=> Writes(q, i, f)) /\ (HasLatest(q, i, f)' <=> HasLatest(q, i, f))
  BY <1>2 DEF Writes, HasLatest
<1>6. \A f : /\ Writes(p, 1, f) <=> f \in Head(s_prog[p].queue).marks
             /\ HasLatest(p, 1, f) <=> Head(s_prog[p].queue).settings[f] = s_wanted[f]
  BY <1>1 DEF Writes, HasLatest
<1> QED
  BY <1>4, <1>5, <1>6

\* A task is done or has failed: what nobody will write any more is lost.
LEMMA TaskDoneKeepsInv ==
  ASSUME User \notin Instances, SettingsInv, NEW p \in Instances, NEW written \in BOOLEAN,
         s_prog[p].queue # <<>>, Shared!TaskDone(p, written), UNCHANGED <<s_changes, s_setter, s_wanted>>,
         s_disk' \in Files, s_faults' \in Nat, s_lost' \in SUBSET Settings, s_lost \subseteq s_lost',
         IF written
         THEN /\ Shared!Forgotten(p) \subseteq s_lost'
              /\ \A f \in Settings \ s_lost' :
                   s_disk'.has[f] = Shared!Merged(s_disk.has, Head(s_prog[p].queue))[f]
         ELSE Shared!GoneWith(p) \subseteq s_lost' /\ s_disk'.has = s_disk.has
  PROVE  SettingsInv'
<1> DEFINE head == Head(s_prog[p].queue)
<1>1. SettingsTypes /\ OnlySettersWrite /\ ValuesAreOld /\ MarksAreCurrent /\ OnItsWay
  BY DEF SettingsInv
<1>2. /\ s_prog' \in [Instances -> Memories]
      /\ s_prog'[p].pc = "idle" /\ s_prog'[p].settings = s_prog[p].settings
      /\ s_prog'[p].marks = Shared!MarksAfter(p, written)
      /\ Len(s_prog'[p].queue) + 1 = Len(s_prog[p].queue)
      /\ \A i \in 1..Len(s_prog'[p].queue) : s_prog'[p].queue[i] = s_prog[p].queue[i + 1]
      /\ \A q \in Instances : q # p => s_prog'[q] = s_prog[q]
  BY <1>1, TaskDoneEffect
<1>3. /\ \A i \in Nat, f \in Settings :
           /\ Writes(p, i, f)' <=> i # 0 /\ Writes(p, i + 1, f)
           /\ Writes(p, i, f)' => (HasLatest(p, i, f)' <=> HasLatest(p, i + 1, f))
      /\ \A q \in Instances : q # p => \A i, f :
           (Writes(q, i, f)' <=> Writes(q, i, f)) /\ (HasLatest(q, i, f)' <=> HasLatest(q, i, f))
      /\ \A f : Writes(p, 1, f) <=> f \in head.marks
      /\ \A f : HasLatest(p, 1, f) <=> head.settings[f] = s_wanted[f]
  BY <1>1, QueueShifts
<1>4. s_prog'[p].marks \subseteq s_prog[p].marks /\ (~written => s_prog'[p].marks = s_prog[p].marks)
  BY <1>2 DEF Shared!MarksAfter
<1>5. head \in Tasks /\ s_disk.has \in Values
  <2>1. head \in Tasks
    BY <1>1, Parts, HeadTailProperties
  <2> QED BY <1>1, <2>1 DEF SettingsTypes, Files
<1>6. SettingsTypes'
  BY <1>1, <1>2 DEF SettingsTypes
<1>7. OnlySettersWrite'
  <2>1. ASSUME NEW q \in Instances, NEW f \in Settings, f \in s_prog'[q].marks PROVE q \in s_setter[f]
    BY <1>1, <1>2, <1>4, <2>1 DEF OnlySettersWrite
  <2>2. ASSUME NEW q \in Instances, NEW f \in Settings, NEW i \in Nat, Writes(q, i, f)'
        PROVE  q \in s_setter[f]
    BY <1>1, <1>3, <2>2 DEF OnlySettersWrite
  <2> QED BY <2>1, <2>2 DEF OnlySettersWrite
<1>8. ValuesAreOld'
  <2>1. ASSUME NEW q \in Instances, NEW f \in Settings, f \in s_prog'[q].marks
        PROVE  s_prog'[q].settings[f] <= s_changes
    BY <1>1, <1>2, <1>4, <2>1 DEF ValuesAreOld
  <2>2. ASSUME NEW q \in Instances, NEW f \in Settings, NEW i \in Nat, Writes(q, i, f)', q = p
        PROVE  s_prog'[q].queue[i].settings[f] <= s_changes
    <3>1. Writes(p, i + 1, f) /\ i + 1 \in Nat
      BY <1>3, <2>2
    <3>2. s_prog'[p].queue[i] = s_prog[p].queue[i + 1]
      BY <1>2, <2>2 DEF Writes
    <3> QED BY <1>1, <2>2, <3>1, <3>2 DEF ValuesAreOld
  <2>3. ASSUME NEW q \in Instances, NEW f \in Settings, NEW i \in Nat, Writes(q, i, f)', q # p
        PROVE  s_prog'[q].queue[i].settings[f] <= s_changes
    BY <1>1, <1>2, <1>3, <2>3 DEF ValuesAreOld
  <2> QED BY <2>1, <2>2, <2>3 DEF ValuesAreOld
<1>9. MarksAreCurrent'
  <2> SUFFICES ASSUME NEW q \in Instances, NEW f \in Settings, s_setter[f] = {q}
               PROVE  /\ f \in s_prog'[q].marks => s_prog'[q].settings[f] = s_wanted[f]
                      /\ \A i, j \in Nat :
                           i < j /\ Writes(q, i, f)' /\ Writes(q, j, f)' /\ HasLatest(q, i, f)'
                             => HasLatest(q, j, f)'
    BY DEF MarksAreCurrent
  <2>1. f \in s_prog'[q].marks => s_prog'[q].settings[f] = s_wanted[f]
    BY <1>1, <1>2, <1>4 DEF MarksAreCurrent
  <2>2. ASSUME NEW i \in Nat, NEW j \in Nat, i < j, Writes(q, i, f)', Writes(q, j, f)', HasLatest(q, i, f)'
        PROVE  HasLatest(q, j, f)'
    <3>1. CASE q = p
      <4>1. Writes(p, i + 1, f) /\ Writes(p, j + 1, f) /\ HasLatest(p, i + 1, f)
        BY <1>3, <2>2, <3>1
      <4>2. HasLatest(p, j + 1, f)
        BY <1>1, <2>2, <3>1, <4>1 DEF MarksAreCurrent
      <4> QED BY <1>3, <2>2, <3>1, <4>2
    <3>2. CASE q # p
      BY <1>1, <1>3, <2>2, <3>2 DEF MarksAreCurrent
    <3> QED BY <3>1, <3>2
  <2> QED BY <2>1, <2>2
<1>10. ASSUME NEW f \in Settings \ s_lost', ~Writes(p, 1, f) \/ ~written PROVE s_disk'.has[f] = s_disk.has[f]
  BY <1>3, <1>5, <1>10, MergedType
<1>11. ASSUME NEW f \in Settings \ s_lost', Writes(p, 1, f), written PROVE s_disk'.has[f] = head.settings[f]
  BY <1>3, <1>5, <1>11, MergedType
<1>12. OnItsWay'
  <2> SUFFICES ASSUME NEW f \in Settings \ s_lost'
               PROVE  /\ \A q \in Instances :
                           s_setter[f] = {q} => f \in s_prog'[q].marks \/ InQueue(q, f)' \/ InFile(q, f)'
                      /\ s_setter[f] = {User} => s_disk'.has[f] = s_wanted[f]
    BY DEF OnItsWay
  <2>1. ASSUME s_setter[f] = {User} PROVE s_disk'.has[f] = s_wanted[f]
    <3>1. ~Writes(p, 1, f)
      BY <1>1, <2>1 DEF OnlySettersWrite
    <3> QED BY <1>1, <1>10, <2>1, <3>1 DEF OnItsWay
  <2>2. ASSUME NEW q \in Instances, s_setter[f] = {q}, q # p
        PROVE  f \in s_prog'[q].marks \/ InQueue(q, f)' \/ InFile(q, f)'
    <3>1. s_disk'.has[f] = s_disk.has[f]
      <4>1. ~Writes(p, 1, f)
        BY <1>1, <2>2 DEF OnlySettersWrite
      <4> QED BY <1>10, <4>1
    <3>2. f \in s_prog[q].marks \/ InQueue(q, f) \/ InFile(q, f)
      BY <1>1, <2>2 DEF OnItsWay
    <3> QED BY <1>2, <1>3, <2>2, <3>1, <3>2 DEF InQueue, InFile
  <2>3. ASSUME s_setter[f] = {p}
        PROVE  f \in s_prog'[p].marks \/ InQueue(p, f)' \/ InFile(p, f)'
    <3>1. f \in s_prog[p].marks \/ InQueue(p, f) \/ InFile(p, f)
      BY <1>1, <2>3 DEF OnItsWay
    <3>2. ASSUME NEW i \in Nat, i # 1, Writes(p, i, f), HasLatest(p, i, f) PROVE InQueue(p, f)'
      <4>1. PICK j \in Nat : i = j + 1 /\ j # 0
        BY <3>2 DEF Writes
      <4> QED BY <1>3, <3>2, <4>1 DEF InQueue
    <3>3. ASSUME Writes(p, 1, f), HasLatest(p, 1, f), written PROVE InFile(p, f)'
      <4>1. s_disk'.has[f] = s_wanted[f]
        BY <1>3, <1>11, <3>3
      <4>2. ASSUME NEW i \in Nat, Writes(p, i, f)' PROVE HasLatest(p, i, f)'
        BY <1>1, <1>3, <2>3, <3>3, <4>2 DEF MarksAreCurrent
      <4> QED BY <4>1, <4>2 DEF InFile
    <3>4. ASSUME InQueue(p, f), written \/ f \notin s_prog[p].marks PROVE InQueue(p, f)' \/ InFile(p, f)'
      <4>1. PICK i \in Nat : Writes(p, i, f) /\ HasLatest(p, i, f)
        BY <3>4 DEF InQueue
      <4>2. CASE i # 1
        BY <3>2, <4>1, <4>2
      <4>3. CASE i = 1 /\ written
        BY <3>3, <4>1, <4>3
      <4>4. CASE i = 1 /\ ~written
        <5>1. f \notin Shared!GoneWith(p) /\ f \in head.marks /\ f \notin s_prog[p].marks
          BY <1>3, <3>4, <4>1, <4>4
        <5>2. PICK j \in 2..Len(s_prog[p].queue) : f \in s_prog[p].queue[j].marks
          BY <5>1 DEF Shared!GoneWith
        <5>3. Len(s_prog[p].queue) \in Nat
          BY <1>1, Parts
        <5>4. j \in Nat /\ 1 < j /\ Writes(p, j, f)
          BY <5>2, <5>3 DEF Writes
        <5>5. HasLatest(p, j, f)
          BY <1>1, <2>3, <4>1, <4>4, <5>4 DEF MarksAreCurrent
        <5> QED BY <3>2, <5>4, <5>5
      <4> QED BY <4>2, <4>3, <4>4
    <3>5. CASE f \in s_prog[p].marks /\ ~written
      BY <1>4, <3>5
    <3>6. CASE f \in s_prog[p].marks /\ written
      <4>1. f \notin Shared!Forgotten(p)
        BY <3>6
      <4>2. PICK i \in DOMAIN s_prog[p].queue :
              f \in s_prog[p].queue[i].marks /\ s_prog[p].queue[i].settings[f] = s_prog[p].settings[f]
        BY <3>6, <4>1 DEF Shared!Forgotten
      <4>3. i \in 1..Len(s_prog[p].queue) /\ i \in Nat
        BY <1>1, <4>2, Parts, LenProperties
      <4>4. Writes(p, i, f) /\ HasLatest(p, i, f)
        BY <1>1, <2>3, <3>6, <4>2, <4>3 DEF Writes, HasLatest, MarksAreCurrent
      <4> QED BY <3>4, <3>6, <4>3, <4>4 DEF InQueue
    <3>7. CASE f \notin s_prog[p].marks /\ InQueue(p, f)
      BY <3>4, <3>7
    <3>8. CASE InFile(p, f)
      <4>1. s_disk'.has[f] = s_wanted[f]
        BY <1>3, <1>10, <1>11, <3>8 DEF InFile
      <4>2. ASSUME NEW i \in Nat, Writes(p, i, f)' PROVE HasLatest(p, i, f)'
        <5>1. i + 1 \in Nat /\ Writes(p, i + 1, f)
          BY <1>3, <4>2
        <5>2. HasLatest(p, i + 1, f)
          BY <3>8, <5>1 DEF InFile
        <5> QED BY <1>3, <4>2, <5>2
      <4> QED BY <4>1, <4>2 DEF InFile
    <3> QED BY <3>1, <3>5, <3>6, <3>7, <3>8
  <2> QED BY <2>1, <2>2, <2>3
<1> QED
  BY <1>6, <1>7, <1>8, <1>9, <1>12 DEF SettingsInv

\* The programs of a step that moves no queue forward, one by one.
LEMMA PlainStepKeepsInv ==
  ASSUME User \notin Instances, SettingsInv, UNCHANGED <<s_prog, s_changes, s_setter, s_wanted, s_lost>>,
         s_disk' \in Files, s_disk'.has = s_disk.has, s_faults' \in Nat
  PROVE  SettingsInv'
<1>1. /\ \A p, i, f : (Writes(p, i, f)' <=> Writes(p, i, f)) /\ (HasLatest(p, i, f)' <=> HasLatest(p, i, f))
  BY DEF Writes, HasLatest
<1>2. \A p, f : (InQueue(p, f)' <=> InQueue(p, f)) /\ (InFile(p, f)' <=> InFile(p, f))
  BY <1>1 DEF InQueue, InFile
<1>3. SettingsTypes'
  BY DEF SettingsInv, SettingsTypes
<1>4. OnlySettersWrite' /\ ValuesAreOld'
  BY <1>1 DEF SettingsInv, OnlySettersWrite, ValuesAreOld
<1>5. MarksAreCurrent'
  BY <1>1 DEF SettingsInv, MarksAreCurrent
<1>6. OnItsWay'
  BY <1>2 DEF SettingsInv, OnItsWay
<1> QED
  BY <1>3, <1>4, <1>5, <1>6 DEF SettingsInv

LEMMA WriteFileKeepsInv ==
  ASSUME User \notin Instances, SettingsInv, NEW p \in Instances, Shared!WriteFile(p)
  PROVE  SettingsInv'
<1>1. Head(s_prog[p].queue) \in Tasks /\ s_disk \in Files /\ s_disk.has \in Values /\ s_faults \in Nat
      /\ s_lost \in SUBSET Settings /\ Shared!Forgotten(p) \subseteq Settings
  BY Parts, HeadTailProperties DEF SettingsInv, SettingsTypes, Files, Shared!Forgotten, Shared!WriteFile
<1>2. s_disk' = [s_disk EXCEPT !.has = Shared!Merged(s_disk.has, Head(s_prog[p].queue))]
  BY DEF Shared!WriteFile
<1>3. Shared!Merged(s_disk.has, Head(s_prog[p].queue)) \in Values
  BY <1>1, MergedType
<1>4. s_disk' \in Files /\ s_disk'.has = Shared!Merged(s_disk.has, Head(s_prog[p].queue))
  BY <1>1, <1>2, <1>3 DEF Files
<1>5. s_prog[p].queue # <<>> /\ Shared!TaskDone(p, TRUE) /\ UNCHANGED <<s_changes, s_setter, s_wanted>> /\ s_faults' = s_faults
      /\ s_lost' = s_lost \cup Shared!Forgotten(p)
  BY DEF Shared!WriteFile
<1> QED
  BY <1>1, <1>4, <1>5, TaskDoneKeepsInv, Zenon

LEMMA CreateFileKeepsInv ==
  ASSUME User \notin Instances, SettingsInv, NEW p \in Instances, Shared!CreateFile(p)
  PROVE  SettingsInv'
<1> DEFINE task == Head(s_prog[p].queue)
           made == Shared!Merged(Shared!Unset, task)
           gone == {f \in Settings \ task.marks : s_disk.has[f] # 0}
<1>1. /\ s_prog[p].pc = "creating" /\ s_disk' = [is |-> "fine", has |-> made]
      /\ s_lost' = s_lost \cup Shared!Forgotten(p) \cup gone
      /\ Shared!TaskDone(p, TRUE) /\ UNCHANGED <<s_changes, s_setter, s_wanted>> /\ s_faults' = s_faults
  BY DEF Shared!CreateFile
<1>2. s_prog[p].queue # <<>>
  BY <1>1 DEF SettingsInv, SettingsTypes
<1>3. task \in Tasks /\ s_disk.has \in Values /\ s_faults \in Nat
      /\ s_lost \in SUBSET Settings /\ Shared!Forgotten(p) \subseteq Settings
  BY <1>2, Parts, HeadTailProperties DEF SettingsInv, SettingsTypes, Files, Shared!Forgotten
<1>4. made \in Values /\ \A f \in Settings : made[f] = IF f \in task.marks THEN task.settings[f] ELSE 0
  BY <1>3, UnsetType, MergedType
<1>5. \A f \in Settings : Shared!Merged(s_disk.has, task)[f] = IF f \in task.marks THEN task.settings[f] ELSE s_disk.has[f]
  BY <1>3, MergedType
<1> HIDE DEF made, task
<1>6. s_disk' \in Files /\ s_disk'.has = made
  BY <1>1, <1>4 DEF Files
<1>7. \A f \in Settings \ s_lost' : s_disk'.has[f] = Shared!Merged(s_disk.has, task)[f]
  BY <1>1, <1>4, <1>5, <1>6
<1>8. s_lost' \in SUBSET Settings /\ s_lost \subseteq s_lost' /\ Shared!Forgotten(p) \subseteq s_lost' /\ s_faults' \in Nat
  BY <1>1, <1>3
<1> QED
  BY <1>1, <1>2, <1>6, <1>7, <1>8, TaskDoneKeepsInv, Zenon DEF task

LEMMA WriteFailsKeepsInv ==
  ASSUME User \notin Instances, SettingsInv, NEW p \in Instances, Shared!WriteFails(p)
  PROVE  SettingsInv'
<1>1. /\ s_prog[p].queue # <<>> /\ Shared!TaskDone(p, FALSE) /\ UNCHANGED <<s_changes, s_setter, s_wanted, s_disk>>
      /\ s_lost' = s_lost \cup Shared!GoneWith(p) /\ (s_faults' = s_faults \/ s_faults' = s_faults + 1)
  BY DEF Shared!WriteFails
<1>2. Head(s_prog[p].queue) \in Tasks
  BY <1>1, Parts, HeadTailProperties DEF SettingsInv
<1>3. Shared!GoneWith(p) \subseteq Settings
  BY <1>2 DEF Shared!GoneWith, Tasks
<1>4. s_disk' \in Files /\ s_faults' \in Nat /\ s_lost' \in SUBSET Settings
  BY <1>1, <1>3 DEF SettingsInv, SettingsTypes
<1> QED
  BY <1>1, <1>4, TaskDoneKeepsInv

\* Nobody has begun to write.
LEMMA FindNoFileKeepsInv ==
  ASSUME User \notin Instances, SettingsInv, NEW p \in Instances, Shared!FindNoFile(p)
  PROVE  SettingsInv'
<1>1. /\ s_prog[p].queue # <<>> /\ s_prog' = [s_prog EXCEPT ![p].pc = "creating"]
      /\ UNCHANGED <<s_disk, s_changes, s_faults, s_setter, s_wanted, s_lost>>
  BY DEF Shared!FindNoFile
<1>2. s_prog \in [Instances -> Memories]
  BY DEF SettingsInv, SettingsTypes
<1>3. \A q \in Instances : /\ s_prog'[q].queue = s_prog[q].queue /\ s_prog'[q].marks = s_prog[q].marks
                           /\ s_prog'[q].settings = s_prog[q].settings
                           /\ s_prog'[q].pc = "creating" => s_prog'[q].queue # <<>>
  BY <1>1, <1>2 DEF Memories, SettingsInv, SettingsTypes
<1>4. s_prog' \in [Instances -> Memories]
  BY <1>1, <1>2 DEF Memories
<1>5. SettingsTypes'
  BY <1>1, <1>3, <1>4 DEF SettingsInv, SettingsTypes
<1>6. \A q \in Instances : \A i, f :
        (Writes(q, i, f)' <=> Writes(q, i, f)) /\ (HasLatest(q, i, f)' <=> HasLatest(q, i, f))
  BY <1>1, <1>3 DEF Writes, HasLatest
<1>7. \A q \in Instances : \A f : (InQueue(q, f)' <=> InQueue(q, f)) /\ (InFile(q, f)' <=> InFile(q, f))
  BY <1>1, <1>6 DEF InQueue, InFile
<1>8. OnlySettersWrite' /\ ValuesAreOld'
  BY <1>1, <1>3, <1>6 DEF SettingsInv, OnlySettersWrite, ValuesAreOld
<1>9. MarksAreCurrent'
  BY <1>1, <1>3, <1>6 DEF SettingsInv, MarksAreCurrent
<1>10. OnItsWay'
  BY <1>1, <1>3, <1>7 DEF SettingsInv, OnItsWay
<1> QED
  BY <1>5, <1>8, <1>9, <1>10 DEF SettingsInv

\* The memory of one program changes, its queue and what is on disk do not.
LEMMA SettingsReloadKeepsInv ==
  ASSUME User \notin Instances, SettingsInv, NEW p \in Instances, Shared!Reload(p)
  PROVE  SettingsInv'
<1>1. /\ s_prog' = [s_prog EXCEPT ![p] = Shared!Reloaded(p)] /\ s_lost' = s_lost \cup Shared!Forgotten(p)
      /\ UNCHANGED <<s_disk, s_changes, s_faults, s_setter, s_wanted>>
  BY DEF Shared!Reload
<1>2. SettingsTypes /\ s_prog \in [Instances -> Memories] /\ s_prog[p] \in Memories /\ s_disk.has \in Values
  BY DEF SettingsInv, SettingsTypes, Files
<1>3. /\ Shared!Reloaded(p) \in Memories /\ Shared!Reloaded(p).queue = s_prog[p].queue /\ Shared!Reloaded(p).marks = {}
      /\ Shared!Reloaded(p).pc = s_prog[p].pc
  BY <1>2 DEF Shared!Reloaded, Memories
<1>4. /\ s_prog' \in [Instances -> Memories] /\ s_prog'[p] = Shared!Reloaded(p)
      /\ \A q \in Instances : q # p => s_prog'[q] = s_prog[q]
  BY <1>1, <1>2, <1>3
<1>5. /\ \A q \in Instances : s_prog'[q].queue = s_prog[q].queue /\ s_prog'[q].pc = s_prog[q].pc
      /\ s_prog'[p].marks = {}
  BY <1>3, <1>4
<1>6. Shared!Forgotten(p) \subseteq Settings
  BY <1>2 DEF Shared!Forgotten, Memories
<1>7. SettingsTypes'
  BY <1>1, <1>2, <1>4, <1>5, <1>6 DEF SettingsTypes
<1>8. \A q \in Instances : \A i, f :
        (Writes(q, i, f)' <=> Writes(q, i, f)) /\ (HasLatest(q, i, f)' <=> HasLatest(q, i, f))
  BY <1>1, <1>5 DEF Writes, HasLatest
<1>9. \A q \in Instances : \A f : (InQueue(q, f)' <=> InQueue(q, f)) /\ (InFile(q, f)' <=> InFile(q, f))
  BY <1>1, <1>8 DEF InQueue, InFile
<1>10. OnlySettersWrite'
  BY <1>1, <1>4, <1>5, <1>8 DEF SettingsInv, OnlySettersWrite
<1>11. ValuesAreOld'
  BY <1>1, <1>4, <1>5, <1>8 DEF SettingsInv, ValuesAreOld
<1>12. MarksAreCurrent'
  BY <1>1, <1>4, <1>5, <1>8 DEF SettingsInv, MarksAreCurrent
<1>13. OnItsWay'
  <2> SUFFICES ASSUME NEW f \in Settings \ s_lost'
               PROVE  /\ \A q \in Instances :
                           s_setter[f] = {q} => f \in s_prog'[q].marks \/ InQueue(q, f)' \/ InFile(q, f)'
                      /\ s_setter[f] = {User} => s_disk.has[f] = s_wanted[f]
    BY <1>1 DEF OnItsWay
  <2>1. f \notin s_lost /\ f \notin Shared!Forgotten(p)
    BY <1>1
  <2>2. ASSUME s_setter[f] = {p}, f \in s_prog[p].marks PROVE InQueue(p, f)
    <3>1. PICK i \in DOMAIN s_prog[p].queue :
            f \in s_prog[p].queue[i].marks /\ s_prog[p].queue[i].settings[f] = s_prog[p].settings[f]
      BY <2>1, <2>2 DEF Shared!Forgotten
    <3>2. i \in 1..Len(s_prog[p].queue) /\ i \in Nat
      BY <1>2, <3>1, Parts, LenProperties
    <3>3. Writes(p, i, f) /\ HasLatest(p, i, f)
      BY <2>2, <3>1, <3>2 DEF Writes, HasLatest, SettingsInv, MarksAreCurrent
    <3> QED BY <3>2, <3>3 DEF InQueue
  <2>3. ASSUME NEW q \in Instances, s_setter[f] = {q}
        PROVE  f \in s_prog'[q].marks \/ InQueue(q, f)' \/ InFile(q, f)'
    <3>1. f \in s_prog[q].marks \/ InQueue(q, f) \/ InFile(q, f)
      BY <2>1, <2>3 DEF SettingsInv, OnItsWay
    <3>2. CASE q = p
      BY <1>9, <2>2, <2>3, <3>1, <3>2
    <3>3. CASE q # p
      BY <1>4, <1>9, <3>1, <3>3
    <3> QED BY <3>2, <3>3
  <2> QED BY <2>1, <2>3 DEF SettingsInv, OnItsWay
<1> QED
  BY <1>7, <1>10, <1>11, <1>12, <1>13 DEF SettingsInv

\* What a setter does to its program.
LEMMA SetEffect ==
  ASSUME SettingsTypes, NEW p \in Instances, NEW f \in Settings, Shared!Set(p, f)
  PROVE  /\ s_prog' \in [Instances -> Memories]
         /\ \A q \in Instances : q # p => s_prog'[q] = s_prog[q]
         /\ s_prog'[p].pc = "idle"
         /\ s_prog'[p].marks = s_prog[p].marks \cup {f}
         /\ s_prog'[p].settings[f] = s_changes + 1
         /\ \A g \in Settings : g # f => s_prog'[p].settings[g] = s_prog[p].settings[g]
         /\ \/ s_prog'[p].queue = s_prog[p].queue
            \/ /\ Len(s_prog'[p].queue) = Len(s_prog[p].queue) + 1
               /\ \A i \in 1..Len(s_prog[p].queue) : s_prog'[p].queue[i] = s_prog[p].queue[i]
               /\ s_prog'[p].queue[Len(s_prog[p].queue) + 1].marks = s_prog'[p].marks
               /\ s_prog'[p].queue[Len(s_prog[p].queue) + 1].settings = s_prog'[p].settings
<1> DEFINE m == [s_prog[p] EXCEPT !.settings[f] = s_changes + 1, !.marks = @ \cup {f}]
           task == [settings |-> m.settings, marks |-> m.marks]
           queue == Append(s_prog[p].queue, task)
           after == IF m.loadError THEN m ELSE [m EXCEPT !.queue = queue]
<1>1. s_prog[p].pc = "idle" /\ s_prog' = [s_prog EXCEPT ![p] = after] /\ Shared!Changed(p, f)
  <2>1. m.queue = s_prog[p].queue
    OBVIOUS
  <2> QED BY <2>1 DEF Shared!Set
<1>2. s_prog \in [Instances -> Memories] /\ s_changes + 1 \in Nat
  BY DEF SettingsTypes
<1>3. /\ m \in Memories /\ m.pc = s_prog[p].pc /\ m.queue = s_prog[p].queue /\ m.marks = s_prog[p].marks \cup {f}
      /\ m.settings \in Values /\ m.marks \in SUBSET Settings
      /\ m.settings[f] = s_changes + 1 /\ \A g \in Settings : g # f => m.settings[g] = s_prog[p].settings[g]
  BY <1>2 DEF Memories, Values
<1> HIDE DEF m
<1>4. task \in Tasks /\ task.marks = m.marks /\ task.settings = m.settings
  BY <1>3 DEF Tasks
<1> HIDE DEF task
<1>5. /\ queue \in Seq(Tasks) /\ Len(queue) = Len(s_prog[p].queue) + 1
      /\ \A i \in 1..Len(s_prog[p].queue) : queue[i] = s_prog[p].queue[i]
      /\ queue[Len(s_prog[p].queue) + 1] = task
  BY <1>4, Parts, AppendProperties
<1> HIDE DEF queue
<1>6. /\ after \in Memories /\ after.pc = m.pc /\ after.marks = m.marks /\ after.settings = m.settings
      /\ after.queue = m.queue \/ after.queue = queue
  BY <1>3, <1>5 DEF Memories
<1> HIDE DEF after
<1>7. /\ s_prog' \in [Instances -> Memories] /\ s_prog'[p] = after
      /\ \A q \in Instances : q # p => s_prog'[q] = s_prog[q]
  BY <1>1, <1>2, <1>6
<1> QED
  BY <1>1, <1>3, <1>4, <1>5, <1>6, <1>7

\* What counts of a field that was not set in this step.
LEMMA ChangedEffect ==
  ASSUME SettingsTypes, NEW who \in Instances \cup {User}, NEW f \in Settings, Shared!Changed(who, f)
  PROVE  /\ s_changes' = s_changes + 1 /\ s_changes' \in Nat
         /\ s_setter' \in [Settings -> SUBSET (Instances \cup {User})] /\ s_setter'[f] = s_setter[f] \cup {who}
         /\ s_wanted' \in Values /\ s_wanted'[f] = s_changes + 1
         /\ s_lost' = s_lost \ {f}
         /\ \A g \in Settings : g # f => s_setter'[g] = s_setter[g] /\ s_wanted'[g] = s_wanted[g]
  BY DEF SettingsTypes, Shared!Changed, Values

LEMMA SetKeepsInv ==
  ASSUME User \notin Instances, SettingsInv, NEW p \in Instances, NEW f \in Settings, Shared!Set(p, f)
  PROVE  SettingsInv'
<1> DEFINE n == Len(s_prog[p].queue)
           grown == /\ Len(s_prog'[p].queue) = n + 1
                    /\ \A i \in 1..n : s_prog'[p].queue[i] = s_prog[p].queue[i]
                    /\ s_prog'[p].queue[n + 1].marks = s_prog'[p].marks
                    /\ s_prog'[p].queue[n + 1].settings = s_prog'[p].settings
<1>1. SettingsTypes /\ Shared!Changed(p, f) /\ UNCHANGED <<s_disk, s_faults>>
  BY DEF SettingsInv, Shared!Set
<1>2. /\ s_prog' \in [Instances -> Memories]
      /\ \A q \in Instances : q # p => s_prog'[q] = s_prog[q]
      /\ s_prog'[p].pc = "idle"
      /\ s_prog'[p].marks = s_prog[p].marks \cup {f}
      /\ s_prog'[p].settings[f] = s_changes + 1
      /\ \A g \in Settings : g # f => s_prog'[p].settings[g] = s_prog[p].settings[g]
      /\ s_prog'[p].queue = s_prog[p].queue \/ grown
  BY <1>1, SetEffect
<1>3. /\ s_changes' = s_changes + 1 /\ s_changes' \in Nat /\ s_changes \in Nat
      /\ s_setter' \in [Settings -> SUBSET (Instances \cup {User})] /\ s_setter'[f] = s_setter[f] \cup {p}
      /\ s_wanted' \in Values /\ s_wanted'[f] = s_changes + 1
      /\ s_lost' = s_lost \ {f}
      /\ \A g \in Settings : g # f => s_setter'[g] = s_setter[g] /\ s_wanted'[g] = s_wanted[g]
  BY <1>1, ChangedEffect DEF SettingsTypes
<1>4. n \in Nat /\ n + 1 \in Nat /\ n + 1 \notin 1..n
  BY <1>1, Parts
<1> HIDE DEF n
\* A task is an old one, or the new one, which has what memory has.
<1>5. ASSUME NEW q \in Instances, NEW i \in Nat, NEW g \in Settings, Writes(q, i, g)'
      PROVE  \/ Writes(q, i, g) /\ s_prog'[q].queue[i] = s_prog[q].queue[i] /\ (q = p /\ grown => i <= n)
             \/ /\ q = p /\ grown /\ i = n + 1 /\ g \in s_prog'[p].marks
                /\ s_prog'[p].queue[i].settings = s_prog'[p].settings
  BY <1>2, <1>4, <1>5 DEF Writes, n
<1>6. ASSUME NEW q \in Instances, NEW i \in Nat, NEW g \in Settings, Writes(q, i, g)
      PROVE  Writes(q, i, g)' /\ s_prog'[q].queue[i] = s_prog[q].queue[i]
  BY <1>2, <1>4, <1>6 DEF Writes, n
<1>7. SettingsTypes'
  BY <1>1, <1>2, <1>3 DEF SettingsTypes
<1>8. OnlySettersWrite'
  <2>1. \A q \in Instances, g \in Settings : g \in s_prog'[q].marks => q \in s_setter'[g]
    BY <1>2, <1>3 DEF SettingsInv, OnlySettersWrite
  <2>2. ASSUME NEW q \in Instances, NEW g \in Settings, NEW i \in Nat, Writes(q, i, g)'
        PROVE  q \in s_setter'[g]
    <3>1. Writes(q, i, g) => q \in s_setter[g]
      BY DEF SettingsInv, OnlySettersWrite
    <3> QED BY <1>3, <1>5, <2>1, <2>2, <3>1
  <2> QED BY <2>1, <2>2 DEF OnlySettersWrite
\* A mark has the value that was set last.
<1>9. ASSUME NEW q \in Instances, NEW g \in Settings, g \in s_prog'[q].marks
      PROVE  /\ s_prog'[q].settings[g] <= s_changes'
             /\ s_setter'[g] = {q} => s_prog'[q].settings[g] = s_wanted'[g]
  <2>1. CASE q = p /\ g = f
    BY <1>2, <1>3, <2>1
  <2>2. CASE q # p \/ g # f
    <3>1. g \in s_prog[q].marks /\ s_prog'[q].settings[g] = s_prog[q].settings[g]
      BY <1>2, <1>9, <2>2
    <3>2. s_prog[q].settings[g] \in Nat
      BY <1>1, Parts DEF Values
    <3>3. s_prog[q].settings[g] <= s_changes'
      BY <1>3, <3>1, <3>2 DEF SettingsInv, ValuesAreOld
    <3>4. s_setter'[g] = {q} => s_setter[g] = {q} /\ s_wanted'[g] = s_wanted[g]
      <4>1. CASE g # f
        BY <1>3, <4>1
      <4>2. CASE g = f
        BY <1>3, <2>2, <4>2
      <4> QED BY <4>1, <4>2
    <3> QED BY <3>1, <3>3, <3>4 DEF SettingsInv, MarksAreCurrent
  <2> QED BY <2>1, <2>2
<1>10. ValuesAreOld'
  <2>1. ASSUME NEW q \in Instances, NEW g \in Settings, NEW i \in Nat, Writes(q, i, g)'
        PROVE  s_prog'[q].queue[i].settings[g] <= s_changes'
    <3>1. CASE Writes(q, i, g) /\ s_prog'[q].queue[i] = s_prog[q].queue[i]
      <4>1. s_prog[q].queue[i].settings[g] \in Nat
        BY <1>1, <3>1, Parts DEF Writes, Values
      <4> QED BY <1>3, <3>1, <4>1 DEF SettingsInv, ValuesAreOld
    <3>2. CASE q = p /\ g \in s_prog'[p].marks /\ s_prog'[p].queue[i].settings = s_prog'[p].settings
      BY <1>9, <3>2
    <3> QED BY <1>5, <2>1, <3>1, <3>2
  <2> QED BY <1>9, <2>1 DEF ValuesAreOld
\* What is queued of another field, or of f by another program, is what it was.
<1>11. ASSUME NEW q \in Instances, NEW i \in Nat, NEW g \in Settings, g # f, Writes(q, i, g)
       PROVE  Writes(q, i, g)' /\ (HasLatest(q, i, g)' <=> HasLatest(q, i, g))
  BY <1>3, <1>6, <1>11 DEF HasLatest
<1>12. ASSUME NEW g \in Settings, s_setter'[g] = {p}, NEW i \in Nat, Writes(p, i, g)', grown, i = n + 1
       PROVE  HasLatest(p, i, g)'
  <2>1. i \notin 1..n /\ ~Writes(p, i, g)
    BY <1>4, <1>12 DEF Writes, n
  <2> QED BY <1>5, <1>9, <1>12, <2>1 DEF HasLatest
<1>13. MarksAreCurrent'
  <2> SUFFICES ASSUME NEW q \in Instances, NEW g \in Settings, s_setter'[g] = {q},
                      NEW i \in Nat, NEW j \in Nat, i < j, Writes(q, i, g)', Writes(q, j, g)',
                      HasLatest(q, i, g)'
               PROVE  HasLatest(q, j, g)'
    BY <1>9 DEF MarksAreCurrent
  <2>1. CASE q = p /\ grown /\ j = n + 1
    BY <1>12, <2>1
  <2>2. CASE ~(q = p /\ grown /\ j = n + 1)
    <3>1. Writes(q, j, g) /\ s_prog'[q].queue[j] = s_prog[q].queue[j] /\ (q = p /\ grown => j <= n)
      BY <1>5, <2>2
    <3>2. Writes(q, i, g) /\ s_prog'[q].queue[i] = s_prog[q].queue[i]
      BY <1>4, <1>5, <3>1
    <3>3. CASE g # f
      <4>1. s_setter[g] = {q}
        BY <1>3, <3>3
      <4> QED BY <1>11, <3>1, <3>2, <3>3, <4>1 DEF SettingsInv, MarksAreCurrent
    <3>4. CASE g = f
      <4>1. s_prog[q].queue[i].settings[f] \in Nat /\ s_prog[q].queue[i].settings[f] <= s_changes
        BY <1>1, <3>2, <3>4, Parts DEF SettingsInv, ValuesAreOld, Writes, Values
      <4>2. ~HasLatest(q, i, f)'
        BY <1>3, <3>2, <4>1 DEF HasLatest
      <4> QED BY <3>4, <4>2
    <3> QED BY <3>3, <3>4
  <2> QED BY <2>1, <2>2
<1>14. OnItsWay'
  <2> SUFFICES ASSUME NEW g \in Settings \ s_lost'
               PROVE  /\ \A q \in Instances :
                           s_setter'[g] = {q} => g \in s_prog'[q].marks \/ InQueue(q, g)' \/ InFile(q, g)'
                      /\ s_setter'[g] = {User} => s_disk'.has[g] = s_wanted'[g]
    BY DEF OnItsWay
  <2>1. CASE g = f
    BY <1>2, <1>3, <2>1
  <2>2. CASE g # f
    <3>1. g \notin s_lost /\ s_setter'[g] = s_setter[g] /\ s_wanted'[g] = s_wanted[g] /\ s_disk' = s_disk
      BY <1>1, <1>3, <2>2
    <3>2. ASSUME NEW q \in Instances, s_setter[g] = {q}
          PROVE  g \in s_prog'[q].marks \/ InQueue(q, g)' \/ InFile(q, g)'
      <4>1. g \in s_prog[q].marks \/ InQueue(q, g) \/ InFile(q, g)
        BY <3>1, <3>2 DEF SettingsInv, OnItsWay
      <4>2. CASE g \in s_prog[q].marks
        BY <1>2, <4>2
      <4>3. CASE InQueue(q, g)
        BY <1>11, <2>2, <4>3 DEF InQueue
      <4>4. CASE InFile(q, g) /\ g \notin s_prog'[q].marks
        <5>1. s_disk'.has[g] = s_wanted'[g]
          BY <3>1, <4>4 DEF InFile
        <5>2. ASSUME NEW i \in Nat, Writes(q, i, g)' PROVE HasLatest(q, i, g)'
          <6>1. Writes(q, i, g)
            BY <1>5, <4>4, <5>2
          <6> QED BY <1>11, <2>2, <4>4, <6>1 DEF InFile
        <5> QED BY <5>1, <5>2 DEF InFile
      <4> QED BY <4>1, <4>2, <4>3, <4>4
    <3> QED BY <3>1, <3>2 DEF SettingsInv, OnItsWay
  <2> QED BY <2>1, <2>2
<1> QED
  BY <1>7, <1>8, <1>10, <1>13, <1>14 DEF SettingsInv

LEMMA EditKeepsInv ==
  ASSUME User \notin Instances, SettingsInv, NEW f \in Settings, Shared!Edit(f)
  PROVE  SettingsInv'
<1>1. /\ SettingsTypes /\ Shared!Changed(User, f) /\ UNCHANGED <<s_prog, s_faults>>
      /\ s_disk' = [is |-> "fine", has |-> [s_disk.has EXCEPT ![f] = s_changes + 1]]
  BY DEF SettingsInv, Shared!Edit
<1>2. /\ s_changes' = s_changes + 1 /\ s_changes' \in Nat /\ s_changes \in Nat
      /\ s_setter' \in [Settings -> SUBSET (Instances \cup {User})] /\ s_setter'[f] = s_setter[f] \cup {User}
      /\ s_wanted' \in Values /\ s_wanted'[f] = s_changes + 1
      /\ s_lost' = s_lost \ {f}
      /\ \A g \in Settings : g # f => s_setter'[g] = s_setter[g] /\ s_wanted'[g] = s_wanted[g]
  BY <1>1, ChangedEffect DEF SettingsTypes
<1>3. s_disk.has \in Values
  BY <1>1 DEF SettingsTypes, Files
<1>4. /\ s_disk' \in Files /\ s_disk'.has[f] = s_changes + 1
      /\ \A g \in Settings : g # f => s_disk'.has[g] = s_disk.has[g]
  BY <1>1, <1>2, <1>3 DEF Files, Values
<1>5. SettingsTypes'
  BY <1>1, <1>2, <1>4 DEF SettingsTypes
<1>6. \A q, i, g : Writes(q, i, g)' <=> Writes(q, i, g)
  BY <1>1 DEF Writes
<1>7. OnlySettersWrite'
  <2>1. \A g \in Settings : s_setter[g] \subseteq s_setter'[g]
    BY <1>2
  <2> QED BY <1>1, <1>6, <2>1 DEF SettingsInv, OnlySettersWrite
<1>8. ValuesAreOld'
  <2>1. ASSUME NEW q \in Instances, NEW g \in Settings, g \in s_prog'[q].marks
        PROVE  s_prog'[q].settings[g] <= s_changes'
    <3>1. s_prog[q].settings[g] \in Nat /\ s_prog[q].settings[g] <= s_changes
      BY <1>1, <2>1, Parts DEF SettingsInv, ValuesAreOld, Values
    <3> QED BY <1>1, <1>2, <3>1
  <2>2. ASSUME NEW q \in Instances, NEW g \in Settings, NEW i \in Nat, Writes(q, i, g)'
        PROVE  s_prog'[q].queue[i].settings[g] <= s_changes'
    <3>1. s_prog[q].queue[i].settings[g] \in Nat /\ s_prog[q].queue[i].settings[g] <= s_changes
      BY <1>1, <1>6, <2>2, Parts DEF SettingsInv, ValuesAreOld, Writes, Values
    <3> QED BY <1>1, <1>2, <3>1
  <2> QED BY <2>1, <2>2 DEF ValuesAreOld
\* A field one program alone has set is another one.
<1>9. ASSUME NEW q \in Instances, NEW g \in Settings, s_setter'[g] = {q}
      PROVE  g # f /\ s_setter[g] = {q} /\ s_wanted'[g] = s_wanted[g]
  BY <1>2, <1>9
<1>10. ASSUME NEW g \in Settings, g # f
       PROVE  \A q, i : HasLatest(q, i, g)' <=> HasLatest(q, i, g)
  BY <1>1, <1>2, <1>10 DEF HasLatest
<1>11. MarksAreCurrent'
  <2> SUFFICES ASSUME NEW q \in Instances, NEW g \in Settings, s_setter'[g] = {q}
               PROVE  /\ g \in s_prog'[q].marks => s_prog'[q].settings[g] = s_wanted'[g]
                      /\ \A i, j \in Nat :
                           i < j /\ Writes(q, i, g)' /\ Writes(q, j, g)' /\ HasLatest(q, i, g)'
                             => HasLatest(q, j, g)'
    BY DEF MarksAreCurrent
  <2>1. g # f /\ s_setter[g] = {q} /\ s_wanted'[g] = s_wanted[g]
    BY <1>9
  <2>2. \A i : (Writes(q, i, g)' <=> Writes(q, i, g)) /\ (HasLatest(q, i, g)' <=> HasLatest(q, i, g))
    BY <1>6, <1>10, <2>1
  <2> QED BY <1>1, <2>1, <2>2 DEF SettingsInv, MarksAreCurrent
<1>12. OnItsWay'
  <2> SUFFICES ASSUME NEW g \in Settings \ s_lost'
               PROVE  /\ \A q \in Instances :
                           s_setter'[g] = {q} => g \in s_prog'[q].marks \/ InQueue(q, g)' \/ InFile(q, g)'
                      /\ s_setter'[g] = {User} => s_disk'.has[g] = s_wanted'[g]
    BY DEF OnItsWay
  <2>1. CASE g = f
    BY <1>2, <1>4, <1>9, <2>1
  <2>2. CASE g # f
    <3>1. g \notin s_lost /\ s_setter'[g] = s_setter[g] /\ s_wanted'[g] = s_wanted[g] /\ s_disk'.has[g] = s_disk.has[g]
      BY <1>2, <1>4, <2>2
    <3>2. \A q : (InQueue(q, g)' <=> InQueue(q, g)) /\ (InFile(q, g)' <=> InFile(q, g))
      BY <1>6, <1>10, <2>2, <3>1 DEF InQueue, InFile
    <3> QED BY <1>1, <3>1, <3>2 DEF SettingsInv, OnItsWay
  <2> QED BY <2>1, <2>2
<1> QED
  BY <1>5, <1>7, <1>8, <1>11, <1>12 DEF SettingsInv

-----------------------------------------------------------------------------
LEMMA NextKeepsInv ==
  ASSUME User \notin Instances, SettingsInv, [Shared!Next]_Shared!vars
  PROVE  SettingsInv'
<1>1. ASSUME NEW p \in Instances, NEW f \in Settings, Shared!Set(p, f) PROVE SettingsInv'
  BY <1>1, SetKeepsInv
<1>2. ASSUME NEW p \in Instances, Shared!WriteFile(p) PROVE SettingsInv'
  BY <1>2, WriteFileKeepsInv
<1>3. ASSUME NEW p \in Instances, Shared!FindNoFile(p) PROVE SettingsInv'
  BY <1>3, FindNoFileKeepsInv
<1>4. ASSUME NEW p \in Instances, Shared!CreateFile(p) PROVE SettingsInv'
  BY <1>4, CreateFileKeepsInv
<1>5. ASSUME NEW p \in Instances, Shared!WriteFails(p) PROVE SettingsInv'
  BY <1>5, WriteFailsKeepsInv
<1>6. ASSUME NEW p \in Instances, Shared!Reload(p) PROVE SettingsInv'
  BY <1>6, SettingsReloadKeepsInv
<1>7. ASSUME NEW f \in Settings, Shared!Edit(f) PROVE SettingsInv'
  BY <1>7, EditKeepsInv
<1>8. CASE Shared!Break \/ Shared!Repair
  <2>1. UNCHANGED <<s_prog, s_changes, s_setter, s_wanted, s_lost>> /\ s_faults' \in Nat
    BY <1>8 DEF Shared!Break, Shared!Repair, SettingsInv, SettingsTypes
  <2>2. s_disk' \in Files /\ s_disk'.has = s_disk.has
    BY <1>8 DEF Shared!Break, Shared!Repair, SettingsInv, SettingsTypes, Files
  <2> QED BY <2>1, <2>2, PlainStepKeepsInv
<1>9. CASE UNCHANGED Shared!vars
  <2>1. UNCHANGED <<s_prog, s_changes, s_setter, s_wanted, s_lost>> /\ s_disk' = s_disk /\ s_faults' = s_faults
    BY <1>9 DEF Shared!vars
  <2>2. s_disk' \in Files /\ s_faults' \in Nat
    BY <2>1 DEF SettingsInv, SettingsTypes
  <2> QED BY <2>1, <2>2, PlainStepKeepsInv
<1> QED
  BY <1>1, <1>2, <1>3, <1>4, <1>5, <1>6, <1>7, <1>8, <1>9, Zenon DEF Shared!Next

\* settings-manager.ts: whatever the others write, whatever fails and whatever the user does
\* to the file, for any number of programs and fields: a value that one program alone, or
\* the user, has set is in the file or that program will still write it, unless its mark was
\* taken away by a write that did not have it.
THEOREM SettingsAreKept == ASSUME User \notin Instances PROVE Shared!Spec => []SettingsSurvive
<1>1. SettingsInv => SettingsSurvive
  <2> SUFFICES ASSUME SettingsInv, NEW f \in Settings \ s_lost, NEW who \in Instances \cup {User}, s_setter[f] = {who}
               PROVE  \/ s_disk.has[f] = s_wanted[f]
                      \/ who \in Instances /\ (f \in s_prog[who].marks \/ Shared!Queued(who, f))
    BY DEF SettingsSurvive, Shared!SettingsSurvive
  <2>1. CASE who = User
    BY <2>1 DEF SettingsInv, OnItsWay
  <2>2. CASE who \in Instances
    <3>1. f \in s_prog[who].marks \/ InQueue(who, f) \/ InFile(who, f)
      BY <2>2 DEF SettingsInv, OnItsWay
    <3>2. ASSUME InQueue(who, f) PROVE Shared!Queued(who, f)
      <4>1. PICK i \in Nat : Writes(who, i, f)
        BY <3>2 DEF InQueue
      <4>2. i \in DOMAIN s_prog[who].queue
        BY <2>2, <4>1, Parts, LenProperties DEF SettingsInv, Writes
      <4> QED BY <4>1, <4>2 DEF Shared!Queued, Writes
    <3> QED BY <2>2, <3>1, <3>2 DEF InFile
  <2> QED BY <2>1, <2>2
<1>2. SettingsInv /\ [Shared!Next]_Shared!vars => SettingsInv'
  BY NextKeepsInv
<1> QED BY <1>1, <1>2, SettingsInitInv, PTL DEF Shared!Spec

-----------------------------------------------------------------------------
(***************************************************************************)
(* The events, for any number of files, writes, restarts and waiting       *)
(* events: when a file is quiet, what fires for it is what it says.        *)
(*                                                                         *)
(* What fires is told apart by its number (Numbers). Of a file whose       *)
(* changes were handled while no handleFile was under way for it, one call *)
(* at most is under way (OneReader), and what it has read is what the file *)
(* holds or is about to be looked at again (UpToDate). One timer at most   *)
(* is armed, it can be cancelled, and while a call is under way nothing is *)
(* armed (OneTimer); so a call that ends finds nothing of the file armed,  *)
(* and a file that is quiet has what the last call has armed (Matches).    *)
(***************************************************************************)

Contents == [kind : Kinds \cup {"none", "half"}, id : Nat]
Timers == [file : EventFiles, kind : Events!Timed, id : Nat, no : Nat \ {0}]
Entries == [timer : Nat, cron : Nat]
IsCall(r) ==
  /\ r = [file |-> r.file, attempt |-> r.attempt, read |-> r.read, no |-> r.no]
  /\ r.file \in EventFiles /\ r.read \in Contents \cup {Events!Unread}
EventTypes ==
  /\ e_disk \in [EventFiles -> Contents]
  /\ e_up \in BOOLEAN /\ e_written \in Nat
  /\ e_known \in SUBSET EventFiles /\ e_changed \in SUBSET EventFiles
  /\ \A r \in e_readers : IsCall(r)
  /\ e_armed \in SUBSET Timers /\ IsFiniteSet(e_armed)
  /\ e_entry \in [EventFiles -> Entries]

Firing(n) == {t \in e_armed : t.file = n}
Alone(n) == n \notin e_overlapped
Holds(n, t) == t.no = e_entry[n].timer \/ t.no = e_entry[n].cron

\* No two timers have one number, and the maps know timers of their file, of their kind.
Numbers ==
  /\ \A s, t \in e_armed : s.no = t.no => s = t
  /\ \A n \in EventFiles :
       /\ e_entry[n].timer # 0 =>
            \E t \in e_armed : t.no = e_entry[n].timer /\ t.file = n /\ t.kind # "periodic"
       /\ e_entry[n].cron # 0 =>
            \E t \in e_armed : t.no = e_entry[n].cron /\ t.file = n /\ t.kind = "periodic"

OneReader(n) == \A r, s \in Events!CallsFor(n) : r = s
UpToDate(n) ==
  \A r \in Events!CallsFor(n) : Events!Parses(r.read) => r.read = e_disk[n] \/ n \in e_changed
OneTimer(n) ==
  /\ \A s, t \in Firing(n) : s = t
  /\ \A t \in Firing(n) : Holds(n, t) /\ n \in e_known /\ ~Events!UnderWay(n)
Matches(n) ==
  Events!Quiet(n) => IF e_disk[n].kind \in Events!Timed
              THEN \E t \in Firing(n) : t.id = e_disk[n].id
              ELSE Firing(n) = {}
InStep(n) == Alone(n) => OneReader(n) /\ UpToDate(n) /\ OneTimer(n) /\ Matches(n)
DownIsEmpty == ~e_up => e_armed = {} /\ e_readers = {}

EventInv == EventTypes /\ Numbers /\ (\A n \in EventFiles : InStep(n)) /\ DownIsEmpty

-----------------------------------------------------------------------------
\* There is always a number nobody has.
LEMMA FreeNoIsFree ==
  ASSUME IsFiniteSet(e_armed)
  PROVE  Events!FreeNo(e_armed) \in Nat \ {0} /\ \A t \in e_armed : t.no # Events!FreeNo(e_armed)
<1> DEFINE c == Cardinality(e_armed)
<1>1. c \in Nat
  BY FS_CardinalityType
<1>2. \E k \in 1..(c + 1) : \A t \in e_armed : t.no # k
  <2> SUFFICES ASSUME \A k \in 1..(c + 1) : \E t \in e_armed : t.no = k PROVE FALSE
    OBVIOUS
  <2> DEFINE f == [k \in 1..(c + 1) |-> CHOOSE t \in e_armed : t.no = k]
  <2>1. \A k \in 1..(c + 1) : f[k] \in e_armed /\ f[k].no = k
    OBVIOUS
  <2>2. f \in [1..(c + 1) -> e_armed]
    BY <2>1
  <2>3. IsFiniteSet(1..(c + 1)) /\ Cardinality(1..(c + 1)) = c + 1
    <3> HIDE DEF c
    <3>1. 1 \in Int /\ c + 1 \in Int /\ ~(1 > c + 1) /\ (c + 1) - 1 + 1 = c + 1
      BY <1>1
    <3> QED BY <3>1, FS_Interval
  <2> HIDE DEF f
  <2>4. \E x, y \in 1..(c + 1) : x # y /\ f[x] = f[y]
    <3>1. c < c + 1
      BY <1>1
    <3> DEFINE S == 1..(c + 1)
    <3>2. IsFiniteSet(S) /\ Cardinality(e_armed) < Cardinality(S) /\ f \in [S -> e_armed]
      BY <2>2, <2>3, <3>1
    <3> HIDE DEF S, c
    <3>3. \E x, y \in S : x # y /\ f[x] = f[y]
      BY <3>2, FS_PigeonHole
    <3> QED BY <3>3 DEF S
  <2> QED BY <2>1, <2>4
<1>3. Events!FreeNo(e_armed) \in 1..(c + 1) /\ \A t \in e_armed : t.no # Events!FreeNo(e_armed)
  <2>1. Events!Cardinality(e_armed) = c
    BY Zenon DEF Events!Cardinality, Cardinality
  <2> QED BY <1>2, <2>1 DEF Events!FreeNo
<1> HIDE DEF c
<1> QED BY <1>1, <1>3

LEMMA NoEntryFacts == Events!NoEntry \in Entries /\ Events!NoEntry.timer = 0 /\ Events!NoEntry.cron = 0
  BY DEF Events!NoEntry, Entries
LEMMA NoFileFacts == Events!NoFile \in Contents /\ Events!NoFile.kind = "none" /\ "none" \notin Events!Timed
  BY DEF Events!NoFile, Contents, Events!Timed
LEMMA UnreadFacts ==
  /\ ~Events!Parses(Events!Unread)
  /\ \A c \in Contents \cup {Events!Unread} :
       Events!Parses(c) => c \in Contents /\ c.kind \notin {"none", "half", "unread"}
BY DEF Events!Parses, Events!Unread

\* One call ends, or goes on, and no other does anything.
LEMMA EndedEffect ==
  ASSUME EventTypes, NEW r \in e_readers, e_readers' = Events!Ended(r)
  PROVE  /\ \A m \in EventFiles : m # r.file => Events!CallsFor(m)' = Events!CallsFor(m)
         /\ \A q \in e_readers' : IsCall(q)
         /\ OneReader(r.file) => Events!CallsFor(r.file)' = {}
<1>1. e_readers' = e_readers \ {r}
  BY DEF Events!Ended
<1> QED BY <1>1 DEF EventTypes, OneReader, Events!CallsFor
LEMMA ContinuedEffect ==
  ASSUME EventTypes, NEW r \in e_readers, NEW a, NEW c \in Contents \cup {Events!Unread},
         e_readers' = Events!Continued(r, a, c)
  PROVE  /\ \A m \in EventFiles : m # r.file => Events!CallsFor(m)' = Events!CallsFor(m)
         /\ \A q \in e_readers' : IsCall(q)
         /\ Events!UnderWay(r.file)'
         /\ OneReader(r.file) => OneReader(r.file)' /\ \A q \in Events!CallsFor(r.file)' : q.read = c
<1>1. PICK new : new = [r EXCEPT !.attempt = a, !.read = c]
  OBVIOUS
<1>2. e_readers' = (e_readers \ {r}) \cup {new}
  BY <1>1 DEF Events!Continued, Events!Ended
<1>3. IsCall(r)
  BY DEF EventTypes
<1>4. IsCall(new) /\ new.file = r.file /\ new.read = c
  <2>1. new = [file |-> r.file, attempt |-> a, read |-> c, no |-> r.no]
    BY <1>1, <1>3 DEF IsCall
  <2> QED BY <1>3, <2>1 DEF IsCall
<1>5. \A m \in EventFiles : m # r.file => Events!CallsFor(m)' = Events!CallsFor(m)
  BY <1>2, <1>4 DEF Events!CallsFor
<1>6. \A q \in e_readers' : IsCall(q)
  BY <1>2, <1>4 DEF EventTypes
<1>7. new \in Events!CallsFor(r.file)'
  BY <1>2, <1>4 DEF Events!CallsFor
<1>8. OneReader(r.file) => Events!CallsFor(r.file)' = {new}
  BY <1>2, <1>4 DEF OneReader, Events!CallsFor
<1> QED BY <1>4, <1>5, <1>6, <1>7, <1>8 DEF OneReader, Events!UnderWay

LEMMA EventInitInv == Events!Init => EventInv
<1> SUFFICES ASSUME Events!Init PROVE EventInv
  OBVIOUS
<1>1. EventTypes
  BY NoEntryFacts, NoFileFacts, FS_EmptySet DEF Events!Init, EventTypes
<1>2. \A n \in EventFiles : /\ Firing(n) = {} /\ Events!CallsFor(n) = {} /\ e_disk[n].kind = "none"
                            /\ e_entry[n].timer = 0 /\ e_entry[n].cron = 0
  BY NoEntryFacts, NoFileFacts DEF Events!Init, Firing, Events!CallsFor
<1>3. Numbers
  <2>1. e_armed = {}
    BY DEF Events!Init
  <2>2. \A n \in EventFiles : e_entry[n].timer = 0 /\ e_entry[n].cron = 0
    BY <1>2
  <2> QED BY <2>1, <2>2 DEF Numbers
<1>4. \A n \in EventFiles : InStep(n)
  BY <1>2, NoFileFacts DEF InStep, OneReader, UpToDate, OneTimer, Matches
<1>5. DownIsEmpty
  BY DEF Events!Init, DownIsEmpty
<1> QED BY <1>1, <1>3, <1>4, <1>5 DEF EventInv

\* A file nothing happens to.
Untouched(m) ==
  /\ e_disk'[m] = e_disk[m] /\ Events!CallsFor(m)' = Events!CallsFor(m) /\ e_entry'[m] = e_entry[m]
  /\ m \in e_known' <=> m \in e_known
  /\ m \in e_changed' <=> m \in e_changed
  /\ m \in e_overlapped' <=> m \in e_overlapped
  /\ Firing(m)' = Firing(m)
LEMMA UntouchedInStep ==
  ASSUME NEW m \in EventFiles, InStep(m), Untouched(m), e_up' = e_up
  PROVE  InStep(m)'
<1>1. Events!UnderWay(m)' <=> Events!UnderWay(m)
  BY DEF Untouched, Events!UnderWay
<1>2. OneReader(m)' <=> OneReader(m)
  BY DEF Untouched, OneReader
<1>3. UpToDate(m)' <=> UpToDate(m)
  BY DEF Untouched, UpToDate
<1>4. OneTimer(m)' <=> OneTimer(m)
  BY <1>1 DEF Untouched, OneTimer, Holds
<1>5. Matches(m)' <=> Matches(m)
  BY <1>1 DEF Untouched, Matches, Events!Quiet
<1> QED BY <1>2, <1>3, <1>4, <1>5 DEF InStep, Alone, Untouched

\* Numbers stay right when timers go together with what the maps hold of them.
LEMMA ForgettingKeepsNumbers ==
  ASSUME Numbers, e_armed' \subseteq e_armed,
         \A n \in EventFiles :
           /\ e_entry'[n].timer \in {0, e_entry[n].timer} /\ e_entry'[n].cron \in {0, e_entry[n].cron}
           /\ \A t \in e_armed \ e_armed' : t.file = n =>
                /\ t.kind # "periodic" => e_entry'[n].timer = 0 \/ e_entry'[n].timer # t.no
                /\ t.kind = "periodic" => e_entry'[n].cron = 0 \/ e_entry'[n].cron # t.no
  PROVE  Numbers'
<1>1. \A s, t \in e_armed' : s.no = t.no => s = t
  BY DEF Numbers
<1>2. ASSUME NEW n \in EventFiles, e_entry'[n].timer # 0
      PROVE  \E t \in e_armed' : t.no = e_entry'[n].timer /\ t.file = n /\ t.kind # "periodic"
  <2>1. e_entry'[n].timer = e_entry[n].timer
    BY <1>2
  <2>2. PICK t \in e_armed : t.no = e_entry[n].timer /\ t.file = n /\ t.kind # "periodic"
    BY <1>2, <2>1 DEF Numbers
  <2> QED BY <1>2, <2>1, <2>2
<1>3. ASSUME NEW n \in EventFiles, e_entry'[n].cron # 0
      PROVE  \E t \in e_armed' : t.no = e_entry'[n].cron /\ t.file = n /\ t.kind = "periodic"
  <2>1. e_entry'[n].cron = e_entry[n].cron
    BY <1>3
  <2>2. PICK t \in e_armed : t.no = e_entry[n].cron /\ t.file = n /\ t.kind = "periodic"
    BY <1>3, <2>1 DEF Numbers
  <2> QED BY <1>3, <2>1, <2>2
<1> QED BY <1>1, <1>2, <1>3 DEF Numbers

\* Nothing the schedule depends on changes.
LEMMA StillKeepsInv ==
  ASSUME EventInv, UNCHANGED <<e_disk, e_up, e_known, e_changed, e_readers, e_armed, e_entry, e_overlapped, e_written>>
  PROVE  EventInv'
<1>1. \A m \in EventFiles : Untouched(m)
  BY DEF Untouched, Firing, Events!CallsFor
<1>2. \A m \in EventFiles : InStep(m)'
  BY <1>1, UntouchedInStep DEF EventInv
<1>3. EventTypes' /\ Numbers'
  BY DEF EventInv, EventTypes, Numbers
<1>4. DownIsEmpty'
  BY DEF EventInv, DownIsEmpty
<1> QED BY <1>2, <1>3, <1>4 DEF EventInv

\* Somebody writes or deletes an event file.
LEMMA ReplaceKeepsInv ==
  ASSUME EventInv, NEW n \in EventFiles, NEW content \in Contents, Events!Replace(n, content), e_written' \in Nat
  PROVE  EventInv'
<1>1. /\ e_disk' = [e_disk EXCEPT ![n] = content]
      /\ e_changed' = IF e_up THEN e_changed \cup {n} ELSE e_changed
      /\ UNCHANGED <<e_up, e_known, e_readers, e_armed, e_entry, e_overlapped>>
  BY DEF Events!Replace, Events!Heard
<1>2. EventTypes /\ Numbers /\ DownIsEmpty /\ \A m \in EventFiles : InStep(m)
  BY DEF EventInv
<1>3. EventTypes'
  BY <1>1, <1>2 DEF EventTypes
<1>4. \A m \in EventFiles : m # n => Untouched(m)
  BY <1>1, <1>2 DEF Untouched, Firing, EventTypes, Events!CallsFor
<1>5. InStep(n)'
  <2>1. /\ Alone(n)' <=> Alone(n)
        /\ Events!CallsFor(n)' = Events!CallsFor(n)
        /\ Events!UnderWay(n)' <=> Events!UnderWay(n)
        /\ OneReader(n)' <=> OneReader(n)
    BY <1>1 DEF Alone, Events!CallsFor, Events!UnderWay, OneReader
  <2>2. OneTimer(n)' <=> OneTimer(n)
    BY <1>1, <2>1 DEF OneTimer, Firing, Holds
  \* A call that is under way runs in a bot that hears of the change.
  <2>3. UpToDate(n)'
    BY <1>1, <1>2, <2>1 DEF UpToDate, DownIsEmpty, Events!CallsFor
  <2>4. ~Events!Quiet(n)'
    BY <1>1 DEF Events!Quiet
  <2> QED BY <1>2, <2>1, <2>2, <2>3, <2>4 DEF InStep, Matches
<1>6. \A m \in EventFiles : InStep(m)'
  BY <1>1, <1>2, <1>4, <1>5, UntouchedInStep
<1>7. Numbers' /\ DownIsEmpty'
  BY <1>1, <1>2 DEF Numbers, DownIsEmpty
<1> QED BY <1>3, <1>6, <1>7 DEF EventInv

\* The watcher looks at a file: what was scheduled for it is cancelled.
LEMMA HandleChangeKeepsInv ==
  ASSUME EventInv, NEW n \in EventFiles, Events!HandleChange(n)
  PROVE  EventInv'
<1>1. /\ e_up /\ e_up' = e_up /\ e_disk' = e_disk /\ e_written' = e_written /\ e_changed' = e_changed \ {n}
      /\ \/ n \in e_known /\ e_armed' = e_armed \ Events!Cancelled(n) /\ e_entry' = [e_entry EXCEPT ![n] = Events!NoEntry]
         \/ n \notin e_known /\ e_armed' = e_armed /\ e_entry' = e_entry
      /\ e_overlapped' = IF Events!Overlaps(n) THEN e_overlapped \cup {n} ELSE e_overlapped
      /\ \/ Events!Exists(n) /\ e_readers' = e_readers \cup {Events!Call(n)} /\ e_known' = e_known
         \/ ~Events!Exists(n) /\ e_known' = e_known \ {n} /\ e_readers' = e_readers
  BY DEF Events!HandleChange, Events!Rereads
<1>2. EventTypes /\ Numbers /\ \A m \in EventFiles : InStep(m)
  BY DEF EventInv
<1>3. e_entry[n].timer \in Nat /\ e_entry[n].cron \in Nat
  BY <1>2 DEF EventTypes, Entries
<1>4. \A t \in e_armed : t \in Timers /\ t.no # 0
  BY <1>2 DEF EventTypes, Timers
\* Only timers of the file are cancelled.
<1>5. \A t \in e_armed : t \in Events!Cancelled(n) <=> Holds(n, t)
  BY <1>4 DEF Events!Cancelled, Holds
<1>6. \A t \in e_armed : Holds(n, t) => t.file = n
  BY <1>2, <1>4 DEF Numbers, Holds
<1>7. /\ e_armed' \subseteq e_armed
      /\ \A t \in e_armed \ e_armed' : t.file = n
      /\ \A m \in EventFiles : m # n => e_entry'[m] = e_entry[m]
      /\ e_entry' \in [EventFiles -> Entries]
      /\ (e_entry'[n] = e_entry[n] /\ e_armed' = e_armed) \/ e_entry'[n] = Events!NoEntry
  <2>1. CASE n \in e_known /\ e_armed' = e_armed \ Events!Cancelled(n) /\ e_entry' = [e_entry EXCEPT ![n] = Events!NoEntry]
    BY <1>2, <1>5, <1>6, <2>1, NoEntryFacts DEF EventTypes
  <2>2. CASE e_armed' = e_armed /\ e_entry' = e_entry
    BY <1>2, <2>2 DEF EventTypes
  <2> QED BY <1>1, <2>1, <2>2
<1>8. Numbers'
  <2>1. \A m \in EventFiles : e_entry'[m].timer \in {0, e_entry[m].timer} /\ e_entry'[m].cron \in {0, e_entry[m].cron}
    BY <1>7, NoEntryFacts
  <2>2. ASSUME NEW m \in EventFiles, NEW t \in e_armed \ e_armed', t.file = m
        PROVE  e_entry'[m].timer = 0 /\ e_entry'[m].cron = 0
    BY <1>7, <2>2, NoEntryFacts
  <2> QED BY <1>2, <1>7, <2>1, <2>2, ForgettingKeepsNumbers
<1>16. PICK new : new = Events!Call(n)
  OBVIOUS
<1>17. IsCall(new) /\ new.file = n /\ new.read = Events!Unread
  BY <1>16 DEF Events!Call, IsCall
<1>9. /\ \A q \in e_readers' : IsCall(q)
      /\ \A m \in EventFiles : m # n => /\ Events!CallsFor(m)' = Events!CallsFor(m)
                                        /\ m \in e_overlapped' <=> m \in e_overlapped
                                        /\ m \in e_known' <=> m \in e_known
      /\ e_known' \subseteq EventFiles
  BY <1>1, <1>2, <1>16, <1>17 DEF EventTypes, Events!CallsFor
<1>10. EventTypes'
  <2>1. e_armed' \in SUBSET Timers /\ IsFiniteSet(e_armed')
    BY <1>2, <1>7, FS_Subset DEF EventTypes
  <2> QED BY <1>1, <1>2, <1>7, <1>9, <2>1 DEF EventTypes
<1>11. \A m \in EventFiles : m # n => Untouched(m)
  BY <1>1, <1>7, <1>9 DEF Untouched, Firing
\* Nothing is left of a file that one reader at a time has read.
<1>12. ASSUME Alone(n) PROVE Firing(n)' = {}
  <2>1. OneTimer(n)
    BY <1>2, <1>12 DEF InStep
  <2>2. CASE n \in e_known /\ e_armed' = e_armed \ Events!Cancelled(n)
    <3>1. \A t \in Firing(n) : t \in e_armed /\ t \in Events!Cancelled(n)
      BY <1>5, <2>1 DEF OneTimer, Firing
    <3> QED BY <2>2, <3>1 DEF Firing
  <2>3. CASE n \notin e_known /\ e_armed' = e_armed
    BY <2>1, <2>3 DEF OneTimer, Firing
  <2> QED BY <1>1, <2>2, <2>3
<1>13. InStep(n)'
  <2> SUFFICES ASSUME Alone(n)' PROVE OneReader(n)' /\ UpToDate(n)' /\ OneTimer(n)' /\ Matches(n)'
    BY DEF InStep
  <2>1. Alone(n) /\ ~Events!Overlaps(n)
    BY <1>1 DEF Alone
  <2>2. OneReader(n) /\ Firing(n)' = {}
    BY <1>2, <1>12, <2>1 DEF InStep
  <2>3. OneTimer(n)'
    BY <2>2 DEF OneTimer
  <2>4. CASE Events!Exists(n) /\ e_readers' = e_readers \cup {new}
    <3>1. Events!CallsFor(n)' = {new}
      BY <1>17, <2>1, <2>4 DEF Events!Overlaps, Events!CallsFor
    <3>2. OneReader(n)' /\ UpToDate(n)'
      BY <1>17, <3>1, UnreadFacts DEF OneReader, UpToDate
    <3>3. ~Events!Quiet(n)'
      BY <3>1 DEF Events!Quiet, Events!UnderWay
    <3> QED BY <2>3, <3>2, <3>3 DEF Matches
  <2>5. CASE ~Events!Exists(n) /\ e_readers' = e_readers
    <3>1. Events!CallsFor(n)' = Events!CallsFor(n)
      BY <2>5 DEF Events!CallsFor
    <3>2. OneReader(n)' /\ UpToDate(n)'
      BY <2>1, <2>2, <3>1 DEF OneReader, UpToDate, Events!Overlaps
    <3>3. e_disk'[n].kind \notin Events!Timed
      BY <1>1, <2>5 DEF Events!Exists, Events!Timed
    <3> QED BY <2>2, <2>3, <3>2, <3>3 DEF Matches
  <2> QED BY <1>1, <1>16, <2>4, <2>5
<1>14. \A m \in EventFiles : InStep(m)'
  BY <1>1, <1>2, <1>11, <1>13, UntouchedInStep
<1>15. DownIsEmpty'
  BY <1>1 DEF DownIsEmpty
<1> QED BY <1>8, <1>10, <1>14, <1>15 DEF EventInv

LEMMA DeleteFileEffect ==
  ASSUME EventTypes, NEW n \in EventFiles, Events!DeleteFile(n)
  PROVE  /\ e_disk' \in [EventFiles -> Contents] /\ e_disk'[n] = Events!NoFile
         /\ e_known' = e_known \ {n} /\ e_changed' \in SUBSET EventFiles
         /\ Events!Exists(n) => n \in e_changed'
         /\ \A m \in EventFiles : m # n => /\ e_disk'[m] = e_disk[m]
                                           /\ (m \in e_known' <=> m \in e_known)
                                           /\ (m \in e_changed' <=> m \in e_changed)
  BY NoFileFacts DEF Events!DeleteFile, EventTypes

\* readFile: what the file holds is in hand.
LEMMA FetchKeepsInv ==
  ASSUME EventInv, NEW r \in e_readers, Events!Fetch(r) PROVE EventInv'
<1>1. /\ e_readers' = Events!Continued(r, r.attempt, e_disk[r.file])
      /\ UNCHANGED <<e_disk, e_up, e_known, e_changed, e_armed, e_entry, e_overlapped, e_written>>
  BY DEF Events!Fetch
<1>2. EventTypes /\ Numbers /\ e_up /\ \A m \in EventFiles : InStep(m)
  BY DEF EventInv, DownIsEmpty
<1>3. PICK n \in EventFiles : n = r.file
  BY <1>2 DEF EventTypes, IsCall
<1>4. e_disk[n] \in Contents \cup {Events!Unread}
  BY <1>2 DEF EventTypes
<1>5. /\ \A m \in EventFiles : m # n => Events!CallsFor(m)' = Events!CallsFor(m)
      /\ \A q \in e_readers' : IsCall(q)
      /\ Events!UnderWay(n)'
      /\ OneReader(n) => OneReader(n)' /\ \A q \in Events!CallsFor(n)' : q.read = e_disk[n]
  BY <1>1, <1>2, <1>3, <1>4, ContinuedEffect
<1>6. EventTypes' /\ Numbers' /\ DownIsEmpty'
  BY <1>1, <1>2, <1>5 DEF EventTypes, Numbers, DownIsEmpty
<1>7. \A m \in EventFiles : m # n => Untouched(m)
  BY <1>1, <1>5 DEF Untouched, Firing
<1>8. InStep(n)'
  <2> SUFFICES ASSUME Alone(n) PROVE OneReader(n)' /\ UpToDate(n)' /\ OneTimer(n)' /\ Matches(n)'
    BY <1>1 DEF InStep, Alone
  <2>1. OneReader(n) /\ OneTimer(n) /\ Events!UnderWay(n)
    BY <1>2, <1>3 DEF InStep, Events!UnderWay, Events!CallsFor
  <2>2. Firing(n)' = {}
    BY <1>1, <2>1 DEF OneTimer, Firing
  <2>3. UpToDate(n)'
    BY <1>1, <1>5, <2>1 DEF UpToDate
  <2>4. ~Events!Quiet(n)'
    BY <1>5 DEF Events!Quiet
  <2> QED BY <1>5, <2>1, <2>2, <2>3, <2>4 DEF OneTimer, Matches
<1> QED BY <1>1, <1>2, <1>6, <1>7, <1>8, UntouchedInStep DEF EventInv

\* The call that was the only one under way for its file has ended; the file is deleted.
LEMMA DeletedKeepsInv ==
  ASSUME EventInv, NEW r \in e_readers, e_readers' = Events!Ended(r), Events!DeleteFile(r.file),
         UNCHANGED <<e_up, e_armed, e_entry, e_overlapped, e_written>>
  PROVE  EventInv'
<1>1. EventTypes /\ Numbers /\ e_up /\ \A m \in EventFiles : InStep(m)
  BY DEF EventInv, DownIsEmpty
<1>2. PICK n \in EventFiles : n = r.file
  BY <1>1 DEF EventTypes, IsCall
<1>3. /\ \A m \in EventFiles : m # n => Events!CallsFor(m)' = Events!CallsFor(m)
      /\ \A q \in e_readers' : IsCall(q)
      /\ OneReader(n) => Events!CallsFor(n)' = {}
  BY <1>1, <1>2, EndedEffect
<1>4. /\ e_disk' \in [EventFiles -> Contents] /\ e_disk'[n] = Events!NoFile
      /\ e_known' = e_known \ {n} /\ e_changed' \in SUBSET EventFiles
      /\ \A m \in EventFiles : m # n => /\ e_disk'[m] = e_disk[m]
                                        /\ (m \in e_known' <=> m \in e_known)
                                        /\ (m \in e_changed' <=> m \in e_changed)
  BY <1>1, <1>2, DeleteFileEffect
<1>5. EventTypes' /\ Numbers' /\ DownIsEmpty'
  BY <1>1, <1>3, <1>4 DEF EventTypes, Numbers, DownIsEmpty
<1>6. \A m \in EventFiles : m # n => Untouched(m)
  BY <1>3, <1>4 DEF Untouched, Firing
<1>7. InStep(n)'
  <2> SUFFICES ASSUME Alone(n) PROVE OneReader(n)' /\ UpToDate(n)' /\ OneTimer(n)' /\ Matches(n)'
    BY DEF InStep, Alone
  <2>1. OneReader(n) /\ OneTimer(n) /\ Events!UnderWay(n)
    BY <1>1, <1>2 DEF InStep, Events!UnderWay, Events!CallsFor
  <2>2. Firing(n)' = {} /\ Events!CallsFor(n)' = {}
    BY <1>3, <2>1 DEF OneTimer, Firing
  <2> QED BY <1>4, <2>2, NoFileFacts DEF OneReader, UpToDate, OneTimer, Matches
<1> QED BY <1>1, <1>5, <1>6, <1>7, UntouchedInStep DEF EventInv

\* What was read does not parse: the call is at its next attempt, or gone.
LEMMA ReadFailsKeepsInv ==
  ASSUME EventInv, NEW r \in e_readers, Events!ReadFails(r)
  PROVE  EventInv'
<1>1. /\ UNCHANGED <<e_up, e_armed, e_entry, e_overlapped, e_written>>
      /\ \/ e_readers' = Events!Continued(r, r.attempt + 1, Events!Unread) /\ UNCHANGED <<e_disk, e_known, e_changed>>
         \/ e_readers' = Events!Ended(r) /\ Events!DeleteFile(r.file)
  BY DEF Events!ReadFails
<1>2. CASE e_readers' = Events!Continued(r, r.attempt + 1, Events!Unread) /\ UNCHANGED <<e_disk, e_known, e_changed>>
  <2>1. EventTypes /\ Numbers /\ e_up /\ \A m \in EventFiles : InStep(m)
    BY DEF EventInv, DownIsEmpty
  <2>2. PICK n \in EventFiles : n = r.file
    BY <2>1 DEF EventTypes, IsCall
  <2>3. /\ \A m \in EventFiles : m # n => Events!CallsFor(m)' = Events!CallsFor(m)
        /\ \A q \in e_readers' : IsCall(q)
        /\ Events!UnderWay(n)'
        /\ OneReader(n) => OneReader(n)' /\ \A q \in Events!CallsFor(n)' : q.read = Events!Unread
    BY <1>2, <2>1, <2>2, ContinuedEffect
  <2>4. EventTypes' /\ Numbers' /\ DownIsEmpty'
    BY <1>1, <1>2, <2>1, <2>3 DEF EventTypes, Numbers, DownIsEmpty
  <2>5. \A m \in EventFiles : m # n => Untouched(m)
    BY <1>1, <1>2, <2>3 DEF Untouched, Firing
  <2>6. InStep(n)'
    <3> SUFFICES ASSUME Alone(n) PROVE OneReader(n)' /\ UpToDate(n)' /\ OneTimer(n)' /\ Matches(n)'
      BY <1>1 DEF InStep, Alone
    <3>1. OneReader(n) /\ OneTimer(n) /\ Events!UnderWay(n)
      BY <2>1, <2>2 DEF InStep, Events!UnderWay, Events!CallsFor
    <3>2. Firing(n)' = {}
      BY <1>1, <3>1 DEF OneTimer, Firing
    <3>3. UpToDate(n)'
      BY <2>3, <3>1, UnreadFacts DEF UpToDate
    <3>4. ~Events!Quiet(n)'
      BY <2>3 DEF Events!Quiet
    <3> QED BY <2>3, <3>1, <3>2, <3>3, <3>4 DEF OneTimer, Matches
  <2> QED BY <1>1, <2>1, <2>4, <2>5, <2>6, UntouchedInStep DEF EventInv
<1>3. CASE e_readers' = Events!Ended(r) /\ Events!DeleteFile(r.file)
  BY <1>1, <1>3, DeletedKeepsInv
<1> QED BY <1>1, <1>2, <1>3

\* A timer is set, or a cron job is started.
LEMMA ArmingEffect ==
  ASSUME EventTypes, Numbers, NEW n \in EventFiles, NEW e \in Contents, e.kind \in Events!Timed,
         e_armed' = e_armed \cup {Events!Armed(n, e)},
         \/ e.kind # "periodic" /\ e_entry' = [e_entry EXCEPT ![n].timer = Events!FreeNo(e_armed)]
         \/ e.kind = "periodic" /\ e_entry' = [e_entry EXCEPT ![n].cron = Events!FreeNo(e_armed)]
  PROVE  /\ e_armed' \in SUBSET Timers /\ IsFiniteSet(e_armed') /\ e_entry' \in [EventFiles -> Entries]
         /\ Numbers'
         /\ \A m \in EventFiles : m # n => e_entry'[m] = e_entry[m] /\ Firing(m)' = Firing(m)
         /\ \E new : /\ Firing(n)' = Firing(n) \cup {new} /\ new.id = e.id
                     /\ Holds(n, new)'
<1>0. PICK new : new = Events!Armed(n, e)
  OBVIOUS
<1>1. Events!FreeNo(e_armed) \in Nat \ {0} /\ \A t \in e_armed : t.no # Events!FreeNo(e_armed)
  BY FreeNoIsFree DEF EventTypes
<1>2. e.id \in Nat
  BY DEF EventTypes, Contents
<1>3. /\ new \in Timers /\ new.file = n /\ new.kind = e.kind /\ new.id = e.id
      /\ new.no = Events!FreeNo(e_armed)
  BY <1>0, <1>1, <1>2 DEF Events!Armed, Timers
<1> DEFINE no == Events!FreeNo(e_armed)
<1>4. no \in Nat \ {0} /\ new.no = no /\ \A t \in e_armed : t.no # no
  BY <1>1, <1>3
<1>5. /\ e_entry' \in [EventFiles -> Entries]
      /\ \A m \in EventFiles : m # n => e_entry'[m] = e_entry[m]
      /\ new.kind # "periodic" => e_entry'[n].timer = no /\ e_entry'[n].cron = e_entry[n].cron
      /\ new.kind = "periodic" => e_entry'[n].cron = no /\ e_entry'[n].timer = e_entry[n].timer
  <2>1. \/ new.kind # "periodic" /\ e_entry' = [e_entry EXCEPT ![n].timer = no]
        \/ new.kind = "periodic" /\ e_entry' = [e_entry EXCEPT ![n].cron = no]
    BY <1>3
  <2> HIDE DEF no
  <2>2. e_entry[n] \in Entries /\ e_entry \in [EventFiles -> Entries]
    BY DEF EventTypes
  <2>3. [e_entry[n] EXCEPT !.timer = no] \in Entries /\ [e_entry[n] EXCEPT !.cron = no] \in Entries
    BY <1>4, <2>2 DEF Entries
  <2>4. CASE new.kind # "periodic" /\ e_entry' = [e_entry EXCEPT ![n].timer = no]
    BY <2>2, <2>3, <2>4 DEF Entries
  <2>5. CASE new.kind = "periodic" /\ e_entry' = [e_entry EXCEPT ![n].cron = no]
    BY <2>2, <2>3, <2>5 DEF Entries
  <2> QED BY <2>1, <2>4, <2>5
<1> HIDE DEF no
<1>6. e_armed' = e_armed \cup {new}
  BY <1>0
<1>7. e_armed' \in SUBSET Timers /\ IsFiniteSet(e_armed')
  BY <1>3, <1>6, FS_AddElement DEF EventTypes
<1>8. Numbers'
  <2>1. \A s, t \in e_armed' : s.no = t.no => s = t
    BY <1>4, <1>6 DEF Numbers
  <2>2. ASSUME NEW m \in EventFiles, e_entry'[m].timer # 0
        PROVE  \E t \in e_armed' : t.no = e_entry'[m].timer /\ t.file = m /\ t.kind # "periodic"
    <3>1. CASE m = n /\ new.kind # "periodic"
      BY <1>3, <1>4, <1>5, <1>6, <3>1
    <3>2. CASE ~(m = n /\ new.kind # "periodic")
      <4>1. e_entry'[m].timer = e_entry[m].timer
        BY <1>5, <3>2
      <4>2. PICK t \in e_armed : t.no = e_entry[m].timer /\ t.file = m /\ t.kind # "periodic"
        BY <2>2, <4>1 DEF Numbers
      <4> QED BY <1>6, <4>1, <4>2
    <3> QED BY <3>1, <3>2
  <2>3. ASSUME NEW m \in EventFiles, e_entry'[m].cron # 0
        PROVE  \E t \in e_armed' : t.no = e_entry'[m].cron /\ t.file = m /\ t.kind = "periodic"
    <3>1. CASE m = n /\ new.kind = "periodic"
      BY <1>3, <1>4, <1>5, <1>6, <3>1
    <3>2. CASE ~(m = n /\ new.kind = "periodic")
      <4>1. e_entry'[m].cron = e_entry[m].cron
        BY <1>5, <3>2
      <4>2. PICK t \in e_armed : t.no = e_entry[m].cron /\ t.file = m /\ t.kind = "periodic"
        BY <2>3, <4>1 DEF Numbers
      <4> QED BY <1>6, <4>1, <4>2
    <3> QED BY <3>1, <3>2
  <2> QED BY <2>1, <2>2, <2>3 DEF Numbers
<1>9. \A m \in EventFiles : m # n => Firing(m)' = Firing(m)
  BY <1>3, <1>6 DEF Firing
<1>10. Firing(n)' = Firing(n) \cup {new}
  BY <1>3, <1>6 DEF Firing
<1>11. Holds(n, new)'
  <2>1. new.no = e_entry'[n].timer \/ new.no = e_entry'[n].cron
    BY <1>3, <1>4, <1>5
  <2> QED BY <2>1 DEF Holds
<1> QED BY <1>3, <1>5, <1>7, <1>8, <1>9, <1>10, <1>11

\* What was read parses.
LEMMA ReadKeepsInv ==
  ASSUME EventInv, NEW r \in e_readers, Events!Read(r)
  PROVE  EventInv'
<1>1. EventTypes /\ Numbers /\ e_up /\ \A m \in EventFiles : InStep(m)
  BY DEF EventInv, DownIsEmpty
<1>2. PICK n \in EventFiles : n = r.file
  BY <1>1 DEF EventTypes, IsCall
<1>3. PICK e \in Contents : e = r.read
  BY <1>1, UnreadFacts DEF EventTypes, IsCall, Events!Read
<1> DEFINE timed == /\ e.kind \in Events!Timed
                    /\ e_armed' = e_armed \cup {Events!Armed(n, e)}
                    /\ \/ e.kind # "periodic" /\ e_entry' = [e_entry EXCEPT ![n].timer = Events!FreeNo(e_armed)]
                       \/ e.kind = "periodic" /\ e_entry' = [e_entry EXCEPT ![n].cron = Events!FreeNo(e_armed)]
                    /\ e_known' = e_known \cup {n}
                    /\ UNCHANGED <<e_disk, e_changed>>
           gone == /\ ~Events!Exists(n) /\ e_known' = e_known \cup {n}
                   /\ UNCHANGED <<e_disk, e_changed, e_armed, e_entry>>
<1>4. /\ Events!Parses(e) /\ e_readers' = Events!Ended(r) /\ UNCHANGED <<e_up, e_written, e_overlapped>>
      /\ \/ Events!DeleteFile(n) /\ UNCHANGED <<e_armed, e_entry>>
         \/ gone \/ timed
  BY <1>2, <1>3 DEF Events!Read, Events!HandleImmediate, Events!HandleOneShot, Events!HandlePeriodic,
                    Events!Dropped, Events!Scheduled, Events!Timed
<1>5. /\ \A m \in EventFiles : m # n => Events!CallsFor(m)' = Events!CallsFor(m)
      /\ \A q \in e_readers' : IsCall(q)
      /\ OneReader(n) => Events!CallsFor(n)' = {}
  BY <1>1, <1>2, <1>4, EndedEffect
<1>6. ASSUME Alone(n)
      PROVE  /\ Firing(n) = {} /\ Events!CallsFor(n)' = {} /\ OneReader(n)' /\ UpToDate(n)' /\ ~Events!UnderWay(n)'
             /\ e = e_disk[n] \/ n \in e_changed
  <2>1. OneReader(n) /\ OneTimer(n) /\ UpToDate(n) /\ r \in Events!CallsFor(n)
    BY <1>1, <1>2, <1>6 DEF InStep, Events!CallsFor
  <2>2. Firing(n) = {} /\ Events!CallsFor(n)' = {}
    BY <1>5, <2>1 DEF OneTimer, Events!UnderWay
  <2>3. e = e_disk[n] \/ n \in e_changed
    BY <1>3, <1>4, <2>1 DEF UpToDate
  <2> QED BY <2>2, <2>3 DEF OneReader, UpToDate, Events!UnderWay
<1>7. DownIsEmpty'
  BY <1>1, <1>4 DEF DownIsEmpty
<1>8. CASE Events!DeleteFile(n) /\ UNCHANGED <<e_armed, e_entry>>
  BY <1>2, <1>4, <1>8, DeletedKeepsInv
<1>9. CASE gone
  <2>1. EventTypes' /\ Numbers'
    BY <1>1, <1>4, <1>5, <1>9 DEF EventTypes, Numbers
  <2>2. \A m \in EventFiles : m # n => Untouched(m)
    BY <1>4, <1>5, <1>9 DEF Untouched, Firing
  <2>3. InStep(n)'
    <3> SUFFICES ASSUME Alone(n) PROVE OneReader(n)' /\ UpToDate(n)' /\ OneTimer(n)' /\ Matches(n)'
      BY <1>4 DEF InStep, Alone
    <3>1. Firing(n)' = {}
      BY <1>6, <1>9 DEF Firing
    <3>2. e_disk'[n].kind \notin Events!Timed
      BY <1>9 DEF Events!Exists, Events!Timed
    <3> QED BY <1>6, <3>1, <3>2 DEF OneTimer, Matches
  <2> QED BY <1>1, <1>4, <1>7, <2>1, <2>2, <2>3, UntouchedInStep DEF EventInv
<1>10. CASE timed
  <2>1. /\ e_armed' \in SUBSET Timers /\ IsFiniteSet(e_armed') /\ e_entry' \in [EventFiles -> Entries]
        /\ Numbers'
        /\ \A m \in EventFiles : m # n => e_entry'[m] = e_entry[m] /\ Firing(m)' = Firing(m)
        /\ \E new : /\ Firing(n)' = Firing(n) \cup {new} /\ new.id = e.id
                    /\ Holds(n, new)'
    BY <1>1, <1>10, ArmingEffect
  <2>2. PICK new : Firing(n)' = Firing(n) \cup {new} /\ new.id = e.id /\ Holds(n, new)'
    BY <2>1
  <2>3. e.kind \in Events!Timed /\ e_known' = e_known \cup {n} /\ UNCHANGED <<e_disk, e_changed>>
    BY <1>10
  <2> HIDE DEF timed, gone
  <2>4. EventTypes'
    BY <1>1, <1>4, <1>5, <2>1, <2>3 DEF EventTypes
  <2>5. \A m \in EventFiles : m # n => Untouched(m)
    BY <1>4, <1>5, <2>1, <2>3 DEF Untouched
  <2>6. InStep(n)'
    <3> SUFFICES ASSUME Alone(n) PROVE OneReader(n)' /\ UpToDate(n)' /\ OneTimer(n)' /\ Matches(n)'
      BY <1>4 DEF InStep, Alone
    <3>1. Firing(n)' = {new}
      BY <1>6, <2>2
    <3>2. OneTimer(n)'
      BY <1>6, <2>2, <2>3, <3>1 DEF OneTimer
    <3>3. Events!Quiet(n)' => e_disk'[n].kind \in Events!Timed /\ e_disk'[n].id = new.id
      BY <1>6, <2>2, <2>3 DEF Events!Quiet
    <3> QED BY <1>6, <3>1, <3>2, <3>3 DEF Matches
  <2> QED BY <1>1, <1>4, <1>7, <2>1, <2>4, <2>5, <2>6, UntouchedInStep DEF EventInv
<1> QED BY <1>4, <1>8, <1>9, <1>10

LEMMA TimerFiresKeepsInv ==
  ASSUME EventInv, NEW t \in e_armed, Events!TimerFires(t)
  PROVE  EventInv'
<1> DEFINE n == t.file
<1>1. /\ t.kind \in {"far", "oneShot"} /\ e_armed' = e_armed \ {t}
      /\ e_entry' = [e_entry EXCEPT ![n].timer = 0] /\ Events!DeleteFile(n)
      /\ UNCHANGED <<e_up, e_readers, e_written, e_overlapped>>
  BY DEF Events!TimerFires
<1>2. EventTypes /\ Numbers /\ DownIsEmpty /\ \A m \in EventFiles : InStep(m)
  BY DEF EventInv
<1>3. n \in EventFiles
  BY <1>2 DEF EventTypes, Timers
<1>4. e_up' = e_up /\ e_up
  <2>1. e_armed # {}
    OBVIOUS
  <2> QED BY <1>1, <1>2, <2>1 DEF DownIsEmpty
<1> HIDE DEF n
<1>5. /\ e_disk' \in [EventFiles -> Contents] /\ e_disk'[n] = Events!NoFile
      /\ e_known' = e_known \ {n} /\ e_changed' \in SUBSET EventFiles
      /\ \A m \in EventFiles : m # n => /\ e_disk'[m] = e_disk[m]
                                        /\ (m \in e_known' <=> m \in e_known)
                                        /\ (m \in e_changed' <=> m \in e_changed)
  BY <1>1, <1>2, <1>3, DeleteFileEffect
<1>6. /\ e_entry' \in [EventFiles -> Entries] /\ e_entry'[n].timer = 0 /\ e_entry'[n].cron = e_entry[n].cron
      /\ \A m \in EventFiles : m # n => e_entry'[m] = e_entry[m]
  BY <1>1, <1>2, <1>3 DEF EventTypes, Entries
<1>7. EventTypes'
  <2>1. e_armed' \in SUBSET Timers /\ IsFiniteSet(e_armed')
    BY <1>1, <1>2, FS_Subset DEF EventTypes
  <2> QED BY <1>1, <1>2, <1>5, <1>6, <2>1 DEF EventTypes
<1>8. Numbers'
  <2>1. ASSUME NEW m \in EventFiles, NEW s \in e_armed \ e_armed', s.file = m
        PROVE  s.kind # "periodic" /\ e_entry'[m].timer = 0
    BY <1>1, <1>6, <2>1 DEF n
  <2>2. \A m \in EventFiles : e_entry'[m].timer \in {0, e_entry[m].timer} /\ e_entry'[m].cron \in {0, e_entry[m].cron}
    BY <1>6
  <2> QED BY <1>1, <1>2, <2>1, <2>2, ForgettingKeepsNumbers
<1>9. \A m \in EventFiles : m # n => Untouched(m)
  BY <1>1, <1>5, <1>6 DEF Untouched, Firing, n, Events!CallsFor
<1>10. InStep(n)'
  <2> SUFFICES ASSUME Alone(n) PROVE OneReader(n)' /\ UpToDate(n)' /\ OneTimer(n)' /\ Matches(n)'
    BY <1>1 DEF InStep, Alone
  <2>1. OneReader(n) /\ OneTimer(n)
    BY <1>2, <1>3 DEF InStep
  <2>2. Firing(n)' = {}
    <3>1. t \in Firing(n)
      BY DEF Firing, n
    <3> QED BY <1>1, <2>1, <3>1 DEF OneTimer, Firing
  <2>3. Events!CallsFor(n)' = {}
    <3>1. t \in Firing(n)
      BY DEF Firing, n
    <3> QED BY <1>1, <2>1, <3>1 DEF OneTimer, Events!UnderWay, Events!CallsFor
  <2> QED BY <1>5, <2>2, <2>3, NoFileFacts DEF OneReader, UpToDate, OneTimer, Matches
<1>11. DownIsEmpty'
  BY <1>4 DEF DownIsEmpty
<1> QED BY <1>2, <1>3, <1>4, <1>7, <1>8, <1>9, <1>10, <1>11, UntouchedInStep DEF EventInv

LEMMA StopKeepsInv == ASSUME EventInv, Events!Stop PROVE EventInv'
<1>1. /\ e_up' = FALSE /\ e_known' = {} /\ e_changed' = {} /\ e_armed' = {}
      /\ e_readers' = {} /\ e_entry' = [n \in EventFiles |-> Events!NoEntry]
      /\ UNCHANGED <<e_disk, e_written>>
  BY DEF Events!Stop
<1>2. EventTypes'
  <2>1. e_up' \in BOOLEAN
    BY <1>1
  <2>2. e_known' \in SUBSET EventFiles /\ e_changed' \in SUBSET EventFiles /\ e_armed' \in SUBSET Timers
    BY <1>1
  <2>3. IsFiniteSet(e_armed')
    BY <1>1, FS_EmptySet
  <2>4. e_entry' \in [EventFiles -> Entries] /\ \A q \in e_readers' : IsCall(q)
    BY <1>1, NoEntryFacts
  <2> QED BY <1>1, <2>1, <2>2, <2>3, <2>4 DEF EventInv, EventTypes
<1>3. \A n \in EventFiles : /\ Firing(n)' = {} /\ ~Events!Quiet(n)' /\ Events!CallsFor(n)' = {}
                            /\ e_entry'[n].timer = 0 /\ e_entry'[n].cron = 0
  BY <1>1, NoEntryFacts DEF Firing, Events!Quiet, Events!CallsFor
<1>4. \A n \in EventFiles : InStep(n)'
  BY <1>3 DEF InStep, OneReader, UpToDate, OneTimer, Matches
<1>5. DownIsEmpty'
  BY <1>1, <1>3 DEF DownIsEmpty
<1>6. Numbers'
  <2>1. \A n \in EventFiles : e_entry'[n].timer = 0 /\ e_entry'[n].cron = 0
    BY <1>3
  <2> QED BY <1>1, <2>1 DEF Numbers
<1> QED BY <1>2, <1>4, <1>5, <1>6 DEF EventInv

LEMMA EventStartKeepsInv == ASSUME EventInv, Events!Start PROVE EventInv'
<1>1. /\ ~e_up /\ e_up' = TRUE
      /\ e_readers' = {Events!Call(n) : n \in {m \in EventFiles : Events!Exists(m)}}
      /\ UNCHANGED <<e_disk, e_known, e_changed, e_armed, e_entry, e_written>>
  BY DEF Events!Start
<1>2. EventTypes /\ e_armed = {} /\ Numbers
  BY <1>1 DEF EventInv, DownIsEmpty
<1>3. ASSUME NEW n \in EventFiles
      PROVE  IsCall(Events!Call(n)) /\ Events!Call(n).file = n /\ Events!Call(n).read = Events!Unread
  BY DEF Events!Call, IsCall
<1>4. EventTypes'
  <2>1. e_up' \in BOOLEAN /\ \A q \in e_readers' : IsCall(q)
    BY <1>1, <1>3
  <2> QED BY <1>1, <1>2, <2>1 DEF EventTypes
<1>5. \A n \in EventFiles : InStep(n)'
  <2> SUFFICES ASSUME NEW n \in EventFiles
               PROVE  OneReader(n)' /\ UpToDate(n)' /\ OneTimer(n)' /\ Matches(n)'
    BY DEF InStep
  <2>1. Firing(n)' = {}
    BY <1>1, <1>2 DEF Firing
  <2>2. \A q \in Events!CallsFor(n)' : q = Events!Call(n) /\ q.read = Events!Unread
    BY <1>1, <1>3 DEF Events!CallsFor
  <2>3. OneReader(n)' /\ UpToDate(n)'
    BY <2>2, UnreadFacts DEF OneReader, UpToDate
  <2>4. CASE Events!Exists(n)
    <3>1. Events!Call(n) \in Events!CallsFor(n)'
      BY <1>1, <1>3, <2>4 DEF Events!CallsFor
    <3>2. ~Events!Quiet(n)'
      BY <3>1 DEF Events!Quiet, Events!UnderWay
    <3> QED BY <2>1, <2>3, <3>2 DEF OneTimer, Matches
  <2>5. CASE ~Events!Exists(n)
    <3>1. e_disk'[n].kind \notin Events!Timed
      BY <1>1, <2>5 DEF Events!Exists, Events!Timed
    <3> QED BY <2>1, <2>3, <3>1 DEF OneTimer, Matches
  <2> QED BY <2>4, <2>5
<1>6. Numbers' /\ DownIsEmpty'
  BY <1>1, <1>2 DEF Numbers, DownIsEmpty
<1> QED BY <1>4, <1>5, <1>6 DEF EventInv

-----------------------------------------------------------------------------
LEMMA EventNextKeepsInv == EventInv /\ [Events!Next]_Events!vars => EventInv'
<1> SUFFICES ASSUME EventInv, [Events!Next]_Events!vars PROVE EventInv'
  OBVIOUS
<1>1. e_written \in Nat
  BY DEF EventInv, EventTypes
<1>2. ASSUME NEW n \in EventFiles, NEW kind \in Kinds \cup {"half"}, Events!Write(n, kind) PROVE EventInv'
  <2>1. [kind |-> kind, id |-> e_written + 1] \in Contents
    BY <1>1 DEF Contents
  <2>2. Events!Replace(n, [kind |-> kind, id |-> e_written + 1]) /\ e_written' \in Nat
    BY <1>1, <1>2 DEF Events!Write
  <2> QED BY <2>1, <2>2, ReplaceKeepsInv
<1>3. ASSUME NEW n \in EventFiles, Events!Remove(n) PROVE EventInv'
  <2>1. Events!Replace(n, Events!NoFile) /\ e_written' \in Nat
    BY <1>1, <1>3 DEF Events!Remove
  <2> QED BY <2>1, NoFileFacts, ReplaceKeepsInv
<1>4. ASSUME NEW n \in EventFiles, Events!HandleChange(n) PROVE EventInv'
  BY <1>4, HandleChangeKeepsInv
<1>5. ASSUME NEW n \in EventFiles, Events!ReadStep(n) PROVE EventInv'
  BY <1>5, FetchKeepsInv, ReadFailsKeepsInv, ReadKeepsInv DEF Events!ReadStep, Events!CallsFor
<1>6. ASSUME NEW t \in e_armed, Events!TimerFires(t) PROVE EventInv'
  BY <1>6, TimerFiresKeepsInv
<1>7. ASSUME UNCHANGED <<e_disk, e_up, e_known, e_changed, e_readers, e_armed, e_entry, e_overlapped, e_written>> PROVE EventInv'
  BY <1>7, StillKeepsInv
<1>8. ASSUME NEW t \in e_armed, Events!CronFires(t) PROVE EventInv'
  BY <1>7, <1>8 DEF Events!CronFires
<1>9. ASSUME NEW v \in Events!Versions, Events!TimeComes(v) PROVE EventInv'
  BY <1>7, <1>9 DEF Events!TimeComes
<1>10. CASE Events!EventDone \/ UNCHANGED Events!vars
  BY <1>7, <1>10 DEF Events!EventDone, Events!vars
<1>11. CASE Events!Stop \/ Events!Start
  BY <1>11, StopKeepsInv, EventStartKeepsInv
<1> QED
  BY <1>2, <1>3, <1>4, <1>5, <1>6, <1>8, <1>9, <1>10, <1>11, Zenon DEF Events!Next, Events!Fire

\* events.ts: for any number of event files, writes and restarts: when nothing is heard of
\* a file any more, its timers and cron jobs are what it says, unless a change of it was
\* handled while a handleFile was under way.
THEOREM ScheduleFollowsFiles == Events!Spec => []ScheduleMatchesDirectory
<1>1. EventInv => ScheduleMatchesDirectory
  <2> SUFFICES ASSUME EventInv, NEW n \in EventFiles \ e_overlapped, Events!Quiet(n)
               PROVE  IF e_disk[n].kind \in Events!Timed
                      THEN \E t \in Firing(n) : Firing(n) = {t} /\ t.id = e_disk[n].id
                      ELSE Firing(n) = {}
    BY DEF ScheduleMatchesDirectory, Events!ScheduleMatchesDirectory, Firing
  <2>1. OneTimer(n) /\ Matches(n)
    BY DEF EventInv, InStep, Alone
  <2> QED BY <2>1 DEF OneTimer, Matches
<1> QED BY <1>1, EventInitInv, EventNextKeepsInv, PTL DEF Events!Spec
=============================================================================
