--------------------- MODULE AgentSessionDeliveryProofs ---------------------
(***************************************************************************)
(* What is proved about the delivery of messages in AgentSession, on the   *)
(* types and lemmas of AgentSessionProofs:                                 *)
(*   - the queued messages the user is shown are those the agent holds;    *)
(*   - in the context that is sent, a tool result directly follows the     *)
(*     answer that called the tool.                                        *)
(*                                                                         *)
(* A message is taken off the list that is shown when the handler reaches  *)
(* its message_start, by its text. It is the right one because the lists,  *)
(* the queues and the messages on their way have increasing ids and        *)
(* nothing in common that they should not have (MirrorOrder).              *)
(*                                                                         *)
(* An answer and its result are apart for as long as the result is not     *)
(* said or not written. Then they are neighbours in the file followed by   *)
(* what is still to come (Ordered), and nothing that is added to the file  *)
(* meanwhile belongs between them (Paused, Parted, Over, Fresh).           *)
(***************************************************************************)
EXTENDS AgentSessionProofs

-----------------------------------------------------------------------------
(* The messages shown are those the agent holds.                           *)

Increasing(s) == \A i, j \in 1..Len(s) : i < j => s[i].id < s[j].id
Before(s, t) == \A x \in ToSet(s), y \in ToSet(t) : x.id < y.id

LEMMA IncreasingParts ==
  ASSUME NEW s \in Seq(Messages), NEW t \in Seq(Messages)
  PROVE  Increasing(s \o t) <=> Increasing(s) /\ Increasing(t) /\ Before(s, t)
<1> DEFINE u == s \o t
<1>1. /\ u \in Seq(Messages) /\ Len(s) \in Nat /\ Len(t) \in Nat
      /\ Len(u) = Len(s) + Len(t)
      /\ \A i \in 1..Len(s) : u[i] = s[i]
      /\ \A i \in 1..Len(t) : u[i + Len(s)] = t[i]
      /\ \A i \in 1..(Len(s) + Len(t)) : i > Len(s) => u[i] = t[i - Len(s)]
  BY ConcatTyped
<1>2. /\ \A e : e \in ToSet(s) <=> \E i \in 1..Len(s) : e = s[i]
      /\ \A e : e \in ToSet(t) <=> \E i \in 1..Len(t) : e = t[i]
  BY Elements
<1> HIDE DEF u
<1>3. ASSUME Increasing(u) PROVE Increasing(s) /\ Increasing(t) /\ Before(s, t)
  <2>1. Increasing(s)
    BY <1>1, <1>3 DEF Increasing
  <2>2. ASSUME NEW i \in 1..Len(t), NEW j \in 1..Len(t), i < j PROVE t[i].id < t[j].id
    <3>1. i + Len(s) \in 1..Len(u) /\ j + Len(s) \in 1..Len(u) /\ i + Len(s) < j + Len(s)
      BY <1>1, <2>2
    <3>2. u[i + Len(s)].id < u[j + Len(s)].id
      BY <1>3, <3>1 DEF Increasing
    <3> QED
      BY <1>1, <3>2
  <2>3. ASSUME NEW i \in 1..Len(s), NEW j \in 1..Len(t) PROVE s[i].id < t[j].id
    <3>1. i \in 1..Len(u) /\ j + Len(s) \in 1..Len(u) /\ i < j + Len(s)
      BY <1>1
    <3>2. u[i].id < u[j + Len(s)].id
      BY <1>3, <3>1 DEF Increasing
    <3> QED
      BY <1>1, <3>2
  <2>4. Before(s, t)
    BY <1>2, <2>3 DEF Before
  <2>5. Increasing(t)
    BY <2>2 DEF Increasing
  <2> QED
    BY <2>1, <2>4, <2>5
<1>4. ASSUME Increasing(s), Increasing(t), Before(s, t) PROVE Increasing(u)
  <2>1. SUFFICES ASSUME NEW i \in 1..Len(u), NEW j \in 1..Len(u), i < j PROVE u[i].id < u[j].id
    BY DEF Increasing
  <2>2. CASE j <= Len(s)
    <3>1. i \in 1..Len(s) /\ j \in 1..Len(s)
      BY <1>1, <2>1, <2>2
    <3>2. s[i].id < s[j].id
      BY <1>4, <2>1, <3>1 DEF Increasing
    <3> QED
      BY <1>1, <3>1, <3>2
  <2>3. CASE i > Len(s)
    <3>1. i - Len(s) \in 1..Len(t) /\ j - Len(s) \in 1..Len(t) /\ i - Len(s) < j - Len(s) /\ j > Len(s)
      BY <1>1, <2>1, <2>3
    <3>2. t[i - Len(s)].id < t[j - Len(s)].id
      BY <1>4, <3>1 DEF Increasing
    <3>3. u[i] = t[i - Len(s)] /\ u[j] = t[j - Len(s)]
      BY <1>1, <2>3, <3>1
    <3> QED
      BY <3>2, <3>3
  <2>4. CASE i <= Len(s) /\ j > Len(s)
    <3>1. i \in 1..Len(s) /\ j - Len(s) \in 1..Len(t)
      BY <1>1, <2>4
    <3>2. s[i].id < t[j - Len(s)].id
      BY <1>2, <1>4, <3>1 DEF Before
    <3>3. u[i] = s[i] /\ u[j] = t[j - Len(s)]
      BY <1>1, <2>4, <3>1
    <3> QED
      BY <3>2, <3>3
  <2> QED
    BY <1>1, <2>2, <2>3, <2>4
<1>5. Increasing(u) <=> Increasing(s) /\ Increasing(t) /\ Before(s, t)
  BY <1>3, <1>4
<1> QED
  BY <1>5 DEF u

LEMMA IncreasingNone == Increasing(<<>>)
  BY DEF Increasing

LEMMA IncreasingOne == \A m : Increasing(<<m>>)
  BY DEF Increasing

LEMMA BeforeApart ==
  ASSUME NEW s \in Seq(Messages), NEW t \in Seq(Messages), Before(s, t)
  PROVE  ToSet(s) \cap ToSet(t) = {}
<1>1. SUFFICES ASSUME NEW x \in ToSet(s), x \in ToSet(t) PROVE FALSE
  OBVIOUS
<1>2. x \in Messages /\ x.id < x.id
  BY <1>1, Elements DEF Before
<1> QED
  BY <1>2 DEF Messages

LEMMA IncreasingAppend ==
  ASSUME NEW s \in Seq(Messages), NEW m \in Messages, Increasing(s),
         \A x \in ToSet(s) : x.id < m.id
  PROVE  Increasing(Append(s, m)) /\ ToSet(Append(s, m)) = ToSet(s) \cup {m} /\ m \notin ToSet(s)
<1> DEFINE t == <<m>>
<1>1. t \in Seq(Messages)
  OBVIOUS
<1>2. Increasing(t) /\ ToSet(t) = {m}
  BY IncreasingOne, ElementsOfOne
<1>3. Append(s, m) = s \o t
  BY AppendIsConcat
<1> HIDE DEF t
<1>4. Before(s, t)
  BY <1>2 DEF Before
<1>5. Increasing(s \o t)
  BY <1>1, <1>2, <1>4, IncreasingParts
<1>6. ToSet(Append(s, m)) = ToSet(s) \cup {m}
  BY ElementsAppended
<1>7. ToSet(s) \cap ToSet(t) = {}
  BY <1>1, <1>4, BeforeApart
<1> QED
  BY <1>2, <1>3, <1>5, <1>6, <1>7

\* An increasing sequence without one of its elements.
LEMMA IncreasingRemoved ==
  ASSUME NEW s \in Seq(Messages), NEW r, NEW m, Increasing(s), IsWithout(r, s, m, Messages)
  PROVE  Increasing(r) /\ ToSet(r) \subseteq ToSet(s) /\ m \notin ToSet(r)
<1>1. CASE (\A i \in 1..Len(s) : s[i] # m) /\ r = s
  <2>1. m \notin ToSet(s)
    BY <1>1, Elements
  <2> QED
    BY <1>1, <2>1
<1>2. ASSUME NEW a \in Seq(Messages), NEW b \in Seq(Messages), m \in Messages,
             s = (a \o <<m>>) \o b, r = a \o b
      PROVE  Increasing(r) /\ ToSet(r) \subseteq ToSet(s) /\ m \notin ToSet(r)
  <2> DEFINE t == <<m>>
             at == a \o t
  <2>1. t \in Seq(Messages) /\ ToSet(t) = {m}
    BY <1>2, ElementsOfOne
  <2> HIDE DEF t
  <2>2. at \in Seq(Messages) /\ ToSet(at) = ToSet(a) \cup {m}
    BY <2>1, ConcatTyped, ElementsOfConcat
  <2>3. s = at \o b
    BY <1>2 DEF t
  <2>4. Increasing(at) => Increasing(a) /\ Before(a, t)
    BY <2>1, IncreasingParts
  <2> HIDE DEF at
  <2>5. Increasing(at) /\ Increasing(b) /\ Before(at, b) /\ ToSet(s) = ToSet(at) \cup ToSet(b)
    BY <2>2, <2>3, IncreasingParts, ElementsOfConcat
  <2>6. Before(a, b) /\ Before(a, t) /\ Before(t, b)
    BY <2>1, <2>2, <2>4, <2>5 DEF Before
  <2>7. m \notin ToSet(a) /\ m \notin ToSet(b)
    <3>1. ToSet(a) \cap ToSet(t) = {} /\ ToSet(t) \cap ToSet(b) = {}
      BY <2>1, <2>6, BeforeApart
    <3> QED
      BY <2>1, <3>1
  <2>8. Increasing(a \o b) /\ ToSet(a \o b) = ToSet(a) \cup ToSet(b)
    BY <2>4, <2>5, <2>6, IncreasingParts, ElementsOfConcat
  <2> QED
    BY <1>2, <2>2, <2>5, <2>7, <2>8
<1> QED
  BY <1>1, <1>2 DEF IsWithout

\* What is shown of a list and has not started is what a queue holds.
Mirrors(shown, queue, started) == Selected(shown, UserInputs \ started) = Selected(queue, UserMessages)

LEMMA MirrorIs ==
  ASSUME NEW shown \in Seq(UserInputs), NEW queue \in Seq(Inputs), NEW S
  PROVE  Selected(shown, ToSet(shown) \ S) = Users(queue) <=> Mirrors(shown, queue, S)
<1>1. \A e \in ToSet(shown) : e \in UserInputs
  BY Elements
<1>2. \A e \in ToSet(shown) : e \in ToSet(shown) \ S <=> e \in UserInputs \ S
  BY <1>1
<1>3. Selected(shown, ToSet(shown) \ S) = Selected(shown, UserInputs \ S)
  BY <1>2, SelectedSame
<1>4. queue \in Seq(Messages)
  BY DataSets, SeqMonotonic
<1>5. Users(queue) = Selected(queue, UserMessages)
  BY <1>4, UsersIs
<1> QED
  BY <1>3, <1>5 DEF Mirrors

LEMMA InputsAreUsers == \A e \in Inputs : e \in UserMessages <=> e \in UserInputs
  BY DataSets DEF UserMessages, UserInputs

\* The agent takes messages from the front of a queue, and they start.
LEMMA MirrorDrawn ==
  ASSUME NEW shown \in Seq(UserInputs), NEW q \in Seq(Inputs), NEW rest \in Seq(Inputs), NEW S, NEW T,
         Mirrors(shown, q \o rest, S),
         ToSet(q) \cap UserMessages \subseteq T,
         T \cap UserMessages \cap ToSet(rest) = {}
  PROVE  Mirrors(shown, rest, S \cup T)
<1> DEFINE X == UserInputs \ T
           Y == UserMessages \cap X
           shownX == (UserInputs \ S) \cap X
<1>1. UserInputs \ (S \cup T) = shownX
  OBVIOUS
<1>2. PICK all \in Seq(Inputs) : all = q \o rest
  BY ConcatTyped
<1>6. ToSet(q) \subseteq Inputs /\ ToSet(rest) \subseteq Inputs
  BY Elements
<1>7. ToSet(q) \cap Y = {} /\ \A e \in ToSet(rest) : e \in Y <=> e \in UserMessages
  BY <1>6, InputsAreUsers
<1>8. Y = UserMessages \cap X /\ shownX = (UserInputs \ S) \cap X
  OBVIOUS
<1> HIDE DEF X, Y, shownX
<1>3. Selected(Selected(shown, UserInputs \ S), X) = Selected(shown, shownX)
  BY <1>8, SelectedTwice
<1>4. Selected(Selected(all, UserMessages), X) = Selected(all, Y)
  BY <1>8, SelectedTwice
<1>5. Selected(q \o rest, Y) = Selected(q, Y) \o Selected(rest, Y)
  BY SelectedConcat
<1>9. Selected(q, Y) = <<>> /\ Selected(rest, Y) = Selected(rest, UserMessages)
  BY <1>7, SelectedNone, SelectedSame
<1>10. Selected(rest, UserMessages) \in Seq(Inputs)
  BY SelectedIsSeq
<1>11. \A s \in Seq(Inputs) : <<>> \o s = s
  OBVIOUS
<1>12. Selected(q, Y) \o Selected(rest, Y) = Selected(rest, UserMessages)
  BY <1>9, <1>10, <1>11
<1> QED
  BY <1>1, <1>2, <1>3, <1>4, <1>5, <1>12 DEF Mirrors

LEMMA MirrorSame ==
  ASSUME NEW shown \in Seq(UserInputs), NEW queue, NEW S, NEW T, Mirrors(shown, queue, S),
         \A e \in ToSet(shown) : e \in S <=> e \in T
  PROVE  Mirrors(shown, queue, T)
<1>1. \A e \in ToSet(shown) : e \in UserInputs \ S <=> e \in UserInputs \ T
  OBVIOUS
<1>2. Selected(shown, UserInputs \ S) = Selected(shown, UserInputs \ T)
  BY <1>1, SelectedSame
<1> QED
  BY <1>2 DEF Mirrors

LEMMA MirrorAppend ==
  ASSUME NEW shown \in Seq(UserInputs), NEW queue \in Seq(Inputs), NEW S, Mirrors(shown, queue, S),
         NEW m \in UserInputs, m \notin S
  PROVE  Mirrors(Append(shown, m), Append(queue, m), S)
<1>1. m \in Inputs /\ m \in UserMessages
  BY DataSets, InputsAreUsers
<1>2. Selected(Append(shown, m), UserInputs \ S) = Append(Selected(shown, UserInputs \ S), m)
  BY SelectedAppend
<1>3. Selected(Append(queue, m), UserMessages) = Append(Selected(queue, UserMessages), m)
  BY <1>1, SelectedAppend
<1> QED
  BY <1>2, <1>3 DEF Mirrors

LEMMA MirrorCustom ==
  ASSUME NEW shown, NEW queue \in Seq(Inputs), NEW S, Mirrors(shown, queue, S), NEW m \in CustomInputs
  PROVE  Mirrors(shown, Append(queue, m), S)
<1>1. m \in Inputs /\ m \notin UserMessages
  BY DEF CustomInputs, UserMessages
<1>2. Selected(Append(queue, m), UserMessages) = Selected(queue, UserMessages)
  BY <1>1, SelectedAppend
<1> QED
  BY <1>2 DEF Mirrors

\* What has started leaves the list.
LEMMA MirrorRemoved ==
  ASSUME NEW shown \in Seq(UserInputs), NEW r, NEW queue, NEW S, NEW T, NEW m,
         Increasing(shown), IsWithout(r, shown, m, UserInputs), S = T \cup {m}, Mirrors(shown, queue, S)
  PROVE  Mirrors(r, queue, T)
<1>1. CASE (\A i \in 1..Len(shown) : shown[i] # m) /\ r = shown
  <2>1. m \notin ToSet(shown)
    BY <1>1, Elements
  <2> QED
    BY <1>1, <2>1, MirrorSame
<1>2. ASSUME NEW a \in Seq(UserInputs), NEW b \in Seq(UserInputs), m \in UserInputs,
             shown = (a \o <<m>>) \o b, r = a \o b
      PROVE  Mirrors(r, queue, T)
  <2> DEFINE t == <<m>>
             at == a \o t
             X == UserInputs \ S
  <2>1. t \in Seq(UserInputs)
    BY <1>2
  <2>2. Selected(t, X) = <<>>
    BY <1>2, SelectedOne
  <2>3. at \in Seq(UserInputs) /\ shown = at \o b /\ Selected(at, X) = Selected(a, X) \o Selected(t, X)
    <3> HIDE DEF t, X
    <3>2. t \in Seq(UserInputs)
      BY <2>1
    <3>3. a \o t \in Seq(UserInputs)
      BY <3>2, ConcatTyped
    <3>4. Selected(a \o t, X) = Selected(a, X) \o Selected(t, X)
      BY <3>2, SelectedConcat
    <3>1. at \in Seq(UserInputs) /\ Selected(at, X) = Selected(a, X) \o Selected(t, X)
      BY <3>3, <3>4
    <3> QED
      BY <1>2, <3>1 DEF t
  <2>4. Selected(a, X) \in Seq(UserInputs)
    BY SelectedIsSeq
  <2> HIDE DEF t, at, X
  <2>5. Selected(shown, X) = Selected(at, X) \o Selected(b, X)
    BY <2>3, SelectedConcat
  <2>6. Selected(r, X) = Selected(a, X) \o Selected(b, X)
    BY <1>2, SelectedConcat
  <2>7. \A s \in Seq(UserInputs) : s \o <<>> = s
    OBVIOUS
  <2>8. Selected(at, X) = Selected(a, X)
    BY <2>2, <2>3, <2>4, <2>7
  <2>9. r \in Seq(UserInputs)
    BY <1>2, ConcatTyped
  <2>10. m \notin ToSet(r)
    <3>1. shown \in Seq(Messages) /\ a \in Seq(Messages) /\ b \in Seq(Messages) /\ m \in Messages
      <4>1. UserInputs \subseteq Messages
        BY DataSets
      <4> QED
        BY <1>2, <4>1, SeqMonotonic
    <3>2. IsWithout(r, shown, m, Messages)
      BY <1>2, <3>1 DEF IsWithout
    <3> QED
      BY <3>1, <3>2, IncreasingRemoved
  <2>11. Mirrors(r, queue, S)
    BY <2>5, <2>6, <2>8 DEF Mirrors, X
  <2>12. \A e \in ToSet(r) : e \in S <=> e \in T
    BY <2>10
  <2> QED
    BY <2>9, <2>11, <2>12, MirrorSame
<1> QED
  BY <1>1, <1>2 DEF IsWithout

-----------------------------------------------------------------------------
(* What keeps the order of the queues.                                     *)

Waiting(c) == {m \in UNION {ToSet(c[p].msgs) : p \in Prompts} : m.role = "user"}
StartedUsers == {m \in Starting : m.role = "user"}
Held == ToSet(agent.steering) \cup ToSet(agent.followUp)
ShownUsers == ToSet(session.steering) \cup ToSet(session.followUp)
Young(S, n) == \A m \in S : m.id < n

InOrder ==
  /\ Increasing(agent.steering) /\ Increasing(agent.followUp)
  /\ Increasing(session.steering) /\ Increasing(session.followUp)
ListsApart ==
  /\ ToSet(agent.steering) \cap ToSet(agent.followUp) = {}
  /\ ToSet(session.steering) \cap ToSet(session.followUp) = {}
  /\ Held \cap Waiting(calls) = {}
AllYoung ==
  /\ Young(Held, clock) /\ Young(ShownUsers, clock)
  /\ Young(Waiting(calls), clock) /\ Young(StartedUsers, clock)
MirrorOrder == InOrder /\ ListsApart /\ AllYoung

Mirrored ==
  /\ Mirrors(session.steering, agent.steering, Starting)
  /\ Mirrors(session.followUp, agent.followUp, Starting)
MirrorInv == MirrorOrder /\ ("mirror" \notin missed => Mirrored)

LEMMA ClockGrows == Inv /\ [Next]_vars => clock' \in Nat /\ clock <= clock'
<1> SUFFICES ASSUME Inv, [Next]_vars PROVE clock' \in Nat /\ clock <= clock'
  OBVIOUS
<1>0. clock \in Nat
  BY DEF Inv, Types
<1>u. clock' = clock \/ clock' = clock + 1 \/ clock' = clock + 2 => clock' \in Nat /\ clock <= clock'
  BY <1>0
<1>1. CASE AgentStep
  BY <1>u, <1>1 DEF AgentStep, Answer, ToolsDone, RunThrows
<1>2. CASE HandlerStep
  BY <1>u, <1>2 DEF HandlerStep, MessageStarts, MessageEnds, AgentEnds, BackoffElapses, BackoffCancelled
<1>3. CASE CommandStep
  BY <1>u, <1>3 DEF CommandStep, NewSession, SwitchOpens, SwitchRestores, CompactStarts
<1>4. CASE TimerStep
  <2>1. ASSUME NEW k \in {"retry", "resume"}, Continue(k) PROVE clock' = clock \/ clock' = clock + 1
    BY <2>1, ContinueSays
  <2> QED
    BY <1>u, <1>4, <2>1 DEF TimerStep
<1>5. CASE HostStep
  <2>1. CASE RecordBash \/ SendCustom
    BY <1>u, <2>1, RecordBashDoes, SendCustomDoes
  <2>2. CASE EscapeBackoff \/ EscapeRun \/ NavigateTree \/ Fork
    BY <1>u, <2>2, EscapeBackoffDoes, EscapeRunDoes, NavigateTreeDoes, ForkDoes
  <2>3. CASE \E p \in Prompts : PromptQueues(p) \/ PromptStarts(p)
    BY <1>u, <2>3 DEF PromptQueues, PromptStarts
  <2>4. CASE \E name \in Commands : CommandStarts(name)
    BY <1>u, <2>4, CommandStartsDoes
  <2> QED
    BY <1>5, <2>1, <2>2, <2>3, <2>4 DEF HostStep
<1>6. ASSUME NEW o \in Owners, JobStep(o) PROVE clock' = clock \/ clock' = clock + 1
  BY <1>6 DEF JobStep, JobAsks, JobFails, JobDone
<1>7. ASSUME NEW p \in Prompts, PromptStep(p) PROVE clock' = clock \/ clock' = clock + 1
  <2>1. CASE PromptRuns(p)
    BY <2>1, PromptSays
  <2>2. CASE PromptHasNoKey(p) \/ PromptChecks(p) \/ PromptWaits(p)
    BY <2>2 DEF PromptHasNoKey, PromptChecks, PromptWaits
  <2> QED
    BY <1>7, <2>1, <2>2 DEF PromptStep
<1>8. CASE UNCHANGED vars
  BY <1>u, <1>8 DEF vars
<1> QED
  BY <1>u, <1>1, <1>2, <1>3, <1>4, <1>5, <1>6, <1>7, <1>8 DEF Next

\* What waits to be prompted.
LEMMA WaitingKept ==
  ASSUME Inv, SessionData,
         \/ calls' = calls \/ calls' = EndedCalls \/ calls' = Released
         \/ \E p \in Prompts : \E place : calls' = At(p, place)
         \/ \E p \in Prompts : calls' = [calls EXCEPT ![p] = Built(@, session)]
  PROVE  Waiting(calls') \subseteq Waiting(calls)
<1>1. calls \in [Prompts -> [pc: CallPlaces, msgs: Seq(Inputs)]]
  BY DEF Inv, Types
<1> DEFINE none == <<>>
           UsersOf(s) == {m \in ToSet(s) : m.role = "user"}
<1>2. ToSet(none) = {}
  BY ElementsOfNone
<1>3. SUFFICES ASSUME NEW p \in Prompts PROVE UsersOf(calls'[p].msgs) \subseteq UsersOf(calls[p].msgs)
  BY DEF Waiting
<1>4. CASE calls'[p].msgs = calls[p].msgs \/ calls'[p].msgs = none
  BY <1>2, <1>4
<1>5. CASE calls' = calls \/ calls' = EndedCalls \/ calls' = Released
  <2>1. calls'[p].msgs = calls[p].msgs
    BY <1>1, <1>5 DEF EndedCalls, Released
  <2> QED
    BY <1>4, <2>1
<1>6. ASSUME NEW r \in Prompts, NEW place, calls' = At(r, place)
      PROVE  UsersOf(calls'[p].msgs) \subseteq UsersOf(calls[p].msgs)
  <2>1. calls' = [calls EXCEPT ![r] = [pc |-> place, msgs |-> IF place = "compacting" THEN @.msgs ELSE none]]
    BY <1>6 DEF At
  <2> HIDE DEF none, UsersOf
  <2>2. calls'[p].msgs = calls[p].msgs \/ calls'[p].msgs = none
    BY <1>1, <2>1
  <2> QED
    BY <1>4, <2>2
<1>7. ASSUME NEW r \in Prompts, calls' = [calls EXCEPT ![r] = Built(@, session)]
      PROVE  UsersOf(calls'[p].msgs) \subseteq UsersOf(calls[p].msgs)
  <2> DEFINE s == calls[r].msgs
             t == session.nextTurn
             u == s \o t
  <2>1. s \in Seq(Inputs) /\ t \in Seq(Inputs) /\ t \in Seq(CustomInputs)
    BY <1>1, DataSets, SeqMonotonic DEF SessionData
  <2>2. calls'[p].msgs = calls[p].msgs \/ (p = r /\ calls'[p].msgs = u)
    <3>1. calls[r] \in [pc: CallPlaces, msgs: Seq(Inputs)]
      BY <1>1
    <3>2. calls'[r] = Built(calls[r], session) /\ (p # r => calls'[p] = calls[p])
      BY <1>1, <1>7
    <3>3. Built(calls[r], session) = [[calls[r] EXCEPT !.pc = "before"] EXCEPT !.msgs = u]
      BY <3>1 DEF Built
    <3> HIDE DEF u
    <3>4. Built(calls[r], session).msgs = u
      BY <3>1, <3>3
    <3> QED
      BY <3>2, <3>4
  <2>3. p = r => calls[p].msgs = s
    OBVIOUS
  <2> HIDE DEF s, t, u
  <2>4. s \in Seq(Inputs) /\ t \in Seq(Inputs) /\ t \in Seq(CustomInputs)
    BY <2>1
  <2>5. ToSet(s \o t) = ToSet(s) \cup ToSet(t) /\ ToSet(t) \subseteq CustomInputs
    BY <2>4, ElementsOfConcat, Elements
  <2>6. \A m \in ToSet(t) : m.role # "user"
    BY <2>5 DEF CustomInputs
  <2>7. UsersOf(u) \subseteq UsersOf(s)
    BY <2>5, <2>6 DEF u
  <2> QED
    BY <2>2, <2>3, <2>7
<1> QED
  BY <1>5, <1>6, <1>7

\* Queues and lists get no more messages, and nothing new starts.
LEMMA OrderShrinks ==
  ASSUME MirrorOrder, InOrder', clock \in Nat, clock' \in Nat, clock <= clock',
         ToSet(agent'.steering) \subseteq ToSet(agent.steering),
         ToSet(agent'.followUp) \subseteq ToSet(agent.followUp),
         ToSet(session'.steering) \subseteq ToSet(session.steering),
         ToSet(session'.followUp) \subseteq ToSet(session.followUp),
         Waiting(calls') \subseteq Waiting(calls),
         StartedUsers' \subseteq StartedUsers \cup Held \cup Waiting(calls),
         \A m \in StartedUsers \cup Held \cup ShownUsers \cup Waiting(calls) : m.id \in Nat
  PROVE  MirrorOrder'
<1>1. Held' \subseteq Held /\ ShownUsers' \subseteq ShownUsers
  BY DEF Held, ShownUsers
<1>2. ListsApart'
  BY <1>1 DEF MirrorOrder, ListsApart
<1>3. \A m \in StartedUsers \cup Held \cup ShownUsers \cup Waiting(calls) : m.id < clock'
  BY DEF MirrorOrder, AllYoung, Young
<1>4. AllYoung'
  BY <1>1, <1>3 DEF AllYoung, Young
<1> QED
  BY <1>2, <1>4 DEF MirrorOrder

LEMMA IdsAreNat ==
  ASSUME Inv, Data
  PROVE  \A m \in StartedUsers \cup Held \cup ShownUsers \cup Waiting(calls) : m.id \in Nat
<1>1. /\ agent.steering \in Seq(Inputs) /\ agent.followUp \in Seq(Inputs)
      /\ session.steering \in Seq(UserInputs) /\ session.followUp \in Seq(UserInputs)
      /\ session.events \in Seq(PlainEvents) /\ calls \in [Prompts -> [pc: CallPlaces, msgs: Seq(Inputs)]]
  BY DEF Inv, Types, AgentTypes, Data, SessionData
<1>2. Held \subseteq Inputs /\ ShownUsers \subseteq UserInputs
  BY <1>1, Elements DEF Held, ShownUsers
<1>3. Waiting(calls) \subseteq Inputs
  <2>1. \A p \in Prompts : ToSet(calls[p].msgs) \subseteq Inputs
    BY <1>1, Elements
  <2> QED
    BY <2>1 DEF Waiting
<1>4. StartedUsers \subseteq Messages
  <2>1. ToSet(session.events) \subseteq Events
    BY <1>1, DataSets, Elements
  <2> QED
    BY <2>1 DEF StartedUsers, Starting, Events
<1>5. StartedUsers \cup Held \cup ShownUsers \cup Waiting(calls) \subseteq Messages
  BY <1>2, <1>3, <1>4, DataSets
<1> QED
  BY <1>5 DEF Messages

LEMMA ElementsOfMessages == \A e : e \in UserMessages <=> e \in Messages /\ e.role = "user"
  BY DEF UserMessages

LEMMA DrawnMirrors ==
  ASSUME NEW shown \in Seq(UserInputs), NEW queue \in Seq(Inputs), NEW q \in Seq(Inputs),
         NEW rest \in Seq(Inputs), queue = q \o rest, Increasing(queue)
  PROVE  /\ Increasing(rest) /\ ToSet(rest) \subseteq ToSet(queue) /\ ToSet(q) \subseteq ToSet(queue)
         /\ \A S, T :
              /\ Mirrors(shown, queue, S)
              /\ ToSet(q) \cap UserMessages \subseteq T
              /\ \A m \in T : m.role = "user" => m \in ToSet(q) \/ m \notin ToSet(queue)
              => Mirrors(shown, rest, S \cup T)
<1>1. q \in Seq(Messages) /\ rest \in Seq(Messages)
  BY DataSets, SeqMonotonic
<1>2. Increasing(q \o rest) /\ ToSet(queue) = ToSet(q) \cup ToSet(rest)
  BY ElementsOfConcat
<1>3. Increasing(rest) /\ Before(q, rest)
  BY <1>1, <1>2, IncreasingParts
<1>4. ToSet(q) \cap ToSet(rest) = {}
  BY <1>1, <1>3, BeforeApart
<1>5. ASSUME NEW S, NEW T, Mirrors(shown, queue, S),
             ToSet(q) \cap UserMessages \subseteq T,
             \A m \in T : m.role = "user" => m \in ToSet(q) \/ m \notin ToSet(queue)
      PROVE  Mirrors(shown, rest, S \cup T)
  <2>1. T \cap UserMessages \cap ToSet(rest) = {}
    BY <1>2, <1>4, <1>5 DEF UserMessages
  <2>2. Mirrors(shown, q \o rest, S)
    BY <1>5
  <2> QED
    BY <1>5, <2>1, <2>2, MirrorDrawn
<1> QED
  BY <1>2, <1>3, <1>5

LEMMA ListTypes ==
  ASSUME Inv, Data
  PROVE  /\ agent.steering \in Seq(Inputs) /\ agent.followUp \in Seq(Inputs)
         /\ session.steering \in Seq(UserInputs) /\ session.followUp \in Seq(UserInputs)
         /\ session.events \in Seq(PlainEvents) /\ session.events \in Seq(Events)
         /\ clock \in Nat /\ SessionData
  BY PlainEnded DEF Inv, Types, AgentTypes, Data, SessionData

LEMMA SaidMirror ==
  ASSUME Inv, Data, MirrorInv, NEW ms, NEW q, NEW new, Says(ms, q, new),
         Waiting(calls') \subseteq Waiting(calls), clock' \in Nat, clock <= clock'
  PROVE  MirrorInv'
<1>0. /\ agent.steering \in Seq(Inputs) /\ agent.followUp \in Seq(Inputs)
      /\ session.steering \in Seq(UserInputs) /\ session.followUp \in Seq(UserInputs)
      /\ session.events \in Seq(Events) /\ clock \in Nat
  BY ListTypes
<1>1. /\ ms \in Seq(NoSummaries) /\ q \in Seq(Inputs) /\ new \in Seq(Events)
      /\ DrawnBy(agent', q) /\ ToSet(q) \subseteq ToSet(ms)
      /\ agent'.steering \in Seq(Inputs) /\ agent'.followUp \in Seq(Inputs)
      /\ Hears(new)
      /\ StartsIn(new) \subseteq ToSet(ms)
      /\ \A m \in ToSet(ms) : m.role = "user" =>
           /\ m \in StartsIn(new)
           /\ m \in ToSet(q) \/ \E p \in Prompts : m \in ToSet(calls[p].msgs)
      /\ missed \ {"overlap"} \subseteq missed' /\ Unseen(new) \subseteq missed'
  BY DEF Says
<1> DEFINE T == IF session.connected THEN StartsIn(new) ELSE {}
<1>2. Starting' = Starting \cup T
  <2>1. CASE session.connected
    <3>1. session'.events = session.events \o new
      BY <1>1, <2>1 DEF Hears
    <3>2. StartsIn(session'.events) = StartsIn(session.events) \cup StartsIn(new)
      BY <1>0, <1>1, <3>1, StartsConcat
    <3> QED
      BY <2>1, <3>2 DEF Starting, StartsIn
  <2>2. CASE ~session.connected
    BY <1>1, <2>2 DEF Hears, Starting
  <2> QED
    BY <2>1, <2>2
<1>3. \A m \in T : m.role = "user" => m \in ToSet(q) \/ m \in Waiting(calls)
  <2>1. \A m \in StartsIn(new) : m.role = "user" => m \in ToSet(q) \/ m \in Waiting(calls)
    BY <1>1 DEF Waiting
  <2> QED
    BY <2>1
<1>4. "mirror" \notin missed' => ToSet(q) \cap UserMessages \subseteq T
  <2>1. \A m \in ToSet(q) \cap UserMessages : m \in StartsIn(new) /\ m.role = "user"
    BY <1>1 DEF UserMessages
  <2>2. CASE session.connected
    BY <2>1, <2>2
  <2>3. CASE ~session.connected
    <3>1. "mirror" \notin missed' => ~ \E e \in ToSet(new) : e.type = "start" /\ e.msg.role = "user"
      BY <1>1, <2>3 DEF Unseen
    <3> QED
      BY <2>1, <3>1 DEF StartsIn
  <2> QED
    BY <2>2, <2>3
<1> HIDE DEF T
<1>5. /\ Held \cap Waiting(calls) = {}
      /\ ToSet(agent.steering) \cap ToSet(agent.followUp) = {} /\ InOrder
  BY DEF MirrorInv, MirrorOrder, ListsApart
<1>6. /\ session'.steering = session.steering /\ session'.followUp = session.followUp
  BY <1>1 DEF Hears
<1> DEFINE a1 == agent.steering
           a2 == agent.followUp
           b1 == agent'.steering
           b2 == agent'.followUp
           s1 == session.steering
           s2 == session.followUp
           Facts == /\ Increasing(b1) /\ Increasing(b2)
                    /\ ToSet(b1) \subseteq ToSet(a1) /\ ToSet(b2) \subseteq ToSet(a2)
                    /\ ToSet(q) \subseteq Held
                    /\ "mirror" \notin missed' => /\ Mirrors(s1, b1, Starting \cup T)
                                                  /\ Mirrors(s2, b2, Starting \cup T)
<1>7. "mirror" \notin missed' => Mirrors(s1, a1, Starting) /\ Mirrors(s2, a2, Starting)
  BY <1>1 DEF MirrorInv, Mirrored
<1>8. PICK none \in Seq(Inputs) : none = <<>>
  BY EmptySeq, Zenon
<1>9. ToSet(none) = {} /\ a1 = none \o a1 /\ a2 = none \o a2
  BY <1>0, <1>8, ElementsOfNone
<1>10. ASSUME a1 = q \o b1 /\ b2 = a2 PROVE Facts
  <2>1. Increasing(a1) /\ Increasing(a2) /\ \A m \in Waiting(calls) : m \notin ToSet(a1) /\ m \notin ToSet(a2)
    BY <1>5 DEF InOrder, Held
  <2>2. \A m \in T : m.role = "user" => m \in ToSet(q) \/ m \notin ToSet(a1)
    BY <1>3, <2>1
  <2>3. /\ Increasing(b1) /\ ToSet(b1) \subseteq ToSet(a1) /\ ToSet(q) \subseteq ToSet(a1)
        /\ "mirror" \notin missed' => Mirrors(s1, b1, Starting \cup T)
    <3>1. /\ Increasing(b1) /\ ToSet(b1) \subseteq ToSet(a1) /\ ToSet(q) \subseteq ToSet(a1)
          /\ \A S, U :
               /\ Mirrors(s1, a1, S)
               /\ ToSet(q) \cap UserMessages \subseteq U
               /\ \A m \in U : m.role = "user" => m \in ToSet(q) \/ m \notin ToSet(a1)
               => Mirrors(s1, b1, S \cup U)
      <4>1. s1 \in Seq(UserInputs) /\ a1 \in Seq(Inputs) /\ q \in Seq(Inputs) /\ b1 \in Seq(Inputs)
        BY <1>0, <1>1
      <4>2. a1 = q \o b1 /\ Increasing(a1)
        BY <1>10, <2>1
      <4> HIDE DEF a1, a2, b1, b2, s1, s2
      <4> QED
        BY <4>1, <4>2, DrawnMirrors
    <3> HIDE DEF a1, a2, b1, b2, s1, s2
    <3> QED
      BY <1>4, <1>7, <2>2, <3>1
  <2>4. \A m \in T : m.role = "user" => m \in ToSet(none) \/ m \notin ToSet(a2)
    BY <1>3, <1>5, <2>1, <2>3
  <2>5. "mirror" \notin missed' => Mirrors(s2, a2, Starting \cup T)
    BY <1>0, <1>7, <1>9, <2>1, <2>4, DrawnMirrors
  <2> QED
    BY <1>10, <2>1, <2>3, <2>5 DEF Held
<1>11. ASSUME a2 = q \o b2 /\ b1 = a1 PROVE Facts
  <2>1. Increasing(a1) /\ Increasing(a2) /\ \A m \in Waiting(calls) : m \notin ToSet(a1) /\ m \notin ToSet(a2)
    BY <1>5 DEF InOrder, Held
  <2>2. \A m \in T : m.role = "user" => m \in ToSet(q) \/ m \notin ToSet(a2)
    BY <1>3, <2>1
  <2>3. /\ Increasing(b2) /\ ToSet(b2) \subseteq ToSet(a2) /\ ToSet(q) \subseteq ToSet(a2)
        /\ "mirror" \notin missed' => Mirrors(s2, b2, Starting \cup T)
    <3>1. /\ Increasing(b2) /\ ToSet(b2) \subseteq ToSet(a2) /\ ToSet(q) \subseteq ToSet(a2)
          /\ \A S, U :
               /\ Mirrors(s2, a2, S)
               /\ ToSet(q) \cap UserMessages \subseteq U
               /\ \A m \in U : m.role = "user" => m \in ToSet(q) \/ m \notin ToSet(a2)
               => Mirrors(s2, b2, S \cup U)
      <4>1. s2 \in Seq(UserInputs) /\ a2 \in Seq(Inputs) /\ q \in Seq(Inputs) /\ b2 \in Seq(Inputs)
        BY <1>0, <1>1
      <4>2. a2 = q \o b2 /\ Increasing(a2)
        BY <1>11, <2>1
      <4> HIDE DEF a1, a2, b1, b2, s1, s2
      <4> QED
        BY <4>1, <4>2, DrawnMirrors
    <3> HIDE DEF a1, a2, b1, b2, s1, s2
    <3> QED
      BY <1>4, <1>7, <2>2, <3>1
  <2>4. \A m \in T : m.role = "user" => m \in ToSet(none) \/ m \notin ToSet(a1)
    BY <1>3, <1>5, <2>1, <2>3
  <2>5. "mirror" \notin missed' => Mirrors(s1, a1, Starting \cup T)
    BY <1>0, <1>7, <1>9, <2>1, <2>4, DrawnMirrors
  <2> QED
    BY <1>11, <2>1, <2>3, <2>5 DEF Held
<1>12. Facts
  BY <1>1, <1>10, <1>11 DEF DrawnBy
<1>13. StartedUsers' \subseteq StartedUsers \cup Held \cup Waiting(calls)
  BY <1>2, <1>3, <1>12 DEF StartedUsers
<1>14. InOrder'
  BY <1>5, <1>6, <1>12 DEF InOrder
<1>15. MirrorOrder'
  BY <1>0, <1>6, <1>12, <1>13, <1>14, IdsAreNat, OrderShrinks DEF MirrorInv
<1>16. "mirror" \notin missed' => Mirrored'
  BY <1>2, <1>6, <1>12 DEF Mirrored
<1> QED
  BY <1>15, <1>16 DEF MirrorInv

\* What touches neither queues nor lists, and starts nothing.
LEMMA QuietMirror ==
  ASSUME Inv, Data, MirrorInv, SameQueues, SameLists, Starting' = Starting,
         Waiting(calls') \subseteq Waiting(calls), clock' \in Nat, clock <= clock',
         "mirror" \in missed => "mirror" \in missed'
  PROVE  MirrorInv'
<1>1. clock \in Nat
  BY ListTypes
<1>2. InOrder'
  BY DEF MirrorInv, MirrorOrder, InOrder, SameQueues, SameLists
<1>3. StartedUsers' \subseteq StartedUsers \cup Held \cup Waiting(calls)
  BY DEF StartedUsers
<1>4. MirrorOrder'
  BY <1>1, <1>2, <1>3, IdsAreNat, OrderShrinks DEF MirrorInv, SameQueues, SameLists
<1>5. "mirror" \notin missed' => Mirrored'
  BY DEF MirrorInv, Mirrored, SameQueues, SameLists
<1> QED
  BY <1>4, <1>5 DEF MirrorInv

LEMMA StartsTail ==
  ASSUME NEW events \in Seq(Events), events # <<>>
  PROVE  StartsIn(events) = (IF Head(events).type = "start" THEN {Head(events).msg} ELSE {}) \cup StartsIn(Tail(events))
<1> DEFINE h == <<Head(events)>>
           t == Tail(events)
<1>1. h \in Seq(Events) /\ t \in Seq(Events) /\ events = h \o t
  BY HeadAndTail
<1>2. StartsIn(h) = IF Head(events).type = "start" THEN {Head(events).msg} ELSE {}
  BY StartsOne
<1> HIDE DEF h, t
<1>3. StartsIn(h \o t) = StartsIn(h) \cup StartsIn(t)
  BY <1>1, StartsConcat
<1> QED
  BY <1>1, <1>2, <1>3 DEF t

LEMMA TakenStarts ==
  ASSUME Inv, Data, TakesNext, Ready
  PROVE  Starting = (IF NextEvent.type = "start" THEN {NextEvent.msg} ELSE {}) \cup Starting'
<1>1. session.events \in Seq(Events) /\ session.events # <<>> /\ NextEvent = Head(session.events)
  BY TakenDoes
<1>2. Starting = StartsIn(session.events) /\ Starting' = StartsIn(Tail(session.events))
  BY DEF Starting, StartsIn, TakesNext
<1> QED
  BY <1>1, <1>2, StartsTail

\* Everything queued is dropped.
LEMMA EmptiedMirror ==
  ASSUME Inv, Data, MirrorInv,
         agent'.steering = <<>>, agent'.followUp = <<>>, session'.steering = <<>>, session'.followUp = <<>>,
         Starting' = Starting, Waiting(calls') \subseteq Waiting(calls), clock' \in Nat, clock <= clock'
  PROVE  MirrorInv'
<1>1. clock \in Nat
  BY ListTypes
<1>2. PICK none : none = <<>>
  OBVIOUS
<1>3. ToSet(none) = {} /\ Increasing(none)
  BY <1>2, ElementsOfNone, IncreasingNone
<1>4. agent'.steering = none /\ agent'.followUp = none /\ session'.steering = none /\ session'.followUp = none
  BY <1>2
<1>5. InOrder'
  BY <1>3, <1>4 DEF InOrder
<1>6. StartedUsers' \subseteq StartedUsers \cup Held \cup Waiting(calls)
  BY DEF StartedUsers
<1>7. MirrorOrder'
  BY <1>1, <1>3, <1>4, <1>5, <1>6, IdsAreNat, OrderShrinks DEF MirrorInv
<1>8. \A S : Mirrors(none, none, S)
  BY <1>2, SelectedEmpty DEF Mirrors
<1>9. Mirrored'
  BY <1>4, <1>8 DEF Mirrored
<1> QED
  BY <1>7, <1>9 DEF MirrorInv

\* A user message started leaves the list it was shown in.
LEMMA StartMirror ==
  ASSUME Inv, Data, MirrorInv, MessageStarts
  PROVE  MirrorInv'
<1> DEFINE m == NextEvent.msg
           s1 == session.steering
           s2 == session.followUp
           t1 == session'.steering
           t2 == session'.followUp
<1>0. /\ UNCHANGED <<agent, calls, clock, missed>>
      /\ TakesNext /\ Ready /\ NextEvent.type = "start"
      /\ \/ m.role # "user" /\ SameLists
         \/ /\ m.role = "user" /\ Contains(s1, m)
            /\ t1 = RemoveFirst(s1, m)
            /\ t2 = s2
         \/ /\ m.role = "user" /\ ~Contains(s1, m)
            /\ t2 = RemoveFirst(s2, m)
            /\ t1 = s1
  BY MessageStartsDoes DEF MessageStarts
<1>1. /\ agent.steering \in Seq(Inputs) /\ agent.followUp \in Seq(Inputs)
      /\ s1 \in Seq(UserInputs) /\ s2 \in Seq(UserInputs) /\ clock \in Nat
  BY ListTypes
<1>2. Starting = {m} \cup Starting'
  BY <1>0, TakenStarts
<1>3. Increasing(s1) /\ Increasing(s2) /\ ToSet(s1) \cap ToSet(s2) = {}
  BY DEF MirrorInv, MirrorOrder, ListsApart, InOrder
<1>4. "mirror" \notin missed => Mirrors(s1, agent.steering, Starting) /\ Mirrors(s2, agent.followUp, Starting)
  BY DEF MirrorInv, Mirrored
<1> DEFINE Kept(t, s, queue) ==
             /\ Increasing(t) /\ ToSet(t) \subseteq ToSet(s)
             /\ "mirror" \notin missed => Mirrors(t, queue, Starting')
<1> HIDE DEF m
<1>5. ASSUME NEW s \in Seq(UserInputs), NEW queue, Increasing(s), m \notin ToSet(s),
             "mirror" \notin missed => Mirrors(s, queue, Starting)
      PROVE  Kept(s, s, queue)
  <2>1. \A e \in ToSet(s) : e \in Starting <=> e \in Starting'
    BY <1>2, <1>5
  <2> QED
    BY <1>5, <2>1, MirrorSame
<1>6. ASSUME NEW s \in Seq(UserInputs), NEW queue, Increasing(s),
             "mirror" \notin missed => Mirrors(s, queue, Starting)
      PROVE  Kept(RemoveFirst(s, m), s, queue)
  <2> DEFINE r == RemoveFirst(s, m)
  <2>1. IsWithout(r, s, m, UserInputs)
    BY RemovedIs
  <2>2. s \in Seq(Messages)
    BY DataSets, SeqMonotonic
  <2>3. IsWithout(r, s, m, Messages)
    BY <2>2, RemovedIs
  <2> HIDE DEF r
  <2>4. Increasing(r) /\ ToSet(r) \subseteq ToSet(s)
    BY <1>6, <2>2, <2>3, IncreasingRemoved
  <2>5. Mirrors(s, queue, Starting) => Mirrors(r, queue, Starting')
    BY <1>2, <1>6, <2>1, MirrorRemoved
  <2>6. Kept(r, s, queue)
    BY <1>6, <2>4, <2>5
  <2> QED
    BY <2>6 DEF r
<1>7. m.role # "user" => m \notin ToSet(s1) /\ m \notin ToSet(s2)
  <2>1. ToSet(s1) \subseteq UserInputs /\ ToSet(s2) \subseteq UserInputs
    BY <1>1, Elements
  <2> QED
    BY <2>1 DEF UserInputs
<1>8. Contains(s1, m) => m \in ToSet(s1)
  BY DEF Contains, ToSet
<1>9. ~Contains(s1, m) => m \notin ToSet(s1)
  BY DEF Contains, ToSet
<1> HIDE DEF Kept
<1>10. Kept(t1, s1, agent.steering) /\ Kept(t2, s2, agent.followUp)
  <2>1. CASE m.role # "user" /\ SameLists
    <3>1. t1 = s1 /\ t2 = s2
      BY <2>1 DEF SameLists
    <3> QED
      BY <1>1, <1>3, <1>4, <1>5, <1>7, <2>1, <3>1
  <2>2. CASE Contains(s1, m) /\ t1 = RemoveFirst(s1, m) /\ t2 = s2
    <3>1. m \notin ToSet(s2)
      BY <1>3, <1>8, <2>2
    <3>2. Kept(RemoveFirst(s1, m), s1, agent.steering)
      BY <1>1, <1>3, <1>4, <1>6
    <3>3. Kept(s2, s2, agent.followUp)
      BY <1>1, <1>3, <1>4, <1>5, <3>1
    <3> QED
      BY <2>2, <3>2, <3>3
  <2>3. CASE ~Contains(s1, m) /\ t2 = RemoveFirst(s2, m) /\ t1 = s1
    <3>2. Kept(RemoveFirst(s2, m), s2, agent.followUp)
      BY <1>1, <1>3, <1>4, <1>6
    <3>3. Kept(s1, s1, agent.steering)
      BY <1>1, <1>3, <1>4, <1>5, <1>9, <2>3
    <3> QED
      BY <2>3, <3>2, <3>3
  <2> QED
    BY <1>0, <2>1, <2>2, <2>3
<1>11. InOrder'
  BY <1>0, <1>10 DEF Kept, InOrder, MirrorInv, MirrorOrder
<1>12. StartedUsers' \subseteq StartedUsers \cup Held \cup Waiting(calls)
  BY <1>2 DEF StartedUsers
<1>13. MirrorOrder'
  BY <1>0, <1>1, <1>10, <1>11, <1>12, IdsAreNat, OrderShrinks DEF MirrorInv, Kept
<1>14. "mirror" \notin missed' => Mirrored'
  BY <1>0, <1>10 DEF Kept, Mirrored
<1> QED
  BY <1>13, <1>14 DEF MirrorInv

\* A message younger than all is queued.
LEMMA QueuedOrder ==
  ASSUME Inv, Data, MirrorOrder, NEW m \in Inputs, m.id = clock, clock' = clock + 1,
         \/ agent'.steering = Append(agent.steering, m) /\ agent'.followUp = agent.followUp
         \/ agent'.followUp = Append(agent.followUp, m) /\ agent'.steering = agent.steering,
         \/ SameLists
         \/ session'.steering = Append(session.steering, m) /\ session'.followUp = session.followUp
         \/ session'.followUp = Append(session.followUp, m) /\ session'.steering = session.steering,
         Starting' = Starting, Waiting(calls') \subseteq Waiting(calls)
  PROVE  MirrorOrder' /\ (m.role = "user" => m \notin Starting)
<1>1. /\ agent.steering \in Seq(Messages) /\ agent.followUp \in Seq(Messages)
      /\ session.steering \in Seq(Messages) /\ session.followUp \in Seq(Messages)
      /\ clock \in Nat /\ m \in Messages
  BY ListTypes, DataSets, SeqMonotonic
<1>2. \A x \in StartedUsers \cup Held \cup ShownUsers \cup Waiting(calls) : x.id < m.id /\ x.id \in Nat
  BY IdsAreNat DEF MirrorOrder, AllYoung, Young
<1>3. m \notin StartedUsers \cup Held \cup ShownUsers \cup Waiting(calls)
  BY <1>1, <1>2
<1>4. InOrder
  BY DEF MirrorOrder
<1>5. ASSUME NEW s \in Seq(Messages), Increasing(s), ToSet(s) \subseteq Held \cup ShownUsers
      PROVE  Increasing(Append(s, m)) /\ ToSet(Append(s, m)) = ToSet(s) \cup {m}
  BY <1>1, <1>2, <1>5, IncreasingAppend
<1> DEFINE a1 == agent.steering
           a2 == agent.followUp
           b1 == agent'.steering
           b2 == agent'.followUp
           s1 == session.steering
           s2 == session.followUp
           t1 == session'.steering
           t2 == session'.followUp
<1>6. /\ Increasing(b1) /\ Increasing(b2)
      /\ \/ ToSet(b1) = ToSet(a1) \cup {m} /\ ToSet(b2) = ToSet(a2)
         \/ ToSet(b2) = ToSet(a2) \cup {m} /\ ToSet(b1) = ToSet(a1)
  BY <1>1, <1>4, <1>5 DEF Held, InOrder
<1>7. /\ Increasing(t1) /\ Increasing(t2)
      /\ \/ ToSet(t1) = ToSet(s1) /\ ToSet(t2) = ToSet(s2)
         \/ ToSet(t1) = ToSet(s1) \cup {m} /\ ToSet(t2) = ToSet(s2)
         \/ ToSet(t2) = ToSet(s2) \cup {m} /\ ToSet(t1) = ToSet(s1)
  BY <1>1, <1>4, <1>5 DEF ShownUsers, InOrder, SameLists
<1>8. InOrder'
  BY <1>6, <1>7 DEF InOrder
<1> HIDE DEF a1, a2, b1, b2, s1, s2, t1, t2
<1>9. /\ Held = ToSet(a1) \cup ToSet(a2) /\ Held' = ToSet(b1) \cup ToSet(b2)
      /\ ShownUsers = ToSet(s1) \cup ToSet(s2) /\ ShownUsers' = ToSet(t1) \cup ToSet(t2)
      /\ ToSet(a1) \cap ToSet(a2) = {} /\ ToSet(s1) \cap ToSet(s2) = {} /\ Held \cap Waiting(calls) = {}
  BY DEF Held, ShownUsers, MirrorOrder, ListsApart, a1, a2, b1, b2, s1, s2, t1, t2
<1>10. /\ ToSet(b1) \cap ToSet(b2) = {} /\ ToSet(t1) \cap ToSet(t2) = {}
       /\ Held' \subseteq Held \cup {m} /\ ShownUsers' \subseteq ShownUsers \cup {m}
  BY <1>3, <1>6, <1>7, <1>9
<1>11. ListsApart'
  <2>1. Held' \cap Waiting(calls') = {}
    BY <1>3, <1>9, <1>10
  <2> QED
    BY <1>10, <2>1 DEF ListsApart, b1, b2, t1, t2
<1>12. StartedUsers' = StartedUsers
  BY DEF StartedUsers
<1>13. \A x \in StartedUsers \cup Held \cup ShownUsers \cup Waiting(calls) \cup {m} : x.id < clock'
  BY <1>1, <1>2
<1>14. AllYoung'
  BY <1>10, <1>12, <1>13 DEF AllYoung, Young
<1> QED
  BY <1>3, <1>8, <1>11, <1>14 DEF MirrorOrder, StartedUsers

LEMMA QueuesMirror ==
  ASSUME Inv, Data, MirrorInv, NEW p \in Prompts, PromptQueues(p)
  PROVE  MirrorInv'
<1> DEFINE m == Message("user", clock, "none")
           a1 == agent.steering
           a2 == agent.followUp
           s1 == session.steering
           s2 == session.followUp
<1>0. /\ SameEvents /\ calls' = At(p, "done") /\ clock' = clock + 1 /\ missed' = missed
      /\ \/ /\ agent'.steering = Append(a1, m) /\ agent'.followUp = a2
            /\ session'.steering = Append(s1, m) /\ session'.followUp = s2
         \/ /\ agent'.followUp = Append(a2, m) /\ agent'.steering = a1
            /\ session'.followUp = Append(s2, m) /\ session'.steering = s1
  BY PromptQueuesDoes DEF PromptQueues
<1>1. /\ a1 \in Seq(Inputs) /\ a2 \in Seq(Inputs)
      /\ s1 \in Seq(UserInputs) /\ s2 \in Seq(UserInputs) /\ clock \in Nat
  BY ListTypes
<1>2. m \in UserInputs /\ m \in Inputs /\ m.id = clock /\ m.role = "user"
  BY <1>1, MessageInputs, DataSets DEF Message
<1> HIDE DEF m
<1>3. Starting' = Starting
  BY <1>0 DEF Starting, SameEvents
<1>4. Waiting(calls') \subseteq Waiting(calls)
  BY <1>0, WaitingKept DEF Data
<1>5. MirrorOrder' /\ m \notin Starting
  BY <1>0, <1>2, <1>3, <1>4, QueuedOrder DEF MirrorInv
<1>6. ASSUME "mirror" \notin missed' PROVE Mirrored'
  <2>1. Mirrors(s1, a1, Starting) /\ Mirrors(s2, a2, Starting)
    BY <1>0, <1>6 DEF MirrorInv, Mirrored
  <2>2. /\ Mirrors(Append(s1, m), Append(a1, m), Starting)
        /\ Mirrors(Append(s2, m), Append(a2, m), Starting)
    BY <1>1, <1>2, <1>5, <2>1, MirrorAppend
  <2> QED
    BY <1>0, <1>3, <2>1, <2>2 DEF Mirrored
<1> QED
  BY <1>5, <1>6 DEF MirrorInv

LEMMA CustomMirror ==
  ASSUME Inv, Data, MirrorInv, NEW m \in CustomInputs, m.id = clock, clock' = clock + 1,
         \/ agent'.steering = Append(agent.steering, m) /\ agent'.followUp = agent.followUp
         \/ agent'.followUp = Append(agent.followUp, m) /\ agent'.steering = agent.steering,
         UNCHANGED <<session, calls, missed>>
  PROVE  MirrorInv'
<1> DEFINE a1 == agent.steering
           a2 == agent.followUp
           s1 == session.steering
           s2 == session.followUp
<1>1. a1 \in Seq(Inputs) /\ a2 \in Seq(Inputs) /\ m \in Inputs
  BY ListTypes, DataSets
<1>2. Starting' = Starting /\ SameLists
  BY DEF Starting, SameLists
<1>3. MirrorOrder'
  BY <1>1, <1>2, QueuedOrder DEF MirrorInv
<1>4. ASSUME "mirror" \notin missed' PROVE Mirrored'
  <2>1. Mirrors(s1, a1, Starting) /\ Mirrors(s2, a2, Starting)
    BY <1>4 DEF MirrorInv, Mirrored
  <2>2. /\ Mirrors(s1, Append(a1, m), Starting)
        /\ Mirrors(s2, Append(a2, m), Starting)
    BY <1>1, <2>1, MirrorCustom
  <2> QED
    BY <1>2, <2>1, <2>2 DEF Mirrored
<1> QED
  BY <1>3, <1>4 DEF MirrorInv

\* A prompt whose message is younger than all waits to be sent.
LEMMA WaitsMirror ==
  ASSUME Inv, Data, MirrorInv, NEW p \in Prompts, PromptStarts(p)
  PROVE  MirrorInv'
<1> DEFINE m == Message("user", clock, "none")
<1>0. SameQueues /\ SameLists /\ SameEvents
  BY PromptStartsDoes
<1>1. /\ calls' = [calls EXCEPT ![p] = [pc |-> "key", msgs |-> <<m>>]]
      /\ clock' = clock + 1
      /\ ("mirror" \in missed => "mirror" \in missed')
      /\ clock \in Nat
  BY ListTypes DEF PromptStarts
<1>2. calls \in [Prompts -> [pc: CallPlaces, msgs: Seq(Inputs)]]
  BY DEF Inv, Types
<1>3. m.id = clock
  BY DEF Message
<1>4. Waiting(calls') \subseteq Waiting(calls) \cup {m}
  <2> DEFINE one == <<m>>
  <2>1. ToSet(one) = {m}
    BY ElementsOfOne
  <2> HIDE DEF one, m
  <2>2. \A r \in Prompts : calls'[r].msgs = calls[r].msgs \/ calls'[r].msgs = one
    BY <1>1, <1>2 DEF one
  <2> QED
    BY <2>1, <2>2 DEF Waiting
<1> HIDE DEF m
<1>5. \A x \in StartedUsers \cup Held \cup ShownUsers \cup Waiting(calls) : x.id < clock /\ x.id \in Nat
  BY IdsAreNat DEF MirrorInv, MirrorOrder, AllYoung, Young
<1>6. Held' = Held /\ ShownUsers' = ShownUsers /\ Starting' = Starting /\ StartedUsers' = StartedUsers
  BY <1>0 DEF SameQueues, SameLists, SameEvents, Held, ShownUsers, Starting, StartedUsers
<1>7. Held \cap Waiting(calls) = {} /\ m \notin Held
  BY <1>1, <1>3, <1>5 DEF MirrorInv, MirrorOrder, ListsApart
<1>8. ListsApart'
  <2>1. Held' \cap Waiting(calls') = {}
    BY <1>4, <1>6, <1>7
  <2> QED
    BY <1>0, <2>1 DEF ListsApart, SameQueues, SameLists, MirrorInv, MirrorOrder
<1>9. AllYoung'
  <2>1. \A x \in StartedUsers \cup Held \cup ShownUsers \cup Waiting(calls) \cup {m} : x.id < clock'
    BY <1>1, <1>3, <1>5
  <2> QED
    BY <1>4, <1>6, <2>1 DEF AllYoung, Young
<1>10. InOrder'
  BY <1>0 DEF InOrder, SameQueues, SameLists, MirrorInv, MirrorOrder
<1>11. "mirror" \notin missed' => Mirrored'
  BY <1>0, <1>1, <1>6 DEF MirrorInv, Mirrored, SameQueues, SameLists
<1> QED
  BY <1>8, <1>9, <1>10, <1>11 DEF MirrorInv, MirrorOrder

\* A session is opened: the lists are cleared, the queues are not.
LEMMA OpensMirror ==
  ASSUME Inv, Data, MirrorInv, SwitchOpens
  PROVE  MirrorInv'
<1>0. /\ UNCHANGED <<agent, calls, clock>> /\ SameEvents
      /\ session'.steering = <<>> /\ session'.followUp = <<>>
      /\ missed' = IF Queued(agent) THEN missed \cup {"mirror"} ELSE missed \ {"mirror"}
  BY SwitchOpensDoes
<1>1. clock \in Nat
  BY ListTypes
<1>2. PICK none : none = <<>>
  OBVIOUS
<1>3. ToSet(none) = {} /\ Increasing(none)
  BY <1>2, ElementsOfNone, IncreasingNone
<1>4. session'.steering = none /\ session'.followUp = none
  BY <1>0, <1>2
<1>5. InOrder'
  BY <1>0, <1>3, <1>4 DEF InOrder, MirrorInv, MirrorOrder
<1>6. StartedUsers' \subseteq StartedUsers \cup Held \cup Waiting(calls)
  BY <1>0 DEF StartedUsers, Starting, SameEvents
<1>7. MirrorOrder'
  BY <1>0, <1>1, <1>3, <1>4, <1>5, <1>6, IdsAreNat, OrderShrinks DEF MirrorInv
<1>8. \A S : Mirrors(none, none, S)
  BY <1>2, SelectedEmpty DEF Mirrors
<1>9. "mirror" \notin missed' => agent.steering = none /\ agent.followUp = none
  BY <1>0, <1>2 DEF Queued
<1>10. "mirror" \notin missed' => Mirrored'
  BY <1>0, <1>4, <1>8, <1>9 DEF Mirrored
<1> QED
  BY <1>7, <1>10 DEF MirrorInv

LEMMA MirrorStaysMissed ==
  /\ missed \subseteq missed' => ("mirror" \in missed => "mirror" \in missed')
  /\ missed \ {"overlap"} \subseteq missed' => ("mirror" \in missed => "mirror" \in missed')
  /\ Cut \subseteq missed' => ("mirror" \in missed => "mirror" \in missed')
  /\ missed' = Rebuilt => ("mirror" \in missed => "mirror" \in missed')
  BY DEF Cut, Rebuilt

LEMMA TrimsKeepsMirror == Trims => SameQueues /\ ("mirror" \in missed => "mirror" \in missed')
  BY MirrorStaysMissed DEF Trims

LEMMA NextMirror == Inv /\ Data /\ MirrorInv /\ [Next]_vars => MirrorInv'
<1> SUFFICES ASSUME Inv, Data, MirrorInv, [Next]_vars PROVE MirrorInv'
  OBVIOUS
<1>c. clock' \in Nat /\ clock <= clock'
  BY ClockGrows
<1>d. SessionData /\ clock \in Nat
  BY ListTypes
<1>w. /\ calls' = calls => Waiting(calls') \subseteq Waiting(calls)
      /\ calls' = EndedCalls => Waiting(calls') \subseteq Waiting(calls)
      /\ calls' = Released => Waiting(calls') \subseteq Waiting(calls)
      /\ \A p \in Prompts : \A place : calls' = At(p, place) => Waiting(calls') \subseteq Waiting(calls)
      /\ \A p \in Prompts : calls' = [calls EXCEPT ![p] = Built(@, session)] =>
           Waiting(calls') \subseteq Waiting(calls)
  BY <1>d, WaitingKept
<1>s. ASSUME NEW ms, NEW q, NEW new, Says(ms, q, new), Waiting(calls') \subseteq Waiting(calls) PROVE MirrorInv'
  BY <1>c, <1>s, SaidMirror
<1>q. ASSUME SameQueues, SameLists, Starting' = Starting, Waiting(calls') \subseteq Waiting(calls),
             "mirror" \in missed => "mirror" \in missed'
      PROVE  MirrorInv'
  BY <1>c, <1>q, QuietMirror
<1>e. SameEvents => Starting' = Starting
  BY DEF SameEvents, Starting
<1>u. /\ agent' = agent => SameQueues
      /\ session' = session => SameLists /\ SameEvents
      /\ missed' = missed => ("mirror" \in missed => "mirror" \in missed')
      /\ missed' = Rebuilt => ("mirror" \in missed => "mirror" \in missed')
  BY MirrorStaysMissed DEF SameQueues, SameLists, SameEvents
<1>r. ASSUME NEW m, Records(m), calls' = calls PROVE MirrorInv'
  <2>1. SameQueues /\ session' = session /\ missed \subseteq missed'
    BY <1>r DEF Records
  <2> QED
    BY <1>e, <1>q, <1>r, <1>u, <1>w, <2>1, MirrorStaysMissed
<1>1. CASE AgentStep
  <2>m. agent.messages \in Seq(Messages)
    BY DEF Data, StoredData
  <2>1. ASSUME NEW k \in {"stop", "aborted"} \cup Outcomes, Answer(k) PROVE MirrorInv'
    <3>1. calls' = EndedCalls \/ calls' = calls
      BY <2>1 DEF Answer
    <3>2. \E ms, q, new : Says(ms, q, new)
      BY <2>1, <2>m, AnswerSays
    <3> QED
      BY <1>s, <1>w, <3>1, <3>2
  <2>2. ASSUME NEW t \in {"throws", "throwsRetryable"}, RunThrows(t) PROVE MirrorInv'
    <3>1. calls' = EndedCalls /\ \E ms, q, new : Says(ms, q, new)
      BY <2>2, <2>m, ThrownSays
    <3> QED
      BY <1>s, <1>w, <3>1
  <2>3. CASE ToolsDone
    <3>1. calls' = calls
      BY <2>3 DEF ToolsDone
    <3>2. \E ms, q, new : Says(ms, q, new)
      BY <2>3, ToolsSay
    <3> QED
      BY <1>s, <1>w, <3>1, <3>2
  <2> QED
    BY <1>1, <2>1, <2>2, <2>3 DEF AgentStep
<1>2. CASE HandlerStep
  <2>1. CASE MessageStarts
    BY <2>1, StartMirror
  <2>2. CASE MessageEnds
    <3>1. SameLists /\ TakesNext /\ NextEvent.type = "end" /\ Ready /\ UNCHANGED <<agent, calls, missed>>
      BY <2>2, MessageEndsDoes
    <3>2. Starting' = Starting
      BY <3>1, TakenStarts
    <3> QED
      BY <1>q, <1>u, <1>w, <3>1, <3>2
  <2>3. CASE AgentEnds
    <3>1. HandlerSteps /\ TakesNext /\ Ready /\ NextEvent.type = "agent_end"
      BY <2>3, AgentEndsDoes
    <3>2. Starting' = Starting
      BY <3>1, TakenStarts
    <3>3. Trims /\ SameLists /\ (calls' = calls \/ calls' = Released)
      BY <3>1 DEF HandlerSteps
    <3> QED
      BY <1>q, <1>w, <3>2, <3>3, TrimsKeepsMirror
  <2>4. CASE BackoffElapses
    <3>1. SameLists /\ SameEvents /\ UNCHANGED <<agent, calls, missed>>
      BY <2>4, BackoffElapsesDoes
    <3> QED
      BY <1>e, <1>q, <1>u, <1>w, <3>1
  <2>5. CASE BackoffCancelled
    <3>1. HandlerSteps /\ SameEvents
      BY <2>5, BackoffCancelledDoes
    <3>2. Trims /\ SameLists /\ (calls' = calls \/ calls' = Released)
      BY <3>1 DEF HandlerSteps
    <3> QED
      BY <1>e, <1>q, <1>w, <3>1, <3>2, TrimsKeepsMirror
  <2> QED
    BY <1>2, <2>1, <2>2, <2>3, <2>4, <2>5 DEF HandlerStep
<1>3. CASE CommandStep
  <2>1. CASE NewSession
    <3>1. /\ calls' = calls /\ SameEvents
          /\ agent'.steering = <<>> /\ agent'.followUp = <<>>
          /\ session'.steering = <<>> /\ session'.followUp = <<>>
      BY <2>1, NewSessionDoes
    <3> QED
      BY <1>c, <1>e, <1>w, <3>1, EmptiedMirror
  <2>2. CASE SwitchOpens
    BY <2>2, OpensMirror
  <2>3. CASE SwitchRestores
    <3>1. /\ calls' = calls /\ SameQueues /\ SameLists /\ SameEvents
          /\ missed' = Rebuilt \/ missed \subseteq missed'
      BY <2>3, SwitchRestoresDoes
    <3> QED
      BY <1>e, <1>q, <1>w, <3>1, MirrorStaysMissed
  <2>4. CASE CompactStarts
    <3>1. UNCHANGED <<agent, session, calls, missed>>
      BY <2>4 DEF CompactStarts
    <3> QED
      BY <1>e, <1>q, <1>u, <1>w, <3>1
  <2> QED
    BY <1>3, <2>1, <2>2, <2>3, <2>4 DEF CommandStep
<1>4. CASE TimerStep
  <2>1. ASSUME NEW k \in {"retry", "resume"}, Continue(k) PROVE MirrorInv'
    <3>1. /\ calls' = calls /\ missed \ {"overlap"} \subseteq missed'
          /\ UNCHANGED <<agent, session>> \/ \E ms, q, new : Says(ms, q, new)
      BY <2>1, ContinueSays
    <3> QED
      BY <1>e, <1>q, <1>s, <1>u, <1>w, <3>1, MirrorStaysMissed
  <2> QED
    BY <1>4, <2>1 DEF TimerStep
<1>5. CASE HostStep
  <2>1. ASSUME NEW p \in Prompts, PromptQueues(p) PROVE MirrorInv'
    BY <2>1, QueuesMirror
  <2>2. ASSUME NEW p \in Prompts, PromptStarts(p) PROVE MirrorInv'
    BY <2>2, WaitsMirror
  <2>3. ASSUME NEW name \in Commands, CommandStarts(name) PROVE MirrorInv'
    <3>1. calls' = Released /\ missed' = missed /\ SameQueues /\ SameLists /\ SameEvents
      BY <2>3, CommandStartsDoes DEF WholeAgent
    <3> QED
      BY <1>e, <1>q, <1>u, <1>w, <3>1
  <2>4. CASE RecordBash
    <3>1. /\ calls' = calls
          /\ \/ UNCHANGED <<agent, missed>> /\ SameLists /\ SameEvents
             \/ Records(Message("bash", clock, "none"))
      BY <2>4, RecordBashDoes
    <3> QED
      BY <1>e, <1>q, <1>r, <1>u, <1>w, <3>1
  <2>5. CASE SendCustom
    <3> DEFINE m == Message("custom", clock, "none")
    <3>1. /\ calls' = calls /\ clock' = clock + 1
          /\ \/ UNCHANGED <<agent, missed>> /\ SameLists /\ SameEvents
             \/ /\ UNCHANGED <<session, missed>>
                /\ \/ agent'.steering = Append(agent.steering, m) /\ agent'.followUp = agent.followUp
                   \/ agent'.followUp = Append(agent.followUp, m) /\ agent'.steering = agent.steering
             \/ Records(m)
      BY <2>5, SendCustomDoes
    <3>2. m \in CustomInputs /\ m.id = clock
      BY <1>d, MessageInputs DEF Message
    <3> HIDE DEF m
    <3>3. CASE UNCHANGED <<agent, missed>> /\ SameLists /\ SameEvents
      BY <1>e, <1>q, <1>u, <1>w, <3>1, <3>3
    <3>4. CASE Records(m)
      BY <1>r, <3>1, <3>4
    <3>5. CASE /\ UNCHANGED <<session, missed>>
               /\ \/ agent'.steering = Append(agent.steering, m) /\ agent'.followUp = agent.followUp
                  \/ agent'.followUp = Append(agent.followUp, m) /\ agent'.steering = agent.steering
      BY <3>1, <3>2, <3>5, CustomMirror
    <3> QED
      BY <3>1, <3>3, <3>4, <3>5
  <2>6. CASE EscapeBackoff
    <3>1. UNCHANGED <<agent, missed>> /\ calls' = Released /\ SameLists /\ SameEvents
      BY <2>6, EscapeBackoffDoes
    <3> QED
      BY <1>e, <1>q, <1>u, <1>w, <3>1
  <2>7. CASE EscapeRun
    <3>1. /\ calls' = calls /\ SameEvents
          /\ agent'.steering = <<>> /\ agent'.followUp = <<>>
          /\ session'.steering = <<>> /\ session'.followUp = <<>>
      BY <2>7, EscapeRunDoes
    <3> QED
      BY <1>c, <1>e, <1>w, <3>1, EmptiedMirror
  <2>8. CASE NavigateTree
    <3>1. calls' = calls /\ missed' = Rebuilt /\ SameQueues /\ session' = session
      BY <2>8, NavigateTreeDoes
    <3> QED
      BY <1>e, <1>q, <1>u, <1>w, <3>1
  <2>9. CASE Fork
    <3>1. calls' = calls /\ missed' = Rebuilt /\ SameQueues /\ SameLists /\ SameEvents
      BY <2>9, ForkDoes
    <3> QED
      BY <1>e, <1>q, <1>u, <1>w, <3>1
  <2> QED
    BY <1>5, <2>1, <2>2, <2>3, <2>4, <2>5, <2>6, <2>7, <2>8, <2>9 DEF HostStep
<1>6. ASSUME NEW o \in Owners, JobStep(o) PROVE MirrorInv'
  <2>1. CASE JobAsks(o)
    <3>1. UNCHANGED <<agent, session, calls, missed>>
      BY <2>1 DEF JobAsks
    <3> QED
      BY <1>e, <1>q, <1>u, <1>w, <3>1
  <2>2. ASSUME Return(o, session)
        PROVE  SameLists /\ SameEvents /\ Waiting(calls') \subseteq Waiting(calls)
    <3>1. /\ SameLists /\ SameEvents
          /\ calls' = calls \/ \E p \in Prompts : calls' = [calls EXCEPT ![p] = Built(@, session)]
      BY <2>2, ReturnDoes
    <3> QED
      BY <1>w, <3>1
  <2>3. CASE JobFails(o)
    <3>1. UNCHANGED <<agent, missed>> /\ Return(o, session)
      BY <2>3 DEF JobFails
    <3> QED
      BY <1>e, <1>q, <1>u, <2>2, <3>1
  <2>4. CASE JobDone(o)
    <3>1. missed' = Rebuilt /\ Return(o, session)
      BY <2>4 DEF JobDone
    <3>2. SameQueues
      BY <2>4, JobDoneDoes
    <3> QED
      BY <1>e, <1>q, <1>u, <2>2, <3>1, <3>2
  <2> QED
    BY <1>6, <2>1, <2>3, <2>4 DEF JobStep
<1>7. ASSUME NEW p \in Prompts, PromptStep(p) PROVE MirrorInv'
  <2>1. CASE PromptHasNoKey(p) \/ PromptWaits(p)
    <3>1. UNCHANGED <<agent, session, missed>> /\ \E place : calls' = At(p, place)
      BY <2>1 DEF PromptHasNoKey, PromptWaits
    <3> QED
      BY <1>e, <1>q, <1>u, <1>w, <3>1
  <2>2. CASE PromptChecks(p)
    <3>1. /\ Trims /\ SameLists /\ SameEvents
          /\ calls' = At(p, "compacting") \/ calls' = [calls EXCEPT ![p] = Built(@, session)]
      BY <2>2, PromptChecksDoes
    <3> QED
      BY <1>e, <1>q, <1>w, <3>1, TrimsKeepsMirror
  <2>3. CASE PromptRuns(p)
    <3>1. /\ \E place : calls' = At(p, place)
          /\ missed \ {"overlap"} \subseteq missed'
          /\ UNCHANGED <<agent, session>> \/ \E ms, q, new : Says(ms, q, new)
      BY <2>3, PromptSays
    <3> QED
      BY <1>e, <1>q, <1>s, <1>u, <1>w, <3>1, MirrorStaysMissed
  <2> QED
    BY <1>7, <2>1, <2>2, <2>3 DEF PromptStep
<1>8. CASE UNCHANGED vars
  BY <1>e, <1>q, <1>u, <1>w, <1>8 DEF vars
<1> QED
  BY <1>1, <1>2, <1>3, <1>4, <1>5, <1>6, <1>7, <1>8 DEF Next

LEMMA InitMirror == Init => MirrorInv
<1> SUFFICES ASSUME Init PROVE MirrorInv
  OBVIOUS
<1>1. PICK none : none = <<>>
  OBVIOUS
<1>2. ToSet(none) = {} /\ Increasing(none)
  BY <1>1, ElementsOfNone, IncreasingNone
<1>3. /\ agent.steering = none /\ agent.followUp = none
      /\ session.steering = none /\ session.followUp = none /\ session.events = none
      /\ \A p \in Prompts : calls[p].msgs = none
  BY <1>1 DEF Init
<1>4. Starting = {} /\ Waiting(calls) = {} /\ Held = {} /\ ShownUsers = {}
  BY <1>2, <1>3 DEF Starting, Waiting, Held, ShownUsers
<1>5. MirrorOrder
  BY <1>2, <1>3, <1>4 DEF MirrorOrder, InOrder, ListsApart, AllYoung, Young, StartedUsers
<1>6. \A S : Mirrors(none, none, S)
  BY <1>1, SelectedEmpty DEF Mirrors
<1> QED
  BY <1>3, <1>5, <1>6 DEF MirrorInv, Mirrored

LEMMA MirrorHolds == Inv /\ Data /\ MirrorInv => MirrorMatchesQueue
<1> SUFFICES ASSUME Inv, Data, MirrorInv, "mirror" \notin missed
             PROVE  /\ Selected(session.steering, ToSet(session.steering) \ Starting) = Users(agent.steering)
                    /\ Selected(session.followUp, ToSet(session.followUp) \ Starting) = Users(agent.followUp)
  BY DEF MirrorMatchesQueue
<1>1. Mirrors(session.steering, agent.steering, Starting) /\ Mirrors(session.followUp, agent.followUp, Starting)
  BY DEF MirrorInv, Mirrored
<1> QED
  BY <1>1, ListTypes, MirrorIs

\* The user is shown the messages that are queued, in every reachable state: the lists of
\* the session, which the handler shortens later, and the queues of the agent, which a run
\* takes from, agree (agent-session.ts _handleAgentEvent, prompt, clearQueue, newSession).
THEOREM MirrorMatchesTheQueue == Spec => []MirrorMatchesQueue
<1>1. Init => Inv /\ Data /\ MirrorInv
  BY InitInv, InitData, InitMirror
<1>2. (Inv /\ Data /\ MirrorInv) /\ [Next]_vars => (Inv /\ Data /\ MirrorInv)'
  BY NextInv, NextData, NextMirror
<1>3. Inv /\ Data /\ MirrorInv => MirrorMatchesQueue
  BY MirrorHolds
<1> QED
  BY <1>1, <1>2, <1>3, PTL DEF Spec

-----------------------------------------------------------------------------
(* Where the results of tools are.                                         *)

IsResult(m) == m.role = "toolResult"
CallsOf(S) == {m.id : m \in {x \in S : IsAnswer(x)}}
RefsOf(S) == {m.ref : m \in {x \in S : IsResult(x)}}

\* A result comes after the answer that called the tool; only compactions are between.
Follows(s) ==
  \A i, j \in 1..Len(s) : IsAnswer(s[i]) /\ IsResult(s[j]) /\ s[j].ref = s[i].id =>
    i < j /\ \A x \in (i + 1)..(j - 1) : s[x].role = "compaction"

LEMMA CallsAndRefs ==
  /\ CallsOf({}) = {} /\ RefsOf({}) = {}
  /\ \A S, T : CallsOf(S \cup T) = CallsOf(S) \cup CallsOf(T)
  /\ \A S, T : RefsOf(S \cup T) = RefsOf(S) \cup RefsOf(T)
  /\ \A S, T : S \subseteq T => CallsOf(S) \subseteq CallsOf(T) /\ RefsOf(S) \subseteq RefsOf(T)
  /\ \A m : IsAnswer(m) => CallsOf({m}) = {m.id} /\ RefsOf({m}) = {}
  /\ \A m : IsResult(m) => CallsOf({m}) = {} /\ RefsOf({m}) = {m.ref}
  /\ \A S : (\A m \in S : ~IsAnswer(m) /\ ~IsResult(m)) => CallsOf(S) = {} /\ RefsOf(S) = {}
<1>1. \A m : ~(IsAnswer(m) /\ IsResult(m))
  BY DEF IsAnswer, IsResult
<1> QED
  BY <1>1 DEF CallsOf, RefsOf

LEMMA CallsAndRefsAt ==
  ASSUME NEW s, NEW i \in 1..Len(s), s[i] \in ToSet(s)
  PROVE  /\ IsAnswer(s[i]) => s[i].id \in CallsOf(ToSet(s))
         /\ IsResult(s[i]) => s[i].ref \in RefsOf(ToSet(s))
  BY DEF CallsOf, RefsOf

LEMMA FollowsUncalled ==
  ASSUME NEW s \in Seq(Messages), CallsOf(ToSet(s)) = {} \/ RefsOf(ToSet(s)) = {}
  PROVE  Follows(s)
<1>1. \A i \in 1..Len(s) : s[i] \in ToSet(s)
  BY Elements
<1> QED
  BY <1>1, CallsAndRefsAt DEF Follows

LEMMA FollowsJoined ==
  ASSUME NEW s \in Seq(Messages), NEW t \in Seq(Messages), Follows(s), Follows(t),
         RefsOf(ToSet(t)) \cap CallsOf(ToSet(s)) = {},
         RefsOf(ToSet(s)) \cap CallsOf(ToSet(t)) = {}
  PROVE  Follows(s \o t)
<1> DEFINE u == s \o t
<1>1. /\ u \in Seq(Messages) /\ Len(s) \in Nat /\ Len(t) \in Nat
      /\ Len(u) = Len(s) + Len(t)
      /\ \A i \in 1..Len(s) : u[i] = s[i]
      /\ \A i \in 1..(Len(s) + Len(t)) : i > Len(s) => u[i] = t[i - Len(s)]
  BY ConcatTyped
<1>2. /\ \A i \in 1..Len(s) : s[i] \in ToSet(s)
      /\ \A i \in 1..Len(t) : t[i] \in ToSet(t)
  BY Elements
<1> HIDE DEF u
<1>3. SUFFICES ASSUME NEW i \in 1..Len(u), NEW j \in 1..Len(u),
                      IsAnswer(u[i]), IsResult(u[j]), u[j].ref = u[i].id
               PROVE  i < j /\ \A x \in (i + 1)..(j - 1) : u[x].role = "compaction"
  BY DEF Follows, u
<1>4. CASE i <= Len(s) /\ j <= Len(s)
  <2>1. i \in 1..Len(s) /\ j \in 1..Len(s) /\ u[i] = s[i] /\ u[j] = s[j]
    BY <1>1, <1>4
  <2>2. i < j /\ \A x \in (i + 1)..(j - 1) : s[x].role = "compaction"
    BY <1>3, <2>1 DEF Follows
  <2>3. ASSUME NEW x \in (i + 1)..(j - 1) PROVE u[x].role = "compaction"
    <3>1. x \in 1..Len(s)
      BY <1>1, <2>1, <2>3
    <3> QED
      BY <1>1, <2>2, <3>1
  <2> QED
    BY <2>2, <2>3
<1>5. CASE i > Len(s) /\ j > Len(s)
  <2> DEFINE a == i - Len(s)
             b == j - Len(s)
  <2>1. a \in 1..Len(t) /\ b \in 1..Len(t) /\ u[i] = t[a] /\ u[j] = t[b]
    BY <1>1, <1>5
  <2>2. a < b /\ \A x \in (a + 1)..(b - 1) : t[x].role = "compaction"
    BY <1>3, <2>1 DEF Follows
  <2>3. ASSUME NEW x \in (i + 1)..(j - 1) PROVE u[x].role = "compaction"
    <3>1. x - Len(s) \in (a + 1)..(b - 1) /\ u[x] = t[x - Len(s)]
      BY <1>1, <1>5, <2>3
    <3> QED
      BY <2>2, <3>1
  <2> QED
    BY <1>1, <2>2, <2>3
<1>6. CASE i <= Len(s) /\ j > Len(s)
  <2>1. i \in 1..Len(s) /\ j - Len(s) \in 1..Len(t) /\ u[i] = s[i] /\ u[j] = t[j - Len(s)]
    BY <1>1, <1>6
  <2>2. s[i].id \in CallsOf(ToSet(s)) /\ t[j - Len(s)].ref \in RefsOf(ToSet(t))
    BY <1>2, <1>3, <2>1, CallsAndRefsAt
  <2> QED
    BY <1>3, <2>1, <2>2
<1>7. CASE i > Len(s) /\ j <= Len(s)
  <2>1. i - Len(s) \in 1..Len(t) /\ j \in 1..Len(s) /\ u[i] = t[i - Len(s)] /\ u[j] = s[j]
    BY <1>1, <1>7
  <2>2. t[i - Len(s)].id \in CallsOf(ToSet(t)) /\ s[j].ref \in RefsOf(ToSet(s))
    BY <1>2, <1>3, <2>1, CallsAndRefsAt
  <2> QED
    BY <1>3, <2>1, <2>2
<1> QED
  BY <1>1, <1>4, <1>5, <1>6, <1>7

LEMMA FollowsParts ==
  ASSUME NEW s \in Seq(Messages), NEW t \in Seq(Messages), Follows(s \o t)
  PROVE  Follows(s) /\ Follows(t) /\ RefsOf(ToSet(s)) \cap CallsOf(ToSet(t)) = {}
<1> DEFINE u == s \o t
<1>1. /\ u \in Seq(Messages) /\ Len(s) \in Nat /\ Len(t) \in Nat
      /\ Len(u) = Len(s) + Len(t)
      /\ \A i \in 1..Len(s) : u[i] = s[i]
      /\ \A i \in 1..Len(t) : u[i + Len(s)] = t[i]
  BY ConcatTyped
<1>2. Follows(u)
  OBVIOUS
<1> HIDE DEF u
<1>3. ASSUME NEW i \in 1..Len(s), NEW j \in 1..Len(s), IsAnswer(s[i]), IsResult(s[j]), s[j].ref = s[i].id
      PROVE  i < j /\ \A x \in (i + 1)..(j - 1) : s[x].role = "compaction"
  <2>1. i \in 1..Len(u) /\ j \in 1..Len(u) /\ u[i] = s[i] /\ u[j] = s[j]
    BY <1>1
  <2>2. i < j /\ \A x \in (i + 1)..(j - 1) : u[x].role = "compaction"
    BY <1>2, <1>3, <2>1 DEF Follows
  <2>3. ASSUME NEW x \in (i + 1)..(j - 1) PROVE s[x].role = "compaction"
    <3>1. x \in 1..Len(s)
      BY <1>1, <2>3
    <3> QED
      BY <1>1, <2>2, <3>1
  <2> QED
    BY <2>2, <2>3
<1>4. ASSUME NEW i \in 1..Len(t), NEW j \in 1..Len(t), IsAnswer(t[i]), IsResult(t[j]), t[j].ref = t[i].id
      PROVE  i < j /\ \A x \in (i + 1)..(j - 1) : t[x].role = "compaction"
  <2> DEFINE a == i + Len(s)
             b == j + Len(s)
  <2>1. a \in 1..Len(u) /\ b \in 1..Len(u) /\ u[a] = t[i] /\ u[b] = t[j]
    BY <1>1
  <2>2. a < b /\ \A x \in (a + 1)..(b - 1) : u[x].role = "compaction"
    BY <1>2, <1>4, <2>1 DEF Follows
  <2>3. ASSUME NEW x \in (i + 1)..(j - 1) PROVE t[x].role = "compaction"
    <3>1. x + Len(s) \in (a + 1)..(b - 1) /\ x \in 1..Len(t)
      BY <1>1, <2>3
    <3>2. u[x + Len(s)].role = "compaction" /\ u[x + Len(s)] = t[x]
      BY <1>1, <2>2, <3>1
    <3> QED
      BY <3>2
  <2> QED
    BY <1>1, <2>2, <2>3
<1>5. ASSUME NEW r \in RefsOf(ToSet(s)), r \in CallsOf(ToSet(t)) PROVE FALSE
  <2>1. PICK m \in ToSet(s) : IsResult(m) /\ m.ref = r
    BY DEF RefsOf
  <2>2. PICK a \in ToSet(t) : IsAnswer(a) /\ a.id = r
    BY <1>5 DEF CallsOf
  <2>3. PICK j \in 1..Len(s) : s[j] = m
    BY Elements
  <2>4. PICK i \in 1..Len(t) : t[i] = a
    BY Elements
  <2>5. i + Len(s) \in 1..Len(u) /\ j \in 1..Len(u) /\ u[i + Len(s)] = a /\ u[j] = m
    BY <1>1, <2>3, <2>4
  <2>6. i + Len(s) < j
    BY <1>2, <2>1, <2>2, <2>5 DEF Follows
  <2> QED
    BY <1>1, <2>6
<1>6. Follows(s) /\ Follows(t)
  BY <1>3, <1>4 DEF Follows
<1> QED
  BY <1>5, <1>6

\* A compaction may come anywhere.
LEMMA FollowsCompacted ==
  ASSUME NEW s \in Seq(Messages), NEW t \in Seq(Messages), NEW m \in Messages,
         m.role = "compaction", Follows(s \o t)
  PROVE  Follows((s \o <<m>>) \o t)
<1> DEFINE u == s \o t
           one == <<m>>
           sm == s \o one
           w == sm \o t
           n == Len(s)
<1>1. /\ u \in Seq(Messages) /\ Len(s) \in Nat /\ Len(t) \in Nat
      /\ Len(u) = Len(s) + Len(t)
      /\ \A i \in 1..Len(s) : u[i] = s[i]
      /\ \A i \in 1..(Len(s) + Len(t)) : i > Len(s) => u[i] = t[i - Len(s)]
  BY ConcatTyped
<1>2. one \in Seq(Messages) /\ Len(one) = 1 /\ one[1] = m
  OBVIOUS
<1> HIDE DEF one
<1>3. /\ sm \in Seq(Messages) /\ Len(sm) = Len(s) + 1
      /\ \A i \in 1..Len(s) : sm[i] = s[i]
      /\ sm[Len(s) + 1] = m
  <2>0. one \in Seq(Messages)
    BY <1>2
  <2>1. /\ sm \in Seq(Messages) /\ Len(sm) = Len(s) + Len(one)
        /\ \A i \in 1..Len(s) : sm[i] = s[i]
        /\ \A i \in 1..Len(one) : sm[i + Len(s)] = one[i]
    BY <2>0, ConcatTyped
  <2> HIDE DEF sm
  <2>2. sm[1 + Len(s)] = m
    BY <1>2, <2>1
  <2> QED
    BY <1>1, <1>2, <2>1, <2>2
<1> HIDE DEF sm
<1>4. /\ w \in Seq(Messages) /\ Len(w) = Len(sm) + Len(t)
      /\ \A i \in 1..Len(sm) : w[i] = sm[i]
      /\ \A i \in 1..(Len(sm) + Len(t)) : i > Len(sm) => w[i] = t[i - Len(sm)]
  BY <1>3, ConcatTyped
<1>5. Follows(u)
  OBVIOUS
<1> HIDE DEF u, w, n
<1>6. n = Len(s) /\ n \in Nat /\ Len(u) = n + Len(t) /\ Len(w) = n + 1 + Len(t) /\ Len(t) \in Nat
  BY <1>1, <1>3, <1>4 DEF n
<1>7. w[n + 1].role = "compaction"
  <2>1. n + 1 \in 1..Len(sm) /\ sm[n + 1] = m
    BY <1>3, <1>6
  <2> QED
    BY <1>4, <2>1
<1>8. \A i \in 1..n : w[i] = u[i]
  BY <1>1, <1>3, <1>4, <1>6
<1>9. ASSUME NEW i \in (n + 2)..Len(w) PROVE w[i] = u[i - 1]
  <2>1. /\ i \in 1..(Len(sm) + Len(t)) /\ i > Len(sm) /\ i - Len(sm) = (i - 1) - Len(s)
        /\ i - 1 \in 1..(Len(s) + Len(t)) /\ i - 1 > Len(s)
    BY <1>3, <1>6
  <2> QED
    BY <1>1, <1>4, <2>1
<1>10. SUFFICES ASSUME NEW i \in 1..Len(w), NEW j \in 1..Len(w),
                       IsAnswer(w[i]), IsResult(w[j]), w[j].ref = w[i].id
                PROVE  i < j /\ \A x \in (i + 1)..(j - 1) : w[x].role = "compaction"
  BY DEF Follows, w, sm, one
<1> DEFINE At2(x) == IF x <= n THEN x ELSE x - 1
<1>11. i # n + 1 /\ j # n + 1
  BY <1>7, <1>10 DEF IsAnswer, IsResult
<1>12. ASSUME NEW x \in 1..Len(w), x # n + 1 PROVE At2(x) \in 1..Len(u) /\ w[x] = u[At2(x)]
  <2>1. CASE x <= n
    BY <1>6, <1>8, <2>1
  <2>2. CASE x > n
    <3>1. x \in (n + 2)..Len(w) /\ At2(x) = x - 1 /\ x - 1 \in 1..Len(u)
      <4>1. n \in Nat /\ Len(t) \in Nat /\ Len(u) = n + Len(t) /\ Len(w) = n + 1 + Len(t) /\ x \in Nat
        BY <1>6
      <4>2. x >= n + 2 /\ x - 1 >= 1 /\ x - 1 <= n + Len(t) /\ ~(x <= n) /\ x <= Len(w)
        BY <1>12, <2>2, <4>1
      <4> QED
        BY <4>1, <4>2
    <3> QED
      BY <1>9, <3>1
  <2> QED
    BY <1>6, <2>1, <2>2
<1>13. At2(i) < At2(j) /\ \A x \in (At2(i) + 1)..(At2(j) - 1) : u[x].role = "compaction"
  <2>1. At2(i) \in 1..Len(u) /\ At2(j) \in 1..Len(u) /\ w[i] = u[At2(i)] /\ w[j] = u[At2(j)]
    BY <1>11, <1>12
  <2> HIDE DEF At2
  <2> QED
    BY <1>5, <1>10, <2>1 DEF Follows
<1>14. i < j
  BY <1>6, <1>11, <1>13
<1>15. ASSUME NEW x \in (i + 1)..(j - 1) PROVE w[x].role = "compaction"
  <2>1. CASE x = n + 1
    BY <1>7, <2>1
  <2>2. CASE x # n + 1
    <3>1. x \in 1..Len(w) /\ At2(x) \in (At2(i) + 1)..(At2(j) - 1)
      BY <1>6, <1>11, <1>15, <2>2
    <3> QED
      BY <1>12, <1>13, <2>2, <3>1
  <2> QED
    BY <2>1, <2>2
<1> QED
  BY <1>14, <1>15

\* Entries may be left out.
LEMMA FollowsWithout ==
  ASSUME NEW s \in Seq(Messages), NEW w \in Seq(Messages), NEW t \in Seq(Messages),
         Follows((s \o w) \o t)
  PROVE  Follows(s \o t)
<1> DEFINE u == s \o t
           sw == s \o w
           v == sw \o t
           n == Len(s)
           k == Len(w)
<1>1. /\ u \in Seq(Messages) /\ Len(s) \in Nat /\ Len(t) \in Nat /\ Len(w) \in Nat
      /\ Len(u) = Len(s) + Len(t)
      /\ \A i \in 1..Len(s) : u[i] = s[i]
      /\ \A i \in 1..(Len(s) + Len(t)) : i > Len(s) => u[i] = t[i - Len(s)]
  BY ConcatTyped
<1>3. /\ sw \in Seq(Messages) /\ Len(sw) = Len(s) + Len(w)
      /\ \A i \in 1..Len(s) : sw[i] = s[i]
  BY ConcatTyped
<1> HIDE DEF sw
<1>4. /\ v \in Seq(Messages) /\ Len(v) = Len(sw) + Len(t)
      /\ \A i \in 1..Len(sw) : v[i] = sw[i]
      /\ \A i \in 1..Len(t) : v[i + Len(sw)] = t[i]
  <2>1. sw \in Seq(Messages)
    BY <1>3
  <2> QED
    BY <2>1, ConcatTyped
<1>5. Follows(v)
  BY DEF sw
<1> HIDE DEF u, v, n, k
<1>6. n = Len(s) /\ n \in Nat /\ k = Len(w) /\ k \in Nat /\ Len(u) = n + Len(t)
      /\ Len(v) = (n + k) + Len(t) /\ Len(t) \in Nat /\ Len(sw) = n + k
  BY <1>1, <1>3, <1>4 DEF n, k
<1>7. \A i \in 1..n : u[i] = v[i]
  BY <1>1, <1>3, <1>4, <1>6
<1>8. ASSUME NEW i \in (n + 1)..Len(u) PROVE u[i] = v[i + k]
  <2>1. i - n \in 1..Len(t) /\ (i - n) + Len(sw) = i + k /\ i \in 1..(Len(s) + Len(t)) /\ i > Len(s)
    BY <1>6
  <2> QED
    BY <1>1, <1>4, <1>6, <2>1
<1>9. SUFFICES ASSUME NEW i \in 1..Len(u), NEW j \in 1..Len(u),
                      IsAnswer(u[i]), IsResult(u[j]), u[j].ref = u[i].id
               PROVE  i < j /\ \A x \in (i + 1)..(j - 1) : u[x].role = "compaction"
  BY DEF Follows, u
<1> DEFINE At2(x) == IF x <= n THEN x ELSE x + k
<1>10. \A x \in 1..Len(u) : At2(x) \in 1..Len(v) /\ u[x] = v[At2(x)]
  BY <1>6, <1>7, <1>8
<1>11. At2(i) < At2(j) /\ \A x \in (At2(i) + 1)..(At2(j) - 1) : v[x].role = "compaction"
  <2>1. At2(i) \in 1..Len(v) /\ At2(j) \in 1..Len(v) /\ u[i] = v[At2(i)] /\ u[j] = v[At2(j)]
    BY <1>10
  <2> HIDE DEF At2
  <2> QED
    BY <1>5, <1>9, <2>1 DEF Follows
<1>12. i < j
  BY <1>6, <1>11
<1>13. ASSUME NEW x \in (i + 1)..(j - 1) PROVE u[x].role = "compaction"
  <2>1. x \in 1..Len(u) /\ At2(x) \in (At2(i) + 1)..(At2(j) - 1)
    BY <1>6, <1>13
  <2> QED
    BY <1>10, <1>11, <2>1
<1> QED
  BY <1>12, <1>13

\* A result may be replaced by another of the same call.
LEMMA FollowsReplaced ==
  ASSUME NEW s \in Seq(Messages), NEW a \in Messages, NEW b \in Messages,
         IsResult(a), IsResult(b), a.ref = b.ref, Follows(s \o <<a>>)
  PROVE  Follows(s \o <<b>>)
<1> DEFINE one == <<a>>
           two == <<b>>
           u == s \o one
           v == s \o two
<1>1. one \in Seq(Messages) /\ Len(one) = 1 /\ one[1] = a /\ two \in Seq(Messages) /\ Len(two) = 1 /\ two[1] = b
  OBVIOUS
<1> HIDE DEF one, two
<1>2. /\ u \in Seq(Messages) /\ Len(s) \in Nat /\ Len(u) = Len(s) + 1
      /\ \A i \in 1..Len(s) : u[i] = s[i]
      /\ \A i \in 1..Len(one) : u[i + Len(s)] = one[i]
  BY <1>1, ConcatTyped
<1>3. /\ v \in Seq(Messages) /\ Len(v) = Len(s) + 1
      /\ \A i \in 1..Len(s) : v[i] = s[i]
      /\ \A i \in 1..Len(two) : v[i + Len(s)] = two[i]
  BY <1>1, ConcatTyped
<1>4. Follows(u)
  BY DEF one
<1> HIDE DEF u, v
<1>5. /\ u[Len(s) + 1] = a /\ v[Len(s) + 1] = b
      /\ \A i \in 1..Len(u) : i = Len(s) + 1 \/ (i \in 1..Len(s) /\ v[i] = u[i])
  <2>1. 1 \in 1..Len(one) /\ 1 \in 1..Len(two) /\ 1 + Len(s) = Len(s) + 1
    BY <1>1, <1>2
  <2> QED
    BY <1>1, <1>2, <1>3, <2>1
<1>6. ~IsAnswer(b)
  BY DEF IsAnswer, IsResult
<1>7. SUFFICES ASSUME NEW i \in 1..Len(v), NEW j \in 1..Len(v),
                      IsAnswer(v[i]), IsResult(v[j]), v[j].ref = v[i].id
               PROVE  i < j /\ \A x \in (i + 1)..(j - 1) : v[x].role = "compaction"
  BY DEF Follows, v, two
<1>8. i \in 1..Len(s) /\ v[i] = u[i] /\ IsResult(u[j]) /\ u[j].ref = v[j].ref
  BY <1>2, <1>3, <1>5, <1>6, <1>7
<1>9. i < j /\ \A x \in (i + 1)..(j - 1) : u[x].role = "compaction"
  BY <1>2, <1>3, <1>4, <1>7, <1>8 DEF Follows
<1> QED
  BY <1>2, <1>3, <1>5, <1>9

\* An answer that calls a tool, and its result.
LEMMA FollowsCall ==
  ASSUME NEW m \in Messages, NEW r \in Messages, IsAnswer(m), IsResult(r)
  PROVE  Follows(<<m>> \o <<r>>)
<1> DEFINE u == <<m>> \o <<r>>
<1>1. Len(u) = 2 /\ u[1] = m /\ u[2] = r
  OBVIOUS
<1> HIDE DEF u
<1>2. ~IsAnswer(r) /\ ~IsResult(m)
  BY DEF IsAnswer, IsResult
<1>3. \A i \in 1..Len(u) : i = 1 \/ i = 2
  BY <1>1
<1>4. \A x \in (1 + 1)..(2 - 1) : u[x].role = "compaction"
  OBVIOUS
<1>5. Follows(u)
  BY <1>1, <1>2, <1>3, <1>4 DEF Follows
<1> QED
  BY <1>5 DEF u

LEMMA PlacesShift ==
  ASSUME NEW k \in Nat \ {0}, NEW n \in Nat, NEW l, l = n - k + 1, NEW a \in 1..l
  PROVE  /\ k + a - 1 \in 1..n
         /\ \A b \in 1..l : a < b => k + a - 1 < k + b - 1
         /\ \A b, d \in 1..l : a < b /\ b < d => k + b - 1 \in ((k + a - 1) + 1)..((k + d - 1) - 1)
  OBVIOUS

\* In a context nothing is between a call and its result.
LEMMA ContextFollows ==
  ASSUME NEW s \in Seq(Messages), Follows(s),
         NEW i \in 1..Len(Context(s)), NEW j \in 1..Len(Context(s)),
         IsAnswer(Context(s)[i]), IsResult(Context(s)[j]), Context(s)[j].ref = Context(s)[i].id
  PROVE  j = i + 1
<1> DEFINE c == LatestCompaction(s)
           k == KeptFrom(s)
<1>1. /\ c \in 0..Len(s) /\ Len(s) \in Nat
      /\ c # 0 => s[c].role = "compaction"
      /\ \A x \in 1..Len(s) : s[x].role = "compaction" => x <= c
  BY LatestIs
<1>2. CASE c = 0
  <2>1. Context(s) = s
    BY <1>2, ContextIs
  <2>2. i \in 1..Len(s) /\ j \in 1..Len(s) /\ i < j /\ \A x \in (i + 1)..(j - 1) : s[x].role = "compaction"
    BY <2>1 DEF Follows
  <2>3. \A x \in (i + 1)..(j - 1) : FALSE
    BY <1>1, <1>2, <2>2
  <2> QED
    BY <1>1, <2>2, <2>3
<1>3. CASE c # 0
  <2> DEFINE b == SubSeq(s, k, Len(s))
             v == Selected(b, NoSummaries)
             one == <<s[c]>>
             u == one \o v
  <2>1. k \in 1..(Len(s) + 1) /\ c \in 1..Len(s)
    BY <1>3, KeptFromIs
  <2>2. /\ b \in Seq(Messages) /\ Len(b) = Len(s) - k + 1
        /\ \A x \in 1..Len(b) : b[x] = s[k + x - 1]
    <3> HIDE DEF k
    <3> QED
      BY <1>1, <2>1
  <2>3. Context(s) = u
    BY <1>3, <2>2, ContextIs, ToldIs
  <2> HIDE DEF b
  <2>4. v \in Seq(Messages) /\ one \in Seq(Messages) /\ Len(one) = 1 /\ one[1] = s[c]
    BY <1>1, <2>1, <2>2, SelectedIsSeq
  <2>5. PICK f : SelectedFrom(b, NoSummaries, f)
    BY <2>2, SelectedPlaces
  <2>6. /\ f \in [1..Len(v) -> 1..Len(b)]
        /\ \A x \in 1..Len(v) : b[f[x]] = v[x]
        /\ \A x, y \in 1..Len(v) : x < y => f[x] < f[y]
        /\ \A x \in 1..Len(b) : b[x] \in NoSummaries => \E y \in 1..Len(v) : f[y] = x
    BY <2>5 DEF SelectedFrom
  <2> HIDE DEF one, v
  <2>7. /\ Len(u) = 1 + Len(v) /\ Len(v) \in Nat /\ u[1] = s[c]
        /\ \A x \in 2..(1 + Len(v)) : u[x] = v[x - 1]
    <3>1. /\ u \in Seq(Messages) /\ Len(one) \in Nat /\ Len(v) \in Nat
          /\ Len(u) = Len(one) + Len(v)
          /\ \A x \in 1..Len(one) : u[x] = one[x]
          /\ \A x \in 1..(Len(one) + Len(v)) : x > Len(one) => u[x] = v[x - Len(one)]
      BY <2>4, ConcatTyped
    <3> HIDE DEF u
    <3> QED
      BY <2>4, <3>1
  <2> HIDE DEF u
  <2>8. i \in 2..(1 + Len(v)) /\ j \in 2..(1 + Len(v))
    <3>1. i # 1 /\ j # 1
      BY <1>1, <1>3, <2>3, <2>7 DEF IsAnswer, IsResult
    <3> QED
      BY <2>3, <2>7, <3>1
  <2> DEFINE x == i - 1
             y == j - 1
  <2>9. x \in 1..Len(v) /\ y \in 1..Len(v) /\ u[i] = v[x] /\ u[j] = v[y]
    BY <2>7, <2>8
  <2> HIDE DEF x, y
  <2>10. f[x] \in 1..Len(b) /\ f[y] \in 1..Len(b) /\ b[f[x]] = u[i] /\ b[f[y]] = u[j]
    BY <2>6, <2>9
  <2> DEFINE p == k + f[x] - 1
             q == k + f[y] - 1
  <2>11. p \in 1..Len(s) /\ q \in 1..Len(s) /\ s[p] = u[i] /\ s[q] = u[j]
    <3> HIDE DEF k
    <3>1. b[f[x]] = s[k + f[x] - 1] /\ b[f[y]] = s[k + f[y] - 1]
      BY <2>2, <2>10
    <3>2. k \in Nat \ {0} /\ Len(b) = Len(s) - k + 1 /\ Len(s) \in Nat
      BY <1>1, <2>1, <2>2
    <3>3. /\ f[x] \in 1..Len(b) => k + f[x] - 1 \in 1..Len(s)
          /\ f[y] \in 1..Len(b) => k + f[y] - 1 \in 1..Len(s)
      BY <3>2, PlacesShift
    <3> QED
      BY <2>10, <3>1, <3>3, Zenon
  <2>12. p < q /\ \A z \in (p + 1)..(q - 1) : s[z].role = "compaction"
    <3> HIDE DEF p, q
    <3> QED
      BY <2>3, <2>11 DEF Follows
  <2>13. f[x] < f[y]
    <3> HIDE DEF k
    <3> QED
      BY <2>1, <2>10, <2>12
  <2>14. x < y
    <3>1. x \in Nat /\ y \in Nat /\ (x = y \/ y < x \/ x < y)
      BY <2>9
    <3>2. y < x => f[y] < f[x]
      BY <2>6, <2>9
    <3> QED
      BY <2>10, <2>13, <3>1, <3>2
  <2>15. ASSUME x + 1 # y PROVE FALSE
    <3>1. x + 1 \in 1..Len(v) /\ x < x + 1 /\ x + 1 < y
      BY <2>9, <2>14, <2>15
    <3>2. f[x] < f[x + 1] /\ f[x + 1] < f[y] /\ f[x + 1] \in 1..Len(b) /\ b[f[x + 1]] = v[x + 1]
      BY <2>6, <2>9, <3>1
    <3> DEFINE z == k + f[x + 1] - 1
    <3>3. z \in (p + 1)..(q - 1) /\ s[z] = v[x + 1]
      <4> HIDE DEF k
      <4>1. b[f[x + 1]] = s[k + f[x + 1] - 1]
        BY <2>2, <3>2
      <4>2. k \in Nat \ {0} /\ Len(b) = Len(s) - k + 1 /\ Len(s) \in Nat
        BY <1>1, <2>1, <2>2
      <4>3. s[z] = v[x + 1]
        BY <3>2, <4>1
      <4>4. z \in (p + 1)..(q - 1)
        <5>1. f[x] \in 1..Len(b) /\ f[y] \in 1..Len(b) /\ f[x + 1] \in 1..Len(b)
          BY <2>10, <3>2
        <5> QED
          BY <3>2, <4>2, <5>1, PlacesShift
      <4> QED
        BY <4>3, <4>4
    <3>4. v[x + 1].role = "compaction"
      <4> HIDE DEF z, p, q
      <4> QED
        BY <2>12, <3>3
    <3>5. v[x + 1] \in ToSet(v)
      BY <2>4, <3>1, Elements
    <3>6. ToSet(v) = ToSet(b) \cap NoSummaries
      BY <2>2, ElementsSelected DEF v
    <3> QED
      BY <3>4, <3>5, <3>6 DEF NoSummaries
  <2> QED
    BY <2>8, <2>15 DEF x, y
<1> QED
  BY <1>2, <1>3

EndedBefore(ev, x) == {ev[i].msg : i \in {p \in 1..(x - 1) : ev[p].type = "end"}}
EndedAfter(ev, x) == {ev[i].msg : i \in {p \in (x + 1)..Len(ev) : ev[p].type = "end"}}
Ended(ev) == ToSet(EndedIn(ev))

\* A result that comes after the end of a run is not of an answer from before it.
Over(ev, kept, due) ==
  \A x \in 1..Len(ev) : ev[x].type = "agent_end" =>
    RefsOf(EndedAfter(ev, x) \cup due) \cap CallsOf(kept \cup EndedBefore(ev, x)) = {}

LEMMA EndedPlaces ==
  ASSUME NEW ev \in Seq(Events)
  PROVE  Ended(ev) = {ev[i].msg : i \in {p \in 1..Len(ev) : ev[p].type = "end"}}
<1>1. Ended(ev) = {e.msg : e \in {y \in ToSet(ev) : y.type = "end"}}
  BY EndedElements DEF Ended
<1>2. \A e : e \in ToSet(ev) <=> \E i \in 1..Len(ev) : e = ev[i]
  BY Elements
<1> QED
  BY <1>1, <1>2

LEMMA EndedOfTail ==
  ASSUME NEW ev \in Seq(Events), ev # <<>>
  PROVE  Ended(ev) = (IF Head(ev).type = "end" THEN {Head(ev).msg} ELSE {}) \cup Ended(Tail(ev))
<1> DEFINE t == EndedIn(Tail(ev))
           h == IF Head(ev).type = "end" THEN <<Head(ev).msg>> ELSE <<>>
<1>1. EndedIn(ev) = h \o t
  BY EndedTail
<1>2. Tail(ev) \in Seq(Events) /\ Head(ev).msg \in Messages
  <2>1. Tail(ev) \in Seq(Events) /\ Head(ev) \in Events
    BY HeadAndTail
  <2> QED
    BY <2>1 DEF Events
<1>3. t \in Seq(Messages)
  BY <1>2, EndedType
<1>4. h \in Seq(Messages) /\ ToSet(h) = IF Head(ev).type = "end" THEN {Head(ev).msg} ELSE {}
  <2>1. CASE Head(ev).type = "end"
    <3>1. h = <<Head(ev).msg>>
      BY <2>1
    <3> QED
      BY <1>2, <2>1, <3>1, ElementsOfOne
  <2>2. CASE Head(ev).type # "end"
    <3>1. h = <<>>
      BY <2>2
    <3> QED
      BY <2>2, <3>1, ElementsOfNone
  <2> QED
    BY <2>1, <2>2
<1> HIDE DEF t, h
<1>5. ToSet(h \o t) = ToSet(h) \cup ToSet(t)
  BY <1>3, <1>4, ElementsOfConcat
<1> QED
  BY <1>1, <1>4, <1>5 DEF Ended, t

LEMMA EndedOfConcat ==
  ASSUME NEW s \in Seq(Events), NEW t \in Seq(Events)
  PROVE  Ended(s \o t) = Ended(s) \cup Ended(t)
<1>1. EndedIn(s) \in Seq(Messages) /\ EndedIn(t) \in Seq(Messages) /\ EndedIn(s \o t) = EndedIn(s) \o EndedIn(t)
  BY EndedType, EndedConcat
<1> QED
  BY <1>1, ElementsOfConcat DEF Ended

LEMMA OverTail ==
  ASSUME NEW ev \in Seq(Events), ev # <<>>, NEW kept, NEW due, Over(ev, kept, due)
  PROVE  Over(Tail(ev), kept \cup (IF Head(ev).type = "end" THEN {Head(ev).msg} ELSE {}), due)
<1> DEFINE t == Tail(ev)
           h == IF Head(ev).type = "end" THEN {Head(ev).msg} ELSE {}
<1>1. /\ Len(ev) \in Nat \ {0} /\ Len(t) = Len(ev) - 1 /\ Head(ev) = ev[1]
      /\ \A i \in 1..Len(t) : t[i] = ev[i + 1]
  BY HeadAndTail
<1> HIDE DEF t
<1>2. SUFFICES ASSUME NEW x \in 1..Len(t), t[x].type = "agent_end"
               PROVE  RefsOf(EndedAfter(t, x) \cup due) \cap CallsOf((kept \cup h) \cup EndedBefore(t, x)) = {}
  BY DEF Over, t
<1>3. x + 1 \in 1..Len(ev) /\ ev[x + 1].type = "agent_end"
  BY <1>1, <1>2
<1>4. EndedAfter(t, x) \subseteq EndedAfter(ev, x + 1)
  <2>1. ASSUME NEW i \in (x + 1)..Len(t), t[i].type = "end"
        PROVE  i + 1 \in ((x + 1) + 1)..Len(ev) /\ ev[i + 1] = t[i]
    BY <1>1, <2>1
  <2> QED
    BY <2>1 DEF EndedAfter
<1>5. h \cup EndedBefore(t, x) \subseteq EndedBefore(ev, x + 1)
  <2>1. ASSUME NEW i \in 1..(x - 1), t[i].type = "end"
        PROVE  i + 1 \in 1..((x + 1) - 1) /\ ev[i + 1] = t[i]
    BY <1>1, <2>1
  <2>2. 1 \in 1..((x + 1) - 1)
    OBVIOUS
  <2> QED
    BY <1>1, <2>1, <2>2 DEF EndedBefore
<1>6. RefsOf(EndedAfter(ev, x + 1) \cup due) \cap CallsOf(kept \cup EndedBefore(ev, x + 1)) = {}
  BY <1>3 DEF Over
<1>7. /\ RefsOf(EndedAfter(t, x) \cup due) \subseteq RefsOf(EndedAfter(ev, x + 1) \cup due)
      /\ CallsOf((kept \cup h) \cup EndedBefore(t, x)) \subseteq CallsOf(kept \cup EndedBefore(ev, x + 1))
  <2>1. /\ EndedAfter(t, x) \cup due \subseteq EndedAfter(ev, x + 1) \cup due
        /\ (kept \cup h) \cup EndedBefore(t, x) \subseteq kept \cup EndedBefore(ev, x + 1)
    BY <1>4, <1>5
  <2> QED
    BY <2>1, CallsAndRefs
<1> QED
  BY <1>6, <1>7

LEMMA OverHead ==
  ASSUME NEW ev \in Seq(Events), ev # <<>>, NEW kept, NEW due, Over(ev, kept, due),
         Head(ev).type = "agent_end"
  PROVE  RefsOf(Ended(Tail(ev)) \cup due) \cap CallsOf(kept) = {}
<1> DEFINE t == Tail(ev)
<1>1. /\ Len(ev) \in Nat \ {0} /\ Len(t) = Len(ev) - 1 /\ Head(ev) = ev[1] /\ t \in Seq(Events)
      /\ \A i \in 1..Len(t) : t[i] = ev[i + 1]
  BY HeadAndTail
<1> HIDE DEF t
<1>2. Ended(t) \subseteq EndedAfter(ev, 1)
  <2>1. ASSUME NEW i \in 1..Len(t), t[i].type = "end"
        PROVE  i + 1 \in (1 + 1)..Len(ev) /\ ev[i + 1] = t[i]
    BY <1>1, <2>1
  <2> QED
    BY <1>1, <2>1, EndedPlaces DEF EndedAfter
<1>3. RefsOf(EndedAfter(ev, 1) \cup due) \cap CallsOf(kept \cup EndedBefore(ev, 1)) = {}
  BY <1>1 DEF Over
<1>4. /\ RefsOf(Ended(t) \cup due) \subseteq RefsOf(EndedAfter(ev, 1) \cup due)
      /\ CallsOf(kept) \subseteq CallsOf(kept \cup EndedBefore(ev, 1))
  BY <1>2, CallsAndRefs
<1> QED
  BY <1>3, <1>4 DEF t

LEMMA OverSaid ==
  ASSUME NEW ev \in Seq(Events), NEW new \in Seq(Events), NEW kept, NEW due, NEW due2, NEW F,
         Over(ev, kept, due),
         RefsOf(Ended(new) \cup due2) \subseteq RefsOf(due) \cup F,
         F \cap CallsOf(kept \cup Ended(ev)) = {},
         (\E x \in 1..Len(new) : new[x].type = "agent_end") => RefsOf(Ended(new) \cup due2) = {}
  PROVE  Over(ev \o new, kept, due2)
<1> DEFINE u == ev \o new
<1>1. /\ u \in Seq(Events) /\ Len(ev) \in Nat /\ Len(new) \in Nat
      /\ Len(u) = Len(ev) + Len(new)
      /\ \A i \in 1..Len(ev) : u[i] = ev[i]
      /\ \A i \in 1..(Len(ev) + Len(new)) : i > Len(ev) => u[i] = new[i - Len(ev)]
  BY ConcatTyped
<1> HIDE DEF u
<1>2. SUFFICES ASSUME NEW x \in 1..Len(u), u[x].type = "agent_end"
               PROVE  RefsOf(EndedAfter(u, x) \cup due2) \cap CallsOf(kept \cup EndedBefore(u, x)) = {}
  BY DEF Over, u
<1>3. CASE x <= Len(ev)
  <2>1. x \in 1..Len(ev) /\ ev[x].type = "agent_end"
    BY <1>1, <1>2, <1>3
  <2>2. EndedAfter(u, x) \subseteq EndedAfter(ev, x) \cup Ended(new)
    <3>1. SUFFICES ASSUME NEW i \in (x + 1)..Len(u), u[i].type = "end"
                   PROVE  u[i].msg \in EndedAfter(ev, x) \cup Ended(new)
      BY DEF EndedAfter
    <3>2. CASE i <= Len(ev)
      <4>1. i \in (x + 1)..Len(ev) /\ u[i] = ev[i]
        BY <1>1, <2>1, <3>2
      <4> QED
        BY <3>1, <4>1 DEF EndedAfter
    <3>3. CASE i > Len(ev)
      <4>1. i - Len(ev) \in 1..Len(new) /\ u[i] = new[i - Len(ev)]
        BY <1>1, <3>3
      <4> QED
        BY <3>1, <4>1, EndedPlaces
    <3> QED
      BY <1>1, <3>2, <3>3
  <2>3. EndedBefore(u, x) = EndedBefore(ev, x) /\ EndedBefore(ev, x) \subseteq Ended(ev)
    <3>1. \A i \in 1..(x - 1) : i \in 1..Len(ev) /\ u[i] = ev[i]
      BY <1>1, <2>1
    <3> QED
      BY <3>1, EndedPlaces DEF EndedBefore
  <2>4. RefsOf(EndedAfter(ev, x) \cup due) \cap CallsOf(kept \cup EndedBefore(ev, x)) = {}
    BY <2>1 DEF Over
  <2>5. RefsOf(EndedAfter(u, x) \cup due2) \subseteq RefsOf(EndedAfter(ev, x) \cup due) \cup F
    <3>1. EndedAfter(u, x) \cup due2 \subseteq EndedAfter(ev, x) \cup (Ended(new) \cup due2)
      BY <2>2
    <3>2. RefsOf(EndedAfter(u, x) \cup due2) \subseteq RefsOf(EndedAfter(ev, x)) \cup RefsOf(Ended(new) \cup due2)
      <4>1. RefsOf(EndedAfter(u, x) \cup due2) \subseteq RefsOf(EndedAfter(ev, x) \cup (Ended(new) \cup due2))
        BY <3>1, CallsAndRefs
      <4>2. RefsOf(EndedAfter(ev, x) \cup (Ended(new) \cup due2))
              = RefsOf(EndedAfter(ev, x)) \cup RefsOf(Ended(new) \cup due2)
        BY CallsAndRefs
      <4> QED
        BY <4>1, <4>2
    <3>3. RefsOf(EndedAfter(ev, x) \cup due) = RefsOf(EndedAfter(ev, x)) \cup RefsOf(due)
      BY CallsAndRefs
    <3> QED
      BY <3>2, <3>3
  <2>6. CallsOf(kept \cup EndedBefore(u, x)) = CallsOf(kept \cup EndedBefore(ev, x))
    BY <2>3
  <2>7. CallsOf(kept \cup EndedBefore(ev, x)) \subseteq CallsOf(kept \cup Ended(ev))
    <3>1. kept \cup EndedBefore(ev, x) \subseteq kept \cup Ended(ev)
      BY <2>3
    <3> QED
      BY <3>1, CallsAndRefs
  <2> QED
    BY <2>4, <2>5, <2>6, <2>7
<1>4. CASE x > Len(ev)
  <2>1. x - Len(ev) \in 1..Len(new) /\ new[x - Len(ev)].type = "agent_end"
    BY <1>1, <1>2, <1>4
  <2>2. RefsOf(Ended(new) \cup due2) = {}
    BY <2>1
  <2>3. EndedAfter(u, x) \subseteq Ended(new)
    <3>1. SUFFICES ASSUME NEW i \in (x + 1)..Len(u), u[i].type = "end" PROVE u[i].msg \in Ended(new)
      BY DEF EndedAfter
    <3>2. i - Len(ev) \in 1..Len(new) /\ u[i] = new[i - Len(ev)]
      BY <1>1, <1>4
    <3> QED
      BY <3>1, <3>2, EndedPlaces
  <2>4. EndedAfter(u, x) \cup due2 \subseteq Ended(new) \cup due2
    BY <2>3
  <2>5. RefsOf(EndedAfter(u, x) \cup due2) = {}
    BY <2>2, <2>4, CallsAndRefs
  <2> QED
    BY <2>5
<1>5. x <= Len(ev) \/ x > Len(ev)
  BY <1>1
<1> QED
  BY <1>3, <1>4, <1>5

LEMMA OverKept ==
  ASSUME NEW ev, NEW kept, NEW more, NEW due, Over(ev, kept, due), CallsOf(more) \subseteq CallsOf(kept)
  PROVE  Over(ev, more, due)
<1>1. \A S : CallsOf(more \cup S) \subseteq CallsOf(kept \cup S)
  <2>1. \A S : CallsOf(more \cup S) = CallsOf(more) \cup CallsOf(S)
    BY CallsAndRefs
  <2>2. \A S : CallsOf(kept \cup S) = CallsOf(kept) \cup CallsOf(S)
    BY CallsAndRefs
  <2> QED
    BY <2>1, <2>2
<1> QED
  BY <1>1 DEF Over

-----------------------------------------------------------------------------
(* The answers and results that are still to be written.                   *)

Kept == UNION {ToSet(stored[f]) : f \in Files}
\* The result of the tools that run now.
Due == IF agent.phase = "tools" THEN <<ToolResult(0, agent.call)>> ELSE <<>>
Coming == EndedIn(session.events) \o Due

Ordered == (\A f \in Files : Follows(stored[f])) /\ Follows(path \o Coming)
\* While the handler sleeps or waits, nothing comes that belongs to what is stored.
Paused == session.handler # "ready" => RefsOf(ToSet(Coming)) \cap CallsOf(Kept) = {}
\* Nothing comes that belongs to a session that may be opened.
Parted ==
  command.pc = "idle" =>
    /\ session.connected = FALSE
    /\ \A f \in Files \ {current} : RefsOf(Ended(session.events)) \cap CallsOf(ToSet(stored[f])) = {}
\* The answer that is asked for is new.
Fresh ==
  /\ RefsOf(Kept) \cap CallsOf(ToSet(Coming)) = {}
  /\ agent.phase = "llm" =>
       agent.asked \notin CallsOf(Kept \cup ToSet(Coming)) \cup RefsOf(Kept \cup ToSet(Coming))
  /\ \A n \in CallsOf(Kept \cup ToSet(Coming)) \cup RefsOf(Kept \cup ToSet(Coming)) : n \in Nat /\ n < clock
  /\ agent.asked < clock
ResultsInv ==
  Ordered /\ Over(session.events, Kept, ToSet(Due)) /\ Paused /\ Parted /\ Fresh

LEMMA ResultSets ==
  ASSUME Inv, Data
  PROVE  /\ path \in Seq(Messages) /\ \A f \in Files : stored[f] \in Seq(Messages)
         /\ current \in Files /\ session.events \in Seq(Events)
         /\ EndedIn(session.events) \in Seq(Messages)
         /\ Due \in Seq(Messages) /\ Coming \in Seq(Messages)
         /\ ToSet(Coming) = Ended(session.events) \cup ToSet(Due)
         /\ CallsOf(ToSet(Due)) = {}
         /\ clock \in Nat /\ agent.asked \in Nat /\ agent.call \in Nat
         /\ path = stored[current]
<1>1. /\ stored \in [Files -> Seq(Messages)] /\ current \in Files /\ path \in Seq(Messages)
      /\ clock \in Nat /\ agent.asked \in Nat /\ agent.call \in Nat
  BY PathType DEF Data, StoredData, Inv, Types, AgentTypes
<1>2. session.events \in Seq(Events) /\ EndedIn(session.events) \in Seq(Messages)
  BY ListTypes, EndedType
<1> DEFINE r == ToolResult(0, agent.call)
<1>3. r \in Messages /\ r.role = "toolResult"
  BY <1>1 DEF ToolResult, Message, Messages, Roles, Kinds
<1>4. Due = IF agent.phase = "tools" THEN <<r>> ELSE <<>>
  BY DEF Due
<1> HIDE DEF r
<1>5. Due \in Seq(Messages) /\ CallsOf(ToSet(Due)) = {}
  <2>1. ToSet(<<r>>) = {r} /\ ToSet(<<>>) = {} /\ <<r>> \in Seq(Messages) /\ <<>> \in Seq(Messages)
    BY <1>3, ElementsOfOne, ElementsOfNone
  <2>2. CallsOf({r}) = {} /\ CallsOf({}) = {}
    BY <1>3, CallsAndRefs DEF IsResult
  <2> QED
    BY <1>4, <2>1, <2>2
<1>6. Coming \in Seq(Messages) /\ ToSet(Coming) = Ended(session.events) \cup ToSet(Due)
  BY <1>2, <1>5, ConcatTyped, ElementsOfConcat DEF Coming, Ended
<1> QED
  BY <1>1, <1>2, <1>5, <1>6 DEF path

LEMMA ResultsHold == Inv /\ Data /\ ResultsInv => ResultsFollowCalls
<1> SUFFICES ASSUME Inv, Data, ResultsInv PROVE ResultsFollowCalls
  OBVIOUS
<1>1. path \in Seq(Messages) /\ Follows(path)
  BY ResultSets DEF ResultsInv, Ordered
<1> QED
  BY <1>1, ContextFollows DEF ResultsFollowCalls, IsResult

\* The session files afterwards.
LEMMA KeptFacts ==
  ASSUME Data
  PROVE  /\ \A f \in Files : ToSet(stored[f]) \subseteq Kept
         /\ ToSet(path) \subseteq Kept
         /\ stored' = stored => Kept' = Kept
         /\ \A g \in Files : \A s : stored' = [stored EXCEPT ![g] = s] =>
              /\ Kept' \subseteq Kept \cup ToSet(s)
              /\ stored'[g] = s /\ \A f \in Files \ {g} : stored'[f] = stored[f]
<1>1. stored \in [Files -> Seq(Messages)] /\ current \in Files
  BY DEF Data, StoredData
<1>2. ASSUME NEW g \in Files, NEW s, stored' = [stored EXCEPT ![g] = s]
      PROVE  /\ Kept' \subseteq Kept \cup ToSet(s)
             /\ stored'[g] = s /\ \A f \in Files \ {g} : stored'[f] = stored[f]
  <2>1. stored'[g] = s /\ \A f \in Files \ {g} : stored'[f] = stored[f]
    BY <1>1, <1>2
  <2>2. \A f \in Files : ToSet(stored'[f]) \subseteq Kept \cup ToSet(s)
    BY <2>1 DEF Kept
  <2> QED
    BY <2>1, <2>2 DEF Kept
<1>3. \A f \in Files : ToSet(stored[f]) \subseteq Kept
  BY DEF Kept
<1>4. stored' = stored => Kept' = Kept
  BY DEF Kept
<1> QED
  BY <1>1, <1>2, <1>3, <1>4 DEF path

\* The agent and the events stay as they are.
LEMMA QuietResults ==
  ASSUME Inv, Data, ResultsInv, SameEvents, SameRun, clock' \in Nat, clock <= clock',
         \A f \in Files : Follows(stored'[f]), Follows(path' \o Coming),
         CallsOf(Kept') \subseteq CallsOf(Kept), RefsOf(Kept') \subseteq RefsOf(Kept),
         session'.handler # "ready" => session.handler # "ready",
         command'.pc = "idle" =>
           /\ session'.connected = FALSE
           /\ \A f \in Files \ {current'} : RefsOf(Ended(session.events)) \cap CallsOf(ToSet(stored'[f])) = {}
  PROVE  ResultsInv'
<1>1. Due' = Due /\ session'.events = session.events
  BY DEF Due, SameRun, SameEvents
<1>2. Coming' = Coming
  BY <1>1 DEF Coming
<1>3. clock \in Nat /\ agent.asked \in Nat
  BY ResultSets
<1>4. Ordered'
  BY <1>2 DEF Ordered
<1>5. Over(session.events, Kept, ToSet(Due))'
  <2>1. Over(session.events, Kept', ToSet(Due))
    BY OverKept DEF ResultsInv
  <2> QED
    BY <1>1, <2>1
<1>6. Paused'
  BY <1>2 DEF Paused, ResultsInv
<1>7. Parted'
  BY <1>1 DEF Parted
<1>8. /\ CallsOf(Kept' \cup ToSet(Coming)) \subseteq CallsOf(Kept \cup ToSet(Coming))
      /\ RefsOf(Kept' \cup ToSet(Coming)) \subseteq RefsOf(Kept \cup ToSet(Coming))
  <2>1. /\ CallsOf(Kept' \cup ToSet(Coming)) = CallsOf(Kept') \cup CallsOf(ToSet(Coming))
        /\ CallsOf(Kept \cup ToSet(Coming)) = CallsOf(Kept) \cup CallsOf(ToSet(Coming))
    BY CallsAndRefs
  <2>2. /\ RefsOf(Kept' \cup ToSet(Coming)) = RefsOf(Kept') \cup RefsOf(ToSet(Coming))
        /\ RefsOf(Kept \cup ToSet(Coming)) = RefsOf(Kept) \cup RefsOf(ToSet(Coming))
    BY CallsAndRefs
  <2> QED
    BY <2>1, <2>2
<1>9. Fresh'
  <2>1. RefsOf(Kept') \cap CallsOf(ToSet(Coming)) = {}
    BY DEF ResultsInv, Fresh
  <2>2. agent'.phase = "llm" =>
          agent'.asked \notin CallsOf(Kept' \cup ToSet(Coming)) \cup RefsOf(Kept' \cup ToSet(Coming))
    BY <1>8 DEF ResultsInv, Fresh, SameRun
  <2>3. \A n \in CallsOf(Kept' \cup ToSet(Coming)) \cup RefsOf(Kept' \cup ToSet(Coming)) : n \in Nat /\ n < clock'
    <3>1. SUFFICES ASSUME NEW n \in CallsOf(Kept' \cup ToSet(Coming)) \cup RefsOf(Kept' \cup ToSet(Coming))
                   PROVE  n \in Nat /\ n < clock'
      OBVIOUS
    <3>2. n \in Nat /\ n < clock
      BY <1>8, <3>1 DEF ResultsInv, Fresh
    <3> QED
      BY <1>3, <3>2
  <2>4. agent'.asked < clock'
    BY <1>3 DEF ResultsInv, Fresh, SameRun
  <2> QED
    BY <1>2, <2>1, <2>2, <2>3, <2>4 DEF Fresh
<1> QED
  BY <1>4, <1>5, <1>6, <1>7, <1>9 DEF ResultsInv

\* Nothing is written.
LEMMA UnwrittenResults ==
  ASSUME Inv, Data, ResultsInv, SameEvents, SameRun, clock' \in Nat, clock <= clock',
         UNCHANGED <<stored, current>>,
         session'.handler # "ready" => session.handler # "ready",
         command'.pc = "idle" => command.pc = "idle" /\ SameLink
  PROVE  ResultsInv'
<1>1. Kept' = Kept /\ path' = path
  BY KeptFacts DEF path
<1>2. (\A f \in Files : Follows(stored'[f])) /\ Follows(path' \o Coming)
  BY <1>1 DEF ResultsInv, Ordered
<1>3. command'.pc = "idle" =>
        /\ session'.connected = FALSE
        /\ \A f \in Files \ {current'} : RefsOf(Ended(session.events)) \cap CallsOf(ToSet(stored'[f])) = {}
  BY DEF ResultsInv, Parted, SameLink
<1> QED
  BY <1>1, <1>2, <1>3, QuietResults

\* Entries that are neither answers nor results are written after the path.
LEMMA WrittenResults ==
  ASSUME Inv, Data, ResultsInv, SameEvents, SameRun, clock' \in Nat, clock <= clock',
         NEW w \in Seq(Messages), CallsOf(ToSet(w)) = {}, RefsOf(ToSet(w)) = {},
         stored' = [stored EXCEPT ![current] = @ \o w], current' = current,
         Follows((path \o w) \o Coming),
         session'.handler # "ready" => session.handler # "ready",
         command'.pc = "idle" => command.pc = "idle" /\ SameLink
  PROVE  ResultsInv'
<1> DEFINE p == path \o w
<1>1. /\ path \in Seq(Messages) /\ current \in Files /\ path = stored[current]
      /\ Coming \in Seq(Messages)
  BY ResultSets
<1>2. p \in Seq(Messages) /\ ToSet(p) = ToSet(path) \cup ToSet(w)
  BY <1>1, ConcatTyped, ElementsOfConcat
<1>3. stored' = [stored EXCEPT ![current] = p]
  BY <1>1
<1>4. Follows(p)
  <2>1. Follows(p \o Coming)
    OBVIOUS
  <2> HIDE DEF p
  <2> QED
    BY <1>1, <1>2, <2>1, FollowsParts
<1>5. Follows(p \o Coming)
  OBVIOUS
<1> HIDE DEF p
<1>6. Kept' \subseteq Kept \cup ToSet(p) /\ stored'[current] = p /\ \A f \in Files \ {current} : stored'[f] = stored[f]
  BY <1>1, <1>3, KeptFacts
<1>7. Kept' \subseteq Kept \cup ToSet(w)
  BY <1>2, <1>6, KeptFacts
<1>8. CallsOf(Kept') \subseteq CallsOf(Kept) /\ RefsOf(Kept') \subseteq RefsOf(Kept)
  <2>1. /\ CallsOf(Kept \cup ToSet(w)) = CallsOf(Kept) \cup CallsOf(ToSet(w))
        /\ RefsOf(Kept \cup ToSet(w)) = RefsOf(Kept) \cup RefsOf(ToSet(w))
    BY CallsAndRefs
  <2>2. /\ CallsOf(Kept') \subseteq CallsOf(Kept \cup ToSet(w))
        /\ RefsOf(Kept') \subseteq RefsOf(Kept \cup ToSet(w))
    BY <1>7, CallsAndRefs
  <2> QED
    BY <2>1, <2>2
<1>9. \A f \in Files : Follows(stored'[f])
  BY <1>4, <1>6 DEF ResultsInv, Ordered
<1>10. path' = p
  BY <1>6 DEF path
<1>11. command'.pc = "idle" =>
        /\ session'.connected = FALSE
        /\ \A f \in Files \ {current'} : RefsOf(Ended(session.events)) \cap CallsOf(ToSet(stored'[f])) = {}
  BY <1>6 DEF ResultsInv, Parted, SameLink
<1> QED
  BY <1>5, <1>8, <1>9, <1>10, <1>11, QuietResults

\* When the agent is idle and the handler has nothing to do or waits, nothing that comes
\* belongs to the path.
LEMMA NothingDue ==
  ASSUME Inv, Data, ResultsInv, InputTurn, ~Streaming
  PROVE  RefsOf(ToSet(Coming)) \cap CallsOf(ToSet(path)) = {}
<1>1. CASE session.handler # "ready"
  <2>1. RefsOf(ToSet(Coming)) \cap CallsOf(Kept) = {}
    BY <1>1 DEF ResultsInv, Paused
  <2>2. CallsOf(ToSet(path)) \subseteq CallsOf(Kept)
    BY KeptFacts, CallsAndRefs
  <2> QED
    BY <2>1, <2>2
<1>2. CASE session.handler = "ready"
  <2>1. session.events = <<>>
    BY <1>2 DEF InputTurn, MicroWork
  <2>2. Due = <<>>
    BY DEF Due, Streaming
  <2>3. PICK ev \in Seq(Events) : ev = <<>>
    BY EmptySeq, Zenon
  <2>4. EndedIn(ev) = <<>>
    <3>1. \A i \in 1..Len(ev) : ev[i].type # "end"
      BY <2>3
    <3> QED
      BY <3>1, EndedNone
  <2>5. Ended(session.events) = {} /\ ToSet(Due) = {}
    BY <2>1, <2>2, <2>3, <2>4, ElementsOfNone DEF Ended
  <2>6. ToSet(Coming) = {}
    BY <2>5, ResultSets
  <2> QED
    BY <2>6, CallsAndRefs
<1> QED
  BY <1>1, <1>2

LEMMA WrittenApart ==
  ASSUME Inv, Data, ResultsInv, NEW w \in Seq(Messages), CallsOf(ToSet(w)) = {}, RefsOf(ToSet(w)) = {},
         RefsOf(ToSet(Coming)) \cap CallsOf(ToSet(path)) = {}
  PROVE  Follows((path \o w) \o Coming)
<1> DEFINE p == path \o w
<1>1. path \in Seq(Messages) /\ Coming \in Seq(Messages)
  BY ResultSets
<1>2. Follows(path) /\ Follows(Coming) /\ RefsOf(ToSet(path)) \cap CallsOf(ToSet(Coming)) = {}
  BY <1>1, FollowsParts DEF ResultsInv, Ordered
<1>3. Follows(w)
  BY FollowsUncalled
<1>4. p \in Seq(Messages) /\ ToSet(p) = ToSet(path) \cup ToSet(w)
  BY <1>1, ConcatTyped, ElementsOfConcat
<1>5. Follows(p)
  BY <1>1, <1>2, <1>3, FollowsJoined
<1>6. CallsOf(ToSet(p)) = CallsOf(ToSet(path)) /\ RefsOf(ToSet(p)) = RefsOf(ToSet(path))
  <2>1. /\ CallsOf(ToSet(path) \cup ToSet(w)) = CallsOf(ToSet(path)) \cup CallsOf(ToSet(w))
        /\ RefsOf(ToSet(path) \cup ToSet(w)) = RefsOf(ToSet(path)) \cup RefsOf(ToSet(w))
    BY CallsAndRefs
  <2> QED
    BY <1>4, <2>1
<1> HIDE DEF p
<1>7. Follows(p \o Coming)
  BY <1>1, <1>2, <1>4, <1>5, <1>6, FollowsJoined
<1> QED
  BY <1>7 DEF p

LEMMA RecordsResults ==
  ASSUME Inv, Data, ResultsInv, InputTurn, NEW m \in Messages, Records(m), ~IsAnswer(m), ~IsResult(m),
         UNCHANGED <<current, command>>, clock' = clock + 1
  PROVE  ResultsInv'
<1> DEFINE w == <<m>>
<1>1. w \in Seq(Messages) /\ ToSet(w) = {m}
  BY ElementsOfOne
<1>2. /\ SameRun /\ stored' = [stored EXCEPT ![current] = @ \o w]
      /\ session' = session /\ ~Streaming
  BY DEF Records
<1> HIDE DEF w
<1>3. CallsOf(ToSet(w)) = {} /\ RefsOf(ToSet(w)) = {}
  BY <1>1, CallsAndRefs
<1>4. Follows((path \o w) \o Coming)
  BY <1>1, <1>2, <1>3, NothingDue, WrittenApart
<1>5. SameEvents /\ SameLink /\ clock' \in Nat /\ clock <= clock'
  BY <1>2, ResultSets DEF SameEvents, SameLink
<1> QED
  BY <1>1, <1>2, <1>3, <1>4, <1>5, WrittenResults

LEMMA FlushResults ==
  ASSUME Inv, Data, ResultsInv, NEW p \in Prompts, PromptStarts(p)
  PROVE  ResultsInv'
<1> DEFINE w == session.pendingBash
<1>1. w \in Seq(BashMessages)
  BY DEF Data, SessionData
<1>2. w \in Seq(Messages)
  BY <1>1, DataSets, SeqMonotonic
<1>3. \A m \in ToSet(w) : ~IsAnswer(m) /\ ~IsResult(m)
  BY <1>1, Elements DEF BashMessages, IsAnswer, IsResult
<1>4. CallsOf(ToSet(w)) = {} /\ RefsOf(ToSet(w)) = {}
  BY <1>3, CallsAndRefs
<1>5. /\ InputTurn /\ ~Streaming /\ stored' = [stored EXCEPT ![current] = @ \o w]
      /\ UNCHANGED <<current, command>> /\ clock' = clock + 1
  BY DEF PromptStarts, Save
<1>6. SameRun /\ SameEvents /\ SameLink /\ SameHandler
  BY PromptStartsDoes
<1> HIDE DEF w
<1>7. Follows((path \o w) \o Coming)
  BY <1>2, <1>4, <1>5, NothingDue, WrittenApart
<1>8. clock' \in Nat /\ clock <= clock'
  BY <1>5, ResultSets
<1> QED
  BY <1>2, <1>4, <1>5, <1>6, <1>7, <1>8, WrittenResults DEF SameHandler

\* The end of a compaction neither stops the handler nor is it waited for by a command that
\* waits for the agent.
LEMMA ReturnsQuietly ==
  ASSUME Inv, Data, NEW o \in Owners, jobs[o].pc # "none", Return(o, session)
  PROVE  /\ SameEvents
         /\ session'.handler # "ready" => session.handler # "ready"
         /\ command'.pc = "idle" => command.pc = "idle" /\ SameLink
<1>1. /\ SameEvents
      /\ \/ SameLink /\ session'.handler = "ready" /\ command' = command
         \/ SameHandler /\ o = Command /\ command' = [command EXCEPT !.name = "none", !.pc = "none"]
         \/ SameLink /\ SameHandler /\ command' = command
  BY ReturnDoes
<1>2. command'.pc = "idle" => command' = command \/ o # Command
  <2>1. command' = [command EXCEPT !.name = "none", !.pc = "none"] => command'.pc = "none"
    BY DEF Data, JobData
  <2> QED
    BY <1>1, <2>1
<1>3. o = Command => command.pc = "compacting"
  BY DEF Data, JobData
<1> QED
  BY <1>1, <1>2, <1>3 DEF SameHandler

LEMMA CompactedResults ==
  ASSUME Inv, Data, ResultsInv, NEW o \in Owners, JobDone(o)
  PROVE  ResultsInv'
<1> DEFINE e == Compaction(clock, jobs[o].kept)
           w == <<e>>
<1>1. e \in Messages /\ e.role = "compaction"
  BY RebuiltType DEF Data
<1>2. /\ stored' = [stored EXCEPT ![current] = @ \o w] /\ current' = current
      /\ Return(o, session) /\ clock' = clock + 1 /\ jobs[o].pc # "none"
  BY DEF JobDone, Save
<1>3. SameRun
  BY JobDoneDoes
<1> HIDE DEF e
<1>4. w \in Seq(Messages) /\ ToSet(w) = {e}
  BY <1>1, ElementsOfOne
<1>5. Follows((path \o w) \o Coming)
  BY <1>1, ResultSets, FollowsCompacted DEF ResultsInv, Ordered
<1> HIDE DEF w
<1>6. CallsOf(ToSet(w)) = {} /\ RefsOf(ToSet(w)) = {}
  BY <1>1, <1>4, CallsAndRefs DEF IsAnswer, IsResult
<1>7. /\ SameEvents
      /\ session'.handler # "ready" => session.handler # "ready"
      /\ command'.pc = "idle" => command.pc = "idle" /\ SameLink
  BY <1>2, ReturnsQuietly
<1>8. clock' \in Nat /\ clock <= clock'
  BY <1>2, ResultSets
<1> QED
  BY <1>2, <1>3, <1>4, <1>5, <1>6, <1>7, <1>8, WrittenResults

LEMMA CallsOfBoth ==
  ASSUME NEW S, NEW T, NEW U, U = S \cup T
  PROVE  CallsOf(U) = CallsOf(S) \cup CallsOf(T) /\ RefsOf(U) = RefsOf(S) \cup RefsOf(T)
  BY CallsAndRefs

\* The agent says something: n has ended, d is the result that is due afterwards.
LEMMA SaidResults ==
  ASSUME Inv, Data, ResultsInv, UNCHANGED <<stored, current, command>>,
         NEW h \in Seq(Events), session'.events = session.events \o h,
         session.connected = FALSE => h = <<>>, SameLink, SameHandler,
         NEW n \in Seq(Messages), n = EndedIn(h), NEW d \in Seq(Messages), Due' = d,
         NEW F, F = (IF agent.phase = "llm" THEN {agent.asked} ELSE {}),
         RefsOf(ToSet(n) \cup ToSet(d)) \subseteq RefsOf(ToSet(Due)) \cup F,
         CallsOf(ToSet(n) \cup ToSet(d)) \subseteq F,
         (\E x \in 1..Len(h) : h[x].type = "agent_end") => RefsOf(ToSet(n) \cup ToSet(d)) = {},
         Follows(path \o ((EndedIn(session.events) \o n) \o d)),
         agent'.phase = "llm" => clock <= agent'.asked,
         agent'.asked \in Nat, clock' \in Nat, agent'.asked < clock', clock <= clock'
  PROVE  ResultsInv'
<1> DEFINE E == EndedIn(session.events)
           En == E \o n
           C == En \o d
           Old == Kept \cup ToSet(Coming)
           New == Kept \cup ToSet(C)
<1>1. /\ path \in Seq(Messages) /\ current \in Files /\ session.events \in Seq(Events)
      /\ E \in Seq(Messages) /\ Due \in Seq(Messages) /\ clock \in Nat /\ agent.asked \in Nat
      /\ ToSet(Coming) = Ended(session.events) \cup ToSet(Due)
  BY ResultSets
<1>2. Kept' = Kept /\ path' = path
  BY KeptFacts DEF path
<1>3. Ended(session.events) = ToSet(E) /\ Ended(h) = ToSet(n)
  BY DEF Ended
<1>4. EndedIn(session.events \o h) = En
  BY <1>1, EndedConcat
<1>5. Coming' = C
  BY <1>4 DEF Coming
<1> HIDE DEF E
<1>6. En \in Seq(Messages) /\ ToSet(En) = ToSet(E) \cup ToSet(n)
  BY <1>1, ConcatTyped, ElementsOfConcat
<1>7. Follows(path \o C)
  BY DEF E
<1> HIDE DEF En
<1>8. C \in Seq(Messages) /\ ToSet(C) = (ToSet(E) \cup ToSet(n)) \cup ToSet(d)
  BY <1>6, ConcatTyped, ElementsOfConcat
<1> HIDE DEF C
<1>9. /\ CallsOf(ToSet(C)) \subseteq CallsOf(ToSet(Coming)) \cup F
      /\ RefsOf(ToSet(C)) \subseteq RefsOf(ToSet(Coming)) \cup F
  <2>0. PICK X : X = ToSet(n) \cup ToSet(d)
    OBVIOUS
  <2>1. ToSet(C) = ToSet(E) \cup X
    BY <1>8, <2>0
  <2>2. /\ CallsOf(ToSet(C)) = CallsOf(ToSet(E)) \cup CallsOf(X)
        /\ RefsOf(ToSet(C)) = RefsOf(ToSet(E)) \cup RefsOf(X)
    BY <2>1, CallsOfBoth
  <2>3. ToSet(Coming) = ToSet(E) \cup ToSet(Due)
    BY <1>1, <1>3
  <2>4. /\ CallsOf(ToSet(Coming)) = CallsOf(ToSet(E)) \cup CallsOf(ToSet(Due))
        /\ RefsOf(ToSet(Coming)) = RefsOf(ToSet(E)) \cup RefsOf(ToSet(Due))
    BY <2>3, CallsOfBoth
  <2> QED
    BY <2>0, <2>2, <2>4
<1>10. F \cap (CallsOf(Old) \cup RefsOf(Old)) = {} /\ \A x \in F : x \in Nat /\ x < clock
  BY <1>1 DEF ResultsInv, Fresh
<1>11. /\ CallsOf(Old) = CallsOf(Kept) \cup CallsOf(ToSet(Coming))
       /\ RefsOf(Old) = RefsOf(Kept) \cup RefsOf(ToSet(Coming))
       /\ CallsOf(New) = CallsOf(Kept) \cup CallsOf(ToSet(C))
       /\ RefsOf(New) = RefsOf(Kept) \cup RefsOf(ToSet(C))
  BY CallsAndRefs
<1>12. Ordered'
  BY <1>2, <1>5, <1>7 DEF Ordered, ResultsInv
<1>13. Over(session.events, Kept, ToSet(Due))'
  <2>1. F \cap CallsOf(Kept \cup Ended(session.events)) = {}
    <3>1. Kept \cup Ended(session.events) \subseteq Old
      BY <1>1
    <3>2. CallsOf(Kept \cup Ended(session.events)) \subseteq CallsOf(Old)
      BY <3>1, CallsAndRefs
    <3> QED
      BY <1>10, <3>2
  <2>2. Over(session.events \o h, Kept, ToSet(d))
    BY <1>1, <1>3, <2>1, OverSaid DEF ResultsInv
  <2> QED
    BY <1>2, <2>2
<1>14. Paused'
  <2>1. session'.handler # "ready" => RefsOf(ToSet(Coming)) \cap CallsOf(Kept) = {}
    BY DEF ResultsInv, Paused, SameHandler
  <2> QED
    BY <1>2, <1>5, <1>9, <1>10, <1>11, <2>1 DEF Paused
<1>15. Parted'
  <2>1. command'.pc = "idle" => session'.connected = FALSE /\ session'.events = session.events
    <3>1. \A s \in Seq(Events) : s \o <<>> = s
      OBVIOUS
    <3> QED
      BY <1>1, <3>1 DEF ResultsInv, Parted, SameLink
  <2> QED
    BY <2>1 DEF ResultsInv, Parted
<1>16. Fresh'
  <2>1. RefsOf(Kept) \cap CallsOf(ToSet(C)) = {}
    BY <1>9, <1>10, <1>11 DEF ResultsInv, Fresh
  <2>2. ASSUME NEW x \in CallsOf(New) \cup RefsOf(New) PROVE x \in Nat /\ x < clock
    BY <1>9, <1>10, <1>11, <2>2 DEF ResultsInv, Fresh
  <2>3. ASSUME agent'.phase = "llm" PROVE agent'.asked \notin CallsOf(New) \cup RefsOf(New)
    <3>1. SUFFICES ASSUME agent'.asked \in CallsOf(New) \cup RefsOf(New) PROVE FALSE
      OBVIOUS
    <3>2. agent'.asked < clock /\ clock <= agent'.asked /\ agent'.asked \in Nat /\ clock \in Nat
      BY <1>1, <2>2, <2>3, <3>1
    <3> QED
      BY <3>2
  <2>4. \A x \in CallsOf(New) \cup RefsOf(New) : x \in Nat /\ x < clock'
    <3>1. SUFFICES ASSUME NEW x \in CallsOf(New) \cup RefsOf(New) PROVE x \in Nat /\ x < clock'
      OBVIOUS
    <3>2. x \in Nat /\ x < clock
      BY <2>2, <3>1
    <3> QED
      BY <1>1, <3>2
  <2> QED
    BY <1>2, <1>5, <2>1, <2>3, <2>4 DEF Fresh
<1> QED
  BY <1>12, <1>13, <1>14, <1>15, <1>16 DEF ResultsInv

\* What the agent says while no result is due.
LEMMA SaidFreely ==
  ASSUME Inv, Data, ResultsInv, Due = <<>>, NEW n \in Seq(Messages), NEW d \in Seq(Messages),
         NEW F, F = (IF agent.phase = "llm" THEN {agent.asked} ELSE {}), Follows(n \o d),
         RefsOf(ToSet(n) \cup ToSet(d)) \subseteq F, CallsOf(ToSet(n) \cup ToSet(d)) \subseteq F
  PROVE  Follows(path \o ((EndedIn(session.events) \o n) \o d))
<1> DEFINE E == EndedIn(session.events)
           nd == n \o d
           L == path \o E
<1>1. /\ path \in Seq(Messages) /\ E \in Seq(Messages) /\ Coming \in Seq(Messages)
      /\ ToSet(Coming) = Ended(session.events) \cup ToSet(Due)
  BY ResultSets
<1>2. Coming = E /\ ToSet(E) = ToSet(Coming)
  <2>1. \A s \in Seq(Messages) : s \o <<>> = s
    OBVIOUS
  <2> QED
    BY <1>1, <2>1 DEF Coming
<1> HIDE DEF E
<1>3. nd \in Seq(Messages) /\ ToSet(nd) = ToSet(n) \cup ToSet(d)
  BY ConcatTyped, ElementsOfConcat
<1>4. L \in Seq(Messages) /\ ToSet(L) = ToSet(path) \cup ToSet(E)
  BY <1>1, ConcatTyped, ElementsOfConcat
<1>5. Follows(L)
  BY <1>2 DEF ResultsInv, Ordered
<1>6. path \o ((E \o n) \o d) = L \o nd
  <2>1. (E \o n) \o d = E \o nd
    BY <1>1, MessagesRegroup
  <2>2. nd \in Seq(Messages) /\ path \in Seq(Messages) /\ E \in Seq(Messages)
    BY <1>1, <1>3
  <2> HIDE DEF nd
  <2>3. (path \o E) \o nd = path \o (E \o nd)
    BY <2>2, MessagesRegroup
  <2> QED
    BY <2>1, <2>3
<1>7. Follows(nd)
  OBVIOUS
<1> HIDE DEF L, nd
<1>8. ToSet(L) \subseteq Kept \cup ToSet(Coming)
  BY <1>2, <1>4, KeptFacts
<1>9. /\ CallsOf(ToSet(L)) \subseteq CallsOf(Kept \cup ToSet(Coming))
      /\ RefsOf(ToSet(L)) \subseteq RefsOf(Kept \cup ToSet(Coming))
  BY <1>8, CallsAndRefs
<1>10. F \cap (CallsOf(Kept \cup ToSet(Coming)) \cup RefsOf(Kept \cup ToSet(Coming))) = {}
  BY DEF ResultsInv, Fresh
<1>11. RefsOf(ToSet(nd)) \subseteq F /\ CallsOf(ToSet(nd)) \subseteq F
  BY <1>3
<1>12. Follows(L \o nd)
  BY <1>3, <1>4, <1>5, <1>7, <1>9, <1>10, <1>11, FollowsJoined
<1> QED
  BY <1>6, <1>12 DEF E

LEMMA InputsUncalled ==
  ASSUME NEW q \in Seq(Inputs)
  PROVE  q \in Seq(Messages) /\ CallsOf(ToSet(q)) = {} /\ RefsOf(ToSet(q)) = {}
<1>0. \A m \in Inputs : ~IsAnswer(m) /\ ~IsResult(m)
  BY DEF Inputs, Messages, IsAnswer, IsResult
<1>1. \A m \in ToSet(q) : ~IsAnswer(m) /\ ~IsResult(m)
  BY <1>0, Elements
<1>2. q \in Seq(Messages)
  BY DataSets, SeqMonotonic
<1> QED
  BY <1>1, <1>2, CallsAndRefs

\* What is heard of what is said.
Heard(new) ==
  \E h \in {new, <<>>} :
    /\ h \in Seq(Events) /\ session'.events = session.events \o h
    /\ session.connected = FALSE => h = <<>>
    /\ h = new \/ (h = <<>> /\ EndedIn(h) = <<>>)
    /\ SameLink /\ SameHandler /\ UNCHANGED <<stored, current, command>>

LEMMA HeardEvents ==
  ASSUME Inv, Data, NEW ms, NEW q, NEW new, Says(ms, q, new)
  PROVE  Heard(new)
<1> SUFFICES
      \E h \in {new, <<>>} :
        /\ h \in Seq(Events) /\ session'.events = session.events \o h
        /\ session.connected = FALSE => h = <<>>
        /\ h = new \/ (h = <<>> /\ EndedIn(h) = <<>>)
        /\ SameLink /\ SameHandler /\ UNCHANGED <<stored, current, command>>
  BY DEF Heard
<1>1. Hears(new) /\ UNCHANGED <<stored, current, command>> /\ new \in Seq(Events)
  BY DEF Says
<1>2. session.events \in Seq(Events)
  BY ListTypes
<1>3. SameLink /\ SameHandler
  BY <1>1 DEF Hears, SameLink, SameHandler
<1>4. CASE session.connected = TRUE
  <2>1. session'.events = session.events \o new
    BY <1>1, <1>4 DEF Hears
  <2> QED
    BY <1>1, <1>3, <1>4, <2>1
<1>5. CASE session.connected # TRUE
  <2>1. PICK h \in Seq(Events) : h = <<>>
    BY EmptySeq, Zenon
  <2>2. session'.events = session.events
    BY <1>1, <1>5 DEF Hears
  <2>3. \A s \in Seq(Events) : s \o <<>> = s
    OBVIOUS
  <2>4. session'.events = session.events \o h
    BY <1>2, <2>1, <2>2, <2>3
  <2>5. EndedIn(h) = <<>>
    <3>1. \A i \in 1..Len(h) : h[i].type # "end"
      BY <2>1
    <3> QED
      BY <3>1, EndedNone
  <2> QED
    BY <1>1, <1>3, <2>1, <2>4, <2>5
<1> QED
  BY <1>4, <1>5

\* A run starts: only inputs are said.
LEMMA RunResults ==
  ASSUME Inv, Data, ResultsInv, ~Streaming, agent'.phase = "llm", agent'.asked = clock, clock' = clock + 1,
         NEW ms \in Seq(Inputs), NEW q, Says(ms, q, Spoken(ms))
  PROVE  ResultsInv'
<1>0. Heard(Spoken(ms))
  BY HeardEvents
<1>1. PICK h \in {Spoken(ms), <<>>} :
        /\ h \in Seq(Events) /\ session'.events = session.events \o h
        /\ session.connected = FALSE => h = <<>>
        /\ h = Spoken(ms) \/ (h = <<>> /\ EndedIn(h) = <<>>)
        /\ SameLink /\ SameHandler /\ UNCHANGED <<stored, current, command>>
  BY <1>0 DEF Heard
<1>2. EndedIn(Spoken(ms)) = ms
  BY SaidTypes, SeqMonotonic, SpokenFacts
<1>3. PICK d \in Seq(Messages) : d = <<>>
  BY EmptySeq, Zenon
<1>4. Due = d /\ Due' = d
  BY <1>3 DEF Due, Streaming
<1>5. ToSet(d) = {} /\ clock \in Nat
  BY <1>3, ElementsOfNone, ResultSets
<1> DEFINE n == EndedIn(h)
<1>6. n \in Seq(Messages) /\ CallsOf(ToSet(n)) = {} /\ RefsOf(ToSet(n)) = {}
  <2>1. n = ms \/ n = d
    BY <1>1, <1>2, <1>3
  <2>2. ms \in Seq(Messages) /\ CallsOf(ToSet(ms)) = {} /\ RefsOf(ToSet(ms)) = {}
    BY InputsUncalled
  <2>3. CallsOf(ToSet(d)) = {} /\ RefsOf(ToSet(d)) = {}
    BY <1>5, CallsAndRefs
  <2> HIDE DEF n
  <2>4. CASE n = ms
    BY <2>2, <2>4
  <2>5. CASE n = d
    BY <2>3, <2>5
  <2> QED
    BY <2>1, <2>4, <2>5
<1> HIDE DEF n
<1>7. CallsOf(ToSet(n) \cup ToSet(d)) = {} /\ RefsOf(ToSet(n) \cup ToSet(d)) = {}
  BY <1>5, <1>6, CallsAndRefs
<1>8. PICK F : F = IF agent.phase = "llm" THEN {agent.asked} ELSE {}
  OBVIOUS
<1>9. Follows(n \o d)
  <2>1. n \o d = n
    BY <1>3, <1>6
  <2> QED
    BY <1>6, <2>1, FollowsUncalled
<1>10. Follows(path \o ((EndedIn(session.events) \o n) \o d))
  BY <1>3, <1>4, <1>6, <1>7, <1>8, <1>9, SaidFreely
<1>11. /\ agent'.phase = "llm" => clock <= agent'.asked
       /\ agent'.asked \in Nat /\ clock' \in Nat /\ agent'.asked < clock' /\ clock <= clock'
  BY <1>5
<1>12. n = EndedIn(h)
  BY DEF n
<1> QED
  BY <1>1, <1>4, <1>6, <1>7, <1>8, <1>10, <1>11, <1>12, SaidResults

RunEnds(events) == \E x \in 1..Len(events) : events[x].type = "agent_end"

\* What is said, heard or not: e is what has ended, d the result that is due afterwards.
LEMMA SaysResults ==
  ASSUME Inv, Data, ResultsInv, NEW ms, NEW q, NEW new, Says(ms, q, new),
         NEW e \in Seq(Messages), EndedIn(new) = e, NEW d \in Seq(Messages), Due' = d,
         NEW none \in Seq(Messages), none = <<>>,
         NEW F, F = (IF agent.phase = "llm" THEN {agent.asked} ELSE {}),
         RefsOf(ToSet(e) \cup ToSet(d)) \subseteq RefsOf(ToSet(Due)) \cup F,
         CallsOf(ToSet(e) \cup ToSet(d)) \subseteq F,
         RunEnds(new) => RefsOf(ToSet(e) \cup ToSet(d)) = {},
         \A n \in {e, none} : Follows(path \o ((EndedIn(session.events) \o n) \o d)),
         agent'.phase = "llm" => clock <= agent'.asked,
         agent'.asked \in Nat, clock' \in Nat, agent'.asked < clock', clock <= clock'
  PROVE  ResultsInv'
<1>0. Heard(new)
  BY HeardEvents
<1>1. PICK h \in {new, <<>>} :
        /\ h \in Seq(Events) /\ session'.events = session.events \o h
        /\ session.connected = FALSE => h = <<>>
        /\ h = new \/ (h = <<>> /\ EndedIn(h) = <<>>)
        /\ SameLink /\ SameHandler /\ UNCHANGED <<stored, current, command>>
  BY <1>0 DEF Heard
<1>2. CASE h = new
  <2>1. e = EndedIn(h)
    BY <1>2
  <2>2. (\E x \in 1..Len(h) : h[x].type = "agent_end") => RefsOf(ToSet(e) \cup ToSet(d)) = {}
    BY <1>2 DEF RunEnds
  <2> QED
    BY <1>1, <2>1, <2>2, SaidResults
<1>3. CASE h = <<>> /\ EndedIn(h) = <<>>
  <2>1. none = EndedIn(h)
    BY <1>3
  <2>2. ToSet(none) = {}
    BY ElementsOfNone
  <2>3. PICK X : X = ToSet(e) \cup ToSet(d)
    OBVIOUS
  <2>4. ToSet(none) \cup ToSet(d) \subseteq X
    BY <2>2, <2>3
  <2>5. /\ RefsOf(ToSet(none) \cup ToSet(d)) \subseteq RefsOf(X)
        /\ CallsOf(ToSet(none) \cup ToSet(d)) \subseteq CallsOf(X)
    BY <2>4, CallsAndRefs
  <2>6. /\ RefsOf(ToSet(none) \cup ToSet(d)) \subseteq RefsOf(ToSet(Due)) \cup F
        /\ CallsOf(ToSet(none) \cup ToSet(d)) \subseteq F
    BY <2>3, <2>5
  <2>7. ~ \E x \in 1..Len(h) : h[x].type = "agent_end"
    BY <1>3
  <2> QED
    BY <1>1, <2>1, <2>6, <2>7, SaidResults
<1> QED
  BY <1>1, <1>2, <1>3

Answered(m, last, q) == (<<Event("end", m)>> \o last) \o Spoken(q)

LEMMA AnsweredEvents ==
  ASSUME NEW m \in Messages, NEW last \in {<<>>, <<Event("agent_end", m)>>}, NEW q \in Seq(Inputs)
  PROVE  /\ EndedIn(Answered(m, last, q)) = <<m>> \o q
         /\ last = <<>> => ~RunEnds(Answered(m, last, q))
<1>0. /\ Event("end", m) \in Events /\ Event("end", m).type = "end" /\ Event("end", m).msg = m
      /\ Event("agent_end", m) \in Events /\ Event("agent_end", m).type = "agent_end"
  BY DEF Event, Events
<1>1. PICK a \in Events : a = Event("end", m) /\ a.type = "end" /\ a.msg = m
  BY <1>0, Zenon
<1>2. PICK b \in Events : b = Event("agent_end", m) /\ b.type = "agent_end"
  BY <1>0, Zenon
<1>3. PICK first \in Seq(Events) : first = <<a>>
  <2>1. <<a>> \in Seq(Events)
    OBVIOUS
  <2> QED
    BY <2>1, Zenon
<1>4. EndedIn(first) = <<m>> /\ Len(first) = 1 /\ first[1] = a
  <2>1. EndedIn(<<a>>) = <<a.msg>>
    BY <1>1, EndedOne
  <2> QED
    BY <1>1, <1>3, <2>1
<1>5. PICK none \in Seq(Events) : none = <<>>
  BY EmptySeq, Zenon
<1>6. EndedIn(none) = <<>>
  <2>1. \A i \in 1..Len(none) : none[i].type # "end"
    BY <1>5
  <2> QED
    BY <2>1, EndedNone
<1>7. last \in Seq(Events) /\ EndedIn(last) = <<>>
  <2>1. <<b>> \in Seq(Events)
    OBVIOUS
  <2>2. EndedIn(<<b>>) = <<>>
    BY <1>2, EndedOne
  <2>3. last = <<b>> \/ last = none
    BY <1>2, <1>5
  <2>4. CASE last = <<b>>
    BY <2>1, <2>2, <2>4
  <2>5. CASE last = none
    BY <1>6, <2>5
  <2> QED
    BY <2>3, <2>4, <2>5
<1>8. PICK sq \in Seq(Events) :
        /\ sq = Spoken(q) /\ EndedIn(sq) = q
        /\ \A x \in 1..Len(sq) : sq[x].type # "agent_end"
  <2>1. q \in Seq(Said)
    BY SaidTypes, SeqMonotonic
  <2>2. Spoken(q) \in Seq(Events) /\ EndedIn(Spoken(q)) = q
    BY <2>1, SpokenFacts
  <2>3. \A x \in 1..Len(Spoken(q)) : Spoken(q)[x].type # "agent_end"
    BY <2>1, SpokenType
  <2> QED
    BY <2>2, <2>3, Zenon
<1>9. first \o last \in Seq(Events) /\ EndedIn(first \o last) = <<m>>
  <2>1. first \o last \in Seq(Events)
    BY <1>7, ConcatTyped
  <2>2. EndedIn(first \o last) = EndedIn(first) \o EndedIn(last)
    BY <1>7, EndedConcat
  <2>3. <<m>> \o <<>> = <<m>>
    OBVIOUS
  <2> QED
    BY <1>4, <1>7, <2>1, <2>2, <2>3
<1>10. EndedIn((first \o last) \o sq) = <<m>> \o q
  <2>1. EndedIn((first \o last) \o sq) = EndedIn(first \o last) \o EndedIn(sq)
    BY <1>9, EndedConcat
  <2> QED
    BY <1>8, <1>9, <2>1
<1>11. ASSUME last = <<>> PROVE ~RunEnds((first \o last) \o sq)
  <2>1. first \o last = first
    BY <1>11
  <2>2. SUFFICES ASSUME NEW x \in 1..Len(first \o sq) PROVE (first \o sq)[x].type # "agent_end"
    BY <2>1 DEF RunEnds
  <2>3. /\ Len(first \o sq) = Len(first) + Len(sq) /\ Len(sq) \in Nat
        /\ \A i \in 1..Len(first) : (first \o sq)[i] = first[i]
        /\ \A i \in 1..(Len(first) + Len(sq)) : i > Len(first) => (first \o sq)[i] = sq[i - Len(first)]
    BY ConcatTyped
  <2>4. CASE x = 1
    <3>1. (first \o sq)[x] = a
      BY <1>4, <2>3, <2>4
    <3> QED
      BY <1>1, <3>1
  <2>5. CASE x # 1
    <3>1. x - 1 \in 1..Len(sq) /\ (first \o sq)[x] = sq[x - 1]
      BY <1>4, <2>3, <2>5
    <3> QED
      BY <1>8, <3>1
  <2> QED
    BY <2>4, <2>5
<1>12. Answered(m, last, q) = (first \o last) \o sq
  BY <1>1, <1>3, <1>8 DEF Answered
<1> QED
  BY <1>10, <1>11, <1>12

LEMMA UncalledJoined ==
  ASSUME NEW s \in Seq(Messages), NEW q \in Seq(Inputs)
  PROVE  /\ s \o q \in Seq(Messages)
         /\ CallsOf(ToSet(s \o q)) = CallsOf(ToSet(s)) /\ RefsOf(ToSet(s \o q)) = RefsOf(ToSet(s))
<1>1. q \in Seq(Messages) /\ CallsOf(ToSet(q)) = {} /\ RefsOf(ToSet(q)) = {}
  BY InputsUncalled
<1>2. s \o q \in Seq(Messages) /\ ToSet(s \o q) = ToSet(s) \cup ToSet(q)
  BY <1>1, ConcatTyped, ElementsOfConcat
<1>3. /\ CallsOf(ToSet(s \o q)) = CallsOf(ToSet(s)) \cup CallsOf(ToSet(q))
      /\ RefsOf(ToSet(s \o q)) = RefsOf(ToSet(s)) \cup RefsOf(ToSet(q))
  <2>1. PICK U : U = ToSet(s \o q)
    OBVIOUS
  <2>2. U = ToSet(s) \cup ToSet(q)
    BY <1>2, <2>1
  <2>3. CallsOf(U) = CallsOf(ToSet(s)) \cup CallsOf(ToSet(q)) /\ RefsOf(U) = RefsOf(ToSet(s)) \cup RefsOf(ToSet(q))
    BY <2>2, CallsOfBoth
  <2> QED
    BY <2>1, <2>3
<1> QED
  BY <1>1, <1>2, <1>3

LEMMA AnswerSaid ==
  ASSUME Inv, Data, ResultsInv, agent.phase = "llm",
         NEW m \in Messages, IsAnswer(m), m.id = agent.asked, NEW q \in Seq(Inputs),
         NEW e \in Seq(Messages), e = <<m>> \o q, NEW new, EndedIn(new) = e, Says(e, q, new),
         agent'.phase = "tools" => q = <<>> /\ agent'.call = agent.asked /\ ~RunEnds(new),
         agent'.phase = "llm" => clock <= agent'.asked,
         agent'.asked \in Nat, clock' \in Nat, agent'.asked < clock', clock <= clock'
  PROVE  ResultsInv'
<1>1. PICK one \in Seq(Messages) : one = <<m>>
  <2>1. <<m>> \in Seq(Messages)
    OBVIOUS
  <2> QED
    BY <2>1, Zenon
<1>2. PICK none \in Seq(Messages) : none = <<>>
  BY EmptySeq, Zenon
<1>3. PICK F : F = (IF agent.phase = "llm" THEN {agent.asked} ELSE {})
  OBVIOUS
<1>4. F = {agent.asked}
  BY <1>3
<1>6. CallsOf(ToSet(e)) = CallsOf(ToSet(one)) /\ RefsOf(ToSet(e)) = RefsOf(ToSet(one))
  BY <1>1, UncalledJoined
<1>7. CallsOf(ToSet(one)) = {agent.asked} /\ RefsOf(ToSet(one)) = {}
  <2>1. ToSet(one) = {m}
    BY <1>1, ElementsOfOne
  <2>2. CallsOf({m}) = {m.id} /\ RefsOf({m}) = {}
    BY CallsAndRefs
  <2> QED
    BY <2>1, <2>2
<1>8. CallsOf(ToSet(e)) = F /\ RefsOf(ToSet(e)) = {}
  BY <1>4, <1>6, <1>7
<1>9. ToSet(none) = {} /\ CallsOf(ToSet(none)) = {} /\ RefsOf(ToSet(none)) = {}
  <2>1. ToSet(none) = {}
    BY <1>2, ElementsOfNone
  <2> QED
    BY <2>1, CallsAndRefs
<1>10. \A s \in Seq(Messages) : s \o none = s /\ none \o s = s
  BY <1>2
<1>11. Due = <<>>
  BY DEF Due
<1>12. ASSUME NEW d \in Seq(Messages), Due' = d, CallsOf(ToSet(d)) = {}, RefsOf(ToSet(d)) \subseteq F,
              Follows(e \o d), RunEnds(new) => RefsOf(ToSet(d)) = {}
       PROVE  ResultsInv'
  <2>1. \A n \in {e, none} :
          /\ RefsOf(ToSet(n) \cup ToSet(d)) = RefsOf(ToSet(d))
          /\ CallsOf(ToSet(n) \cup ToSet(d)) \subseteq F
    <3>1. SUFFICES ASSUME NEW n \in {e, none}
                   PROVE  /\ RefsOf(ToSet(n) \cup ToSet(d)) = RefsOf(ToSet(d))
                          /\ CallsOf(ToSet(n) \cup ToSet(d)) \subseteq F
      OBVIOUS
    <3>2. PICK X : X = ToSet(n) \cup ToSet(d)
      OBVIOUS
    <3>3. CallsOf(X) = CallsOf(ToSet(n)) \cup CallsOf(ToSet(d)) /\ RefsOf(X) = RefsOf(ToSet(n)) \cup RefsOf(ToSet(d))
      BY <3>2, CallsOfBoth
    <3>4. CallsOf(ToSet(n)) \subseteq F /\ RefsOf(ToSet(n)) = {}
      BY <1>8, <1>9, <3>1
    <3> QED
      BY <1>12, <3>2, <3>3, <3>4
  <2>2. Follows(none \o d)
    <3>1. none \o d = d
      BY <1>10
    <3> QED
      BY <1>12, <3>1, FollowsUncalled
  <2>3. \A n \in {e, none} : Follows(path \o ((EndedIn(session.events) \o n) \o d))
    <3>1. SUFFICES ASSUME NEW n \in {e, none} PROVE Follows(path \o ((EndedIn(session.events) \o n) \o d))
      OBVIOUS
    <3>2. n \in Seq(Messages) /\ Follows(n \o d)
      BY <1>12, <2>2, <3>1
    <3>3. RefsOf(ToSet(n) \cup ToSet(d)) \subseteq F /\ CallsOf(ToSet(n) \cup ToSet(d)) \subseteq F
      BY <1>12, <2>1
    <3> QED
      BY <1>3, <1>11, <3>2, <3>3, SaidFreely
  <2>4. RefsOf(ToSet(e) \cup ToSet(d)) \subseteq RefsOf(ToSet(Due)) \cup F /\ CallsOf(ToSet(e) \cup ToSet(d)) \subseteq F
    BY <1>12, <2>1
  <2>5. RunEnds(new) => RefsOf(ToSet(e) \cup ToSet(d)) = {}
    BY <1>12, <2>1
  <2> QED
    BY <1>2, <1>3, <1>12, <2>3, <2>4, <2>5, SaysResults
<1>13. CASE agent'.phase = "tools"
  <2> DEFINE r == ToolResult(0, agent'.call)
  <2>1. r \in Messages /\ IsResult(r) /\ r.ref = agent.asked
    <3>1. agent'.call \in Nat
      BY <1>13, ResultSets
    <3> QED
      BY <1>13, <3>1 DEF ToolResult, Message, Messages, Roles, Kinds, IsResult
  <2>2. Due' = <<r>>
    BY <1>13 DEF Due
  <2> HIDE DEF r
  <2>3. PICK d \in Seq(Messages) : d = <<r>>
    <3>1. <<r>> \in Seq(Messages)
      BY <2>1
    <3> QED
      BY <3>1, Zenon
  <2>4. CallsOf(ToSet(d)) = {} /\ RefsOf(ToSet(d)) = F
    <3>1. ToSet(d) = {r}
      BY <2>3, ElementsOfOne
    <3>2. CallsOf({r}) = {} /\ RefsOf({r}) = {r.ref}
      BY <2>1, CallsAndRefs
    <3> QED
      BY <1>4, <2>1, <3>1, <3>2
  <2>5. Follows(e \o d)
    <3>1. Follows(<<m>> \o <<r>>)
      BY <2>1, FollowsCall
    <3>2. e = <<m>>
      BY <1>13
    <3> QED
      BY <2>3, <3>1, <3>2
  <2> QED
    BY <1>12, <1>13, <2>2, <2>3, <2>4, <2>5
<1>14. CASE agent'.phase # "tools"
  <2>1. Due' = none
    BY <1>2, <1>14 DEF Due
  <2>2. Follows(e \o none)
    BY <1>8, <1>10, FollowsUncalled
  <2> QED
    BY <1>9, <1>12, <2>1, <2>2
<1> QED
  BY <1>13, <1>14

LEMMA AnswerResults ==
  ASSUME Inv, Data, ResultsInv, NEW kind \in {"stop", "aborted"} \cup Outcomes, Answer(kind)
  PROVE  ResultsInv'
<1> DEFINE m == Message("assistant", agent.asked, kind)
           ends == Failed(m) \/ (kind # "toolUse" /\ Polled(FALSE) = <<>>)
           last == IF ends THEN <<Event("agent_end", m)>> ELSE <<>>
<1>1. agent.messages \in Seq(Messages) /\ clock \in Nat /\ agent.asked \in Nat
  BY ResultSets DEF Data, StoredData
<1>2. /\ agent.phase = "llm" /\ clock' = clock + 1
      /\ agent'.phase = (IF ends THEN "idle" ELSE IF kind = "toolUse" THEN "tools" ELSE "llm")
      /\ agent'.asked = (IF ends THEN 0 ELSE clock)
      /\ agent'.call = (IF kind = "toolUse" THEN m.id ELSE 0)
      /\ m \in Messages /\ m.role = "assistant" /\ m.id = agent.asked /\ m.kind = kind
      /\ \E q \in Seq(Inputs) :
           /\ ends \/ kind = "toolUse" => q = <<>>
           /\ Says(<<m>> \o q, q, (<<Event("end", m)>> \o last) \o Spoken(q))
  BY <1>1, AnswerSays
<1>3. PICK q \in Seq(Inputs) :
        /\ ends \/ kind = "toolUse" => q = <<>>
        /\ Says(<<m>> \o q, q, Answered(m, last, q))
  BY <1>2 DEF Answered
<1>4. last \in {<<>>, <<Event("agent_end", m)>>} /\ (~ends => last = <<>>)
  OBVIOUS
<1>5. PICK e \in Seq(Messages) : e = <<m>> \o q
  <2>1. <<m>> \in Seq(Messages) /\ q \in Seq(Messages)
    BY <1>2, InputsUncalled
  <2>2. <<m>> \o q \in Seq(Messages)
    BY <2>1, ConcatTyped
  <2> QED
    BY <2>2, Zenon
<1>6. EndedIn(Answered(m, last, q)) = e /\ (last = <<>> => ~RunEnds(Answered(m, last, q)))
  <2>1. m \in Messages /\ last \in {<<>>, <<Event("agent_end", m)>>} /\ e = <<m>> \o q
    BY <1>2, <1>4, <1>5
  <2> HIDE DEF m, ends, last
  <2> QED
    BY <2>1, AnsweredEvents
<1>7. agent'.phase = "tools" => q = <<>> /\ agent'.call = agent.asked /\ ~RunEnds(Answered(m, last, q))
  <2>1. ASSUME agent'.phase = "tools" PROVE ~ends /\ kind = "toolUse"
    <3> HIDE DEF ends
    <3> QED
      BY <1>2, <2>1
  <2> QED
    BY <1>2, <1>3, <1>4, <1>6, <2>1
<1>8. /\ agent'.phase = "llm" => clock <= agent'.asked
      /\ agent'.asked \in Nat /\ clock' \in Nat /\ agent'.asked < clock' /\ clock <= clock'
  <2>1. clock' = clock + 1
    BY <1>2
  <2>2. agent'.asked = clock \/ (agent'.asked = 0 /\ agent'.phase = "idle")
    <3> HIDE DEF ends, m
    <3> QED
      BY <1>2
  <2>3. CASE agent'.asked = clock
    BY <1>1, <2>1, <2>3
  <2>4. CASE agent'.asked = 0 /\ agent'.phase = "idle"
    BY <1>1, <2>1, <2>4
  <2> QED
    BY <2>2, <2>3, <2>4
<1>9. IsAnswer(m) /\ Says(e, q, Answered(m, last, q)) /\ m \in Messages /\ m.id = agent.asked /\ agent.phase = "llm"
  BY <1>2, <1>3, <1>5 DEF IsAnswer
<1> HIDE DEF m, ends, last
<1> QED
  BY <1>5, <1>6, <1>7, <1>8, <1>9, AnswerSaid

\* The tools have ended: the result that was due comes, with its own identity.
LEMMA ToolsResults ==
  ASSUME Inv, Data, ResultsInv, ToolsDone
  PROVE  ResultsInv'
<1> DEFINE r == ToolResult(clock, agent.call)
           due == ToolResult(0, agent.call)
           E == EndedIn(session.events)
           P == path \o E
<1>1. /\ agent.phase = "tools" /\ agent'.phase = "llm" /\ agent'.asked = clock + 1
      /\ clock' = clock + 2 /\ clock \in Nat /\ agent.call \in Nat
  BY ToolsSay, ResultSets DEF ToolsDone
<1>2. PICK q \in Seq(Inputs) : Says(<<r>> \o q, q, Spoken(<<r>> \o q))
  BY ToolsSay
<1>3. /\ r \in Messages /\ IsResult(r) /\ r.ref = agent.call
      /\ due \in Messages /\ IsResult(due) /\ due.ref = agent.call
      /\ r \in Said
  BY <1>1, SaidTypes DEF ToolResult, Message, Messages, Roles, Kinds, IsResult
<1>4. Due = <<due>>
  BY <1>1 DEF Due
<1> HIDE DEF r, due
<1>5. PICK one \in Seq(Messages) : one = <<r>>
  <2>1. <<r>> \in Seq(Messages)
    BY <1>3
  <2> QED
    BY <2>1, Zenon
<1>6. PICK e \in Seq(Messages) :
        /\ e = one \o q /\ CallsOf(ToSet(e)) = CallsOf(ToSet(one)) /\ RefsOf(ToSet(e)) = RefsOf(ToSet(one))
  BY UncalledJoined, Zenon
<1>7. CallsOf(ToSet(e)) = {} /\ RefsOf(ToSet(e)) = {agent.call}
  <2>1. ToSet(one) = {r}
    BY <1>5, ElementsOfOne
  <2>2. CallsOf({r}) = {} /\ RefsOf({r}) = {r.ref}
    BY <1>3, CallsAndRefs
  <2> QED
    BY <1>3, <1>6, <2>1, <2>2
<1>8. RefsOf(ToSet(Due)) = {agent.call}
  <2>1. ToSet(Due) = {due}
    BY <1>4, ElementsOfOne
  <2>2. RefsOf({due}) = {due.ref}
    BY <1>3, CallsAndRefs
  <2> QED
    BY <1>3, <2>1, <2>2
<1>9. PICK new : new = Spoken(e)
  OBVIOUS
<1>10. Says(e, q, new) /\ EndedIn(new) = e /\ ~RunEnds(new)
  <2>1. e = <<r>> \o q
    BY <1>5, <1>6
  <2>2. e \in Seq(Said)
    <3>1. q \in Seq(Said) /\ <<r>> \in Seq(Said)
      BY <1>3, SaidTypes, SeqMonotonic
    <3>2. <<r>> \o q \in Seq(Said)
      BY <3>1, ConcatTyped
    <3> QED
      BY <2>1, <3>2
  <2>3. EndedIn(Spoken(e)) = e /\ \A i \in 1..Len(Spoken(e)) : Spoken(e)[i].type # "agent_end"
    BY <2>2, SpokenFacts, SpokenType
  <2> QED
    BY <1>2, <1>9, <2>1, <2>3 DEF RunEnds
<1>11. PICK none \in Seq(Messages) : none = <<>>
  BY EmptySeq, Zenon
<1>12. ToSet(none) = {} /\ \A s \in Seq(Messages) : s \o none = s
  <2>1. ToSet(none) = {}
    BY <1>11, ElementsOfNone
  <2> QED
    BY <1>11, <2>1
<1>13. Due' = none
  BY <1>1, <1>11 DEF Due
<1>14. path \in Seq(Messages) /\ E \in Seq(Messages)
  BY ResultSets
<1> HIDE DEF E
<1>15. P \in Seq(Messages)
  BY <1>14, ConcatTyped
<1>16. Follows(P \o <<due>>)
  <2>1. Follows(path \o (E \o <<due>>))
    BY <1>4 DEF ResultsInv, Ordered, Coming, E
  <2>2. <<due>> \in Seq(Messages)
    BY <1>3
  <2>3. PICK d \in Seq(Messages) : d = <<due>>
    BY <2>2, Zenon
  <2>4. PICK x \in Seq(Messages), y \in Seq(Messages) : x = path /\ y = E
    BY <1>14, Zenon
  <2>5. (x \o y) \o d = x \o (y \o d)
    BY MessagesRegroup, Zenon
  <2>6. Follows((x \o y) \o d)
    <3>1. Follows(x \o (y \o d))
      BY <2>1, <2>3, <2>4, Zenon
    <3> QED
      BY <2>5, <3>1, Zenon
  <2> QED
    BY <2>3, <2>4, <2>6, Zenon
<1> DEFINE Pr == P \o one
<1>17. Follows(Pr) /\ Follows(P)
  <2>1. Follows(P \o <<r>>)
    <3> HIDE DEF P
    <3> QED
      BY <1>3, <1>15, <1>16, FollowsReplaced
  <2>2. Follows(P)
    <3>1. <<due>> \in Seq(Messages)
      BY <1>3
    <3> HIDE DEF P
    <3> QED
      BY <1>15, <1>16, <3>1, FollowsParts
  <2> QED
    BY <1>5, <2>1, <2>2
<1>18. Follows(Pr \o q)
  <2>1. q \in Seq(Messages) /\ CallsOf(ToSet(q)) = {} /\ RefsOf(ToSet(q)) = {}
    BY InputsUncalled
  <2>2. Follows(q)
    BY <2>1, FollowsUncalled
  <2>3. Pr \in Seq(Messages)
    BY <1>15, ConcatTyped
  <2> HIDE DEF Pr
  <2> QED
    BY <1>17, <2>1, <2>2, <2>3, FollowsJoined
<1>19. \A n \in {e, none} : Follows(path \o ((E \o n) \o none))
  <2>1. q \in Seq(Messages)
    BY InputsUncalled
  <2>2. path \o (E \o e) = Pr \o q
    <3>1. Pr \o q = P \o e
      <4> HIDE DEF P
      <4> QED
        BY <1>6, <1>15, <2>1, MessagesRegroup
    <3>2. P \o e = path \o (E \o e)
      BY <1>14, MessagesRegroup
    <3> QED
      BY <3>1, <3>2
  <2>3. E \o e \in Seq(Messages) /\ (E \o e) \o none = E \o e
    <3>1. E \o e \in Seq(Messages)
      BY <1>14, ConcatTyped
    <3> QED
      BY <1>12, <3>1
  <2>4. (E \o none) \o none = E
    BY <1>12, <1>14
  <2>5. Follows(path \o ((E \o e) \o none))
    BY <1>18, <2>2, <2>3
  <2>6. Follows(path \o ((E \o none) \o none))
    BY <1>17, <2>4
  <2> QED
    BY <2>5, <2>6
<1>20. PICK F : F = (IF agent.phase = "llm" THEN {agent.asked} ELSE {})
  OBVIOUS
<1>21. /\ RefsOf(ToSet(e) \cup ToSet(none)) \subseteq RefsOf(ToSet(Due)) \cup F
       /\ CallsOf(ToSet(e) \cup ToSet(none)) \subseteq F
  <2>1. ToSet(e) \cup ToSet(none) = ToSet(e)
    BY <1>12
  <2> QED
    BY <1>7, <1>8, <2>1
<1>22. /\ clock <= agent'.asked /\ agent'.asked \in Nat /\ clock' \in Nat
       /\ agent'.asked < clock' /\ clock <= clock'
  BY <1>1
<1>23. \A n \in {e, none} : Follows(path \o ((EndedIn(session.events) \o n) \o none))
  BY <1>19 DEF E
<1> QED
  BY <1>10, <1>11, <1>13, <1>20, <1>21, <1>22, <1>23, SaysResults

\* A run that throws ends nothing: its error is in no session.
LEMMA ThrownResults ==
  ASSUME Inv, Data, ResultsInv, NEW thrown, RunThrows(thrown)
  PROVE  ResultsInv'
<1> DEFINE m == Message("assistant", agent.asked, IF thrown = "throws" THEN "throws" ELSE "error")
<1>1. agent.messages \in Seq(Messages) /\ clock \in Nat /\ agent.asked \in Nat /\ agent.asked < clock
  BY ResultSets DEF Data, StoredData, ResultsInv, Fresh
<1>2. /\ agent'.phase = "idle" /\ agent'.asked = 0 /\ agent.phase = "llm" /\ clock' = clock
      /\ Says(<<m>>, <<>>, <<Event("agent_end", m)>>)
  BY <1>1, ThrownSays
<1> HIDE DEF m
<1>3. PICK none \in Seq(Messages) : none = <<>>
  BY EmptySeq, Zenon
<1>4. PICK new : new = <<Event("agent_end", m)>>
  OBVIOUS
<1>5. EndedIn(new) = none
  <2>1. new \in Seq(Events)
    BY <1>2, <1>4 DEF Says
  <2>2. \A i \in 1..Len(new) : new[i].type # "end"
    BY <1>4 DEF Event
  <2> QED
    BY <1>3, <2>1, <2>2, EndedNone
<1>6. /\ ToSet(none) \cup ToSet(none) = {} /\ CallsOf({}) = {} /\ RefsOf({}) = {} /\ ToSet(none) = {}
      /\ none \o none = none
  <2>1. ToSet(none) = {}
    BY <1>3, ElementsOfNone
  <2> QED
    BY <1>3, <2>1, CallsAndRefs
<1>7. Due = <<>> /\ Due' = none
  BY <1>2, <1>3 DEF Due
<1>8. Follows(none \o none)
  BY <1>6, FollowsUncalled
<1>9. PICK F : F = (IF agent.phase = "llm" THEN {agent.asked} ELSE {})
  OBVIOUS
<1>10. /\ RefsOf(ToSet(none) \cup ToSet(none)) = {} /\ CallsOf(ToSet(none) \cup ToSet(none)) = {}
  BY <1>6
<1>11. Follows(path \o ((EndedIn(session.events) \o none) \o none))
  BY <1>7, <1>8, <1>9, <1>10, SaidFreely
<1>12. \A n \in {none, none} : Follows(path \o ((EndedIn(session.events) \o n) \o none))
  BY <1>11
<1>13. agent'.asked \in Nat /\ clock' \in Nat /\ agent'.asked < clock' /\ clock <= clock' /\ agent'.phase # "llm"
  BY <1>1, <1>2
<1>14. PICK said : said = <<m>>
  OBVIOUS
<1>15. Says(said, <<>>, new)
  BY <1>2, <1>4, <1>14
<1> QED
  BY <1>3, <1>5, <1>7, <1>9, <1>10, <1>12, <1>13, <1>15, SaysResults

\* The handler takes an event that writes nothing.
LEMMA SkipResults ==
  ASSUME Inv, Data, ResultsInv, TakesNext, Ready, NextEvent.type # "end", SameRun, SameLink,
         UNCHANGED <<stored, current, command, clock>>,
         session'.handler # "ready" => NextEvent.type = "agent_end"
  PROVE  ResultsInv'
<1>1. /\ session.events \in Seq(Events) /\ session.events # <<>>
      /\ session'.events = Tail(session.events) /\ NextEvent = Head(session.events)
  BY ResultSets DEF Ready, TakesNext, NextEvent
<1>2. PICK ev \in Seq(Events) : ev = session.events
  BY <1>1
<1>3. PICK t \in Seq(Events) : t = Tail(ev) /\ session'.events = t
  BY <1>1, <1>2, HeadAndTail
<1>4. EndedIn(t) = EndedIn(ev)
  <2>1. EndedIn(ev) = <<>> \o EndedIn(t)
    BY <1>1, <1>2, <1>3, EndedTail
  <2>2. EndedIn(t) \in Seq(Messages)
    BY EndedType
  <2> QED
    BY <2>1, <2>2
<1>5. Due' = Due
  BY DEF Due, SameRun
<1>6. Coming' = Coming /\ Ended(session.events)' = Ended(session.events)
  BY <1>2, <1>3, <1>4, <1>5 DEF Coming, Ended
<1>7. Kept' = Kept /\ path' = path
  BY KeptFacts DEF path
<1>8. Ordered'
  BY <1>6, <1>7 DEF ResultsInv, Ordered
<1>9. Over(session.events, Kept, ToSet(Due))'
  <2>1. Over(ev, Kept, ToSet(Due)) /\ ev # <<>> /\ Head(ev).type # "end"
    BY <1>1, <1>2 DEF ResultsInv
  <2>2. Over(Tail(ev), Kept \cup (IF Head(ev).type = "end" THEN {Head(ev).msg} ELSE {}), ToSet(Due))
    BY <2>1, OverTail
  <2>3. Kept \cup (IF Head(ev).type = "end" THEN {Head(ev).msg} ELSE {}) = Kept
    BY <2>1
  <2>4. Over(t, Kept, ToSet(Due))
    BY <1>3, <2>2, <2>3
  <2> QED
    BY <1>3, <1>5, <1>7, <2>4
<1>10. Paused'
  <2>1. SUFFICES ASSUME session'.handler # "ready" PROVE RefsOf(ToSet(Coming)) \cap CallsOf(Kept) = {}
    BY <1>6, <1>7 DEF Paused
  <2>2. Over(ev, Kept, ToSet(Due)) /\ ev # <<>> /\ Head(ev).type = "agent_end"
    BY <1>1, <1>2, <2>1 DEF ResultsInv
  <2>3. RefsOf(Ended(Tail(ev)) \cup ToSet(Due)) \cap CallsOf(Kept) = {}
    BY <2>2, OverHead
  <2>4. Ended(Tail(ev)) = Ended(session.events)
    BY <1>2, <1>3, <1>4 DEF Ended
  <2>5. ToSet(Coming) = Ended(session.events) \cup ToSet(Due)
    BY ResultSets
  <2> QED
    BY <2>3, <2>4, <2>5
<1>11. Parted'
  BY <1>6 DEF ResultsInv, Parted, SameLink
<1>12. Fresh'
  BY <1>6, <1>7 DEF ResultsInv, Fresh, SameRun
<1> QED
  BY <1>8, <1>9, <1>10, <1>11, <1>12 DEF ResultsInv

\* What has ended is written.
LEMMA WrittenEndResults ==
  ASSUME Inv, Data, ResultsInv, MessageEnds
  PROVE  ResultsInv'
<1>1. /\ SameLink /\ SameHandler /\ TakesNext /\ NextEvent.type = "end" /\ Ready
      /\ stored' = [stored EXCEPT ![current] = @ \o <<NextEvent.msg>>]
      /\ UNCHANGED <<agent, current, command, clock>>
  BY MessageEndsDoes
<1>2. /\ path \in Seq(Messages) /\ current \in Files /\ path = stored[current] /\ Due \in Seq(Messages)
      /\ session.events \in Seq(Events) /\ session.events # <<>>
      /\ ToSet(Coming) = Ended(session.events) \cup ToSet(Due)
  BY <1>1, ResultSets DEF Ready
<1>3. PICK ev \in Seq(Events) : ev = session.events
  BY <1>2
<1>4. PICK t \in Seq(Events) : t = Tail(ev) /\ session'.events = t
  BY <1>1, <1>2, <1>3, HeadAndTail DEF TakesNext
<1>5. PICK m \in Messages : m = NextEvent.msg /\ m = Head(ev).msg
  <2>1. Head(ev) \in Events /\ NextEvent = Head(ev)
    BY <1>2, <1>3, HeadAndTail DEF NextEvent
  <2>2. NextEvent.msg \in Messages
    BY <2>1 DEF Events
  <2> QED
    BY <2>1, <2>2, Zenon
<1>6. PICK one \in Seq(Messages) : one = <<m>> /\ ToSet(one) = {m}
  <2>1. <<m>> \in Seq(Messages) /\ ToSet(<<m>>) = {m}
    BY ElementsOfOne
  <2> QED
    BY <2>1, Zenon
<1>7. PICK u \in Seq(Messages) : u = EndedIn(t)
  BY EndedType
<1>8. EndedIn(session.events) = one \o u /\ Ended(session.events) = {m} \cup Ended(t)
  <2>1. ev # <<>> /\ Head(ev).type = "end"
    BY <1>1, <1>2, <1>3 DEF NextEvent
  <2>2. EndedIn(ev) = <<Head(ev).msg>> \o EndedIn(Tail(ev))
    BY <2>1, EndedTail
  <2>3. Ended(ev) = {Head(ev).msg} \cup Ended(Tail(ev))
    BY <2>1, EndedOfTail
  <2> QED
    BY <1>3, <1>4, <1>5, <1>6, <1>7, <2>2, <2>3
<1>9. PICK c \in Seq(Messages) : c = u \o Due /\ ToSet(c) = Ended(t) \cup ToSet(Due)
  <2>1. u \o Due \in Seq(Messages) /\ ToSet(u \o Due) = ToSet(u) \cup ToSet(Due)
    BY <1>2, ConcatTyped, ElementsOfConcat
  <2> QED
    BY <1>7, <2>1, Zenon DEF Ended
<1>10. Due' = Due
  BY <1>1 DEF Due
<1>11. Coming' = c /\ Ended(session.events)' = Ended(t)
  BY <1>4, <1>7, <1>9, <1>10 DEF Coming, Ended
<1>12. PICK p \in Seq(Messages) : p = path \o one /\ ToSet(p) = ToSet(path) \cup {m}
  <2>1. path \o one \in Seq(Messages) /\ ToSet(path \o one) = ToSet(path) \cup ToSet(one)
    BY <1>2, ConcatTyped, ElementsOfConcat
  <2> QED
    BY <1>6, <2>1, Zenon
<1>13. stored' = [stored EXCEPT ![current] = p]
  BY <1>1, <1>2, <1>5, <1>6, <1>12
<1>14. /\ Kept' \subseteq Kept \cup ToSet(p) /\ stored'[current] = p
       /\ \A f \in Files \ {current} : stored'[f] = stored[f]
  BY <1>2, <1>13, KeptFacts
<1>15. Kept' \subseteq Kept \cup {m}
  BY <1>12, <1>14, KeptFacts
<1>16. path' = p
  BY <1>1, <1>14 DEF path
<1>17. Follows(p \o c)
  <2>1. Follows(path \o ((one \o u) \o Due))
    BY <1>8 DEF ResultsInv, Ordered, Coming
  <2>0. path \in Seq(Messages) /\ Due \in Seq(Messages) /\ c = u \o Due /\ p = path \o one
    BY <1>2, <1>9, <1>12
  <2>2. (one \o u) \o Due = one \o (u \o Due)
    <3>1. Due \in Seq(Messages)
      BY <2>0
    <3> QED
      BY <3>1, MessagesRegroup, Zenon
  <2>4. (path \o one) \o c = path \o (one \o c)
    <3>1. path \in Seq(Messages)
      BY <2>0
    <3> QED
      BY <3>1, MessagesRegroup, Zenon
  <2>3. p \o c = path \o (one \o c)
    BY <2>0, <2>4, Zenon
  <2> QED
    BY <2>0, <2>1, <2>2, <2>3, Zenon
<1>18. Follows(p) /\ RefsOf(ToSet(p)) \cap CallsOf(ToSet(c)) = {}
  BY <1>17, FollowsParts
<1>19. Ordered'
  BY <1>11, <1>14, <1>16, <1>17, <1>18 DEF ResultsInv, Ordered
<1>20. Over(session.events, Kept, ToSet(Due))'
  <2>1. Over(ev, Kept, ToSet(Due)) /\ ev # <<>> /\ Head(ev).type = "end"
    BY <1>1, <1>2, <1>3 DEF ResultsInv, NextEvent
  <2>2. Over(Tail(ev), Kept \cup (IF Head(ev).type = "end" THEN {Head(ev).msg} ELSE {}), ToSet(Due))
    BY <2>1, OverTail
  <2>3. PICK more : more = Kept \cup {m}
    OBVIOUS
  <2>4. Over(t, more, ToSet(Due))
    BY <1>4, <1>5, <2>1, <2>2, <2>3
  <2>5. CallsOf(Kept') \subseteq CallsOf(more)
    BY <1>15, <2>3, CallsAndRefs
  <2>6. Over(t, Kept', ToSet(Due))
    BY <2>4, <2>5, OverKept
  <2> QED
    BY <1>4, <1>10, <2>6
<1>21. Paused'
  BY <1>1 DEF Paused, SameHandler, Ready
<1>22. RefsOf(Ended(t)) \subseteq RefsOf(Ended(session.events))
  BY <1>8, CallsAndRefs
<1>23. Parted'
  BY <1>1, <1>11, <1>14, <1>22 DEF ResultsInv, Parted, SameLink
<1>24. /\ ToSet(c) \subseteq ToSet(Coming) /\ Kept' \cup ToSet(c) \subseteq Kept \cup ToSet(Coming)
       /\ m \in ToSet(p)
  BY <1>2, <1>8, <1>9, <1>12, <1>15
<1>25. /\ CallsOf(ToSet(c)) \subseteq CallsOf(ToSet(Coming))
       /\ CallsOf(Kept' \cup ToSet(c)) \subseteq CallsOf(Kept \cup ToSet(Coming))
       /\ RefsOf(Kept' \cup ToSet(c)) \subseteq RefsOf(Kept \cup ToSet(Coming))
  BY <1>24, CallsAndRefs
<1>26. RefsOf(Kept') \cap CallsOf(ToSet(c)) = {}
  <2>1. PICK more : more = Kept \cup {m}
    OBVIOUS
  <2>2. RefsOf(Kept') \subseteq RefsOf(more)
    BY <1>15, <2>1, CallsAndRefs
  <2>3. RefsOf(more) = RefsOf(Kept) \cup RefsOf({m})
    BY <2>1, CallsOfBoth
  <2>4. RefsOf({m}) \subseteq RefsOf(ToSet(p))
    <3>1. {m} \subseteq ToSet(p)
      BY <1>24
    <3> QED
      BY <3>1, CallsAndRefs
  <2>5. RefsOf(Kept) \cap CallsOf(ToSet(Coming)) = {}
    BY DEF ResultsInv, Fresh
  <2> QED
    BY <1>18, <1>25, <2>2, <2>3, <2>4, <2>5
<1>27. Fresh'
  BY <1>1, <1>11, <1>25, <1>26 DEF ResultsInv, Fresh
<1> QED
  BY <1>19, <1>20, <1>21, <1>23, <1>27 DEF ResultsInv

\* A command that waits for the agent starts.
LEMMA StartedResults ==
  ASSUME Inv, Data, ResultsInv, NEW name, CommandStarts(name)
  PROVE  ResultsInv'
<1>1. /\ UNCHANGED <<stored, current, clock>> /\ WholeAgent /\ SameEvents
      /\ session'.connected = FALSE
      /\ session'.handler = (IF session.handler = "backoff" THEN "cancelled" ELSE session.handler)
  BY CommandStartsDoes
<1>2. InputTurn
  BY DEF CommandStarts, Commanded
<1>3. RefsOf(Ended(session.events)) \cap CallsOf(Kept) = {}
  <2>1. CASE session.handler # "ready"
    <3>1. RefsOf(ToSet(Coming)) \cap CallsOf(Kept) = {}
      BY <2>1 DEF ResultsInv, Paused
    <3>2. Ended(session.events) \subseteq ToSet(Coming)
      BY ResultSets
    <3>3. RefsOf(Ended(session.events)) \subseteq RefsOf(ToSet(Coming))
      BY <3>2, CallsAndRefs
    <3> QED
      BY <3>1, <3>3
  <2>2. CASE session.handler = "ready"
    <3>1. session.events = <<>>
      BY <1>2, <2>2 DEF InputTurn, MicroWork
    <3>2. PICK ev \in Seq(Events) : ev = <<>>
      BY EmptySeq, Zenon
    <3>3. EndedIn(ev) = <<>>
      <4>1. \A i \in 1..Len(ev) : ev[i].type # "end"
        BY <3>2
      <4> QED
        BY <4>1, EndedNone
    <3>4. Ended(session.events) = {}
      BY <3>1, <3>2, <3>3, ElementsOfNone DEF Ended
    <3> QED
      BY <3>4, CallsAndRefs
  <2> QED
    BY <2>1, <2>2
<1>4. Kept' = Kept /\ path' = path
  BY <1>1, KeptFacts DEF path
<1>5. \A f \in Files : CallsOf(ToSet(stored[f])) \subseteq CallsOf(Kept)
  BY KeptFacts, CallsAndRefs
<1>6. \A f \in Files \ {current'} : RefsOf(Ended(session.events)) \cap CallsOf(ToSet(stored'[f])) = {}
  BY <1>1, <1>3, <1>5
<1>7. (\A f \in Files : Follows(stored'[f])) /\ Follows(path' \o Coming)
  BY <1>1, <1>4 DEF ResultsInv, Ordered
<1>8. SameRun /\ clock' \in Nat /\ clock <= clock'
  BY <1>1, ResultSets DEF WholeAgent
<1> QED
  BY <1>1, <1>4, <1>6, <1>7, <1>8, QuietResults

LEMMA NewSessionResults ==
  ASSUME Inv, Data, ResultsInv, NewSession
  PROVE  ResultsInv'
<1>1. /\ UNCHANGED <<stored, clock>> /\ current' \in Unused /\ command' = NoCommand
      /\ SameRun /\ SameEvents /\ SameHandler
  BY NewSessionDoes
<1>2. PICK none \in Seq(Messages) : none = <<>>
  BY EmptySeq, Zenon
<1>3. path' = none
  BY <1>1, <1>2 DEF path, Unused
<1>4. path \in Seq(Messages) /\ Coming \in Seq(Messages) /\ clock \in Nat
  BY ResultSets
<1>5. Follows(path' \o Coming)
  <2>1. Follows(Coming)
    BY <1>4, FollowsParts DEF ResultsInv, Ordered
  <2>2. none \o Coming = Coming
    BY <1>2, <1>4
  <2> QED
    BY <1>3, <2>1, <2>2
<1>6. Kept' = Kept
  BY <1>1, KeptFacts
<1>7. command'.pc = "none"
  BY <1>1 DEF NoCommand, Data, JobData
<1>8. \A f \in Files : Follows(stored'[f])
  BY <1>1 DEF ResultsInv, Ordered
<1> QED
  BY <1>1, <1>4, <1>5, <1>6, <1>7, <1>8, QuietResults DEF SameHandler

\* Another session is opened: nothing that is still to be written belongs to it.
LEMMA SwitchResults ==
  ASSUME Inv, Data, ResultsInv, SwitchOpens
  PROVE  ResultsInv'
<1>1. /\ UNCHANGED <<agent, stored, clock>> /\ ~Streaming
      /\ current' \in Files \ {current} /\ command.pc = "idle"
      /\ command' = [command EXCEPT !.pc = "restore", !.context = Context(stored[current'])]
      /\ SameEvents /\ SameLink /\ SameHandler
  BY SwitchOpensDoes
<1>2. Due = <<>>
  BY <1>1 DEF Due, Streaming
<1>3. ToSet(Coming) = Ended(session.events)
  BY <1>2, ResultSets, ElementsOfNone
<1>4. PICK p \in Seq(Messages) : p = stored[current'] /\ ToSet(p) \subseteq Kept /\ Follows(p)
  <2>1. stored[current'] \in Seq(Messages) /\ ToSet(stored[current']) \subseteq Kept /\ Follows(stored[current'])
    BY <1>1, ResultSets, KeptFacts DEF ResultsInv, Ordered
  <2> QED
    BY <2>1, Zenon
<1>5. path' = p
  BY <1>1, <1>4 DEF path
<1>6. path \in Seq(Messages) /\ Coming \in Seq(Messages) /\ clock \in Nat
  BY ResultSets
<1>7. Follows(Coming)
  BY <1>6, FollowsParts DEF ResultsInv, Ordered
<1>8. RefsOf(ToSet(Coming)) \cap CallsOf(ToSet(p)) = {}
  BY <1>1, <1>3, <1>4 DEF ResultsInv, Parted
<1>9. RefsOf(ToSet(p)) \cap CallsOf(ToSet(Coming)) = {}
  <2>1. RefsOf(ToSet(p)) \subseteq RefsOf(Kept)
    BY <1>4, CallsAndRefs
  <2> QED
    BY <2>1 DEF ResultsInv, Fresh
<1>10. Follows(p \o Coming)
  BY <1>4, <1>6, <1>7, <1>8, <1>9, FollowsJoined
<1>11. Kept' = Kept /\ \A f \in Files : Follows(stored'[f])
  BY <1>1, KeptFacts DEF ResultsInv, Ordered
<1>12. command'.pc = "restore"
  BY <1>1 DEF Data, JobData
<1>13. SameRun
  BY <1>1 DEF SameRun
<1> QED
  BY <1>1, <1>5, <1>6, <1>10, <1>11, <1>12, <1>13, QuietResults DEF SameHandler

LEMMA SubSeqSplit ==
  ASSUME NEW s \in Seq(Messages), NEW k \in 0..Len(s)
  PROVE  s = SubSeq(s, 1, k) \o SubSeq(s, k + 1, Len(s))
<1>1. /\ Len(s) \in Nat /\ 1 \in 1..(Len(s) + 1)
      /\ k \in (1 - 1)..Len(s) /\ Len(s) \in k..Len(s)
  BY LenProperties
<1>2. SubSeq(s, 1, Len(s)) = s
  BY SubSeqFull
<1>3. SubSeq(s, 1, k) \o SubSeq(s, k + 1, Len(s)) = SubSeq(s, 1, Len(s))
  BY <1>1, ConcatAdjacentSubSeq
<1> QED
  BY <1>2, <1>3

\* The path is cut back to one of its entries, in its file or in a new one.
LEMMA BranchResults ==
  ASSUME Inv, Data, ResultsInv, SameRun, SameEvents, SameHandler, clock' = clock, command'.pc # "idle",
         current' \in Files, NEW k \in 0..Len(path),
         stored' = [stored EXCEPT ![current'] = SubSeq(path, 1, k)]
  PROVE  ResultsInv'
<1>1. path \in Seq(Messages) /\ Coming \in Seq(Messages) /\ clock \in Nat /\ Len(path) \in Nat
  BY ResultSets
<1>2. PICK s \in Seq(Messages), w \in Seq(Messages) : s = SubSeq(path, 1, k) /\ path = s \o w
  <2>1. SubSeq(path, 1, k) \in Seq(Messages) /\ SubSeq(path, k + 1, Len(path)) \in Seq(Messages)
    BY <1>1, PrefixType, SubSeqProperties
  <2>2. path = SubSeq(path, 1, k) \o SubSeq(path, k + 1, Len(path))
    BY <1>1, SubSeqSplit
  <2> QED
    BY <2>1, <2>2, Zenon
<1>3. ToSet(path) = ToSet(s) \cup ToSet(w)
  BY <1>2, ElementsOfConcat
<1>4. stored' = [stored EXCEPT ![current'] = s]
  BY <1>2
<1>5. /\ Kept' \subseteq Kept \cup ToSet(s) /\ stored'[current'] = s
      /\ \A f \in Files \ {current'} : stored'[f] = stored[f]
  BY <1>4, KeptFacts
<1>6. Kept' \subseteq Kept
  BY <1>3, <1>5, KeptFacts
<1>7. CallsOf(Kept') \subseteq CallsOf(Kept) /\ RefsOf(Kept') \subseteq RefsOf(Kept)
  BY <1>6, CallsAndRefs
<1>8. path' = s
  BY <1>5 DEF path
<1>9. Follows(s \o Coming)
  <2>1. Follows((s \o w) \o Coming)
    BY <1>2 DEF ResultsInv, Ordered
  <2> QED
    BY <1>1, <2>1, FollowsWithout
<1>10. Follows(s)
  BY <1>1, <1>9, FollowsParts
<1>11. \A f \in Files : Follows(stored'[f])
  BY <1>5, <1>10 DEF ResultsInv, Ordered
<1>12. clock' \in Nat /\ clock <= clock' /\ (session'.handler # "ready" => session.handler # "ready")
  BY <1>1 DEF SameHandler
<1>13. Follows(path' \o Coming)
  BY <1>8, <1>9
<1> QED
  BY <1>7, <1>11, <1>12, <1>13, QuietResults

LEMMA NextResults == Inv /\ Data /\ ResultsInv /\ [Next]_vars => ResultsInv'
<1> SUFFICES ASSUME Inv, Data, ResultsInv, [Next]_vars PROVE ResultsInv'
  OBVIOUS
<1>c. clock' \in Nat /\ clock <= clock' /\ clock \in Nat
  BY ClockGrows, ResultSets
<1>u. ASSUME SameEvents, SameRun, UNCHANGED <<stored, current>>,
             session'.handler # "ready" => session.handler # "ready",
             command'.pc = "idle" => command.pc = "idle" /\ SameLink
      PROVE  ResultsInv'
  BY <1>c, <1>u, UnwrittenResults
<1>q. /\ agent' = agent => SameRun
      /\ session' = session => SameEvents /\ SameLink /\ SameHandler
      /\ command' = command => (command'.pc = "idle" => command.pc = "idle")
      /\ SameHandler => (session'.handler # "ready" => session.handler # "ready")
      /\ Trims => SameRun
  BY DEF SameRun, SameEvents, SameLink, SameHandler, Trims
<1>r. ASSUME agent'.phase = "llm", ~Streaming, agent'.asked = clock, clock' = clock + 1,
             \E ms \in Seq(Inputs), q \in Seq(Inputs) : Says(ms, q, Spoken(ms))
      PROVE  ResultsInv'
  BY <1>r, RunResults
<1>m. ASSUME NEW m, Records(m), m \in Messages, m.role \in {"bash", "custom"}, InputTurn,
             UNCHANGED <<current, command>>, clock' = clock + 1
      PROVE  ResultsInv'
  <2>1. ~IsAnswer(m) /\ ~IsResult(m)
    BY <1>m DEF IsAnswer, IsResult
  <2> QED
    BY <1>m, <2>1, RecordsResults
<1>1. CASE AgentStep
  <2>1. ASSUME NEW k \in {"stop", "aborted"} \cup Outcomes, Answer(k) PROVE ResultsInv'
    BY <2>1, AnswerResults
  <2>2. ASSUME NEW t \in {"throws", "throwsRetryable"}, RunThrows(t) PROVE ResultsInv'
    BY <2>2, ThrownResults
  <2>3. CASE ToolsDone
    BY <2>3, ToolsResults
  <2> QED
    BY <1>1, <2>1, <2>2, <2>3 DEF AgentStep
<1>2. CASE HandlerStep
  <2>1. CASE MessageStarts
    <3>1. /\ SameLink /\ SameHandler /\ TakesNext /\ NextEvent.type = "start"
          /\ Ready /\ UNCHANGED <<agent, stored, current, command, clock>>
      BY <2>1, MessageStartsDoes DEF MessageStarts
    <3>2. SameRun /\ session'.handler = "ready"
      BY <1>q, <3>1 DEF SameHandler, Ready
    <3> QED
      BY <3>1, <3>2, SkipResults
  <2>2. CASE MessageEnds
    BY <2>2, WrittenEndResults
  <2>3. CASE AgentEnds
    <3>1. HandlerSteps /\ TakesNext /\ Ready /\ NextEvent.type = "agent_end"
      BY <2>3, AgentEndsDoes
    <3>2. Trims /\ SameLink /\ UNCHANGED <<stored, current, command, clock>>
      BY <3>1 DEF HandlerSteps
    <3> QED
      BY <1>q, <3>1, <3>2, SkipResults
  <2>4. CASE BackoffElapses
    <3>1. /\ SameEvents /\ SameLink /\ session'.handler = "ready"
          /\ UNCHANGED <<agent, stored, current, command>>
      BY <2>4, BackoffElapsesDoes
    <3> QED
      BY <1>q, <1>u, <3>1
  <2>5. CASE BackoffCancelled
    <3>1. HandlerSteps /\ SameEvents /\ session.handler = "cancelled"
      BY <2>5, BackoffCancelledDoes
    <3>2. Trims /\ SameLink /\ UNCHANGED <<stored, current, command>>
      BY <3>1 DEF HandlerSteps
    <3> QED
      BY <1>q, <1>u, <3>1, <3>2
  <2> QED
    BY <1>2, <2>1, <2>2, <2>3, <2>4, <2>5 DEF HandlerStep
<1>3. CASE CommandStep
  <2>1. CASE NewSession
    BY <2>1, NewSessionResults
  <2>2. CASE SwitchOpens
    BY <2>2, SwitchResults
  <2>3. CASE SwitchRestores
    <3>1. /\ UNCHANGED <<stored, current>> /\ command' = NoCommand
          /\ SameRun /\ SameEvents /\ SameHandler
      BY <2>3, SwitchRestoresDoes
    <3>2. command'.pc = "none"
      BY <3>1 DEF NoCommand, Data, JobData
    <3> QED
      BY <1>q, <1>u, <3>1, <3>2
  <2>4. CASE CompactStarts
    <3>1. /\ UNCHANGED <<agent, session, stored, current>>
          /\ command' = [command EXCEPT !.pc = "compacting"]
      BY <2>4 DEF CompactStarts
    <3>2. command'.pc = "compacting"
      BY <3>1 DEF Data, JobData
    <3> QED
      BY <1>q, <1>u, <3>1, <3>2
  <2> QED
    BY <1>3, <2>1, <2>2, <2>3, <2>4 DEF CommandStep
<1>4. CASE TimerStep
  <2>1. ASSUME NEW k \in {"retry", "resume"}, Continue(k) PROVE ResultsInv'
    <3>1. /\ UNCHANGED <<stored, current, command>>
          /\ \/ UNCHANGED <<agent, clock, session>>
             \/ /\ ~Streaming
                /\ agent'.phase = "llm" /\ agent'.asked = clock /\ clock' = clock + 1
                /\ \E ms \in Seq(Inputs), q \in Seq(Inputs) : Says(ms, q, Spoken(ms))
      BY <2>1, ContinueSays
    <3>2. CASE UNCHANGED <<agent, clock, session>>
      BY <1>q, <1>u, <3>1, <3>2
    <3> QED
      BY <1>r, <3>1, <3>2
  <2> QED
    BY <1>4, <2>1 DEF TimerStep
<1>5. CASE HostStep
  <2>1. ASSUME NEW p \in Prompts, PromptQueues(p) PROVE ResultsInv'
    <3>1. /\ UNCHANGED <<stored, current, command>>
          /\ SameRun /\ SameEvents /\ SameLink /\ SameHandler
      BY <2>1, PromptQueuesDoes DEF PromptQueues
    <3> QED
      BY <1>q, <1>u, <3>1
  <2>2. ASSUME NEW p \in Prompts, PromptStarts(p) PROVE ResultsInv'
    BY <2>2, FlushResults
  <2>3. ASSUME NEW name \in Commands, CommandStarts(name) PROVE ResultsInv'
    BY <2>3, StartedResults
  <2>4. CASE RecordBash
    <3> DEFINE m == Message("bash", clock, "none")
    <3>1. /\ UNCHANGED <<current, command>> /\ clock' = clock + 1 /\ InputTurn
          /\ \/ UNCHANGED <<agent, stored>> /\ SameEvents /\ SameLink /\ SameHandler
             \/ Records(m)
      BY <2>4, RecordBashDoes DEF RecordBash
    <3>2. m \in Messages /\ m.role \in {"bash", "custom"}
      BY <1>c DEF Message, Messages, Roles, Kinds
    <3> HIDE DEF m
    <3>3. CASE UNCHANGED <<agent, stored>> /\ SameEvents /\ SameLink /\ SameHandler
      BY <1>q, <1>u, <3>1, <3>3
    <3>4. CASE Records(m)
      BY <1>m, <3>1, <3>2, <3>4
    <3> QED
      BY <3>1, <3>3, <3>4
  <2>5. CASE SendCustom
    <3> DEFINE m == Message("custom", clock, "none")
    <3>1. /\ UNCHANGED <<current, command>> /\ clock' = clock + 1 /\ InputTurn
          /\ \/ UNCHANGED <<agent, stored>> /\ SameEvents /\ SameLink /\ SameHandler
             \/ UNCHANGED <<session, stored>> /\ SameRun
             \/ Records(m)
      BY <2>5, SendCustomDoes DEF SendCustom
    <3>2. m \in Messages /\ m.role \in {"bash", "custom"}
      BY <1>c DEF Message, Messages, Roles, Kinds
    <3> HIDE DEF m
    <3>3. CASE UNCHANGED <<agent, stored>> /\ SameEvents /\ SameLink /\ SameHandler
      BY <1>q, <1>u, <3>1, <3>3
    <3>4. CASE UNCHANGED <<session, stored>> /\ SameRun
      BY <1>q, <1>u, <3>1, <3>4
    <3>5. CASE Records(m)
      BY <1>m, <3>1, <3>2, <3>5
    <3> QED
      BY <3>1, <3>3, <3>4, <3>5
  <2>6. CASE EscapeBackoff
    <3>1. /\ UNCHANGED <<agent, stored, current, command>> /\ SameEvents /\ SameLink
          /\ session.handler = "backoff"
      BY <2>6, EscapeBackoffDoes
    <3> QED
      BY <1>q, <1>u, <3>1
  <2>7. CASE EscapeRun
    <3>1. /\ UNCHANGED <<stored, current, command>> /\ SameRun
          /\ SameEvents /\ SameLink /\ SameHandler
      BY <2>7, EscapeRunDoes
    <3> QED
      BY <1>q, <1>u, <3>1
  <2>8. CASE NavigateTree
    <3>1. /\ UNCHANGED <<session, current, command, clock>> /\ command.pc = "none" /\ SameRun
          /\ \E i \in 0..(Len(path) - 1) : stored' = [stored EXCEPT ![current] = SubSeq(path, 1, i)]
      BY <2>8, NavigateTreeDoes
    <3>2. PICK i \in 0..(Len(path) - 1) : stored' = [stored EXCEPT ![current] = SubSeq(path, 1, i)]
      BY <3>1
    <3>3. i \in 0..Len(path) /\ current' \in Files /\ current' = current
      <4>1. path \in Seq(Messages) /\ current \in Files
        BY ResultSets
      <4> QED
        BY <3>1, <4>1
    <3>4. stored' = [stored EXCEPT ![current'] = SubSeq(path, 1, i)]
      BY <3>2, <3>3
    <3>5. SameEvents /\ SameHandler /\ clock' = clock /\ command'.pc # "idle"
      BY <1>q, <3>1
    <3> QED
      BY <3>1, <3>3, <3>4, <3>5, BranchResults
  <2>9. CASE Fork
    <3>1. /\ UNCHANGED <<command, clock>> /\ command.pc = "none" /\ SameRun
          /\ SameEvents /\ SameHandler /\ current' \in Unused
          /\ \E i \in 1..Len(path) : stored' = [stored EXCEPT ![current'] = SubSeq(path, 1, i - 1)]
      BY <2>9, ForkDoes
    <3>2. PICK i \in 1..Len(path) : stored' = [stored EXCEPT ![current'] = SubSeq(path, 1, i - 1)]
      BY <3>1
    <3>3. i - 1 \in 0..Len(path)
      <4>1. path \in Seq(Messages)
        BY ResultSets
      <4> QED
        BY <4>1
    <3>4. current' \in Files /\ clock' = clock /\ command'.pc # "idle"
      BY <3>1 DEF Unused
    <3> QED
      BY <3>1, <3>2, <3>3, <3>4, BranchResults
  <2> QED
    BY <1>5, <2>1, <2>2, <2>3, <2>4, <2>5, <2>6, <2>7, <2>8, <2>9 DEF HostStep
<1>6. ASSUME NEW o \in Owners, JobStep(o) PROVE ResultsInv'
  <2>1. CASE JobAsks(o)
    <3>1. UNCHANGED <<agent, session, stored, current, command>>
      BY <2>1 DEF JobAsks
    <3> QED
      BY <1>q, <1>u, <3>1
  <2>2. CASE JobFails(o)
    <3>1. UNCHANGED <<agent, stored, current>> /\ Return(o, session) /\ jobs[o].pc # "none"
      BY <2>2 DEF JobFails
    <3> QED
      BY <1>q, <1>u, <3>1, ReturnsQuietly
  <2>3. CASE JobDone(o)
    BY <2>3, CompactedResults
  <2> QED
    BY <1>6, <2>1, <2>2, <2>3 DEF JobStep
<1>7. ASSUME NEW p \in Prompts, PromptStep(p) PROVE ResultsInv'
  <2>1. CASE PromptHasNoKey(p) \/ PromptWaits(p)
    <3>1. UNCHANGED <<agent, session, stored, current, command>>
      BY <2>1 DEF PromptHasNoKey, PromptWaits
    <3> QED
      BY <1>q, <1>u, <3>1
  <2>2. CASE PromptChecks(p)
    <3>1. /\ Trims /\ SameEvents /\ SameLink /\ SameHandler
          /\ UNCHANGED <<stored, current, command>>
      BY <2>2, PromptChecksDoes DEF PromptChecks
    <3> QED
      BY <1>q, <1>u, <3>1
  <2>3. CASE PromptRuns(p)
    <3>1. /\ UNCHANGED <<stored, current, command>>
          /\ \/ UNCHANGED <<agent, clock, session>>
             \/ /\ ~Streaming
                /\ agent'.phase = "llm" /\ agent'.asked = clock /\ clock' = clock + 1
                /\ \E ms \in Seq(Inputs), q \in Seq(Inputs) : Says(ms, q, Spoken(ms))
      BY <2>3, PromptSays
    <3>2. CASE UNCHANGED <<agent, clock, session>>
      BY <1>q, <1>u, <3>1, <3>2
    <3> QED
      BY <1>r, <3>1, <3>2
  <2> QED
    BY <1>7, <2>1, <2>2, <2>3 DEF PromptStep
<1>8. CASE UNCHANGED vars
  <2>1. UNCHANGED <<agent, session, stored, current, command>>
    BY <1>8 DEF vars
  <2> QED
    BY <1>q, <1>u, <2>1
<1> QED
  BY <1>1, <1>2, <1>3, <1>4, <1>5, <1>6, <1>7, <1>8 DEF Next

LEMMA InitResults == Init => ResultsInv
<1> SUFFICES ASSUME Init PROVE ResultsInv
  OBVIOUS
<1>1. PICK none \in Seq(Messages) : none = <<>>
  BY EmptySeq, Zenon
<1>2. PICK ev \in Seq(Events) : ev = <<>>
  BY EmptySeq, Zenon
<1>3. /\ session.events = ev /\ agent.phase = "idle" /\ agent.asked = 0 /\ clock = 1
      /\ session.handler = "ready" /\ command.pc = "none"
      /\ stored = [f \in Files |-> none] /\ current \in Files
  BY <1>1, <1>2, FilesAssumption DEF Init
<1>4. ToSet(none) = {} /\ CallsOf(ToSet(none)) = {} /\ RefsOf(ToSet(none)) = {} /\ none \o none = none
  <2>1. ToSet(none) = {}
    BY <1>1, ElementsOfNone
  <2> QED
    BY <1>1, <2>1, CallsAndRefs
<1>5. EndedIn(ev) = none
  <2>1. \A i \in 1..Len(ev) : ev[i].type # "end"
    BY <1>2
  <2> QED
    BY <1>1, <2>1, EndedNone
<1>6. Due = none /\ Coming = none
  BY <1>1, <1>3, <1>4, <1>5 DEF Due, Coming
<1>7. Kept = {} /\ path = none
  BY <1>3, <1>4 DEF Kept, path
<1>8. Follows(none) /\ Follows(none \o none)
  BY <1>4, FollowsUncalled
<1>9. Ordered
  BY <1>3, <1>6, <1>7, <1>8 DEF Ordered
<1>10. Over(session.events, Kept, ToSet(Due))
  BY <1>2, <1>3 DEF Over
<1>11. Paused /\ Parted
  BY <1>3 DEF Paused, Parted
<1>12. Fresh
  <2>1. CallsOf({}) = {} /\ RefsOf({}) = {}
    BY <1>4
  <2>2. Kept \cup ToSet(Coming) = {}
    BY <1>4, <1>6, <1>7
  <2>3. CallsOf(Kept \cup ToSet(Coming)) = {} /\ RefsOf(Kept \cup ToSet(Coming)) = {}
    BY <2>1, <2>2
  <2>4. RefsOf(Kept) = {}
    BY <1>7, <2>1
  <2>5. agent.phase # "llm" /\ agent.asked < clock
    BY <1>3
  <2> QED
    BY <2>3, <2>4, <2>5 DEF Fresh
<1> QED
  BY <1>9, <1>10, <1>11, <1>12 DEF ResultsInv

\* In every reachable state a tool result directly follows the answer that called the tool
\* in the context that is sent: what is recorded, compacted, branched or opened while results
\* are on their way never comes between the two (agent-session.ts recordBashResult,
\* _handleAgentEvent, switchSession, navigateTree, fork).
THEOREM ResultsFollowTheCalls == Spec => []ResultsFollowCalls
<1>1. Init => Inv /\ Data /\ ResultsInv
  BY InitInv, InitData, InitResults
<1>2. (Inv /\ Data /\ ResultsInv) /\ [Next]_vars => (Inv /\ Data /\ ResultsInv)'
  BY NextInv, NextData, NextResults
<1>3. Inv /\ Data /\ ResultsInv => ResultsFollowCalls
  BY ResultsHold
<1> QED
  BY <1>1, <1>2, <1>3, PTL DEF Spec
=============================================================================
