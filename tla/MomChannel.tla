------------------------------- MODULE MomChannel ------------------------------
(***************************************************************************)
(* A channel of the Slack bot (packages/mom/src): messages are logged to   *)
(* log.jsonl as they come in (slack.ts), one run of the agent at a time    *)
(* answers them (ChannelQueue, handleEvent of main.ts), and before a run   *)
(* what the log has and the context has not is added to the context        *)
(* (syncLogToSessionManager of context.ts). The bot may go down at any     *)
(* time; then it has log.jsonl, the context file, and what Slack gives it  *)
(* when it asks for the history (backfillChannel) or delivers late.        *)
(*                                                                         *)
(* The log knows a message by its Slack timestamp, the context by its text *)
(* with the name of the author before it. A member of Texts is what one    *)
(* author says, and may be said again. The name is the author's if the bot *)
(* has it; if the author has joined since the start, the log has the user  *)
(* id instead, and the prompt has "unknown". A stop is logged like         *)
(* chatter; that it ends a run shows as a run that ends. The session file  *)
(* is that of the module SessionManager: nothing is written before the     *)
(* first answer.                                                           *)
(***************************************************************************)
EXTENDS Naturals, FiniteSets, Sequences

CONSTANTS
  Texts,       \* what is said, and by whom
  MaxMessages, \* bound on the timestamps Slack hands out
  MaxLostAcks, \* bound on the deliveries Slack repeats
  MaxCrashes,  \* bound on the restarts of the bot
  QueueLimit   \* how many events wait at most; the code has 5

VARIABLES
  posted,   \* what Slack has of the channel
  inbox,    \* the messages the socket has still to deliver
  up,       \* the bot: "down", or how far start() is
  startup,  \* startupTs, 0 for null
  known,    \* what is said by the users the bot has fetched
  log,      \* log.jsonl: which message was logged under which name
  context,  \* the user messages of the SessionManager, and whether there is an answer
  file,     \* context.jsonl
  run,      \* handleEvent: where it is, for which message
  waiting,  \* the events in the queue of the channel
  lostAcks, \* how much of MaxLostAcks is used
  crashes,  \* how much of MaxCrashes is used
  answered, \* history: what was logged when a run that was answered read the log
  repeated  \* history: messages a run was started for that had been logged before

vars == <<posted, inbox, up, startup, known, log, context, file, run, waiting, lostAcks, crashes,
          answered, repeated>>

Stamps == 1..MaxMessages
\* Somebody asks the bot or chats, or the bot posts.
Message(kind, text) == [kind |-> kind, text |-> text]
Human(t) == posted[t].kind # "bot"
Text(t) == posted[t].text

LogNames == {"name", "id"}
Authors == LogNames \cup {"unknown"}
LogName(x) == IF x \in known THEN "name" ELSE "id"
PromptName(x) == IF x \in known THEN "name" ELSE "unknown"

NoContext == [of |-> [x \in Texts |-> [n \in Authors |-> 0]], answer |-> FALSE]
Add(c, x, n) == [c EXCEPT !.of[x][n] = @ + 1]

\* An event is no message of the channel.
Event == 0
NoRun == [pc |-> "idle", ts |-> Event, logged |-> {}]
Logged(lines) == {line[1] : line \in lines}

Init ==
  /\ posted = <<>> /\ inbox = {}
  /\ up = "up" /\ startup = 0 /\ known \in SUBSET Texts
  /\ log = {} /\ context = NoContext /\ file = NoContext
  /\ run = NoRun /\ waiting = 0
  /\ lostAcks = 0 /\ crashes = 0 /\ answered = {} /\ repeated = {}

\* Somebody posts a message.
Post(kind, x) ==
  /\ Len(posted) < MaxMessages
  /\ posted' = Append(posted, Message(kind, x))
  /\ inbox' = inbox \cup {Len(posted) + 1}
  /\ UNCHANGED <<up, startup, known, log, context, file, run, waiting, lostAcks, crashes,
                 answered, repeated>>

Begin(t) == run' = [pc |-> "typing", ts |-> t, logged |-> {}]

\* The handlers of "app_mention" and "message": every message is logged, one for the bot
\* that is not older than startupTs starts a run, unless one is under way. Slack delivers it
\* again when the acknowledgement is lost, and nothing tells.
Deliver(t) ==
  /\ up \in {"connecting", "up"} /\ t \in inbox
  /\ \/ inbox' = inbox \ {t} /\ UNCHANGED lostAcks
     \/ lostAcks < MaxLostAcks /\ lostAcks' = lostAcks + 1 /\ UNCHANGED inbox
  /\ log' = log \cup {<<t, LogName(Text(t))>>}
  /\ IF posted[t].kind = "ask" /\ t > startup /\ run.pc = "idle"
     THEN /\ Begin(t)
          /\ repeated' = IF t \in Logged(log) THEN repeated \cup {t} ELSE repeated
     ELSE UNCHANGED <<run, repeated>>
  /\ UNCHANGED <<posted, up, startup, known, context, file, waiting, crashes, answered>>

\* enqueueEvent: an event always queues, unless the queue is full. The watcher is started
\* before the bot.
EnqueueEvent ==
  /\ up # "down"
  /\ IF run.pc = "idle" THEN Begin(Event) /\ UNCHANGED waiting
     ELSE /\ waiting < QueueLimit
          /\ waiting' = waiting + 1
          /\ UNCHANGED run
  /\ UNCHANGED <<posted, inbox, up, startup, known, log, context, file, lostAcks, crashes,
                 answered, repeated>>

\* Faulty variant: the message that is answered is not left out.
Missing_Current(x, n) ==
  /\ context.of[x][n] = 0
  /\ \E t \in Logged(log) : <<t, n>> \in log /\ Human(t) /\ Text(t) = x
\* Faulty variant: what came before this start is taken to be there.
Missing_SinceStartup(x, n) ==
  /\ context.of[x][n] = 0
  /\ \E t \in Logged(log) :
       t # run.ts /\ t > startup /\ <<t, n>> \in log /\ Human(t) /\ Text(t) = x
\* The log has this text under this name, in a message other than the one that is about to
\* be prompted, and the context has not.
Missing(x, n) ==
  /\ context.of[x][n] = 0
  /\ \E t \in Logged(log) : t # run.ts /\ <<t, n>> \in log /\ Human(t) /\ Text(t) = x

\* The file is written from the first answer on.
Written(c) == IF c.answer THEN c ELSE file
Extend(c) == context' = c /\ file' = Written(c)

\* However often it was said, it is added once.
Synced(x, n) == IF Missing(x, n) THEN 1 ELSE context.of[x][n]

\* run(): the log is synced after the status message is posted.
RunSyncs ==
  /\ run.pc = "typing"
  /\ Extend([context EXCEPT !.of = [x \in Texts |-> [n \in Authors |-> Synced(x, n)]]])
  /\ run' = [run EXCEPT !.pc = "prompting", !.logged = Logged(log)]
  /\ UNCHANGED <<posted, inbox, up, startup, known, log, waiting, lostAcks, crashes, answered,
                 repeated>>

\* session.prompt(), after the debug file is written.
RunPrompts ==
  /\ run.pc = "prompting"
  /\ Extend(IF run.ts = Event THEN context
            ELSE Add(context, Text(run.ts), PromptName(Text(run.ts))))
  /\ run' = [run EXCEPT !.pc = "answering"]
  /\ UNCHANGED <<posted, inbox, up, startup, known, log, waiting, lostAcks, crashes, answered,
                 repeated>>

\* The run has ended, the next event starts.
Proceed ==
  IF waiting > 0
  THEN /\ waiting' = waiting - 1
       /\ Begin(Event)
  ELSE run' = NoRun /\ UNCHANGED waiting

\* The model answers; the answer is posted and logged, unless it is [SILENT].
RunAnswers ==
  /\ run.pc = "answering"
  /\ Extend([context EXCEPT !.answer = TRUE])
  /\ answered' = answered \cup run.logged
  /\ \/ /\ Len(posted) < MaxMessages
        /\ posted' = Append(posted, Message("bot", CHOOSE x \in Texts : TRUE))
        /\ log' = log \cup {<<Len(posted) + 1, "name">>}
     \/ UNCHANGED <<posted, log>>
  /\ Proceed
  /\ UNCHANGED <<inbox, up, startup, known, lostAcks, crashes, repeated>>

\* The run throws: there is no key, a file cannot be read.
RunFails ==
  /\ run.pc \in {"typing", "prompting"}
  /\ Proceed
  /\ UNCHANGED <<posted, inbox, up, startup, known, log, context, file, lostAcks, crashes,
                 answered, repeated>>

Crash ==
  /\ up # "down" /\ crashes < MaxCrashes
  /\ up' = "down"
  /\ crashes' = crashes + 1
  /\ run' = NoRun /\ waiting' = 0 /\ context' = NoContext
  /\ UNCHANGED <<posted, inbox, startup, known, log, file, lostAcks, answered, repeated>>

\* start(), up to the list of users: everybody who has posted is on it, and who else has
\* joined.
Launch ==
  /\ up = "down"
  /\ up' = "fetching" /\ startup' = 0
  /\ \E joined \in SUBSET Texts :
       known' = known \cup {Text(t) : t \in 1..Len(posted)} \cup joined
  /\ context' = file
  /\ UNCHANGED <<posted, inbox, log, file, run, waiting, lostAcks, crashes, answered, repeated>>

\* backfillAllChannels: what is newer than the newest message in the log is logged, unless
\* Slack fails; then the socket is opened.
Backfill ==
  /\ up = "fetching"
  /\ up' = "connecting"
  /\ \/ log' = log \cup {<<t, IF Human(t) THEN LogName(Text(t)) ELSE "name">> :
                          t \in {s \in 1..Len(posted) : /\ Logged(log) # {}
                                                        /\ \A l \in Logged(log) : s > l}}
     \/ UNCHANGED log
  /\ UNCHANGED <<posted, inbox, startup, known, context, file, run, waiting, lostAcks, crashes,
                 answered, repeated>>

\* The socket is open: from now on messages up to now are only logged.
RecordStartup ==
  /\ up = "connecting"
  /\ up' = "up" /\ startup' = Len(posted)
  /\ UNCHANGED <<posted, inbox, known, log, context, file, run, waiting, lostAcks, crashes,
                 answered, repeated>>

\* Slack gives up on a message it could not deliver.
Undeliverable(t) ==
  /\ up \notin {"connecting", "up"} /\ t \in inbox
  /\ inbox' = inbox \ {t}
  /\ UNCHANGED <<posted, up, startup, known, log, context, file, run, waiting, lostAcks, crashes,
                 answered, repeated>>

Next ==
  \/ \E kind \in {"ask", "chatter"}, x \in Texts : Post(kind, x)
  \/ \E t \in inbox : Deliver(t) \/ Undeliverable(t)
  \/ EnqueueEvent \/ RunSyncs \/ RunPrompts \/ RunAnswers \/ RunFails
  \/ Crash \/ Launch \/ Backfill \/ RecordStartup
Spec == Init /\ [][Next]_vars

-----------------------------------------------------------------------------
(* Properties.                                                             *)

\* A text is in the context, under a name the log has for it, no more often than it was said:
\* prompted, synced, backfilled or delivered again, no message is there twice (context.ts:115,
\* "Skip if this exact message text is already in context"). Excepted are texts a run was
\* started for when they had been logged before: a message Slack delivers again to a bot that
\* runs, or that was backfilled and is delivered before startupTs is set, is prompted again.
\* A message of an author who has joined since the start is prompted as "unknown" and synced
\* by id besides.
EachMessageOnce ==
  \A x \in Texts \ {Text(t) : t \in repeated}, n \in LogNames :
    context.of[x][n]
      <= Cardinality({t \in 1..Len(posted) : <<t, n>> \in log /\ Human(t) /\ Text(t) = x})

\* What was logged when a run that was answered read the log has been told to the model for
\* good, over restarts: the chatter, the messages that came while the bot was busy or down
\* (context.ts:34, "messages logged while mom wasn't running"). It is there as what was
\* said, not as often as it was said: a text that an author repeats is not synced again.
NothingMissed ==
  \A t \in answered : Human(t) => \E n \in Authors : file.of[Text(t)][n] # 0
=============================================================================
