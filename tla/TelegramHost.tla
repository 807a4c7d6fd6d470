------------------------------ MODULE TelegramHost ------------------------------
(***************************************************************************)
(* The process that hosts the Telegram bot: the manager that follows the   *)
(* server settings (src/service/telegram_manager.ts) and the adapters it   *)
(* makes, each with a loop that polls Telegram                             *)
(* (src/channels/telegram/telegram_adapter.ts).  Telegram keeps an update  *)
(* until a poll asks for a later one.  All updates here are of one chat.   *)
(***************************************************************************)
EXTENDS Naturals, FiniteSets, Sequences, SequencesExt

CONSTANTS
  Tokens,        \* bot tokens the settings may hold
  MaxTokens,     \* bounds of the model: times the settings are saved,
  MaxUpdates,    \* updates, and polls or downloads that fail
  MaxPollFaults

ASSUME TelegramAssumption ==
  MaxTokens \in Nat /\ MaxUpdates \in Nat /\ MaxPollFaults \in Nat /\ "off" \notin Tokens

VARIABLES
  botToken,      \* server settings: the token, "off" when the bot is
  toApply,       \* settings waiting to be applied, in order
  runningToken, adapter,   \* the manager's
  stopping,      \* the adapter whose end applyNow() awaits, 0 if none
  loop,          \* of each adapter: "none", "top", "me", "poll", "asked",
                 \* "aborted", "backoff", "done"
  named,         \* of each adapter: it knows its bot
  running,       \* of each adapter: the flag its loop reads
  offset,        \* of each adapter
  asking,        \* of each adapter: the offset its poll was sent with
  downloading,   \* of each adapter: updates whose file is being downloaded
  handed,        \* of each adapter: updates handed to the bridge, in order
  updates,       \* at Telegram: each update, TRUE when it has a file
  confirmed,     \* at Telegram: updates up to this one are forgotten
  tokenSaves, pollFaults

telegramVars == <<botToken, toApply, runningToken, adapter, stopping, loop, named, running, offset, asking,
                  downloading, handed, updates, confirmed, tokenSaves, pollFaults>>

Adapters == 1..MaxTokens + 1
managerVars == <<botToken, toApply, runningToken, adapter, stopping, tokenSaves>>
restVars == <<updates, confirmed, pollFaults>>

TelegramInit ==
  /\ botToken = "off" /\ toApply = <<>> /\ runningToken = "off" /\ adapter = 0 /\ stopping = 0
  /\ loop = [i \in Adapters |-> "none"] /\ named = [i \in Adapters |-> FALSE] /\ running = [i \in Adapters |-> FALSE]
  /\ offset = [i \in Adapters |-> 0] /\ asking = [i \in Adapters |-> 0]
  /\ downloading = [i \in Adapters |-> {}] /\ handed = [i \in Adapters |-> <<>>]
  /\ updates = <<>> /\ confirmed = 0 /\ tokenSaves = 0 /\ pollFaults = 0

-----------------------------------------------------------------------------
\* The manager.
SaveToken(t) ==
  /\ tokenSaves < MaxTokens /\ tokenSaves' = tokenSaves + 1 /\ t # botToken
  /\ botToken' = t /\ toApply' = Append(toApply, t)
  /\ UNCHANGED <<runningToken, adapter, stopping, loop, named, running, offset, asking, downloading, handed, restVars>>

Idle == stopping = 0 /\ toApply # <<>>
Made == Cardinality({i \in Adapters : loop[i] # "none"})

\* applyNow(): nothing to do; or the bot is stopped first; or started.
ApplySame ==
  /\ Idle /\ Head(toApply) = runningToken /\ toApply' = Tail(toApply)
  /\ UNCHANGED <<botToken, runningToken, adapter, stopping, tokenSaves, loop, named, running, offset, asking, downloading, handed, restVars>>
ApplyStop ==
  /\ Idle /\ Head(toApply) # runningToken /\ adapter # 0
  /\ loop[adapter] \notin {"top", "poll"}   \* where the loop does not wait
  /\ stopping' = adapter /\ adapter' = 0 /\ runningToken' = "off"
  /\ running' = [running EXCEPT ![adapter] = FALSE]
  /\ loop' = [loop EXCEPT ![adapter] = IF @ = "asked" THEN "aborted" ELSE @]
  /\ UNCHANGED <<botToken, toApply, tokenSaves, named, offset, asking, downloading, handed, restVars>>
ApplyStart ==
  /\ Idle /\ Head(toApply) \notin {runningToken, "off"} /\ adapter = 0 /\ Made < MaxTokens + 1
  /\ toApply' = Tail(toApply) /\ runningToken' = Head(toApply) /\ adapter' = Made + 1
  /\ loop' = [loop EXCEPT ![Made + 1] = "top"] /\ running' = [running EXCEPT ![Made + 1] = TRUE]
  /\ UNCHANGED <<botToken, stopping, tokenSaves, named, offset, asking, downloading, handed, restVars>>

\* Faulty variant, for mutation checks: the manager goes on at once.
StoppedAtOnce == stopping # 0

\* stop() has awaited the end of the loop.
StopReturns == stopping # 0 /\ loop[stopping] = "done"

Stopped ==
  /\ StopReturns /\ stopping' = 0
  /\ UNCHANGED <<botToken, toApply, runningToken, adapter, tokenSaves, loop, named, running, offset, asking, downloading, handed, restVars>>

-----------------------------------------------------------------------------
\* The loop of adapter i.
Goes(i, to) == loop' = [loop EXCEPT ![i] = to]
Looping(i) == UNCHANGED <<managerVars, running>>

\* while (this.running): a stop during getMe is seen after the next poll only.
Top(i) ==
  /\ loop[i] = "top" /\ Goes(i, IF ~running[i] THEN "done" ELSE IF named[i] THEN "poll" ELSE "me")
  /\ Looping(i) /\ UNCHANGED <<named, offset, asking, downloading, handed, restVars>>
\* getMe and deleteWebhook.
GetMe(i) ==
  /\ loop[i] = "me" /\ Goes(i, "poll") /\ named' = [named EXCEPT ![i] = TRUE]
  /\ Looping(i) /\ UNCHANGED <<offset, asking, downloading, handed, restVars>>
\* getUpdates: Telegram forgets the updates before the offset.
Ask(i) ==
  /\ loop[i] = "poll" /\ Goes(i, "asked") /\ asking' = [asking EXCEPT ![i] = offset[i]]
  /\ confirmed' = (IF offset[i] > confirmed + 1 THEN offset[i] - 1 ELSE confirmed)
  /\ Looping(i) /\ UNCHANGED <<named, offset, downloading, handed, updates, pollFaults>>

\* Faulty variant, for mutation checks: the next poll starts after the updates
\* Telegram has by now.
OffsetOfNow(i, last) == Len(updates) + 1

\* The next poll starts after the updates that have come.
OffsetAfter(i, last) == IF last + 1 > offset[i] THEN last + 1 ELSE offset[i]

\* Some updates, oldest first.
InOrder(S) ==
  CHOOSE s \in [1..Cardinality(S) -> S] : ToSet(s) = S /\ \A j, k \in DOMAIN s : j < k => s[j] < s[k]

\* The updates that wait, up to one of them, are dispatched one after another:
\* one with a file downloads it first, and the next does not wait for that.
GotUpdates(i) ==
  /\ loop[i] = "asked"
  /\ \E last \in confirmed..Len(updates) :
       LET got == {n \in confirmed + 1..last : n >= asking[i]} IN
       /\ offset' = [offset EXCEPT ![i] = IF got = {} THEN @ ELSE OffsetAfter(i, last)]
       /\ downloading' = [downloading EXCEPT ![i] = @ \union {n \in got : updates[n]}]
       /\ handed' = [handed EXCEPT ![i] = @ \o InOrder({n \in got : ~updates[n]})]
  /\ Goes(i, "top") /\ Looping(i) /\ UNCHANGED <<named, asking, restVars>>
PollFails(i) ==
  /\ loop[i] \in {"me", "asked"} /\ pollFaults < MaxPollFaults /\ pollFaults' = pollFaults + 1
  /\ Goes(i, IF running[i] THEN "backoff" ELSE "done")
  /\ Looping(i) /\ UNCHANGED <<named, offset, asking, downloading, handed, updates, confirmed>>
Aborted(i) ==
  /\ loop[i] = "aborted" /\ Goes(i, "done")
  /\ Looping(i) /\ UNCHANGED <<named, offset, asking, downloading, handed, restVars>>
BackOff(i) ==
  /\ loop[i] = "backoff" /\ Goes(i, "top")
  /\ Looping(i) /\ UNCHANGED <<named, offset, asking, downloading, handed, restVars>>
Unauthorized(i) ==
  /\ loop[i] = "me" /\ running[i] /\ pollFaults < MaxPollFaults /\ pollFaults' = pollFaults + 1
  /\ running' = [running EXCEPT ![i] = FALSE] /\ Goes(i, "done")
  /\ UNCHANGED <<managerVars, named, offset, asking, downloading, handed, updates, confirmed>>

\* download(): the update goes to the bridge when its file has come.
Download(i, n) ==
  /\ n \in downloading[i] /\ downloading' = [downloading EXCEPT ![i] = @ \ {n}]
  /\ \/ handed' = [handed EXCEPT ![i] = Append(@, n)] /\ UNCHANGED pollFaults
     \/ /\ pollFaults < MaxPollFaults /\ pollFaults' = pollFaults + 1 /\ UNCHANGED handed
  /\ UNCHANGED <<managerVars, loop, named, running, offset, asking, updates, confirmed>>

\* Telegram gets a message.
NewUpdate(file) ==
  /\ Len(updates) < MaxUpdates /\ updates' = Append(updates, file)
  /\ UNCHANGED <<managerVars, loop, named, running, offset, asking, downloading, handed, confirmed, pollFaults>>

TelegramNext ==
  \/ \E t \in Tokens \union {"off"} : SaveToken(t)
  \/ ApplySame \/ ApplyStop \/ ApplyStart \/ Stopped
  \/ \E i \in Adapters : \/ Top(i) \/ GetMe(i) \/ Ask(i) \/ GotUpdates(i) \/ PollFails(i) \/ Aborted(i) \/ BackOff(i)
                         \/ Unauthorized(i)
                         \/ \E n \in 1..Len(updates) : Download(i, n)
  \/ \E file \in BOOLEAN : NewUpdate(file)

TelegramSpec == TelegramInit /\ [][TelegramNext]_telegramVars

-----------------------------------------------------------------------------
\* Never two loops poll Telegram at once, however fast the settings change; and
\* an update Telegram has forgotten was dispatched by one of them.
PollingIsSafe ==
  /\ Cardinality({i \in Adapters : loop[i] \notin {"none", "done"}}) <= 1
  /\ \A n \in 1..confirmed : \E i \in Adapters : offset[i] > n
  /\ \A i \in Adapters : \A n \in 1..Len(updates) :
       n < offset[i] /\ pollFaults = 0 =>
         \E j \in Adapters : n \in downloading[j] \/ \E k \in DOMAIN handed[j] : handed[j][k] = n

\* The messages of a chat are handed to the bridge in the order they were sent.
HandedInOrder ==
  \A i \in Adapters : \A j \in DOMAIN handed[i], k \in DOMAIN handed[i] : j < k => handed[i][j] < handed[i][k]
=============================================================================
