---------------------------- MODULE TelegramBot ----------------------------
(***************************************************************************)
(* The Telegram channel: the poller and its update offset, the handlers    *)
(* that turn updates into job rows, albums collected over a quiet window   *)
(* and made into one batch, the notices that tell a chat how its jobs      *)
(* ended, stop(), crashes and restarts. The ingest queue is seen through   *)
(* what the bot reads of a row: open, or finished and how.                  *)
(*                                                                         *)
(* The handler awaits a download and the hash of the file, a batch awaits  *)
(* the hash of each of its members: the quiet timers, the queue, the user  *)
(* at the dashboard and stop() take their turns in between.                *)
(***************************************************************************)
EXTENDS Integers, FiniteSets

CONSTANTS N,        \* updates 1..N, in the order of their ids
          Groups,   \* albums (a media_group_id each)
          None,     \* the album of an update that belongs to none
          Lives,    \* how often the service is started
          MaxEvents \* how often the network fails or somebody takes a row in hand

Updates == 1..N

Finished == {"done", "failed", "duplicate", "cancelled"}
Tellable == {"done", "failed", "duplicate"}
Statuses == {"none", "open"} \cup Finished

ASSUME BotAssumption ==
  /\ N \in Nat /\ Lives \in Nat \ {0} /\ MaxEvents \in Nat
  /\ None \notin Groups

VARIABLES
  album,      \* of each update, as it was sent
  confirmed,  \* updates up to this one are never delivered again
  life,
  bot,        \* "on", stop() in "stopping" and "flushing", "down", "off"
  poller,     \* "looping", "asking", "backoff", "handling", "ended", "refused"
  offset,     \* the next update the poller asks for
  last,       \* the last update of the answer it works on
  events,
  settled,    \* updates answered without a row, or of an earlier life: with a row, or lost
  buffer,     \* per album: the members collected so far; their timer runs
  staging,    \* per first member: what enqueueBatch still has to make a row of
  awaited,    \* the batch stop() waits for, or 0
  status,     \* of the row an update was made in this life, or "none"
  lead,       \* of each row: the first member of its batch, or itself
  unstaged,   \* rows whose file could not be read or staged
  loaded,     \* rows a batch unit of the queue has had
  pending,    \* rows with a notice timer
  notified,   \* notifiedBatches
  told,       \* rows whose present outcome the chat was told
  unsent,     \* rows whose outcome was sent twice in vain, and is not sent again
  late        \* rows made or run again after the one notice of their batch

telegram == <<album, confirmed>>
polling == <<poller, offset, last>>
albums == <<buffer, staging, awaited>>
rows == <<status, lead, unstaged, loaded>>
notices == <<pending, notified, told, unsent, late>>
vars == <<telegram, life, events, bot, polling, settled, albums, rows, notices>>

Handled == offset - 1           \* the update in hand
InBuffers == UNION {buffer[g] : g \in Groups}
WithRow == {u \in Updates : status[u] # "none"}
InStaging == UNION {staging[u] : u \in Updates}
Up == bot # "off"
Event == events < MaxEvents /\ events' = events + 1
Single(r) == album[r] = None
Members(b) == {r \in Updates : status[r] # "none" /\ lead[r] = b}

Init ==
  /\ album \in [Updates -> Groups \cup {None}] /\ confirmed = 0 /\ life = 1 /\ bot = "on"
  /\ poller = "looping" /\ offset = 1 /\ last = 0 /\ events = 0
  /\ settled = {}
  /\ buffer = [g \in Groups |-> {}] /\ staging = [u \in Updates |-> {}] /\ awaited = 0
  /\ status = [r \in Updates |-> "none"] /\ lead = [r \in Updates |-> r]
  /\ unstaged = {} /\ loaded = {}
  /\ pending = {} /\ notified = {} /\ told = {} /\ unsent = {} /\ late = {}

-----------------------------------------------------------------------------
(***************************************************************************)
(* Telegram and the poller.                                                *)
(***************************************************************************)
\* The head of the loop: an answer is worked off before the next is asked for.
Ask ==
  /\ poller = "looping" /\ offset > last /\ bot \in {"on", "stopping"}
  /\ poller' = IF bot = "on" THEN "asking" ELSE "ended"
  /\ UNCHANGED <<telegram, life, events, bot, offset, last, settled, albums, rows, notices>>

\* getUpdates confirms what is before its offset, whether its answer arrives or not.
Confirms == confirmed' = offset - 1

Arrives ==
  /\ poller = "asking" /\ confirmed < offset - 1
  /\ Confirms
  /\ UNCHANGED <<album, life, events, bot, polling, settled, albums, rows, notices>>

Answer ==
  /\ poller = "asking" /\ bot = "on" /\ offset <= N
  /\ Confirms
  /\ last' \in offset..N
  /\ poller' = "looping"
  /\ UNCHANGED <<album, life, events, bot, offset, settled, albums, rows, notices>>

\* Mutant: any failure ends the loop.
PollFailsForGood ==
  /\ poller = "asking" /\ bot = "on" /\ Event
  /\ poller' = "ended"
  /\ UNCHANGED <<telegram, life, bot, offset, last, settled, albums, rows, notices>>

PollFails ==
  /\ poller = "asking" /\ bot = "on" /\ Event
  /\ poller' = "backoff"
  /\ UNCHANGED <<telegram, life, bot, offset, last, settled, albums, rows, notices>>

\* A second consumer of the token (409) or a revoked token (401).
PollRefused ==
  /\ poller = "asking" /\ bot = "on" /\ Event
  /\ poller' = "refused"
  /\ UNCHANGED <<telegram, life, bot, offset, last, settled, albums, rows, notices>>

\* Mutant: only the flag is set, and the loop sees it when the poll is over.
AbortedByAnswer ==
  /\ poller = "asking" /\ bot = "stopping" /\ offset <= N
  /\ poller' = "ended"
  /\ UNCHANGED <<telegram, life, events, bot, offset, last, settled, albums, rows, notices>>

\* The abort of stop() ends the long poll and wakes the sleep.
Aborted ==
  /\ poller = "asking" /\ bot = "stopping"
  /\ poller' = "ended"
  /\ UNCHANGED <<telegram, life, events, bot, offset, last, settled, albums, rows, notices>>

Wakes ==
  /\ poller = "backoff"
  /\ poller' = "looping"
  /\ UNCHANGED <<telegram, life, events, bot, offset, last, settled, albums, rows, notices>>

\* Mutant: one update more than the answer has.
TakeOneMore ==
  /\ poller = "looping" /\ offset <= last + 1
  /\ offset' = offset + 1
  /\ poller' = "handling"
  /\ UNCHANGED <<telegram, life, events, bot, last, settled, albums, rows, notices>>

\* The offset goes forward before the update is handled.
Take ==
  /\ poller = "looping" /\ offset <= last
  /\ offset' = offset + 1
  /\ poller' = "handling"
  /\ UNCHANGED <<telegram, life, events, bot, last, settled, albums, rows, notices>>

-----------------------------------------------------------------------------
(***************************************************************************)
(* Handlers and albums.                                                    *)
(***************************************************************************)
\* A stranger, a command, a file too large, a failed download or hash.
Refuse ==
  /\ poller = "handling"
  /\ poller' = "looping"
  /\ settled' = settled \cup {Handled}
  /\ UNCHANGED <<telegram, life, events, bot, offset, last, albums, rows, notices>>

Hear(r) == IF bot = "on" THEN pending \cup {r} ELSE pending

\* A row appears: it is open, or a duplicate (not announced), or could not be staged.
Create(r, b, s) ==
  /\ s \in {"open", "duplicate", "failed"}
  /\ status' = [status EXCEPT ![r] = s]
  /\ lead' = [lead EXCEPT ![r] = b]
  /\ unstaged' = IF s = "failed" THEN unstaged \cup {r} ELSE unstaged
  /\ pending' = IF s = "failed" THEN Hear(r) ELSE pending
  /\ late' = IF b \in notified THEN late \cup {r} ELSE late
  /\ UNCHANGED <<notified, told, unsent>>

Store(s) ==
  /\ poller = "handling" /\ album[Handled] = None
  /\ Create(Handled, Handled, s)
  /\ poller' = "looping"
  /\ UNCHANGED <<telegram, life, events, bot, offset, last, settled, albums, loaded>>

\* A member joins its album and winds the quiet timer up again.
Collect ==
  /\ poller = "handling" /\ album[Handled] # None
  /\ buffer' = [buffer EXCEPT ![album[Handled]] = @ \cup {Handled}]
  /\ poller' = "looping"
  /\ UNCHANGED <<telegram, life, events, bot, offset, last, settled, staging, awaited, rows, notices>>

First(S, u) == u \in S /\ \A v \in S : u <= v

\* flushAlbum: the album leaves the buffer, enqueueBatch goes through it member by member.
Flush(g, u) ==
  /\ First(buffer[g], u)
  /\ buffer' = [buffer EXCEPT ![g] = {}]
  /\ staging' = [staging EXCEPT ![u] = @ \cup buffer[g]]

QuietTimer(g, u) ==
  /\ bot \in {"on", "stopping", "flushing"}
  /\ Flush(g, u)
  /\ UNCHANGED <<telegram, life, events, bot, polling, settled, awaited, rows, notices>>

\* The batch becomes a unit when its last row was made, without the rows that failed.
StoreMember(b, u, s) ==
  /\ Up
  /\ First(staging[b], u)
  /\ Create(u, b, s)
  /\ staging' = [staging EXCEPT ![b] = @ \ {u}]
  /\ loaded' = loaded \cup
       {r \in Updates \ unstaged' :
          staging'[b] = {} /\ lead'[r] = b /\ status'[r] = "open"}
  /\ UNCHANGED <<telegram, life, events, bot, polling, settled, buffer, awaited>>

-----------------------------------------------------------------------------
(***************************************************************************)
(* The queue and the dashboard, as the bot sees them.                      *)
(***************************************************************************)
\* Mutant: the query for the next job does not leave the members of a batch out.
ClaimableAtOnce(r) == r \in WithRow

\* A job on its own is found by the query, a member of a batch is in a unit.
Claimable(r) == Single(r) \/ r \in loaded

\* Batches without a unit get one of the rows they have so far, made in full or not.
Reloads(B) ==
  loaded' = loaded \cup
    {r \in Updates : ~Single(r) /\ lead'[r] \in B /\ status'[r] = "open"}

\* Jobs held for the night are released, or the reconcile of the start is over.
Reload(B) ==
  /\ Up
  /\ Event
  /\ UNCHANGED <<telegram, life, bot, polling, settled, albums>>
  /\ UNCHANGED <<status, lead, unstaged, notices>>
  /\ Reloads(B)

\* (done stands for every end the queue comes to itself that is not retried.)
Settle(r, s) ==
  /\ Up /\ status[r] = "open" /\ Claimable(r)
  /\ s \in {"done", "failed"}
  /\ status' = [status EXCEPT ![r] = s]
  /\ pending' = Hear(r)
  /\ UNCHANGED <<telegram, life, events, bot, polling, settled, albums>>
  /\ UNCHANGED <<lead, unstaged, loaded, notified, told, unsent, late>>

\* The run failed and was queued again in the same turn.
Requeue(r) ==
  /\ Up /\ status[r] = "open" /\ Claimable(r)
  /\ Event
  /\ pending' = Hear(r)
  /\ UNCHANGED <<telegram, life, bot, polling, settled, albums, rows>>
  /\ UNCHANGED <<notified, told, unsent, late>>

\* What the chat was told of the job is no longer so.
Retry(r) ==
  /\ Up /\ status[r] = "failed"
  /\ Event
  /\ status' = [status EXCEPT ![r] = "open"]
  /\ told' = told \ {r} /\ unsent' = unsent \ {r}
  /\ late' = IF ~Single(r) /\ lead[r] \in notified THEN late \cup {r} ELSE late
  /\ UNCHANGED <<telegram, life, bot, polling, settled, albums>>
  /\ UNCHANGED <<lead, unstaged, pending, notified>>
  /\ IF Single(r) THEN loaded' = loaded ELSE \E B \in SUBSET Updates : Reloads(B)

\* The user's own doing, and not announced.
Cancel(r) ==
  /\ Up /\ status[r] = "open"
  /\ Event
  /\ status' = [status EXCEPT ![r] = "cancelled"]
  /\ UNCHANGED <<telegram, life, bot, polling, settled, albums, lead, unstaged, loaded, notices>>

-----------------------------------------------------------------------------
\* notifyOutcome, a tick after the event: what the row is by then, or the batch.
Complete(b) == \A r \in Members(b) : status[r] \in Finished

TellsRow(r) == Single(r) /\ status[r] \in Tellable
TellsBatch(r) == ~Single(r) /\ lead[r] \notin notified /\ Complete(lead[r])

\* The rows a notice set off by r speaks of.
Spoken(r) == IF Single(r) THEN {r} ELSE Members(lead[r])

\* The message is sent, or fails twice, which is logged and no more.
Sends(r) ==
  \/ told' = told \cup Spoken(r) /\ UNCHANGED <<unsent, events>>
  \/ Event /\ unsent' = unsent \cup Spoken(r) /\ UNCHANGED told

Silent == UNCHANGED <<told, unsent, events>>

\* Mutant: the batch is marked before its members are looked at.
NoticeMarksFirst(r) ==
  /\ r \in pending
  /\ pending' = pending \ {r}
  /\ notified' = IF Single(r) THEN notified ELSE notified \cup {lead[r]}
  /\ IF TellsRow(r) \/ TellsBatch(r) THEN Sends(r) ELSE Silent
  /\ UNCHANGED <<telegram, life, bot, polling, settled, albums, rows, late>>

\* A batch is marked before its message is sent.
Notice(r) ==
  /\ r \in pending
  /\ pending' = pending \ {r}
  /\ notified' = IF TellsBatch(r) THEN notified \cup {lead[r]} ELSE notified
  /\ IF TellsRow(r) \/ TellsBatch(r) THEN Sends(r) ELSE Silent
  /\ UNCHANGED <<telegram, life, bot, polling, settled, albums, rows, late>>

-----------------------------------------------------------------------------
(***************************************************************************)
(* Start, stop, crash.                                                     *)
(***************************************************************************)
\* Notices first, then the poller, then the albums.
Stop ==
  /\ bot = "on"
  /\ bot' = "stopping"
  /\ pending' = {}
  /\ UNCHANGED <<telegram, life, events, polling, settled, albums, rows, notified, told, unsent, late>>

PollerStopped ==
  /\ bot = "stopping" /\ poller \in {"ended", "refused"}
  /\ bot' = "flushing"
  /\ UNCHANGED <<telegram, life, events, polling, settled, albums, rows, notices>>

Flushed == awaited \in Updates => staging[awaited] = {}

StopFlush(g, u) ==
  /\ bot = "flushing" /\ Flushed
  /\ Flush(g, u)
  /\ awaited' = u
  /\ UNCHANGED <<telegram, life, events, bot, polling, settled, rows, notices>>

\* Mutant: stop() leaves the albums to their timers.
BotDownUnflushed ==
  /\ bot = "flushing"
  /\ bot' = "down"
  /\ UNCHANGED <<telegram, life, events, polling, settled, albums, rows, notices>>

BotDown ==
  /\ bot = "flushing" /\ Flushed /\ InBuffers = {}
  /\ bot' = "down"
  /\ UNCHANGED <<telegram, life, events, polling, settled, albums, rows, notices>>

\* The memory of the process goes, and with it the updates W. What was confirmed
\* is settled by that; the rest is delivered again.
Forget(W) ==
  /\ bot' = "off" /\ poller' = "ended" /\ offset' = 1 /\ last' = 0
  /\ settled' = (settled \cup WithRow \cup W) \cap 1..confirmed
  /\ buffer' = [g \in Groups |-> {}] /\ staging' = [u \in Updates |-> {}] /\ awaited' = 0
  /\ status' = [u \in Updates |-> "none"] /\ lead' = [u \in Updates |-> u]
  /\ unstaged' = {} /\ loaded' = {}
  /\ pending' = {} /\ notified' = {} /\ told' = {} /\ unsent' = {} /\ late' = {}
  /\ UNCHANGED <<telegram, life, events>>

\* stop() awaits the albums it flushes, not one whose timer had fired before.
Exit ==
  /\ bot = "down"
  /\ Forget(InStaging)

Crash ==
  /\ Up
  /\ Forget(InBuffers \cup InStaging)

\* Without an offset Telegram starts at the first update that was not confirmed.
Restart ==
  /\ bot = "off" /\ life < Lives
  /\ life' = life + 1
  /\ bot' = "on" /\ poller' = "looping"
  /\ offset' = confirmed + 1 /\ last' = confirmed
  /\ UNCHANGED <<telegram, events, settled, albums, rows, notices>>

-----------------------------------------------------------------------------
Polls == Ask \/ Arrives \/ Answer \/ Aborted \/ Wakes \/ Take

Handles == Refuse \/ Collect \/ \E s \in Statuses : Store(s)

Stages == \E b, u \in Updates, s \in Statuses : StoreMember(b, u, s)

Stopping == PollerStopped \/ BotDown \/ \E g \in Groups, u \in Updates : StopFlush(g, u)

Queue(r) ==
  \/ Requeue(r) \/ Retry(r) \/ Cancel(r)
  \/ \E s \in {"done", "failed"} : Settle(r, s)

Next ==
  \/ Polls \/ PollFails \/ PollRefused
  \/ Handles \/ Stages
  \/ \E g \in Groups, u \in Updates : QuietTimer(g, u)
  \/ \E r \in Updates : Queue(r) \/ Notice(r)
  \/ \E B \in SUBSET Updates : Reload(B)
  \/ Stop \/ Stopping \/ Exit \/ Crash \/ Restart

Spec == Init /\ [][Next]_vars

(***************************************************************************)
(* Calls of the Telegram API have timeouts, and a file of 20 MB is hashed: *)
(* the poller, its handlers, a batch being made and stop() go on.          *)
(***************************************************************************)
LiveSpec ==
  Spec /\ WF_vars(Polls) /\ WF_vars(Handles) /\ WF_vars(Stages) /\ WF_vars(Stopping)

-----------------------------------------------------------------------------
(***************************************************************************)
(* Properties.                                                             *)
(***************************************************************************)
TypeOK ==
  /\ album \in [Updates -> Groups \cup {None}] /\ confirmed \in 0..N /\ life \in 1..Lives
  /\ bot \in {"on", "stopping", "flushing", "down", "off"}
  /\ poller \in {"looping", "asking", "backoff", "handling", "ended", "refused"}
  /\ offset \in 1..(N + 1) /\ last \in 0..N /\ events \in 0..MaxEvents
  /\ settled \in SUBSET Updates
  /\ buffer \in [Groups -> SUBSET Updates] /\ staging \in [Updates -> SUBSET Updates]
  /\ awaited \in 0..N
  /\ status \in [Updates -> Statuses] /\ lead \in [Updates -> Updates]
  /\ unstaged \in SUBSET Updates /\ loaded \in SUBSET Updates /\ pending \in SUBSET Updates
  /\ notified \in SUBSET Updates /\ told \in SUBSET Updates
  /\ unsent \in SUBSET Updates /\ late \in SUBSET Updates

(***************************************************************************)
(* An update Telegram will not deliver again has become a row, was         *)
(* answered, or is in the hands of an album; what is gone was in memory in *)
(* a crash, or in a batch stop() did not wait for. An album whose window   *)
(* is still open is never dropped by stop() (telegram-bot.test.ts: "stop() *)
(* flushes a pending album instead of dropping downloaded members").       *)
(***************************************************************************)
NothingLost == 1..confirmed \subseteq settled \cup WithRow \cup InBuffers \cup InStaging

(***************************************************************************)
(* While the bot is on, the outcome of every row this life of the service  *)
(* took in was told to its chat, was sent twice in vain, or is about to be *)
(* sent: of a job on its own that ended done or failed, and of the members *)
(* of a batch as soon as the last of them is finished, whatever the order  *)
(* in which they finish, fail and are retried. Only a row made or run      *)
(* again after its batch had its one notice ends unheard. (A batch with a  *)
(* cancelled member may stay untold.)                                      *)
(***************************************************************************)
Outcome(b) ==
  /\ Complete(b)
  /\ \A r \in Members(b) : status[r] # "cancelled"

OutcomeReachesChat ==
  bot = "on" =>
    \A r \in Updates : status[r] \in {"done", "failed"} /\ Outcome(lead[r]) =>
      r \in told \cup unsent \cup late \/ Members(lead[r]) \cap pending # {}

(***************************************************************************)
(* A batch has its one notice when all of it is finished: while members    *)
(* still have no row, only if one of its files could not be staged or the  *)
(* queue was given a unit of the rows there were (a job was retried or the *)
(* night's jobs were released in between).                                 *)
(***************************************************************************)
ToldWhole ==
  [][\A b \in notified' \ notified :
       staging[b] = {} \/ Members(b) \cap (unstaged \cup loaded) # {}]_vars

(***************************************************************************)
(* Every update sent is handled in the end, network failures and updates   *)
(* that cannot be handled or not, unless Telegram refuses the bot or it    *)
(* stops.                                                                  *)
(***************************************************************************)
UpdatesHandled ==
  bot = "on" ~> (offset > N \/ poller = "refused" \/ bot # "on")

(***************************************************************************)
(* stop() comes to its end, from whatever the poller was doing.            *)
(***************************************************************************)
StopEnds == bot = "stopping" ~> bot \in {"down", "off"}
=============================================================================
