# A TLA+ model of the vault service

LibrisVault is one Node process beside a git repository of wiki pages (the vault). Documents are
dropped into it by upload, watch folder, URL or Telegram; each becomes a job, is preprocessed and
read by an external agent run that writes pages; the service commits them. At night a shift runs the
held jobs and then the research agents (Fellows). State lives in one SQLite database and in the
vault. This directory holds TLA+ modules of the parts of the service where order, failure and restart
matter, the TLC configurations that check them, and proofs checked by TLAPS.

Paths below are relative to `src/server/src/` unless they begin with `src/`.

## Inventory

| Component | State | Operations | What is hard, what makes it correct |
|---|---|---|---|
| Ingest queue (`pipeline/queue.ts`, `db/jobs.ts`, `api/routes/jobs.ts`, `pipeline/run-marker.ts`, `pipeline/budget.ts`) | the `jobs` table; run markers on disk; in memory `inFlight`, `pendingBatches`, `paused`, timers, `preprocessRetries`, `idleWaiters`, `reconciling` | enqueue (file, URL, batch, oversized), pump, the two worker loops, retry, cancel, remove, clear, hold and release, pause and resume, stop, start with reconcile | worker interleavings, timers that are never cancelled, crash between any two writes, removal under a worker. One owner per active job, legal transitions, held jobs wait, retries bounded, no lost wakeup, who waits for the night is woken |
| Vault commit (`pipeline/git.ts`, `run-registry.ts`, `reconcile.ts`, `util/mutex.ts`) | writer count, baseline of the busy period, mutex chain, working tree | begin, end, commit with or without sweep, idle reconcile | attribution of pages when runs overlap; a registration that leaks. No page is committed under another run, none stays dirty for ever |
| Maintenance runs (`pipeline/maintenance.ts`, `db/maintenance-state.ts`, `db/agent-runs.ts`) | register of runs, two mutexes, settled callbacks, ledger | start, run, settle, `onRunSettled`, eviction | eviction of a running record, callbacks never called. Who waits for a run hears of it |
| Page locks (`pipeline/wiki-lock.ts`, the vault's lock script) | lock files with an age | acquire, refresh, release, reaping | two writers after a reap, a release of somebody else's lock. One writer per page until a lock is outlived |
| Page writers (`api/routes/pages.ts`, `pipeline/reading-list.ts`, `notebook.ts`, `defect-repair.ts`, `domain-split-write.ts`, `git.ts`) | the text of the pages, at HEAD and in the tree | edit, list, note, repair, split, undo | a text computed from a stale page, half a split, an undo beside a running agent. Nobody's words are lost to a careful writer |
| Night shift (`pipeline/shift.ts`, `db/shifts.ts`) | one row a night; the locals of `execute` | tick, run by hand, rounds, merge, plan, close | waits on other parts with no timeout, verdicts about topics decided meanwhile. It ends, and begins once a night |
| Fellows (`pipeline/fellows.ts`, `planner.ts`, `db/agents.ts`, `db/proposals.ts`) | states of Fellows and proposals; slots | plan, step, decide, pause, resume, retire, skip, handlers of a run's end | decisions racing runs, retries that take a slot over, restarts. One run per Fellow, the quota, a topic runs once |
| Telegram bot (`telegram/*`) | poll offset, album buffers, notice timers, notified batches | poll, handle, collect, flush, notify, stop | redelivery, albums in memory, members that finish in any order. Nothing confirmed is lost, every outcome reaches its chat |
| Retrieval index, vault watcher (`pipeline/retrieve-index.ts`, `vault-watcher.ts`) | two timers | bump, fire | a continuous stream of signals. Every signal is served |
| Inbox watcher, content dedupe (`pipeline/watcher.ts`, `dedupe.ts`) | files, hashes, owners of content | notice, hash, own | re-drops and retries. One owner per content |
| Agent runner, preprocessing, validator, repair, recap, reading list, domains, hubs, graph, library, usage monitor, settings, API, CLI, web client | text and views | | mostly pure, text or I/O |

The parts meet in few places. The watcher, the bot and the API call the queue's enqueue functions;
the night shift calls `releaseHeld()` and awaits `onIdle()`, then starts maintenance runs for the
Fellows; queue and maintenance share the commit mutex and the run registry; everything that writes a
page by itself takes the page lock outside the commit mutex; the event bus tells bot, client and
index scheduler what happened. `PROJECT.json` lists the hazards, each at its line.

## Modules

| Module | What it is |
|---|---|
| `JobLifecycle` | the abstract specification of one row of `jobs`: the transition table of `db/jobs.ts`, appearance and removal |
| `IngestQueue` | the queue in detail, with its properties |
| `MCIngestQueue` | instances for TLC |
| `IngestQueueProofs` | types; the pump: no lost wakeup, the waiters, pauses that end |
| `IngestQueueUnits` | the units of a batch and the held jobs |
| `IngestQueueSafety` | one owner per job, the refinement of `JobLifecycle`, the bound on retries |
| `VaultCommit` | how pages get into git: run registry, commit mutex, commits of runs, reconcile pass, page edits |
| `VaultCommitProofs` | types, the registry, the line for the mutex, the index, whose changes a commit takes |
| `PageLock` | the abstract specification of the page lock: one writer per page until a lock on it breaks |
| `WikiLock` | the page lock in detail: script, windows, attempts, refresh, crashes |
| `WikiLockProofs` | types, one writer, release, the refinement of `PageLock` |
| `PageWrites` | the kinds of writers of a page over `PageLock` and the commit mutex |
| `PageWritesProofs` | types, whose words may be lost to whom, splits, nobody stuck, the promise of `PageLock` kept |
| `MaintenanceRuns` | the register of agent runs that are not ingests |
| `ProposalLifecycle` | the abstract specification of one proposal of a Fellow |
| `Fellows` | states, slots, quotas, plans and steps, the requests of the user; extends `MaintenanceRuns` |
| `NightShift` | the shift over the crew; extends `Fellows`, so the three run together |
| `NightShiftProofs` | types, slots, states, quota, one shift a night, the refinement of `ProposalLifecycle`, whom the shift awaits |
| `TelegramBot` | poller, handlers, albums, notices, stop, crash and restart of the Telegram channel |
| `TelegramBotProofs` | types, nothing lost, outcomes reach the chat |
| `MCIngestQueue`, `MCVaultCommit`, `MCWikiLock`, `MCPageWrites`, `MCNightShift`, `MCTelegramBot` | instances for TLC |

Which meets which: `PageWrites` uses the actions of `PageLock` (`Lock!Take`), and both sides are
proved: every behaviour of the writers is one of the abstract lock, and `WikiLock` implements it. `NightShift` is one state
machine with `Fellows` and `MaintenanceRuns`. `IngestQueue`, `VaultCommit` and `TelegramBot` see each
other only as free choices: what a run writes, how a commit ends, when a row is finished.

### How IngestQueue stands for the code

*Steps.* Node runs a handler to completion between two awaits, so an action is what one handler does
in one turn of the event loop. Handlers call `pump()` synchronously: they set `pumping`, and while it
is set only `Pump` may step (`Turn` is false), which is one claim per step until the pool is full or
nothing is left, then `SettleIdle`. What a worker does between awaits is in `worker[s].at`:
`pre` (preprocessing `cur`), `drop` (discarding the staged copy of a duplicate), `run` (the agent run
over `ready`), `tail` (jobs done; commit, validation, hot cache under way). `processJob` is a unit of
one, `processBatch` a unit of many; both go through `GoOn`.

*State.* `status`, `attempts`, `held`, `released` are the columns of `jobs`, `marker` the files of
`run-markers/`; they survive `LoseMemory`, the one operator every end of the process uses. `pending`,
`paused`, `retryIds`, `waiter`, `mode` are fields and locals of the queue; `drop` and
`joined` are the locals of an `enqueueBatch` call under way. `resumeTimers` and `retryTimers` count
timers that have been set and not fired: the code cancels none. `auto`, `finished` and
`orphaned` are history for the properties; the code does not read them.

*The environment.* A preprocessing or agent run may end in every way the code distinguishes. Budget,
midnight, crash and the age of a marker are free. External to `src/`: the event loop, the end of a
process, Node's treatment of an unhandled rejection (it ends the process).

*Failures inside handlers.* Foreign keys are on (`db/index.ts`), so a log line for a removed row
throws. Where that happens inside a worker the model follows the throw: into the `catch` of a batch
member, into the crash handler of `pump()`, which logs too, and past it. `RejectionEndsProcess` is
that last case, with the claims the worker's `finally` still makes in its last turn.

*Abstractions.* Pages, text, usage numbers and content hashes are absent: whether a drop is a
duplicate is a choice. A standalone job's row number and a member's place in its batch are the row
order; `queuedBatches()` sorts by wall clock, which is the same unless the clock steps back inside
one drop. The startup reconcile settles one job per step, whether or not git lets it commit the job's
pages: `dirtyPaths` and `commitReconciledPages` catch what git throws, and the commit itself is left out; so are errors of the database. A crash in the middle of
the loop that moves members to `ingesting` is not a state of its own (the crash before and after it
are); the loops that end a run are cut by `CrashBetweenJobs`. A worker that dies with the process
leaves the jobs claimed in that last turn in `preprocessing`, whatever of their first steps it reached.

### How VaultCommit stands for the code

*Pages.* What a page says does not matter; who changed it does. `tree[p]` is who changed `p` since it
was last added to git's index, `index[p]` whose changes are added and not committed. `git status`
reports a page when either is not empty (`Dirty`). `git add` moves, `git commit` empties the whole
index (`commitVault`), `git commit -- paths` takes the paths from the working tree (`commitPaths`).

*Runs.* `at[r]` is where `ingestStep`, `processBatch` or `MaintenanceRunner.run` stands between two
awaits: `bracket` (first git status taken), `run` (registered, the agent writes), `wait` (in the line
for the mutex), `sweep`, `add`, `commit` (inside it), `landed` or `kept` (commit over, `endRun()`
still to come), then ended: `done`, `over` (failed or not committed), `thrown` (a maintenance run
ended by an exception of its commit). Agents write while `run`, outside the mutex, and a write is
reported by the tool stream or not. `line` is the promise chain of the mutex, holder first.

*The others.* `pass` is the reconciler, started by `EndRun` when the last writer leaves. `edit` is one
dashboard edit at a time; the other callers of `commitPaths` under the mutex (recap, reading list,
questions, repairs) do the same. External to `src/`: the agent's own commits, and people editing.

*Abstractions.* One life of the process: no crash between steps and no startup recovery. No deleted,
renamed or moved pages, no hubs or bookkeeping files, no reverts, not the domain split's writer. A git
command is atomic; failures after `git commit` itself (`rev-parse`, `show`) are left out. The page
locks, taken outside the mutex, are left to `WikiLock`. `left`, `met`, `blind` and `misfiled` are
history for the properties; the code does not read them.

### How WikiLock and PageWrites stand for the code

*WikiLock.* An acquire of the vault's script (external) takes the lock when there is no file or when the
file is as old as the window the caller passes, and sets its age to zero; a release removes the file,
whoever made it; either may fail. `withWikiLock` (`Singles`) tries `Attempts` times and then writes or
gives up as the code does, `withWikiLocks` (`Batches`) takes what it gets, keeps it with a refresh that
re-acquires with a window of zero, and releases in a `finally`; `Agents` are processes of their own with
their own windows. Time is a counter; `late` are the pages on which a holder's lock has reached
anybody's window, which is exactly where the promise of `PageLock` ends (`broken`).

*PageWrites.* The text of a page is the set of the writers whose words it holds, in the working tree
(`text`), in git's index (`index`) and at HEAD (`head`). The kinds differ in when they read (`Lists` before
the lock, `Notes` inside it, `Edits` from what a client loaded, with or without its mtime), in whether they
compare before they write (`Edits`, `Repairs`), in whether they hold the mutex while they write (`Splits`,
singles) or only for the commit (`Repairs`, `Agents`), and in whether they lock at all (`Undoes` do not).
`Hub` is `wiki/index.md`: a split and the hub writes put a text on it that is made anew from the other pages
(`Renewed`), whatever it said before, and an undo leaves it alone.

*Git* may fail once in each of its calls. A commit that fails leaves the words in the tree, staged or not
(`CommitFails`); a run's commit takes all that is staged, the others their own pages. A split that fails
puts its originals back and unstages them (`SplitFails`), unless unstaging fails too, or the commit was made
and cannot be named (`SplitTears`, `torn`). An undo applies the reverse of what its commit brought and took
(`adds`, `drops`) to tree and index, all or nothing. Its look at the tree may fail, and then says that nothing
is dirty (`blind`); its commit may fail after the patch was applied (`UndoCommitFails`); its reset may.

*History.* `lost` records every word a write dropped and who dropped it, `back` what an undo brought back.
`broken` pages are those on which the lock's promise is off, or where the script failed and the caller went
on without.

*Left out.* Deletion of a page; pages moved by somebody else during a split; attribution of a run's
pages (`VaultCommit`); the log and archive pages of a repair; a crash in the middle of a split; the
revert of a whole split; the undo of an undo; two writes within one mtime tick.

### How MaintenanceRuns, Fellows and NightShift stand for the code

*Runs* are numbered in the order they start. `board` are the records kept (`evictOldRuns` keeps the
youngest, running or not), `listener` those somebody waits for, `ledger` the rows written when they
ended. A run waits for one of two fair mutexes. The end of a run, its ledger row and the synchronous
part of its listener are one action; the refresh of an oversized hot cache comes before it, as in the
code, and may push the run's own record out.

*Fellows.* A row with a state, a slot (`inFlight`), proposals. The handler of a run's end writes the
state in the same turn, awaits the reading list and the notebook (`handler` is "reads", "notes"), and
only then frees the slot, if it is still its own (`Frees`): a planning run's retry has taken it over
(`PlanRetried`), and whoever waits for the first attempt hears of it after the retry. `heard` are the
runs whose promise is settled. The requests of the user are actions of their own at any time.

*NightShift.* One action per stretch between two awaits: the row is written before anything else, the
judge is asked about pairs and answers later, a round takes its list of Fellows once and evaluates the
guards of each turn on it, a run is awaited through the promise of its handler.

*Abstractions.* A Fellow has one standing task: sweeps over several tasks and the supersession by task
are not there, and neither is the loss of the task in a planner's retry (below). Autonomy is constant.
Budgets, verdicts, overlaps, drift, room in the window, wake triggers and stall detection are free
choices, and so is which runs a release exempts from the quota; a shift may pass over a Fellow at any
time; the window of the night does not end (`Tick` may come at any hour). A topic typed by hand is a
step. A shift by hand writes the row of the current cycle. Desk, notebook text, handoffs, values and the
order of a shelf are not there. `Restart` is a crash and the start after it. Registers and nights are
short: the run crew keeps one record, the harshest register; night keeps as many as there are runs.

### How TelegramBot stands for the code

*The poller.* `confirmed` belongs to Telegram: a request confirms everything before its offset, whether
or not its answer arrives. `offset` and `last` are the locals of `startPolling`: the offset goes forward
before an update is handled, the answer is worked off to its end even when the bot is stopping, and
only the next request confirms it. Without an offset, after a restart, Telegram starts at what was not
confirmed.

*Handlers* await one download or hash between `Take` and their effect: a row (`Store`), a place in an
album (`Collect`), or neither (`Refuse`: strangers, commands, failures). An album leaves the buffer when
its quiet timer fires, whatever the poller does, and `enqueueBatch` then makes its rows one await at a
time (`staging`).

*The queue* is seen through what the bot reads: a row is open, or finished and how; "done" stands for
every end the queue comes to by itself (also a duplicate found after preprocessing), deferred for
failed. The query for the next job leaves the members of batches out, so a member runs when a unit has it
(`loaded`): the unit `enqueueBatch` makes after its last row, or one that a reload makes of the rows there
are. A retry of any member reloads, and so do a release of held jobs and the end of the startup reconcile
(`Reload`), a batch that is still being made included; a batch whose unit is still pending is passed over.

*Notices.* `pending` are the notice timers, which look at the rows a tick after the event. A batch is marked
(`notified`) before its one message is sent; a message is sent, or fails twice, is logged and not sent again
(`Sends`: `told`, `unsent`). `told` and `unsent` are about the rows as they are: a retry takes its row out.
`late` are rows made or run again after the notice of their batch. The three are history; the code keeps
`notified` alone.

*Abstractions.* All updates are sent in the end, their albums chosen at the start. Whether a drop is a
duplicate and whether its staging fails are free. Rows of earlier lives are only remembered as
`settled`, and notices about them are left out; so are removal of rows, URLs, research and recap answers
(updates answered without a row), the list of strangers and all text.

## Runs

Each run is the MC module of its component with the `.cfg` of the same name. In every module `MaxEvents`
bounds what operators and the environment do on their own (failures, crashes, requests); the program's
own steps, their order and their outcomes are free. The systems really rest when nothing is left to drop
and no event is left, so deadlock is not checked.

| Run | Instance | Shows |
|---|---|---|
| `batch` | two members of a batch, two workers, 3 events | `OneOwner`, `HeldWaits`, `Lifecycle` (refines `JobLifecycle`). Two members and two workers are the least with which a batch can be split into two units that run at once; three events allow fail-retry-retry, retry-crash-retry, hold-night-crash |
| `live` | a standalone job and a batch member, one worker, 2 events, fairness | `TypeOK`, `RetryBound`, `WorkConserving`, `WaiterWakes`, `JobSettles`, `NightWakes`. Both kinds of claim compete for the worker, timers outlive failures; a single member is never stranded, so here the condition of `WaiterWakes` and `NightWakes` holds of itself. No symmetry |
| `removal` | one job, 1 event | violates `RemovalOnlyPrunes` |
| `commit` | one ingest, one maintenance run, one page, 1 event, fairness | `TypeOK`, `IndexIsHolders`, `RegistryExact`, `ReportedPagesLand`, `SweepSparesOlderWork`, `EveryCallerServed`. Two overlapping runs, the pass and an edit are four callers of the mutex |
| `leak` | one maintenance run, one page, 1 event | violates `BusyPeriodEnds` |
| `lock` | a single caller, a batch, an agent with a shorter window, one page, 3 ticks, 2 attempts, 1 event, fairness | `TypeOK`, `OneWriter`, `HeldIsLocked`, `WedgedForOneWindow`, `Implements` (refines `PageLock`), `EveryCallEnds`. Three ticks let a lock be outlived, reaped and refreshed |
| `pages` | one writer of each of the seven kinds, three calls, a page and the index, 1 event, fairness | `TypeOK`, `CarefulKeepAll`, `UndoSparesService`, `SplitAllOrNothing`, `NobodyStuck`, `EveryWriterEnds`. Any three kinds meet: a split, what overwrites it and what undoes it |
| `crew` | two Fellows with a topic each, one asked and one autonomous with a deepening, 3 runs, a register of one record, one night, 1 event | `TypeOK`, `OneRunPerFellow`, `ActiveHasRun`, `QuotaKept`, `ImplementsLifecycle` |
| `night` | one Fellow with one topic, two nights, 3 runs, 1 event, fairness | `OneShiftPerNight`, `NightEnds`. Two nights, so that a crash may fall between row and end, and a night begin while a shift of the last one runs |
| `quota` | one Fellow, quota 1, two topics to deepen, no event | violates `HardCap` |
| `retired` | one Fellow, 2 runs, 2 events | violates `RetiredIsFinal` |
| `chat` | two updates, an album of two or not, two lives, 2 events, fairness | `TypeOK`, `NothingLost`, `OutcomeReachesChat`, `ToldWhole`, `UpdatesHandled`, `StopEnds`. Two members are the least with which one settles while the other is still being staged, and with which an album is split |

These bounds are small. What makes them enough for the safety properties is that each of these is
proved for every value of the constants (below); the runs serve to find the invariants, to show that no
action is dead, and for liveness. Slots are interchangeable, so `batch` uses symmetry on them.

### What the violations say

* `removal`: `done` comes before the commit, so the row of a job whose worker is in its tail may be
  removed. The next log line breaks the foreign key, the crash handler's own log breaks it again, and
  the rejection ends the process.
* `leak`: `endRun()` of a maintenance run follows its commit without a `finally`. A failing git
  leaves the writer count at one: no run is sole writer, no pass follows, a domain split is refused,
  until the service restarts. The queue catches the same failure.
* `quota`: runs that deepen pages are refused by a spent quota but never spend any, so a night holds any
  number of them, against "hard cap on steps per day" (`src/docs/agents/SPEC.md:223`).
* `retired`: the end of a run writes the state of its Fellow whatever the user has made of it. Retired
  while a run is under way, a Fellow is resting or waiting afterwards and goes on working, against
  "Retired is final" (`pipeline/fellows.ts:1849`). A pause is lost the same way.

### Also found while modelling

Behaviours the models have and no run singles out, each at its line.

* `pipeline/queue.ts:656`: two failed members of a batch retried one after the other. The second reload
  finds the batch already pending and adds nothing; the second member is in no unit, against the comment of
  `retryJob`. It is queued, so it cannot be retried again, and `isIdle()` counts it, so `onIdle()` does not
  resolve, until something else reloads the units (another retry, a release of held jobs, a restart).
  `WaiterWakes` and `NightWakes` therefore assume `NothingStranded`.
* `pipeline/run-marker.ts:40`: a marker belongs to a job, not to an attempt. A run that touched it and
  failed leaves it; when the retry is cut off by a crash, recovery reads "finished".
* `pipeline/queue.ts:1082`: a paused queue with nothing in flight is idle, so a shift that released held
  jobs into a queue with a spent budget goes on at once, against the comment of `releaseHeld`.
* `pipeline/run-registry.ts:87`: a run asks at its commit whether it is the only writer now, not whether
  it was; a page that another run wrote and left (it failed, or ended without sweeping it) while this run
  was under way is taken for its own. `SweepSparesOlderWork` is what does hold.
* `db/jobs.ts:541`, `db/jobs.ts:667`, `pipeline/queue.ts:1844`, `pipeline/queue.ts:2056`:
  `night_released_at` of a job whose worker died with the process stays; members are ordered by wall
  clock; the attempts of a batch are those of its first ready job; resume timers are never cancelled.
* `pipeline/git.ts:567`: when `git add` succeeds and `git commit` fails, what was added stays in the
  index and goes with the next commit.
* `pipeline/git.ts:463`: undoing a commit that conflicts resets the tree, several awaits after it found it
  clean; what an agent or a repair wrote outside the mutex meanwhile is gone. `UndoSparesService` says that
  nobody else's words go with it, as long as git answers.
* `pipeline/git.ts:415`: the check for a clean tree is `dirtyPaths`, which answers that nothing is dirty when
  `git status` fails (git.ts:139-147, meant for the commit of a run). The undo then goes on over uncommitted
  words, and on a conflict resets those of every writer, while its message says "the vault was left
  untouched" (git.ts:488). `git.ts:507`: a commit that fails in an undo leaves the reverse patch in tree and
  index, where the next commit of a run takes it along. Both against "either fully succeeds or leaves the
  vault exactly as it found it" (git.ts:384-385).
* An undo that puts a page back while an agent holds it from an older reading is overwritten by the agent; no
  lock tells them of each other (`back`).
* `pipeline/domain-split-write.ts:482-493`: the restore unstages with its failure caught, and a commit that
  was made and whose hash cannot be read (git.ts:306-307) counts as failed: the pages are restored over a
  HEAD that has the split ("All or nothing", :484). These are the `torn` splits.
* `pipeline/domain-split-write.ts:476`, `hubs.ts:543`: the index is made anew, so whatever a person wrote on
  it is gone with the next split or run. That is by design (hubs.ts:18-20), and why it is nobody's loss in
  `CarefulKeepAll`.
* `pipeline/reading-list.ts:796`: the writers of the reading list compute its next text before they ask
  for the lock (with a network lookup per entry in between) and write it inside without reading again.
  An entry another one added meanwhile is overwritten, although "the page stays append-only for content"
  (reading-list.ts:588-590). `Lists` in `PageWrites` are modelled that way; `CarefulKeepAll` leaves them
  out, as it leaves out edits sent without an mtime.
* `pipeline/wiki-lock.ts:261`: a refresh under way when its batch ends may take a lock after its release;
  the page is then locked by nobody for a window, although "every acquired lock is released in a finally".
* `pipeline/maintenance.ts:1475`: a run whose record is evicted while it runs ends unheard; with a
  register of one record `NightEnds` fails, against "so a caller can't hang waiting" (maintenance.ts:1395-1397).
  The real register keeps enough records for this to take a very busy night.
* `pipeline/shift.ts`: a round's list, skips and states are a snapshot, so "skip tonight" asked for after
  the list was taken is not seen in that round. `pipeline/fellows.ts:1666-1672`: a planner's retry is
  started without the task of the first attempt.
* `telegram/bot.ts:531`: `stop()` awaits the albums it flushes, not one whose timer had fired before;
  what that batch has not yet staged is lost, its updates confirmed. `NothingLost` counts it as settled
  in `Exit`; the test "stop() flushes a pending album instead of dropping downloaded members" covers the
  other albums.
* `telegram/bot.ts:375`: a batch may look finished before its siblings have rows: when its first member
  cannot be staged, or when a reload (`pipeline/queue.ts:656`) gave the queue the rows made so far. It is told
  and marked, and what comes after is never told, against "Batches notify ONCE, when the LAST member settles"
  (bot.ts:371) and `src/SPEC.md:117`, which has every job reported that reaches its end. Neither is the outcome of a member retried after the notice. `ToldWhole` says
  what it takes, and these rows are `late` in `OutcomeReachesChat`. A batch whose last member is cancelled,
  or whose members are all duplicates at creation, is never told.
* `telegram/bot.ts:378`: the mark comes before the message, and a message that fails with and without its
  formatting is logged and dropped (bot.ts:122-137), although "a lost notification is worse than a plain one".
* `telegram/bot.ts:384-386`: a preprocessing failure that waits for its retry timer is told as final.
* `telegram/bot.ts:334`: a download that outlasts the quiet window splits an album into two batches.
* `telegram/client.ts:356`: the updates of the last answer before a stop are unconfirmed and come again
  after the restart: a file is then a duplicate, a `/research` would run twice.
* `main.ts:246` and `:661`: the queue starts before the bot subscribes; jobs that settle in between are
  not announced.

### Fairness

`LiveSpec` assumes of the code what Node and the service manager do: the pump and every worker go on
(an agent run ends, because `agent-runner.ts` aborts it after its timeout), timers fire, an
`enqueueBatch` under way ends, the startup reconcile goes on, a stopped process exits and a process
that is down is started again (`Restart=on-failure`, or the operator). `Midnight` is strongly fair,
since a budget spent anew may disable it in between. Nothing is assumed of operators, crashes or the
success of a run. `JobSettles` and `NightWakes` (the latter as long as no member is stranded) hold under
these; `JobSettles` excepts no job, those a crash left active and the startup reconcile takes up included.

In `WikiLock` a call of the script ends (its timeout is 10 s) and so does what is done under the lock; in
`PageWrites` some call goes on as long as one can. In `NightShift` the shift goes on when what it awaits
is there, the mutexes are fair, a run ends by its timeout at the latest and the handler of its end writes
its pages; no user acts by fairness. In `TelegramBot` the poller, a handler, a batch being staged and
`stop()` go on (calls of the API have timeouts, files are at most 20 MB); that an answer ever arrives is
part of `Polls`, but a request may fail as often as events allow, and the quiet timer, crash, restart and
the notices are not fair.

In `VaultCommit` a run, a pass and an edit under way go on: git is called with a timeout and a bounded
number of retries (`git.ts`), an agent run with a timeout, and nothing inside the mutex waits for
anything else. Whether a run starts, and how each git command ends, is free.

## Proofs

Assumed: `ConstantsAssumption` of `IngestQueue` (some rows; finite sets of batches and slots, at
least one slot; natural bounds). Everything below is for all such constants.

* `IngestQueueProofs!TypeCorrect`: `Spec => []TypeOK`, one lemma per group of actions.
* `IngestQueueProofs!WorkConserved`: `Spec => []WorkConserving`, inductive over the types alone by one
  distinction: a step between two turns is `Loud` (it leaves a pump under way, or the queue not running)
  or `Quiet` (it changes nothing a pump would look at, and only takes rows out of the queue). The
  exceptions are the ends of a pump, whose guard is the property, and a resume timer on a running queue.
* `IngestQueueProofs!WaiterWoken`: `Spec => WaiterWakes`, that is, `[]NothingStranded => []Woken`, by the
  same distinction; an idle pump resolves the waiters unless a member is stranded. This is the safety
  core of `NightWakes`. `PausesTimed` is the other half: a paused queue always has a resume timer.
* `IngestQueueSafety!RetriesBounded`: `Spec => []RetryBound`. `auto` alone is not inductive, since a timer
  set long ago may still fire. `RetryInv` counts what is retried and what is still to be (`Spent`) against
  the attempts, and says that the attempt of a run under way is not used yet (a usage limit gives it back).
* `IngestQueueUnits!HeldCorrect`: `Spec => []HeldWaits`. `HeldWaits` is not inductive: a unit a
  worker already holds could contain a held job. `UnitInv` adds that every job in a pending unit, in
  an open drop's members or in a worker's unit exists, is not held, and (in a batch) is not
  standalone. Holds only go from TRUE to FALSE once a row exists, which is why nothing in a unit
  becomes held.
* `IngestQueueSafety!OneOwnerCorrect`: `Spec => []OneOwner`. `OwnerInv` adds the shape of each worker
  (`Holds`: what it holds by its place, and with which status), that the member in hand is not yet
  ready (`OneInHand`), that every active job is answered for (`Answered`), that what is left to
  reconcile or orphaned is active (`LeftActive`), and that workers are idle while the process is down
  or reconciling (`Starting`). Two workers never hold one job because a job enters a worker's hands
  only from `queued`, and what is held is active.
* `IngestQueueSafety!LifecycleCorrect`: `Spec => Lifecycle`, that is, `IngestQueue` implements
  `JobLifecycle`. The inductive invariant fixes the status of everything a worker holds, so each of
  its moves is an entry of the table.

Of `VaultCommit`, assumed is `NamesDiffer` (finitely many runs, the callers of the mutex distinct):

* `VaultCommitProofs!TypeCorrect` and `RegistryCorrect`: `Spec => []TypeOK`, `Spec => []RegistryExact`. One
  induction gives both: that `active` stays a natural number when a run leaves needs the run to be counted.
* `VaultCommitProofs!LineCorrect`: `Spec => []LineExact`. A caller is in the line of the mutex exactly when
  he is at a place where he waits for it or holds it, and only once: no exit leaves a ghost in the line.
* `VaultCommitProofs!IndexCorrect`: `Spec => []IndexIsHolders`. `MutexInv` says that whoever is between
  its question and its commit is at the head of the line, `IndexInv` that every staged page was added
  by someone at his commit or left by a failure. Together they are inductive.
* `VaultCommitProofs!LandCorrect`: `Spec => []ReportedPagesLand`, strengthened by `LandInv`: at its
  commit a run has nothing of its own left in the working tree of its pathspec, and since it no longer
  writes, nothing comes back.
* `VaultCommitProofs!SweepCorrect`: `Spec => []SweepSparesOlderWork`. `OlderInv` follows a change that
  is older than the run: its page was in the bracket, and where the run reported that page, the run's
  own change is still with the older one. So it is never swept (`PathspecInv`), and what is staged of
  it is the run's page as well.

Of `WikiLock`, assumed are `KindsDiffer` and `Windows` (positive windows, at least one attempt):

* `TypeCorrect`; `OneWriterAlways` and `HeldIsLockedAlways`: the invariant says that a page that is held
  and not late has a lock file no older than its holder's last acquire, which is younger than every
  window, so no acquire can take it (`YoungInv`), and that a caller releases only what it goes by (`PathInv`).
* `ImplementsPromise`: `Spec => Implements`, step by step: an acquire is `Take`, releases, the ends of
  calls and crashes are `LetGo`, a tick is `Break` or a stutter.
* `WedgedForOneWindowAlways`: a lock file nobody goes by is no younger than the moment its page was let go.
  `PastInv` adds that a refresh has only pages its batch still holds, or that are `stray`.

Of `PageWrites` (`KindsDiffer`, `TheHub`, `Bounds`):

* `TypeCorrect`, with where the holder of the mutex stands.
* `CarefulKeepAllAlways`, `UndoSparesServiceAlways`. Whoever writes from `seen` either compared it in the same
  turn or has held the page, unbroken, since he read it, so what he drops came meanwhile without a lock: from
  an undo (`back`). While an undo that saw a clean tree is inside the mutex, what is dirty was written by
  agents and repairs, or was undone. What an undo may put back or take out is tied to the words of a commit
  on record (`adds`, `drops`), since after a failure tree, index and HEAD may all differ.
* `SplitAllOrNothingAlways`: the history of one split's words over all other writers. They are nowhere
  before it writes (`MarkInv`) and not in its originals nor at HEAD while it may still fail (`WroteInv`). After
  the restore the page is `Clean`, so nobody who writes with care can bring them back, or a hasty writer has
  `Taken` them along (`FailedInv`); after the commit they are at HEAD, or `Gone` by somebody on record
  (`LandedInv`).
* `NobodyStuckEver`: `Spec => []NobodyStuck`. `LeftInv` says who has no lock any more, `AskInv` that who
  asks has exactly what he got so far. Then whoever has the mutex can go on by himself, and if nobody has
  it everyone can. `NobodyStuck` is the safety core of `EveryWriterEnds`; `Goes` spells the guards of a
  writer's steps out, because ENABLED is out of the prover's reach.
* `KeepsToThePromise`: `Spec => Lock!Spec`, every step of the writers is a step of `PageLock` or none.

Of `NightShift` (`CrewTypes`, `RunBounds`, `RoundBound`, `CrewBounds`), by one inductive invariant over
the three modules:

* `OneRunAlways`, `ActiveHasRunAlways`: a run under way holds the slot of its Fellow (`SlotHeld`), a handler
  begins when its run is over (`HandlerLast`), a Fellow listens to a run on record until its end
  (`Listening`), and the run in an active Fellow's slot has not written its end yet (`ActiveFirst`).
* `QuotaAlways`: what is counted and what is under way never exceed the quota (`Counted` against `Used`),
  because the gate reads the ledger while the slot is free.
* `OneShiftAlways`: a night in which the timer began a shift has a row. `LifecycleImplemented`: every step
  moves every proposal by `ProposalLifecycle!Successors` or leaves it alone (`Follows`).
* `AwaitedAnswers`: `Spec => []ShiftGoesOn`, the shift never waits for nothing. `AnswerInv` says that the
  run it awaits, and the run that retries it, is under way or over, and if it is in the ledger somebody
  answers for it; a retry is never retried (`RetryOnce`), so the chain of waits ends there. The exception is
  a run whose record was evicted while it ran (also found, above), with which `NightEnds` does fail.

Of `TelegramBot` (`BotAssumption`): an update is in one place at most (`Once`: settled, a row, a buffer or
being staged) and one the cursor has passed is in one (`Kept`), which gives `NothingLostAlways`; a job on its
own leads only itself (`Leads`); a row with a notice pending was in a unit of the queue or could not be
staged, and every row of a marked batch was told, was sent in vain or is late (`Talks`). The first gives
`ToldWholeAlways`, and with the second `OutcomeReachesChatAlways` is inductive.

The strengthenings of queue and commits were checked by TLC on the instances of their runs first.

So every safety property a passing run checks is proved. Only model-checked is liveness under fairness,
which is out of the prover's reach: `JobSettles`, `NightWakes`, `EveryCallerServed`, `EveryCallEnds`,
`EveryWriterEnds`, `NightEnds`, `UpdatesHandled`, `StopEnds`. Where a wait could become one for ever, the
invariant that says it cannot is proved (`WaiterWoken`, `PausesTimed`, `LineCorrect`, `NobodyStuckEver`,
`AwaitedAnswers`);
that fair steps then lead to the end is what the runs check.

## Plan

Done: the queue and its lifecycle; the commits; the page lock and its promise; the page writers; the
register of runs, the Fellows and the night shift with the lifecycle of a proposal; the Telegram channel.

Next, in order of what they add: in `VaultCommit` a crash and the startup recovery of dirty pages, and an
abstract specification of what a commit may take from whom; the composition of queue and bot on real rows,
which would make the notices of earlier lives and the removal of rows visible; several standing tasks per
Fellow; ownership of content over retries.

## Not modelled

* Text: prompts, validation, citations, recaps, questions, notebooks, link repair, graph, library, the
  wording of every reply. How those that write pages do so is in `PageWrites`.
* Numbers: usage forecasts, costs, budgets (a free refusal), splits of domains into groups.
* The agent, preprocessing in child processes and the network: choices of outcomes.
* Content hashes and identifiers: whether a drop is a duplicate is a choice. Ownership of content over
  retries (`db/jobs.ts:251`) is therefore not visible.
* The retrieval index and the vault watcher: file system notifications and two timers of one class, tested
  with a fake clock; the rebuild itself is a run of `MaintenanceRuns`.
* The reconcile pass that takes the first pages of a run that begins meanwhile (`pipeline/reconcile.ts:102`)
  is in `VaultCommit`, but no document promises anything about it.
* The HTTP layer but for the routes that act on jobs, pages, reverts and Fellows; schema migrations,
  settings, the command line tools, and the web client, which is nearly half of the code: presentation and
  fetched state over that API.
