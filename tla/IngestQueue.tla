---------------------------- MODULE IngestQueue ----------------------------
(***************************************************************************)
(* The ingest queue of the vault service: pipeline/queue.ts over the jobs  *)
(* table of db/jobs.ts, with the API routes that act on a job.             *)
(*                                                                         *)
(* The service is one Node process. A handler runs to completion between   *)
(* two awaits, so an action is what one handler does in one turn of the    *)
(* event loop, and the work between two turns of a worker (preprocessing,  *)
(* the agent run, the commit) is a state of that worker. Every handler     *)
(* that calls pump() leaves "pumping" set: until the pump has finished no  *)
(* other handler may run, which is what calling it synchronously means.    *)
(*                                                                         *)
(* Jobs are numbered in the order of their rowid among jobs of one batch   *)
(* (or among the standalone ones), and members of a unit are taken in that *)
(* order.  queuedBatches() sorts by created_at instead, which is the same  *)
(* order as long as the wall clock does not step back inside one drop; the *)
(* order of two batches found by it is left open.                          *)
(***************************************************************************)
EXTENDS Integers, Sequences, FiniteSets, SequencesExt

CONSTANTS NJobs,       \* rows that may ever be created
          Batches,     \* batch ids
          NoBatch,     \* batch_id NULL
          BatchOf,     \* the batch_id of each row
          Slots,       \* workers the concurrency setting may allow
          MaxRetries,  \* maxRetries: automatic retries of transient errors
          MaxEvents    \* bound: operator and environment events in a behaviour

Jobs == 1..NJobs
NoJob == 0

ASSUME ConstantsAssumption ==
  /\ NJobs \in Nat \ {0}
  /\ NoBatch \notin Batches /\ IsFiniteSet(Batches)
  /\ BatchOf \in [Jobs -> Batches \cup {NoBatch}]
  /\ IsFiniteSet(Slots) /\ Slots # {}
  /\ MaxRetries \in Nat /\ MaxEvents \in Nat

VARIABLES
  \* The jobs table (db/jobs.ts) and the run markers on disk: survive a crash.
  status,        \* status column; "none" before INSERT, "removed" after DELETE
  attempts,      \* attempts column
  held,          \* hold IS NOT NULL (the job waits for the night shift)
  released,      \* night_released_at IS NOT NULL
  marker,        \* .vault-meta/run-markers/<id> exists
  \* Fields of IngestQueue: lost with the process.
  mode,          \* "down", or running/reconciling: "reconciling", "running", "stopped"
  concurrency,   \* the worker-pool size of the settings
  pending,       \* pendingBatches: the units of queued members, as sets of jobs
  worker,        \* per slot: the processJob or processBatch it runs
  paused,        \* paused
  resumeTimers,  \* auto-resume timers not fired yet (never cancelled)
  retryTimers,   \* per job: preprocess-retry timers not fired yet
  retryIds,      \* preprocessRetries
  drop,          \* per batch: how far the enqueueBatch call that creates it is
  joined,        \* jobs an open enqueueBatch call counts as members of its unit
  toReconcile,   \* what is left of the interruptedJobs() snapshot at startup
  waiter,        \* the night shift waiting on onIdle()
  pumping,       \* a pump() is under way in this turn
  \* The environment, and history no code reads.
  overBudget,    \* today's usage has reached the daily budget
  events,        \* operator and environment events so far
  auto,          \* per job: automatic requeues after transient errors
  finished,      \* per job: its latest run reached its own end
  orphaned       \* active jobs whose worker ended without settling them

table   == <<status, attempts, held, released, marker>>
timers  == <<paused, resumeTimers, retryTimers, retryIds>>
intake  == <<drop, joined>>
startup == <<mode, toReconcile>>
history == <<auto, finished, orphaned>>
vars == <<table, concurrency, pending, worker, timers, intake, startup,
          waiter, pumping, overBudget, events, history>>

JobStatus == {"none", "queued", "preprocessing", "ingesting", "done", "failed",
              "deferred", "duplicate", "cancelled", "removed"}
Active    == {"preprocessing", "ingesting"}
Clearable == {"done", "failed", "deferred", "duplicate", "cancelled"}

(***************************************************************************)
(* A worker is at "pre" while a member (cur) is preprocessed, at "drop"    *)
(* while the staged copy of a content duplicate (cur) is discarded, at     *)
(* "run" during the agent run over ready, and at "tail" from the moment    *)
(* the jobs are done until commit and validation are through.  unit is the *)
(* jobs it was started for, rest the members not looked at yet.            *)
(***************************************************************************)
Worker == {w \in [at : {"idle", "pre", "drop", "run", "tail"}, unit : SUBSET Jobs,
                   rest : SUBSET Jobs, cur : Jobs \cup {NoJob}, ready : SUBSET Jobs] :
             w.at \in {"pre", "drop"} => w.cur \in Jobs}
IdleWorker == [at |-> "idle", unit |-> {}, rest |-> {}, cur |-> NoJob, ready |-> {}]

TypeOK ==
  /\ status \in [Jobs -> JobStatus]
  /\ attempts \in [Jobs -> Nat]
  /\ held \in [Jobs -> BOOLEAN] /\ released \in [Jobs -> BOOLEAN]
  /\ marker \in [Jobs -> BOOLEAN]
  /\ mode \in {"down", "reconciling", "running", "stopped"}
  /\ concurrency \in 1..Cardinality(Slots)
  /\ pending \in Seq(SUBSET Jobs)
  /\ worker \in [Slots -> Worker]
  /\ paused \in BOOLEAN /\ resumeTimers \in Nat
  /\ retryTimers \in [Jobs -> Nat] /\ retryIds \in SUBSET Jobs
  /\ drop \in [Batches -> {"new", "open", "openHeld", "closed"}]
  /\ joined \in SUBSET Jobs
  /\ toReconcile \in SUBSET Jobs
  /\ waiter \in {"none", "waiting", "resolved"}
  /\ pumping \in BOOLEAN /\ overBudget \in BOOLEAN
  /\ events \in 0..MaxEvents
  /\ auto \in [Jobs -> Nat]
  /\ finished \in [Jobs -> BOOLEAN] /\ orphaned \in SUBSET Jobs

Init ==
  /\ status = [j \in Jobs |-> "none"]
  /\ attempts = [j \in Jobs |-> 0]
  /\ held = [j \in Jobs |-> FALSE] /\ released = [j \in Jobs |-> FALSE]
  /\ marker = [j \in Jobs |-> FALSE]
  /\ mode = "running"
  /\ concurrency = Cardinality(Slots)
  /\ pending = <<>>
  /\ worker = [s \in Slots |-> IdleWorker]
  /\ paused = FALSE /\ resumeTimers = 0
  /\ retryTimers = [j \in Jobs |-> 0] /\ retryIds = {}
  /\ drop = [b \in Batches |-> "new"] /\ joined = {}
  /\ toReconcile = {}
  /\ waiter = "none" /\ pumping = FALSE /\ overBudget = FALSE
  /\ events = 0
  /\ auto = [j \in Jobs |-> 0]
  /\ finished = [j \in Jobs |-> FALSE] /\ orphaned = {}

-----------------------------------------------------------------------------
(***************************************************************************)
(* Reading the state.                                                      *)
(***************************************************************************)
First(S) == {j \in S : \A k \in S : j <= k}   \* the first in row order, as a set

Busy  == {s \in Slots : worker[s].at # "idle"}
Ready(j) == status[j] = "queued" /\ ~held[j]
Standalone(j) == BatchOf[j] = NoBatch
Claimable == {j \in Jobs : Ready(j) /\ Standalone(j)}

\* isIdle: a paused queue with nothing in flight counts as idle.
IsIdle == /\ Busy = {}
          /\ paused \/ (pending = <<>> /\ \A j \in Jobs : ~Ready(j))

\* Mutant: the release and the reload forget that a held row waits.
UnitsOfHeldToo(st, hd, known) ==
  {{j \in Jobs : BatchOf[j] = b /\ st[j] = "queued"} : b \in Batches \ known} \ {{}}

\* queuedBatches(), without the batches reloadPendingBatches() already knows.
UnitsOf(st, hd, known) ==
  {{j \in Jobs : BatchOf[j] = b /\ st[j] = "queued" /\ ~hd[j]} : b \in Batches \ known} \ {{}}

Known == {b \in Batches : \E i \in DOMAIN pending : \E j \in pending[i] : BatchOf[j] = b}

ReloadPendingBatches(st, hd) ==
  \E found \in SetToSeqs(UnitsOf(st, hd, Known)) : pending' = pending \o found

\* An operator or environment event, of which a behaviour has MaxEvents.
Event == events < MaxEvents /\ events' = events + 1

\* A handler of the running process, entered when no other handler is under way.
Turn == mode # "down" /\ ~pumping

(***************************************************************************)
(* Memory is gone, the table and the markers stay. Used by every way the   *)
(* process ends.                                                           *)
(***************************************************************************)
LoseMemory ==
  /\ mode' = "down"
  /\ pending' = <<>>
  /\ worker' = [s \in Slots |-> IdleWorker]
  /\ paused' = FALSE /\ resumeTimers' = 0
  /\ retryTimers' = [j \in Jobs |-> 0] /\ retryIds' = {}
  /\ drop' = [b \in Batches |-> IF drop[b] = "new" THEN "new" ELSE "closed"]
  /\ joined' = {}
  /\ toReconcile' = {} /\ orphaned' = {}
  /\ waiter' = "none" /\ pumping' = FALSE

(***************************************************************************)
(* The finally of a worker: its slot is free, settleNight() for each job   *)
(* of its unit, pump(). Read with the status and retryIds this step leaves.*)
(***************************************************************************)
ReleasedAfter(unit) ==
  [j \in Jobs |-> /\ released[j]
                  /\ j \in unit => \/ status'[j] \in {"queued", "removed"}
                                   \/ status'[j] = "failed" /\ j \in retryIds']

\* Mutant: the finally leaves the queue to whoever pumps next.
EndWorkerWithoutPump(s) ==
  /\ worker' = [worker EXCEPT ![s] = IdleWorker]
  /\ released' = ReleasedAfter(worker[s].unit)
  /\ pumping' = FALSE

EndWorker(s) ==
  /\ worker' = [worker EXCEPT ![s] = IdleWorker]
  /\ released' = ReleasedAfter(worker[s].unit)
  /\ pumping' = TRUE

\* Mutant: a member is taken without looking whether it is still queued.
NextMemberUnchecked(s, unit, rest, st, ready) ==
  \E m \in First(rest) :
     /\ status' = [st EXCEPT ![m] = "preprocessing"]
     /\ worker' = [worker EXCEPT ![s] = [at |-> "pre", unit |-> unit, cur |-> m,
                      rest |-> {j \in rest : j > m}, ready |-> ready]]
     /\ UNCHANGED <<attempts, released, finished, pumping>>

(***************************************************************************)
(* A worker goes on to the next member of its unit that is still queued;   *)
(* after the last one it starts the combined run over those that came      *)
(* through, or ends when none did. A standalone job is a unit of one.      *)
(***************************************************************************)
NextMember(s, unit, rest, st, ready) ==
  \E m \in First({j \in rest : st[j] = "queued"}) :
     /\ status' = [st EXCEPT ![m] = "preprocessing"]
     /\ worker' = [worker EXCEPT ![s] = [at |-> "pre", unit |-> unit, cur |-> m,
                      rest |-> {j \in rest : j > m}, ready |-> ready]]
     /\ UNCHANGED <<attempts, released, finished, pumping>>

StartRun(s, unit, rest, st, ready) ==
  /\ \A j \in rest : st[j] # "queued"
  /\ ready # {}
  /\ status' = [j \in Jobs |-> IF j \in ready THEN "ingesting" ELSE st[j]]
  /\ attempts' = [j \in Jobs |-> attempts[j] + (IF j \in ready THEN 1 ELSE 0)]
  /\ finished' = [j \in Jobs |-> finished[j] /\ j \notin ready]
  /\ worker' = [worker EXCEPT ![s] = [at |-> "run", unit |-> unit, cur |-> NoJob,
                                       rest |-> {}, ready |-> ready]]
  /\ UNCHANGED <<released, pumping>>

NothingToRun(s, unit, rest, st, ready) ==
  /\ \A j \in rest : st[j] # "queued"
  /\ ready = {}
  /\ status' = st
  /\ worker' = [worker EXCEPT ![s] = IdleWorker]
  /\ released' = ReleasedAfter(unit)
  /\ pumping' = TRUE
  /\ UNCHANGED <<attempts, finished>>

GoOn(s, unit, rest, st, ready) ==
  \/ NextMember(s, unit, rest, st, ready)
  \/ StartRun(s, unit, rest, st, ready)
  \/ NothingToRun(s, unit, rest, st, ready)

-----------------------------------------------------------------------------
(***************************************************************************)
(* pump(): claim until the pool is full, then wake the waiters if idle.    *)
(***************************************************************************)
SettleIdle == waiter' = IF waiter = "waiting" /\ IsIdle' THEN "resolved" ELSE waiter

MayClaim == pumping /\ mode = "running" /\ ~paused /\ ~overBudget
FreeSlot(s) == s \notin Busy /\ Cardinality(Busy) < concurrency

\* pendingBatches.shift(), ahead of any standalone job.
PumpClaimsBatch(s) ==
  /\ MayClaim /\ FreeSlot(s)
  /\ pending # <<>>
  /\ pending' = Tail(pending)
  /\ UNCHANGED <<held, marker, concurrency, timers, intake, startup, waiter,
                 overBudget, events, auto, orphaned>>
  /\ GoOn(s, Head(pending), Head(pending), status, {})

\* claimNextQueued().
PumpClaimsJob(s) ==
  /\ MayClaim /\ FreeSlot(s)
  /\ pending = <<>>
  /\ \E j \in First(Claimable) : NextMember(s, {j}, {j}, status, {})
  /\ UNCHANGED <<held, marker, concurrency, pending, timers, intake, startup, waiter,
                 overBudget, events, auto, orphaned>>

\* Mutant: the budget pause sets no timer.
PumpPausesForGood ==
  /\ pumping /\ mode = "running" /\ ~paused /\ overBudget
  /\ paused' = TRUE
  /\ pumping' = FALSE
  /\ UNCHANGED <<table, concurrency, pending, worker, resumeTimers, retryTimers, retryIds,
                 intake, startup, overBudget, events, history>>
  /\ SettleIdle

\* pauseForBudget(): checked before claiming, never mid-job.
PumpPausesForBudget ==
  /\ pumping /\ mode = "running" /\ ~paused /\ overBudget
  /\ paused' = TRUE /\ resumeTimers' = resumeTimers + 1
  /\ pumping' = FALSE
  /\ UNCHANGED <<table, concurrency, pending, worker, retryTimers, retryIds, intake,
                 startup, overBudget, events, history>>
  /\ SettleIdle

PumpEnds ==
  /\ pumping
  /\ \/ mode # "running" \/ paused
     \/ /\ MayClaim
        /\ \/ Cardinality(Busy) >= concurrency
           \/ pending = <<>> /\ Claimable = {}
  /\ pumping' = FALSE
  /\ UNCHANGED <<table, concurrency, pending, worker, timers, intake, startup,
                 overBudget, events, history>>
  /\ SettleIdle

Pump == \/ \E s \in Slots : PumpClaimsBatch(s) \/ PumpClaimsJob(s)
        \/ PumpPausesForBudget
        \/ PumpEnds

-----------------------------------------------------------------------------
(***************************************************************************)
(* Preprocessing the current member ends: preprocessStep() of processJob   *)
(* and of processBatch.                                                    *)
(***************************************************************************)
Preprocessing(s) == Turn /\ worker[s].at = "pre"

\* The member is done with, the unit goes on with the status it got.
MemberEnds(s, st, ready) == GoOn(s, worker[s].unit, worker[s].rest, st, ready)

\* An artifact for the run, a deferral, or a failure; none of them sinks the rest.
PreprocessEnds(s) ==
  /\ Preprocessing(s)
  /\ UNCHANGED <<held, marker, concurrency, pending, timers, intake, startup, waiter,
                 overBudget, events, auto, orphaned>>
  /\ \/ MemberEnds(s, status, worker[s].ready \cup {worker[s].cur})
     \/ \E to \in {"deferred", "failed"} :
           MemberEnds(s, [status EXCEPT ![worker[s].cur] = to], worker[s].ready)

\* Mutant: one attempt too many before it gives up.
PreprocessRetriesOnceMore(s) ==
  LET j == worker[s].cur IN
  /\ Preprocessing(s) /\ Standalone(j)
  /\ status' = [status EXCEPT ![j] = "failed"]
  /\ attempts' = [attempts EXCEPT ![j] = @ + 1]
  /\ IF attempts[j] <= MaxRetries
     THEN /\ retryTimers' = [retryTimers EXCEPT ![j] = @ + 1]
          /\ retryIds' = retryIds \cup {j}
     ELSE UNCHANGED <<retryTimers, retryIds>>
  /\ EndWorker(s)
  /\ UNCHANGED <<held, marker, concurrency, pending, paused, resumeTimers, intake,
                 startup, waiter, overBudget, events, history>>

(***************************************************************************)
(* A transient preprocess failure of a standalone job: failed, and         *)
(* schedulePreprocessRetry() consumes an attempt and sets a timer while    *)
(* there are attempts left. A batch member gets no such timer.             *)
(***************************************************************************)
PreprocessFailsTransiently(s) ==
  LET j == worker[s].cur IN
  /\ Preprocessing(s) /\ Standalone(j)
  /\ status' = [status EXCEPT ![j] = "failed"]
  /\ attempts' = [attempts EXCEPT ![j] = @ + 1]
  /\ IF attempts[j] + 1 <= MaxRetries
     THEN /\ retryTimers' = [retryTimers EXCEPT ![j] = @ + 1]
          /\ retryIds' = retryIds \cup {j}
     ELSE UNCHANGED <<retryTimers, retryIds>>
  /\ EndWorker(s)
  /\ UNCHANGED <<held, marker, concurrency, pending, paused, resumeTimers, intake,
                 startup, waiter, overBudget, events, history>>

\* The DOI is in the vault already: preprocessing -> duplicate, then discardStaging().
PreprocessFindsDuplicate(s) ==
  /\ Preprocessing(s)
  /\ status' = [status EXCEPT ![worker[s].cur] = "duplicate"]
  /\ worker' = [worker EXCEPT ![s].at = "drop"]
  /\ UNCHANGED <<attempts, held, released, marker, concurrency, pending, timers, intake,
                 startup, waiter, pumping, overBudget, events, history>>

(***************************************************************************)
(* A line logged for a row that is gone breaks the foreign key of          *)
(* job_logs, and the crash handler logs again. When that row is gone too,  *)
(* nothing handles the rejection and Node ends the process.                *)
(***************************************************************************)
Gone(j) == status[j] = "removed"
CrashHandlerThrows(s) == \A j \in First(worker[s].unit) : Gone(j)

StagingDiscarded(s) ==
  /\ Turn /\ worker[s].at = "drop"
  /\ ~Gone(worker[s].cur)
  /\ UNCHANGED <<held, marker, concurrency, pending, timers, intake, startup, waiter,
                 overBudget, events, auto, orphaned>>
  /\ MemberEnds(s, status, worker[s].ready)

\* The batch worker crashed; the members it had made ready stay active.
StagingLogFails(s) ==
  /\ Turn /\ worker[s].at = "drop"
  /\ Gone(worker[s].cur) /\ ~CrashHandlerThrows(s)
  /\ orphaned' = orphaned \cup worker[s].ready
  /\ UNCHANGED <<status, attempts, held, marker, concurrency, pending, timers, intake,
                 startup, waiter, overBudget, events, auto, finished>>
  /\ EndWorker(s)

-----------------------------------------------------------------------------
(***************************************************************************)
(* The agent run over the ready jobs, and what follows it.                 *)
(***************************************************************************)
Running(s) == Turn /\ worker[s].at = "run"
MoveReady(s, to) ==
  status' = [j \in Jobs |-> IF j \in worker[s].ready THEN to ELSE status[j]]

\* The run touches its marker as its last action; a batch leaves its lead's.
RunTouchesMarker(s) ==
  /\ Running(s)
  /\ \E j \in First(worker[s].ready) :
        /\ ~(marker[j] /\ finished[j])
        /\ marker' = [marker EXCEPT ![j] = TRUE]
  /\ finished' = [j \in Jobs |-> finished[j] \/ j \in worker[s].ready]
  /\ UNCHANGED <<status, attempts, held, released, concurrency, pending, worker, timers,
                 intake, startup, waiter, pumping, overBudget, events, auto, orphaned>>

\* The run reports success: every job of it is done, before the commit.
RunSucceeds(s) ==
  /\ Running(s)
  /\ MoveReady(s, "done")
  /\ finished' = [j \in Jobs |-> finished[j] \/ j \in worker[s].ready]
  /\ worker' = [worker EXCEPT ![s].at = "tail"]
  /\ UNCHANGED <<attempts, held, released, marker, concurrency, pending, timers, intake,
                 startup, waiter, pumping, overBudget, events, auto, orphaned>>

\* A batch goes back as a pending unit, a standalone job only by its status.
Requeue(s) ==
  /\ MoveReady(s, "queued")
  /\ pending' = IF \E j \in worker[s].ready : Standalone(j)
                THEN pending ELSE Append(pending, worker[s].ready)

\* A usage limit: the attempt is given back and the whole queue pauses.
RunHitsUsageLimit(s) ==
  /\ Running(s) /\ Event
  /\ Requeue(s)
  /\ attempts' = [j \in Jobs |-> IF j \in worker[s].ready /\ attempts[j] > 0
                                 THEN attempts[j] - 1 ELSE attempts[j]]
  /\ paused' = TRUE
  /\ resumeTimers' = resumeTimers + (IF paused THEN 0 ELSE 1)
  /\ UNCHANGED <<held, marker, concurrency, retryTimers, retryIds, intake, startup,
                 waiter, overBudget, history>>
  /\ EndWorker(s)

\* A transient error with attempts left, counted on the first job of the run.
RunFailsTransiently(s) ==
  /\ Running(s)
  /\ \E j \in First(worker[s].ready) : attempts[j] <= MaxRetries
  /\ Requeue(s)
  /\ auto' = [j \in Jobs |-> auto[j] + (IF j \in worker[s].ready THEN 1 ELSE 0)]
  /\ UNCHANGED <<attempts, held, marker, concurrency, timers, intake, startup, waiter,
                 overBudget, events, finished, orphaned>>
  /\ EndWorker(s)

\* A permanent error, or attempts exhausted.
RunFailsForGood(s) ==
  /\ Running(s)
  /\ MoveReady(s, "failed")
  /\ UNCHANGED <<attempts, held, marker, concurrency, pending, timers, intake, startup,
                 waiter, overBudget, events, history>>
  /\ EndWorker(s)

(***************************************************************************)
(* The worker throws outside the run (the overlap lookup, say): the crash  *)
(* handler fails a standalone job and only logs for a batch.               *)
(***************************************************************************)
WorkerCrashes(s) ==
  /\ Running(s) /\ Event
  /\ IF \E j \in worker[s].ready : Standalone(j)
     THEN MoveReady(s, "failed") /\ UNCHANGED orphaned
     ELSE UNCHANGED status /\ orphaned' = orphaned \cup worker[s].ready
  /\ UNCHANGED <<attempts, held, marker, concurrency, pending, timers, intake, startup,
                 waiter, overBudget, auto, finished>>
  /\ EndWorker(s)

\* Every path of the tail logs for the lead, the first ready job.
TailLogFails(s) == \A j \in First(worker[s].ready) : Gone(j)

\* Commit, validation and hot cache are through.
TailEnds(s) ==
  /\ Turn /\ worker[s].at = "tail"
  /\ ~(TailLogFails(s) /\ CrashHandlerThrows(s))
  /\ UNCHANGED <<status, attempts, held, marker, concurrency, pending, timers, intake,
                 startup, waiter, overBudget, events, history>>
  /\ EndWorker(s)

(***************************************************************************)
(* The unhandled rejection of a worker whose row was removed under it. Its *)
(* finally still settles the night and pumps, so that what the pool had    *)
(* room for is claimed in the last turn before Node exits.                 *)
(***************************************************************************)
LastClaims(s) ==
  {last \in SUBSET {j \in Jobs : Ready(j) /\ (Standalone(j) \/ \E i \in DOMAIN pending : j \in pending[i])} :
     last # {} => /\ mode = "running" /\ ~paused /\ ~overBudget
                  /\ Cardinality(last) <= concurrency - Cardinality(Busy \ {s})}

RejectionEndsProcess(s) ==
  /\ Turn
  /\ \/ worker[s].at = "tail" /\ TailLogFails(s)
     \/ worker[s].at = "drop" /\ Gone(worker[s].cur)
  /\ CrashHandlerThrows(s)
  /\ \E last \in LastClaims(s) :
        status' = [j \in Jobs |-> IF j \in last THEN "preprocessing" ELSE status[j]]
  /\ LoseMemory
  /\ released' = ReleasedAfter(worker[s].unit)
  /\ UNCHANGED <<attempts, held, marker, concurrency, overBudget, events, auto, finished>>

Work(s) == \/ PreprocessEnds(s) \/ PreprocessFailsTransiently(s)
           \/ PreprocessFindsDuplicate(s)
           \/ StagingDiscarded(s) \/ StagingLogFails(s)
           \/ RunTouchesMarker(s) \/ RunSucceeds(s) \/ RunHitsUsageLimit(s)
           \/ RunFailsTransiently(s) \/ RunFailsForGood(s) \/ WorkerCrashes(s)
           \/ TailEnds(s) \/ RejectionEndsProcess(s)

-----------------------------------------------------------------------------
(***************************************************************************)
(* Intake. Rows appear in row order; a hash or URL already known makes a   *)
(* duplicate, a file that cannot be read or staged a failed job.           *)
(***************************************************************************)
IsNextRow(j) == /\ status[j] = "none"
                /\ \A i \in Jobs : i < j /\ BatchOf[i] = BatchOf[j] => status[i] # "none"

\* Anything but a plain drop that reaches the queue counts as an event.
CreateRow(j, to, hold) ==
  /\ IsNextRow(j)
  /\ IF to = "queued" /\ ~hold THEN UNCHANGED events ELSE Event
  /\ status' = [status EXCEPT ![j] = to]
  /\ held' = [held EXCEPT ![j] = hold /\ to # "duplicate"]

\* enqueueFile() and enqueueUrl(), from the insert on.
Enqueue(j) ==
  /\ Turn /\ Standalone(j)
  /\ \E to \in {"queued", "duplicate", "failed"}, hold \in BOOLEAN : CreateRow(j, to, hold)
  /\ pumping' = TRUE
  /\ UNCHANGED <<attempts, released, marker, concurrency, pending, worker, timers, intake,
                 startup, waiter, overBudget, history>>

\* rejectOversizedFile(): a failed row, and no pump.
RejectOversized(j) ==
  /\ Turn /\ Standalone(j)
  /\ CreateRow(j, "failed", FALSE)
  /\ UNCHANGED <<attempts, released, marker, concurrency, pending, worker, timers, intake,
                 startup, waiter, pumping, overBudget, history>>

\* enqueueBatch(): each member awaits the hash of its file, so members come one by one.
BatchAdds(j) ==
  LET b == BatchOf[j] IN
  /\ Turn /\ ~Standalone(j)
  /\ drop[b] # "closed"
  /\ \E hold \in IF drop[b] = "new" THEN BOOLEAN ELSE {drop[b] = "openHeld"},
        to \in {"queued", "duplicate", "failed"} :
       /\ CreateRow(j, to, hold)
       /\ drop' = [drop EXCEPT ![b] = IF hold THEN "openHeld" ELSE "open"]
       /\ joined' = IF to = "queued" THEN joined \cup {j} ELSE joined
  /\ UNCHANGED <<attempts, released, marker, concurrency, pending, worker, timers,
                 startup, waiter, pumping, overBudget, history>>

\* Its end: the members created queued become a pending unit, unless they are held.
BatchCloses(b) ==
  LET members == {j \in joined : BatchOf[j] = b} IN
  /\ Turn
  /\ drop[b] \in {"open", "openHeld"}
  /\ pending' = IF drop[b] = "open" /\ members # {} THEN Append(pending, members) ELSE pending
  /\ drop' = [drop EXCEPT ![b] = "closed"]
  /\ joined' = joined \ members
  /\ pumping' = TRUE
  /\ UNCHANGED <<table, concurrency, worker, timers, startup, waiter, overBudget, events,
                 history>>

-----------------------------------------------------------------------------
(***************************************************************************)
(* The operator: POST /jobs/:id/retry, DELETE /jobs/:id, the settings and  *)
(* the resume button; and the night shift.                                 *)
(***************************************************************************)
RetryJob(j) ==
  /\ Turn /\ Event
  /\ status[j] \in {"failed", "deferred"}
  /\ status' = [status EXCEPT ![j] = "queued"]
  /\ IF Standalone(j) THEN UNCHANGED pending ELSE ReloadPendingBatches(status', held)
  /\ pumping' = TRUE
  /\ UNCHANGED <<attempts, held, released, marker, concurrency, worker, timers, intake,
                 startup, waiter, overBudget, auto, finished, orphaned>>

\* Mutant: the route cancels an active job, too.
CancelAnyJob(j) ==
  /\ Turn /\ Event
  /\ status[j] \in {"queued"} \cup Active
  /\ status' = [status EXCEPT ![j] = "cancelled"]
  /\ released' = [released EXCEPT ![j] = FALSE]
  /\ UNCHANGED <<attempts, held, marker, concurrency, pending, worker, timers, intake,
                 startup, waiter, pumping, overBudget, history>>

\* A queued job is cancelled by the route itself: no pump, no settleIdle.
CancelJob(j) ==
  /\ Turn /\ Event
  /\ status[j] = "queued"
  /\ status' = [status EXCEPT ![j] = "cancelled"]
  /\ released' = [released EXCEPT ![j] = FALSE]
  /\ UNCHANGED <<attempts, held, marker, concurrency, pending, worker, timers, intake,
                 startup, waiter, pumping, overBudget, history>>

\* remove(): only a row at rest.
RemoveJob(j) ==
  /\ Turn /\ Event
  /\ status[j] \in Clearable
  /\ status' = [status EXCEPT ![j] = "removed"]
  /\ released' = [released EXCEPT ![j] = FALSE]
  /\ UNCHANGED <<attempts, held, marker, concurrency, pending, worker, timers, intake,
                 startup, waiter, pumping, overBudget, history>>

\* clearHistory(): every row at rest, or every row of one such status.
ClearHistory ==
  /\ Turn /\ Event
  /\ \E targets \in {{st} : st \in Clearable} \cup {Clearable} :
       /\ \E j \in Jobs : status[j] \in targets
       /\ status' = [j \in Jobs |-> IF status[j] \in targets THEN "removed" ELSE status[j]]
       /\ released' = [j \in Jobs |-> released[j] /\ status[j] \notin targets]
  /\ UNCHANGED <<attempts, held, marker, concurrency, pending, worker, timers, intake,
                 startup, waiter, pumping, overBudget, history>>

SetConcurrency ==
  /\ Turn /\ Event
  /\ concurrency' \in 1..Cardinality(Slots)
  /\ pumping' = TRUE
  /\ UNCHANGED <<table, pending, worker, timers, intake, startup, waiter, overBudget,
                 history>>

\* releaseHeld(); the shift awaits onIdle() in the same turn when that released any.
NightBegins ==
  LET ids == {j \in Jobs : status[j] = "queued" /\ held[j]} IN
  /\ Turn /\ Event
  /\ waiter # "waiting" /\ ids # {}
  /\ held' = [j \in Jobs |-> held[j] /\ j \notin ids]
  /\ released' = [j \in Jobs |-> released[j] \/ j \in ids]
  /\ ReloadPendingBatches(status, held')
  /\ waiter' = "waiting" /\ pumping' = TRUE
  /\ UNCHANGED <<status, attempts, marker, concurrency, worker, timers, intake, startup,
                 overBudget, history>>

-----------------------------------------------------------------------------
(***************************************************************************)
(* Timers and the budget. No timer is ever cancelled: a resume timer may   *)
(* outlive the pause it was set for, a retry timer the failure.            *)
(***************************************************************************)
ResumeManually ==
  /\ Turn /\ Event
  /\ paused
  /\ paused' = FALSE /\ pumping' = TRUE
  /\ UNCHANGED <<table, concurrency, pending, worker, resumeTimers, retryTimers, retryIds,
                 intake, startup, waiter, overBudget, history>>

\* Mutant: a timer that was not set fires.
ResumeTimerFiresUnset ==
  /\ Turn
  /\ resumeTimers' = resumeTimers - 1
  /\ paused' = FALSE
  /\ pumping' = paused
  /\ UNCHANGED <<table, concurrency, pending, worker, retryTimers, retryIds, intake,
                 startup, waiter, overBudget, events, history>>

ResumeTimerFires ==
  /\ Turn
  /\ resumeTimers > 0
  /\ resumeTimers' = resumeTimers - 1
  /\ paused' = FALSE
  /\ pumping' = paused
  /\ UNCHANGED <<table, concurrency, pending, worker, retryTimers, retryIds, intake,
                 startup, waiter, overBudget, events, history>>

\* Mutant: the timer requeues its job and leaves the pump to someone else.
RetryTimerForgetsPump(j) ==
  LET again == mode # "stopped" /\ status[j] = "failed" IN
  /\ Turn
  /\ retryTimers[j] > 0
  /\ retryTimers' = [retryTimers EXCEPT ![j] = @ - 1]
  /\ retryIds' = retryIds \ {j}
  /\ status' = IF again THEN [status EXCEPT ![j] = "queued"] ELSE status
  /\ auto' = IF again THEN [auto EXCEPT ![j] = @ + 1] ELSE auto
  /\ UNCHANGED <<attempts, held, released, marker, concurrency, pending, worker, paused,
                 resumeTimers, pumping, intake, startup, waiter, overBudget, events,
                 finished, orphaned>>

RetryTimerFires(j) ==
  LET again == mode # "stopped" /\ status[j] = "failed" IN
  /\ Turn
  /\ retryTimers[j] > 0
  /\ retryTimers' = [retryTimers EXCEPT ![j] = @ - 1]
  /\ retryIds' = retryIds \ {j}
  /\ status' = IF again THEN [status EXCEPT ![j] = "queued"] ELSE status
  /\ auto' = IF again THEN [auto EXCEPT ![j] = @ + 1] ELSE auto
  /\ pumping' = again
  /\ UNCHANGED <<attempts, held, released, marker, concurrency, pending, worker, paused,
                 resumeTimers, intake, startup, waiter, overBudget, events,
                 finished, orphaned>>

\* Usage of today reaches the limit; the next local midnight starts a new day.
BudgetSpent ==
  /\ Event
  /\ ~pumping /\ ~overBudget /\ overBudget' = TRUE
  /\ UNCHANGED <<table, concurrency, pending, worker, timers, intake, startup, waiter,
                 pumping, history>>

Midnight ==
  /\ ~pumping /\ overBudget /\ overBudget' = FALSE
  /\ UNCHANGED <<table, concurrency, pending, worker, timers, intake, startup, waiter,
                 pumping, events, history>>

-----------------------------------------------------------------------------
(***************************************************************************)
(* The process: stop, crash, and the startup that reconciles what a crash  *)
(* left active.                                                            *)
(***************************************************************************)
Stop ==
  /\ Turn /\ Event
  /\ mode = "running"
  /\ mode' = "stopped"
  /\ UNCHANGED <<table, concurrency, pending, worker, timers, intake, toReconcile,
                 waiter, pumping, overBudget, history>>

\* Ctrl-C or systemd: after stop() the process exits whatever is in flight.
Exit ==
  /\ mode = "stopped"
  /\ LoseMemory
  /\ UNCHANGED <<table, concurrency, overBudget, events, auto, finished>>

Crash ==
  /\ mode # "down" /\ Event
  /\ LoseMemory
  /\ UNCHANGED <<table, concurrency, overBudget, auto, finished>>

(***************************************************************************)
(* Each transition is a transaction of its own, so a crash may cut the     *)
(* loop over a batch's jobs after any of them.                             *)
(***************************************************************************)
CrashBetweenJobs(s) ==
  /\ Running(s) /\ Event
  /\ \E cut \in worker[s].ready,
        to \in {<<"done", "ingesting">>, <<"failed", "ingesting">>, <<"queued", "failed">>} :
       /\ to[1] = "queued" => \E j \in First(worker[s].ready) : attempts[j] <= MaxRetries
       /\ status' = [j \in Jobs |-> IF j \in worker[s].ready
                                    THEN IF j < cut THEN to[1] ELSE to[2] ELSE status[j]]
       /\ finished' = [j \in Jobs |-> finished[j] \/ (j \in worker[s].ready /\ to[1] = "done")]
       /\ auto' = [j \in Jobs |-> auto[j] +
                     (IF j \in worker[s].ready /\ j < cut /\ to[1] = "queued" THEN 1 ELSE 0)]
  /\ LoseMemory
  /\ UNCHANGED <<attempts, held, released, marker, concurrency, overBudget>>

\* main.ts: markers older than a day are reaped, then queue.start().
Start ==
  /\ mode = "down"
  /\ mode' = "reconciling"
  /\ toReconcile' = {j \in Jobs : status[j] \in Active}
  /\ UNCHANGED <<table, concurrency, pending, worker, timers, intake, waiter,
                 pumping, overBudget, events, history>>

MarkersExpire ==
  /\ mode = "down" /\ Event
  /\ \E old \in (SUBSET {j \in Jobs : marker[j]}) \ {{}} :
        marker' = [j \in Jobs |-> marker[j] /\ j \notin old]
  /\ UNCHANGED <<status, attempts, held, released, concurrency, pending, worker, timers,
                 intake, startup, waiter, pumping, overBudget, history>>

(***************************************************************************)
(* One interrupted job: done when its run left the marker, else failed,    *)
(* whether its pages could be committed or not: a git status that fails    *)
(* reads as a clean tree, and a commit that fails is logged and passed.    *)
(***************************************************************************)
ReconcileJob ==
  /\ Turn /\ mode = "reconciling"
  /\ \E j \in First(toReconcile) :
       /\ status' = [status EXCEPT ![j] =
                       IF status[j] = "ingesting" /\ marker[j] THEN "done" ELSE "failed"]
       /\ toReconcile' = toReconcile \ {j}
  /\ UNCHANGED <<attempts, held, released, marker, mode, concurrency, pending, worker,
                 timers, intake, waiter, pumping, overBudget, events, history>>

\* The finally of start(): whatever is queued is taken up, and the pump let loose.
ReconcileEnds ==
  /\ Turn
  /\ mode = "reconciling" /\ toReconcile = {}
  /\ mode' = "running" /\ UNCHANGED toReconcile
  /\ ReloadPendingBatches(status, held)
  /\ pumping' = TRUE
  /\ UNCHANGED <<table, concurrency, worker, timers, intake, waiter, overBudget, events,
                 history>>

-----------------------------------------------------------------------------
Intake   == \/ \E j \in Jobs : Enqueue(j) \/ RejectOversized(j) \/ BatchAdds(j)
            \/ \E b \in Batches : BatchCloses(b)
Operator == \/ \E j \in Jobs : RetryJob(j) \/ CancelJob(j) \/ RemoveJob(j)
            \/ ClearHistory \/ SetConcurrency \/ ResumeManually \/ NightBegins
Timer    == \/ ResumeTimerFires \/ BudgetSpent \/ Midnight
            \/ \E j \in Jobs : RetryTimerFires(j)
Recovery == ReconcileJob \/ ReconcileEnds
Process  == \/ Stop \/ Exit \/ Crash \/ Start \/ MarkersExpire
            \/ \E s \in Slots : CrashBetweenJobs(s)

Next == \/ Pump
        \/ \E s \in Slots : Work(s)
        \/ Intake \/ Operator \/ Timer \/ Recovery \/ Process

Spec == Init /\ [][Next]_vars

(***************************************************************************)
(* What Node, the timers and systemd (Restart=on-failure) go on doing. No  *)
(* operator, crash or budget is assumed to act, and nothing says that a    *)
(* run succeeds, only that it ends: agent-runner.ts gives it a timeout.    *)
(***************************************************************************)
Fairness == /\ WF_vars(Pump)
            /\ \A s \in Slots : WF_vars(Work(s))
            /\ WF_vars(ResumeTimerFires) /\ SF_vars(Midnight)
            /\ \A j \in Jobs : WF_vars(RetryTimerFires(j))
            /\ \A b \in Batches : WF_vars(BatchCloses(b))
            /\ WF_vars(Recovery)
            /\ WF_vars(Exit) /\ WF_vars(Start)

LiveSpec == Spec /\ Fairness

-----------------------------------------------------------------------------
(***************************************************************************)
(* Properties.                                                             *)
(***************************************************************************)
\* The active jobs a worker answers for.
Hands(s) == CASE worker[s].at = "pre"  -> worker[s].ready \cup {worker[s].cur}
              [] worker[s].at \in {"drop", "run"} -> worker[s].ready
              [] OTHER -> {}

(***************************************************************************)
(* While the process lives, an active job is in the hands of exactly one   *)
(* worker, or waits for the startup reconcile, or lost its worker to a     *)
(* crash of it; and what a worker holds is in the status the worker left   *)
(* it in, so none of its later transitions can be refused.                 *)
(***************************************************************************)
OneOwner ==
  /\ \A s, t \in Slots : s # t => Hands(s) \cap Hands(t) = {}
  /\ \A s \in Slots : /\ Hands(s) \cap (toReconcile \cup orphaned) = {}
                      /\ \A j \in Hands(s) :
                           status[j] = IF worker[s].at = "run" THEN "ingesting"
                                                               ELSE "preprocessing"
  /\ mode # "down" =>
       {j \in Jobs : status[j] \in Active} =
         (UNION {Hands(s) : s \in Slots}) \cup toReconcile \cup orphaned

(***************************************************************************)
(* A standalone job is retried on its own at most MaxRetries times in its  *)
(* life, over preprocess timers that outlive the failure they were set     *)
(* for, requeues, usage limits that give the attempt back, crashes and     *)
(* manual retries, which give back no attempt. (The attempts of a batch    *)
(* are those of its first ready job, and its members may be several units: *)
(* no such bound holds for a member.)                                      *)
(***************************************************************************)
RetryBound ==
  \A j \in Jobs : Standalone(j) => auto[j] <= MaxRetries

(***************************************************************************)
(* A job held for the night shift runs in no unit, standalone or batch,    *)
(* before the shift releases it.                                           *)
(***************************************************************************)
HeldWaits ==
  \A j \in Jobs : held[j] => /\ status[j] \notin Active \cup {"done"}
                             /\ \A i \in DOMAIN pending : j \notin pending[i]

(***************************************************************************)
(* No lost wakeup: between two turns of a running queue, a free slot means *)
(* there is nothing to claim.                                              *)
(***************************************************************************)
WorkConserving ==
  (mode = "running" /\ ~pumping /\ ~paused /\ Cardinality(Busy) < concurrency)
    => pending = <<>> /\ Claimable = {}

(***************************************************************************)
(* The job store's promise: no handler ever asks for a transition the      *)
(* table of db/jobs.ts refuses, and no row comes back.                     *)
(***************************************************************************)
Job == INSTANCE JobLifecycle WITH Jobs <- Jobs, status <- status
Lifecycle == Job!Spec

(***************************************************************************)
(* A standalone job that waits in the queue settles, whatever usage limit, *)
(* spent budget, transient error or crash comes between.                   *)
(***************************************************************************)
JobSettles ==
  \A j \in Jobs : (Standalone(j) /\ Ready(j)) ~> status[j] \notin {"queued"} \cup Active

(***************************************************************************)
(* Queued batch members run only as part of a unit: a pending one, what is *)
(* left of a worker's, or the one an open drop will make.  A stranded      *)
(* member is in none, and only another reload takes it up.                 *)
(***************************************************************************)
InUnit(j) == \/ j \in joined
             \/ \E i \in DOMAIN pending : j \in pending[i]
             \/ \E s \in Busy : j \in worker[s].rest
Stranded == {j \in Jobs : Ready(j) /\ ~Standalone(j) /\ ~InUnit(j)}

(***************************************************************************)
(* queue.ts:664-667 on retryJob(): "A batch member is re-registered as a   *)
(* pending batch so it rejoins its combined run."  Between two turns of a  *)
(* running queue no queued member is in no unit.                           *)
(***************************************************************************)
NothingStranded == mode = "running" /\ ~pumping => Stranded = {}

(***************************************************************************)
(* As long as no member is stranded, whoever waits on onIdle() is waited   *)
(* for: there is a pump, a worker or a batch drop still to end, each of    *)
(* which settles the waiters, or a pause with its timer, or a startup.     *)
(***************************************************************************)
Woken == waiter = "waiting" => \/ pumping \/ Busy # {} \/ joined # {}
                               \/ paused /\ resumeTimers > 0
                               \/ mode # "running"
WaiterWakes == []NothingStranded => []Woken

\* The night shift never waits on onIdle() for good, unless a member is stranded.
NightWakes == []NothingStranded => (waiter = "waiting" ~> waiter # "waiting")

(***************************************************************************)
(* api/routes/jobs.ts:208-210: clearing never touches an active job, "this *)
(* only prunes operational rows". No removal of a row ends the process.    *)
(***************************************************************************)
RemovalOnlyPrunes == [][~\E s \in Slots : RejectionEndsProcess(s)]_vars
=============================================================================
