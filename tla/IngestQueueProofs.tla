------------------------ MODULE IngestQueueProofs ------------------------
(***************************************************************************)
(* Types of IngestQueue, and the pump: no wakeup is lost and no pause is   *)
(* for good, for any number of jobs, batches, slots and events.            *)
(***************************************************************************)
EXTENDS IngestQueue, FiniteSetTheorems, TLAPS

\* The tuples UNCHANGED is stated with.
USE DEF table, timers, intake, startup, history

\* There is at least one slot: the pool can never be configured away.
LEMMA SlotsCount == Cardinality(Slots) \in Nat \ {0}
<1>1. Cardinality(Slots) \in Nat
  BY FS_CardinalityType, ConstantsAssumption
<1>2. Cardinality(Slots) # 0
  BY FS_EmptySet, ConstantsAssumption
<1> QED BY <1>1, <1>2

\* A worker step gives its slot and its jobs values of their types.
LEMMA GoOnType ==
  ASSUME TypeOK, NEW s \in Slots, NEW unit \in SUBSET Jobs, NEW rest \in SUBSET Jobs,
         NEW st \in [Jobs -> JobStatus], NEW ready \in SUBSET Jobs,
         GoOn(s, unit, rest, st, ready)
  PROVE  /\ status' \in [Jobs -> JobStatus]
         /\ attempts' \in [Jobs -> Nat]
         /\ released' \in [Jobs -> BOOLEAN]
         /\ finished' \in [Jobs -> BOOLEAN]
         /\ worker' \in [Slots -> Worker]
         /\ pumping' \in BOOLEAN
<1>1. CASE NextMember(s, unit, rest, st, ready)
  BY <1>1 DEF NextMember, First, TypeOK, JobStatus, Worker
<1>2. CASE StartRun(s, unit, rest, st, ready)
  BY <1>2 DEF StartRun, TypeOK, JobStatus, Worker
<1>3. CASE NothingToRun(s, unit, rest, st, ready)
  BY <1>3 DEF NothingToRun, ReleasedAfter, TypeOK, Worker, IdleWorker
<1> QED BY <1>1, <1>2, <1>3 DEF GoOn

\* What every end of the process leaves of the queue's fields is typed.
LEMMA LoseMemoryType ==
  ASSUME TypeOK, LoseMemory
  PROVE  /\ mode' \in {"down", "reconciling", "running", "stopped"}
         /\ pending' \in Seq(SUBSET Jobs)
         /\ worker' \in [Slots -> Worker]
         /\ paused' \in BOOLEAN /\ resumeTimers' \in Nat
         /\ retryTimers' \in [Jobs -> Nat] /\ retryIds' \in SUBSET Jobs
         /\ drop' \in [Batches -> {"new", "open", "openHeld", "closed"}]
         /\ joined' \in SUBSET Jobs
         /\ toReconcile' \in SUBSET Jobs
         /\ orphaned' \in SUBSET Jobs
         /\ waiter' \in {"none", "waiting", "resolved"}
         /\ pumping' \in BOOLEAN
<1>1. IdleWorker \in Worker
  BY DEF IdleWorker, Worker
<1>2. /\ worker' \in [Slots -> Worker]
      /\ drop' \in [Batches -> {"new", "open", "openHeld", "closed"}]
  BY <1>1 DEF LoseMemory, TypeOK
<1>3. pending' \in Seq(SUBSET Jobs)
  BY DEF LoseMemory
<1> QED BY <1>2, <1>3 DEF LoseMemory

\* reloadPendingBatches() appends a sequence of the units it found.
LEMMA ReloadAppends ==
  ASSUME NEW st \in [Jobs -> JobStatus], NEW hd \in [Jobs -> BOOLEAN],
         ReloadPendingBatches(st, hd)
  PROVE  \E found \in Seq(UnitsOf(st, hd, Known)) : pending' = pending \o found
<1> DEFINE waiting(b) == {j \in Jobs : BatchOf[j] = b /\ st[j] = "queued" /\ ~hd[j]}
           B == Batches \ Known
           all == {waiting(b) : b \in B}
           U == UnitsOf(st, hd, Known)
<1>1. U = all \ {{}}
  BY DEF UnitsOf
<1>2. IsFiniteSet(U)
  <2>1. IsFiniteSet(B)
    BY FS_Difference, ConstantsAssumption
  <2>2. [b \in B |-> waiting(b)] \in Surjection(B, all)
    BY DEF Surjection
  <2>3. IsFiniteSet(all)
    BY <2>1, <2>2, FS_Surjection
  <2>4. U \in SUBSET all
    BY <1>1
  <2> HIDE DEF U, all
  <2> QED BY <2>3, <2>4, FS_Subset
<1>3. Cardinality(U) \in Nat
  BY <1>2, FS_CardinalityType
<1>4. PICK found \in SetToSeqs(U) : pending' = pending \o found
  BY DEF ReloadPendingBatches
<1>5. found \in [1..Cardinality(U) -> U]
  BY DEF SetToSeqs
<1>6. found \in Seq(U)
  <2> HIDE DEF U
  <2> QED BY <1>3, <1>5
<1> QED BY <1>4, <1>6

\* So pending stays a sequence of sets of jobs.
LEMMA ReloadType ==
  ASSUME TypeOK, NEW st \in [Jobs -> JobStatus], NEW hd \in [Jobs -> BOOLEAN],
         ReloadPendingBatches(st, hd)
  PROVE  pending' \in Seq(SUBSET Jobs)
<1>1. PICK found \in Seq(UnitsOf(st, hd, Known)) : pending' = pending \o found
  BY ReloadAppends
<1>2. UnitsOf(st, hd, Known) \subseteq SUBSET Jobs
  BY DEF UnitsOf
<1>3. found \in Seq(SUBSET Jobs) /\ pending \in Seq(SUBSET Jobs)
  BY <1>1, <1>2 DEF TypeOK
<1> QED BY <1>1, <1>3

-----------------------------------------------------------------------------
(***************************************************************************)
(* Type correctness, one step per action.                                  *)
(***************************************************************************)
\* The bound on events is kept.
LEMMA EventType ==
  ASSUME TypeOK, Event
  PROVE  events' \in 0..MaxEvents
BY ConstantsAssumption DEF TypeOK, Event

\* The finally of a worker frees the slot and settles the night marks.
LEMMA EndWorkerType ==
  ASSUME TypeOK, NEW s \in Slots, EndWorker(s)
  PROVE  /\ worker' \in [Slots -> Worker]
         /\ released' \in [Jobs -> BOOLEAN]
         /\ pumping' \in BOOLEAN
<1>1. IdleWorker \in Worker
  BY DEF IdleWorker, Worker
<1> QED BY <1>1 DEF EndWorker, ReleasedAfter, TypeOK

\* settleIdle() only resolves the waiter.
LEMMA SettleIdleType ==
  ASSUME TypeOK, SettleIdle
  PROVE  waiter' \in {"none", "waiting", "resolved"}
BY DEF TypeOK, SettleIdle

\* pump() preserves the types.
LEMMA PumpType ==
  ASSUME TypeOK, Pump
  PROVE  TypeOK'
<1>1. ASSUME NEW s \in Slots, PumpClaimsBatch(s) PROVE TypeOK'
  <2>1. Head(pending) \in SUBSET Jobs /\ Tail(pending) \in Seq(SUBSET Jobs)
    BY <1>1 DEF PumpClaimsBatch, TypeOK
  <2>2. GoOn(s, Head(pending), Head(pending), status, {})
    BY <1>1 DEF PumpClaimsBatch
  <2>3. status \in [Jobs -> JobStatus]
    BY DEF TypeOK
  <2>4. pending' \in Seq(SUBSET Jobs)
    BY <1>1, <2>1 DEF PumpClaimsBatch
  <2>5. /\ status' \in [Jobs -> JobStatus]
        /\ attempts' \in [Jobs -> Nat]
        /\ released' \in [Jobs -> BOOLEAN]
        /\ finished' \in [Jobs -> BOOLEAN]
        /\ worker' \in [Slots -> Worker]
        /\ pumping' \in BOOLEAN
    <3>1. {} \in SUBSET Jobs
      OBVIOUS
    <3> QED BY <2>1, <2>2, <2>3, <3>1, GoOnType
  <2> QED BY <1>1, <2>4, <2>5 DEF PumpClaimsBatch, TypeOK
<1>2. ASSUME NEW s \in Slots, PumpClaimsJob(s) PROVE TypeOK'
  <2>1. PICK j \in First(Claimable) : NextMember(s, {j}, {j}, status, {})
    BY <1>2 DEF PumpClaimsJob
  <2>2. {j} \in SUBSET Jobs
    BY <2>1 DEF First, Claimable
  <2>3. GoOn(s, {j}, {j}, status, {})
    BY <2>1 DEF GoOn
  <2>4. status \in [Jobs -> JobStatus]
    BY DEF TypeOK
  <2>5. /\ status' \in [Jobs -> JobStatus]
        /\ attempts' \in [Jobs -> Nat]
        /\ released' \in [Jobs -> BOOLEAN]
        /\ finished' \in [Jobs -> BOOLEAN]
        /\ worker' \in [Slots -> Worker]
        /\ pumping' \in BOOLEAN
    <3>1. {} \in SUBSET Jobs
      OBVIOUS
    <3> QED BY <2>2, <2>3, <2>4, <3>1, GoOnType
  <2> QED BY <1>2, <2>5 DEF PumpClaimsJob, TypeOK
<1>3. CASE PumpPausesForBudget
  <2>1. waiter' \in {"none", "waiting", "resolved"}
    BY <1>3, SettleIdleType DEF PumpPausesForBudget
  <2>2. resumeTimers' \in Nat
    BY <1>3 DEF PumpPausesForBudget, TypeOK
  <2>3. paused' \in BOOLEAN /\ pumping' \in BOOLEAN
    BY <1>3, Zenon DEF PumpPausesForBudget
  <2>4. UNCHANGED <<table, concurrency, pending, worker, retryTimers, retryIds, intake,
                    startup, overBudget, events, history>>
    BY <1>3 DEF PumpPausesForBudget
  <2> QED BY <2>1, <2>2, <2>3, <2>4 DEF TypeOK
<1>4. CASE PumpEnds
  <2>1. waiter' \in {"none", "waiting", "resolved"}
    BY <1>4, SettleIdleType DEF PumpEnds
  <2> QED BY <1>4, <2>1 DEF PumpEnds, TypeOK
<1> QED BY <1>1, <1>2, <1>3, <1>4 DEF Pump

\* MemberEnds goes on with a status function of the right type.
LEMMA MemberEndsType ==
  ASSUME TypeOK, NEW s \in Slots, NEW st \in [Jobs -> JobStatus],
         NEW ready \in SUBSET Jobs, MemberEnds(s, st, ready)
  PROVE  /\ status' \in [Jobs -> JobStatus]
         /\ attempts' \in [Jobs -> Nat]
         /\ released' \in [Jobs -> BOOLEAN]
         /\ finished' \in [Jobs -> BOOLEAN]
         /\ worker' \in [Slots -> Worker]
         /\ pumping' \in BOOLEAN
<1>1. worker[s].unit \in SUBSET Jobs /\ worker[s].rest \in SUBSET Jobs
  BY DEF TypeOK, Worker
<1>2. GoOn(s, worker[s].unit, worker[s].rest, st, ready)
  BY DEF MemberEnds
<1> QED BY <1>1, <1>2, GoOnType

\* A member that got an artifact, was deferred or failed.
LEMMA PreprocessEndsType ==
  ASSUME TypeOK, NEW s \in Slots, PreprocessEnds(s)
  PROVE  TypeOK'
<1>1. status \in [Jobs -> JobStatus] /\ worker[s].ready \in SUBSET Jobs
  BY DEF TypeOK, Worker
<1>2. worker[s].cur \in Jobs
  BY DEF PreprocessEnds, Preprocessing, TypeOK, Worker
<1> DEFINE typed == /\ status' \in [Jobs -> JobStatus]
                    /\ attempts' \in [Jobs -> Nat]
                    /\ released' \in [Jobs -> BOOLEAN]
                    /\ finished' \in [Jobs -> BOOLEAN]
                    /\ worker' \in [Slots -> Worker]
                    /\ pumping' \in BOOLEAN
<1>3. ASSUME MemberEnds(s, status, worker[s].ready \cup {worker[s].cur})
      PROVE  typed
  <2>1. worker[s].ready \cup {worker[s].cur} \in SUBSET Jobs
    BY <1>1, <1>2
  <2> QED BY <1>1, <1>3, <2>1, MemberEndsType
<1>4. ASSUME NEW to \in {"deferred", "failed"},
             MemberEnds(s, [status EXCEPT ![worker[s].cur] = to], worker[s].ready)
      PROVE  typed
  <2>1. [status EXCEPT ![worker[s].cur] = to] \in [Jobs -> JobStatus]
    BY <1>1 DEF JobStatus
  <2> QED BY <1>1, <1>4, <2>1, MemberEndsType
<1>5. typed
  BY <1>3, <1>4 DEF PreprocessEnds
<1> QED BY <1>5 DEF PreprocessEnds, TypeOK

\* Every step of a worker preserves the types.
LEMMA WorkType ==
  ASSUME TypeOK, NEW s \in Slots, Work(s)
  PROVE  TypeOK'
<1>1. /\ status \in [Jobs -> JobStatus] /\ worker \in [Slots -> Worker]
      /\ worker[s].ready \in SUBSET Jobs /\ worker[s] \in Worker
  BY DEF TypeOK, Worker
<1>2. CASE PreprocessEnds(s)
  BY <1>2, PreprocessEndsType
<1>3. CASE PreprocessFailsTransiently(s)
  <2>1. worker' \in [Slots -> Worker] /\ released' \in [Jobs -> BOOLEAN] /\ pumping' \in BOOLEAN
    BY <1>3, EndWorkerType DEF PreprocessFailsTransiently
  <2>2. worker[s].cur \in Jobs
    BY <1>1, <1>3 DEF PreprocessFailsTransiently, Preprocessing, Worker
  <2>3. status' \in [Jobs -> JobStatus]
    BY <1>1, <1>3 DEF PreprocessFailsTransiently, JobStatus
  <2>4. attempts' \in [Jobs -> Nat] /\ retryTimers' \in [Jobs -> Nat]
        /\ retryIds' \in SUBSET Jobs
    <3> DEFINE j == worker[s].cur
    <3>1. attempts \in [Jobs -> Nat] /\ retryTimers \in [Jobs -> Nat]
          /\ retryIds \in SUBSET Jobs
      BY DEF TypeOK
    <3>2. attempts' = [attempts EXCEPT ![j] = @ + 1]
      BY <1>3 DEF PreprocessFailsTransiently
    <3>3. \/ /\ retryTimers' = [retryTimers EXCEPT ![j] = @ + 1]
             /\ retryIds' = retryIds \cup {j}
          \/ UNCHANGED <<retryTimers, retryIds>>
      BY <1>3 DEF PreprocessFailsTransiently
    <3> HIDE DEF j
    <3> QED BY <2>2, <3>1, <3>2, <3>3 DEF j
  <2> QED BY <1>3, <2>1, <2>3, <2>4 DEF PreprocessFailsTransiently, TypeOK
<1>4. CASE PreprocessFindsDuplicate(s)
  <2>1. status' \in [Jobs -> JobStatus]
    BY <1>1, <1>4 DEF PreprocessFindsDuplicate, JobStatus
  <2>2. [worker[s] EXCEPT !.at = "drop"] \in Worker
    BY <1>1, <1>4 DEF PreprocessFindsDuplicate, Preprocessing, Worker
  <2>3. worker' \in [Slots -> Worker]
    BY <1>1, <1>4, <2>2 DEF PreprocessFindsDuplicate
  <2> QED BY <1>4, <2>1, <2>3 DEF PreprocessFindsDuplicate, TypeOK
<1>5. CASE StagingDiscarded(s)
  <2>1. /\ status' \in [Jobs -> JobStatus]
        /\ attempts' \in [Jobs -> Nat]
        /\ released' \in [Jobs -> BOOLEAN]
        /\ finished' \in [Jobs -> BOOLEAN]
        /\ worker' \in [Slots -> Worker]
        /\ pumping' \in BOOLEAN
    BY <1>1, <1>5, MemberEndsType DEF StagingDiscarded
  <2> QED BY <1>5, <2>1 DEF StagingDiscarded, TypeOK
<1>6. CASE StagingLogFails(s)
  <2>1. worker' \in [Slots -> Worker] /\ released' \in [Jobs -> BOOLEAN] /\ pumping' \in BOOLEAN
    BY <1>6, EndWorkerType DEF StagingLogFails
  <2> QED BY <1>1, <1>6, <2>1 DEF StagingLogFails, TypeOK
<1>7. CASE RunTouchesMarker(s)
  BY <1>1, <1>7 DEF RunTouchesMarker, First, TypeOK
<1>8. CASE RunSucceeds(s)
  <2>1. status' \in [Jobs -> JobStatus]
    BY <1>1, <1>8 DEF RunSucceeds, MoveReady, JobStatus
  <2>2. [worker[s] EXCEPT !.at = "tail"] \in Worker
    BY <1>1, <1>8 DEF Worker
  <2>3. worker' \in [Slots -> Worker]
    BY <1>1, <1>8, <2>2 DEF RunSucceeds
  <2> QED BY <1>8, <2>1, <2>3 DEF RunSucceeds, TypeOK
<1>9. ASSUME Requeue(s)
      PROVE  status' \in [Jobs -> JobStatus] /\ pending' \in Seq(SUBSET Jobs)
  BY <1>1, <1>9 DEF Requeue, MoveReady, JobStatus, TypeOK
<1>10. CASE RunHitsUsageLimit(s)
  <2>1. worker' \in [Slots -> Worker] /\ released' \in [Jobs -> BOOLEAN] /\ pumping' \in BOOLEAN
    BY <1>10, EndWorkerType DEF RunHitsUsageLimit
  <2>2. events' \in 0..MaxEvents
    BY <1>10, EventType DEF RunHitsUsageLimit
  <2>3. status' \in [Jobs -> JobStatus] /\ pending' \in Seq(SUBSET Jobs)
    BY <1>9, <1>10 DEF RunHitsUsageLimit
  <2>4. attempts' \in [Jobs -> Nat] /\ resumeTimers' \in Nat
    BY <1>10 DEF RunHitsUsageLimit, TypeOK
  <2>5. paused' \in BOOLEAN
    BY <1>10, Zenon DEF RunHitsUsageLimit
  <2> QED BY <1>10, <2>1, <2>2, <2>3, <2>4, <2>5 DEF RunHitsUsageLimit, TypeOK
<1>11. CASE RunFailsTransiently(s)
  <2>1. worker' \in [Slots -> Worker] /\ released' \in [Jobs -> BOOLEAN] /\ pumping' \in BOOLEAN
    BY <1>11, EndWorkerType DEF RunFailsTransiently
  <2>2. status' \in [Jobs -> JobStatus] /\ pending' \in Seq(SUBSET Jobs)
    BY <1>9, <1>11 DEF RunFailsTransiently
  <2>3. auto' \in [Jobs -> Nat]
    BY <1>11 DEF RunFailsTransiently, TypeOK
  <2> QED BY <1>11, <2>1, <2>2, <2>3 DEF RunFailsTransiently, TypeOK
<1>12. CASE RunFailsForGood(s)
  <2>1. worker' \in [Slots -> Worker] /\ released' \in [Jobs -> BOOLEAN] /\ pumping' \in BOOLEAN
    BY <1>12, EndWorkerType DEF RunFailsForGood
  <2>2. status' \in [Jobs -> JobStatus]
    BY <1>1, <1>12 DEF RunFailsForGood, MoveReady, JobStatus
  <2> QED BY <1>12, <2>1, <2>2 DEF RunFailsForGood, TypeOK
<1>13. CASE WorkerCrashes(s)
  <2>1. worker' \in [Slots -> Worker] /\ released' \in [Jobs -> BOOLEAN] /\ pumping' \in BOOLEAN
    BY <1>13, EndWorkerType DEF WorkerCrashes
  <2>2. events' \in 0..MaxEvents
    BY <1>13, EventType DEF WorkerCrashes
  <2>3. status' \in [Jobs -> JobStatus] /\ orphaned' \in SUBSET Jobs
    BY <1>1, <1>13 DEF WorkerCrashes, MoveReady, JobStatus, TypeOK
  <2> QED BY <1>13, <2>1, <2>2, <2>3 DEF WorkerCrashes, TypeOK
<1>14. CASE TailEnds(s)
  <2>1. worker' \in [Slots -> Worker] /\ released' \in [Jobs -> BOOLEAN] /\ pumping' \in BOOLEAN
    BY <1>14, EndWorkerType DEF TailEnds
  <2> QED BY <1>14, <2>1 DEF TailEnds, TypeOK
<1>15. CASE RejectionEndsProcess(s)
  <2>1. status' \in [Jobs -> JobStatus]
    BY <1>15 DEF RejectionEndsProcess, TypeOK, JobStatus
  <2>2. released' \in [Jobs -> BOOLEAN]
    <3>1. released' = ReleasedAfter(worker[s].unit)
      BY <1>15 DEF RejectionEndsProcess
    <3> QED BY <3>1, Zenon DEF ReleasedAfter
  <2> QED BY <1>15, <2>1, <2>2, LoseMemoryType DEF RejectionEndsProcess, TypeOK
<1> QED BY <1>2, <1>3, <1>4, <1>5, <1>6, <1>7, <1>8, <1>10, <1>11, <1>12, <1>13, <1>14,
           <1>15 DEF Work

\* Every way a row is created preserves the types.
LEMMA IntakeType ==
  ASSUME TypeOK, Intake
  PROVE  TypeOK'
<1>1. ASSUME NEW j \in Jobs, NEW to \in {"queued", "duplicate", "failed"},
             NEW hold \in BOOLEAN, CreateRow(j, to, hold)
      PROVE  /\ status' \in [Jobs -> JobStatus] /\ held' \in [Jobs -> BOOLEAN]
             /\ events' \in 0..MaxEvents
  <2>1. status' \in [Jobs -> JobStatus]
    BY <1>1 DEF CreateRow, TypeOK, JobStatus
  <2>2. held' \in [Jobs -> BOOLEAN]
    <3>1. held \in [Jobs -> BOOLEAN]
      BY DEF TypeOK
    <3>2. held' = [held EXCEPT ![j] = hold /\ to # "duplicate"]
      BY <1>1 DEF CreateRow
    <3> QED BY <3>1, <3>2
  <2>3. events' = events \/ Event
    BY <1>1 DEF CreateRow
  <2>4. events \in 0..MaxEvents
    BY DEF TypeOK
  <2> QED BY <2>1, <2>2, <2>3, <2>4, EventType
<1>2. ASSUME NEW j \in Jobs, Enqueue(j) PROVE TypeOK'
  <2>1. PICK to \in {"queued", "duplicate", "failed"}, hold \in BOOLEAN : CreateRow(j, to, hold)
    BY <1>2 DEF Enqueue
  <2>2. /\ status' \in [Jobs -> JobStatus] /\ held' \in [Jobs -> BOOLEAN]
        /\ events' \in 0..MaxEvents
    BY <1>1, <2>1
  <2> QED BY <1>2, <2>2 DEF Enqueue, TypeOK
<1>3. ASSUME NEW j \in Jobs, RejectOversized(j) PROVE TypeOK'
  <2>1. /\ status' \in [Jobs -> JobStatus] /\ held' \in [Jobs -> BOOLEAN]
        /\ events' \in 0..MaxEvents
    BY <1>1, <1>3 DEF RejectOversized
  <2> QED BY <1>3, <2>1 DEF RejectOversized, TypeOK
<1>4. ASSUME NEW j \in Jobs, BatchAdds(j) PROVE TypeOK'
  <2>1. PICK to \in {"queued", "duplicate", "failed"}, hold \in BOOLEAN :
           /\ CreateRow(j, to, hold)
           /\ drop' = [drop EXCEPT ![BatchOf[j]] = IF hold THEN "openHeld" ELSE "open"]
           /\ joined' = IF to = "queued" THEN joined \cup {j} ELSE joined
    BY <1>4 DEF BatchAdds
  <2>2. /\ status' \in [Jobs -> JobStatus] /\ held' \in [Jobs -> BOOLEAN]
        /\ events' \in 0..MaxEvents
    BY <1>1, <2>1
  <2>3. drop' \in [Batches -> {"new", "open", "openHeld", "closed"}] /\ joined' \in SUBSET Jobs
    BY <2>1 DEF TypeOK
  <2> QED BY <1>4, <2>2, <2>3 DEF BatchAdds, TypeOK
<1>5. ASSUME NEW b \in Batches, BatchCloses(b) PROVE TypeOK'
  <2>1. /\ drop' \in [Batches -> {"new", "open", "openHeld", "closed"}]
        /\ joined' \in SUBSET Jobs /\ pending' \in Seq(SUBSET Jobs)
    BY <1>5 DEF BatchCloses, TypeOK
  <2> QED BY <1>5, <2>1 DEF BatchCloses, TypeOK
<1> QED BY <1>2, <1>3, <1>4, <1>5 DEF Intake

\* What the operator and the night shift do preserves the types.
LEMMA OperatorType ==
  ASSUME TypeOK, Operator
  PROVE  TypeOK'
<1>1. ASSUME NEW j \in Jobs, RetryJob(j) PROVE TypeOK'
  <2>1. status' \in [Jobs -> JobStatus]
    BY <1>1 DEF RetryJob, TypeOK, JobStatus
  <2>2. pending' \in Seq(SUBSET Jobs)
    <3>1. CASE Standalone(j)
      BY <1>1, <3>1 DEF RetryJob, TypeOK
    <3>2. CASE ~Standalone(j)
      <4>1. ReloadPendingBatches(status', held)
        BY <1>1, <3>2 DEF RetryJob
      <4>2. held \in [Jobs -> BOOLEAN]
        BY DEF TypeOK
      <4> QED BY <2>1, <4>1, <4>2, ReloadType
    <3> QED BY <3>1, <3>2
  <2>3. events' \in 0..MaxEvents
    BY <1>1, EventType DEF RetryJob
  <2> QED BY <1>1, <2>1, <2>2, <2>3 DEF RetryJob, TypeOK
<1>2. ASSUME NEW j \in Jobs, CancelJob(j) PROVE TypeOK'
  <2>1. status' \in [Jobs -> JobStatus] /\ released' \in [Jobs -> BOOLEAN]
    BY <1>2 DEF CancelJob, TypeOK, JobStatus
  <2>2. events' \in 0..MaxEvents
    BY <1>2, EventType DEF CancelJob
  <2> QED BY <1>2, <2>1, <2>2 DEF CancelJob, TypeOK
<1>3. ASSUME NEW j \in Jobs, RemoveJob(j) PROVE TypeOK'
  <2>1. status' \in [Jobs -> JobStatus] /\ released' \in [Jobs -> BOOLEAN]
    BY <1>3 DEF RemoveJob, TypeOK, JobStatus
  <2>2. events' \in 0..MaxEvents
    BY <1>3, EventType DEF RemoveJob
  <2> QED BY <1>3, <2>1, <2>2 DEF RemoveJob, TypeOK
<1>4. CASE SetConcurrency
  <2>1. events' \in 0..MaxEvents
    BY <1>4, EventType DEF SetConcurrency
  <2> QED BY <1>4, <2>1 DEF SetConcurrency, TypeOK
<1>5. CASE ResumeManually
  <2>1. events' \in 0..MaxEvents
    BY <1>5, EventType DEF ResumeManually
  <2> QED BY <1>5, <2>1 DEF ResumeManually, TypeOK
<1>6. CASE NightBegins
  <2>1. held' \in [Jobs -> BOOLEAN] /\ released' \in [Jobs -> BOOLEAN]
    BY <1>6 DEF NightBegins
  <2>2. pending' \in Seq(SUBSET Jobs)
    <3>1. ReloadPendingBatches(status, held')
      BY <1>6 DEF NightBegins
    <3>2. status \in [Jobs -> JobStatus]
      BY DEF TypeOK
    <3> QED BY <2>1, <3>1, <3>2, ReloadType
  <2>3. events' \in 0..MaxEvents
    BY <1>6, EventType DEF NightBegins
  <2> QED BY <1>6, <2>1, <2>2, <2>3 DEF NightBegins, TypeOK
<1>7. CASE ClearHistory
  <2>1. status' \in [Jobs -> JobStatus] /\ released' \in [Jobs -> BOOLEAN]
    <3>1. PICK targets \in {{st} : st \in Clearable} \cup {Clearable} :
             /\ status' = [j \in Jobs |-> IF status[j] \in targets THEN "removed" ELSE status[j]]
             /\ released' = [j \in Jobs |-> released[j] /\ status[j] \notin targets]
      BY <1>7 DEF ClearHistory
    <3>2. status' \in [Jobs -> JobStatus]
      BY <3>1 DEF TypeOK, JobStatus
    <3>3. released' \in [Jobs -> BOOLEAN]
      BY <3>1, Zenon
    <3> QED BY <3>2, <3>3
  <2>2. events' \in 0..MaxEvents
    BY <1>7, EventType DEF ClearHistory
  <2> QED BY <1>7, <2>1, <2>2 DEF ClearHistory, TypeOK
<1> QED BY <1>1, <1>2, <1>3, <1>4, <1>5, <1>6, <1>7 DEF Operator

\* A timer fires only when one was set, so their counts stay natural numbers.
LEMMA TimerType ==
  ASSUME TypeOK, Timer
  PROVE  TypeOK'
<1>1. CASE ResumeTimerFires
  <2>1. resumeTimers' \in Nat
    BY <1>1 DEF ResumeTimerFires, TypeOK
  <2>2. paused' \in BOOLEAN /\ pumping' \in BOOLEAN
    <3>1. paused \in BOOLEAN
      BY DEF TypeOK
    <3> QED BY <1>1, <3>1, Zenon DEF ResumeTimerFires
  <2>3. UNCHANGED <<table, concurrency, pending, worker, retryTimers, retryIds, intake,
                    startup, waiter, overBudget, events, history>>
    BY <1>1 DEF ResumeTimerFires
  <2> QED BY <2>1, <2>2, <2>3 DEF TypeOK
<1>2. CASE BudgetSpent
  <2>1. events' \in 0..MaxEvents
    BY <1>2, EventType DEF BudgetSpent
  <2> QED BY <1>2, <2>1 DEF BudgetSpent, TypeOK
<1>3. CASE Midnight
  BY <1>3 DEF Midnight, TypeOK
<1>4. ASSUME NEW j \in Jobs, RetryTimerFires(j) PROVE TypeOK'
  <2>1. status' \in [Jobs -> JobStatus]
    BY <1>4 DEF RetryTimerFires, TypeOK, JobStatus
  <2>2. retryTimers' \in [Jobs -> Nat] /\ retryIds' \in SUBSET Jobs
    BY <1>4 DEF RetryTimerFires, TypeOK
  <2>3. auto' \in [Jobs -> Nat]
    BY <1>4 DEF RetryTimerFires, TypeOK
  <2>4. pumping' \in BOOLEAN
    BY <1>4, Zenon DEF RetryTimerFires
  <2>5. UNCHANGED <<attempts, held, released, marker, concurrency, pending, worker, paused,
                    resumeTimers, intake, startup, waiter, overBudget, events,
                    finished, orphaned>>
    BY <1>4 DEF RetryTimerFires
  <2> QED BY <2>1, <2>2, <2>3, <2>4, <2>5 DEF TypeOK
<1> QED BY <1>1, <1>2, <1>3, <1>4 DEF Timer

\* Startup reconcile, and the reload it ends with.
LEMMA RecoveryType ==
  ASSUME TypeOK, Recovery
  PROVE  TypeOK'
<1>1. CASE ReconcileJob
  <2>1. PICK j \in First(toReconcile) :
          /\ status' = [status EXCEPT ![j] =
                          IF status[j] = "ingesting" /\ marker[j] THEN "done" ELSE "failed"]
          /\ toReconcile' = toReconcile \ {j}
    BY <1>1 DEF ReconcileJob
  <2>2. j \in Jobs
    BY <2>1 DEF First, TypeOK
  <2>3. status' \in [Jobs -> JobStatus]
    BY <2>1 DEF TypeOK, JobStatus
  <2>4. toReconcile' \in SUBSET Jobs
    BY <2>1 DEF TypeOK
  <2> QED BY <1>1, <2>3, <2>4 DEF ReconcileJob, TypeOK
<1>2. CASE ReconcileEnds
  <2>1. status \in [Jobs -> JobStatus] /\ held \in [Jobs -> BOOLEAN]
    BY DEF TypeOK
  <2>2. pending' \in Seq(SUBSET Jobs)
    BY <1>2, <2>1, ReloadType DEF ReconcileEnds
  <2> QED BY <1>2, <2>2 DEF ReconcileEnds, TypeOK
<1> QED BY <1>1, <1>2 DEF Recovery

\* Stop, the ways the process ends, and the start.
LEMMA ProcessType ==
  ASSUME TypeOK, Process
  PROVE  TypeOK'
<1>1. CASE Stop
  <2>1. events' \in 0..MaxEvents
    BY <1>1, EventType DEF Stop
  <2> QED BY <1>1, <2>1 DEF Stop, TypeOK
<1>2. CASE Exit
  BY <1>2, LoseMemoryType DEF Exit, TypeOK
<1>3. CASE Crash
  <2>1. events' \in 0..MaxEvents
    BY <1>3, EventType DEF Crash
  <2> QED BY <1>3, <2>1, LoseMemoryType DEF Crash, TypeOK
<1>4. CASE Start
  BY <1>4 DEF Start, TypeOK
<1>5. CASE MarkersExpire
  <2>1. events' \in 0..MaxEvents
    BY <1>5, EventType DEF MarkersExpire
  <2>2. marker' \in [Jobs -> BOOLEAN]
    BY <1>5 DEF MarkersExpire
  <2> QED BY <1>5, <2>1, <2>2 DEF MarkersExpire, TypeOK
<1>6. ASSUME NEW s \in Slots, CrashBetweenJobs(s) PROVE TypeOK'
  <2>1. events' \in 0..MaxEvents
    BY <1>6, EventType DEF CrashBetweenJobs
  <2>2. PICK cut \in worker[s].ready,
             to \in {<<"done", "ingesting">>, <<"failed", "ingesting">>, <<"queued", "failed">>} :
          /\ status' = [j \in Jobs |-> IF j \in worker[s].ready
                                       THEN IF j < cut THEN to[1] ELSE to[2] ELSE status[j]]
          /\ finished' = [j \in Jobs |-> finished[j] \/ (j \in worker[s].ready /\ to[1] = "done")]
          /\ auto' = [j \in Jobs |-> auto[j] +
                        (IF j \in worker[s].ready /\ j < cut /\ to[1] = "queued" THEN 1 ELSE 0)]
    BY <1>6 DEF CrashBetweenJobs
  <2>3. status' \in [Jobs -> JobStatus]
    <3>1. to[1] \in JobStatus /\ to[2] \in JobStatus
      BY DEF JobStatus
    <3> QED BY <2>2, <3>1 DEF TypeOK
  <2>4. finished' \in [Jobs -> BOOLEAN]
    BY <2>2
  <2>5. auto' \in [Jobs -> Nat]
    <3>1. auto \in [Jobs -> Nat]
      BY DEF TypeOK
    <3> DEFINE more(j) == IF j \in worker[s].ready /\ j < cut /\ to[1] = "queued" THEN 1 ELSE 0
    <3>2. \A j \in Jobs : more(j) \in Nat
      OBVIOUS
    <3>3. auto' = [j \in Jobs |-> auto[j] + more(j)]
      BY <2>2
    <3> HIDE DEF more
    <3> QED BY <3>1, <3>2, <3>3
  <2> QED BY <1>6, <2>1, <2>3, <2>4, <2>5, LoseMemoryType DEF CrashBetweenJobs, TypeOK
<1> QED BY <1>1, <1>2, <1>3, <1>4, <1>5, <1>6 DEF Process

\* The state of a fresh installation is typed.
LEMMA InitType == Init => TypeOK
<1> SUFFICES ASSUME Init PROVE TypeOK
  OBVIOUS
<1>1. concurrency \in 1..Cardinality(Slots)
  BY SlotsCount DEF Init
<1>2. worker \in [Slots -> Worker]
  <2>1. IdleWorker \in Worker
    BY DEF IdleWorker, Worker
  <2> QED BY <2>1 DEF Init
<1>3. events \in 0..MaxEvents
  BY ConstantsAssumption DEF Init
<1>4. pending \in Seq(SUBSET Jobs)
  BY DEF Init
<1> QED BY <1>1, <1>2, <1>3, <1>4 DEF Init, TypeOK, JobStatus

\* Every step preserves the types.
LEMMA NextType ==
  ASSUME TypeOK, [Next]_vars
  PROVE  TypeOK'
<1>1. CASE Next
  BY <1>1, PumpType, WorkType, IntakeType, OperatorType, TimerType, RecoveryType,
     ProcessType DEF Next
<1>2. CASE UNCHANGED vars
  BY <1>2 DEF vars, TypeOK
<1> QED BY <1>1, <1>2

(***************************************************************************)
(* Every field and row of the queue keeps its type, whatever the operator, *)
(* the runs, the timers and crashes do: no timer count goes below zero, no *)
(* unit holds anything but jobs, and a worker that preprocesses has a      *)
(* member in its hands.                                                    *)
(***************************************************************************)
THEOREM TypeCorrect == Spec => []TypeOK
<1>1. Init => TypeOK
  BY InitType
<1>2. TypeOK /\ [Next]_vars => TypeOK'
  BY NextType
<1> QED BY <1>1, <1>2, PTL DEF Spec

-----------------------------------------------------------------------------
(***************************************************************************)
(* The pump: no lost wakeup.  A step between two turns either leaves a     *)
(* pump under way (or the queue is not running), or it changes nothing the *)
(* pump would look at; the exceptions are the ends of a pump and a resume  *)
(* timer that finds the queue not paused.                                  *)
(***************************************************************************)
Loud  == pumping' \/ mode' # "running"
Quiet == /\ ~pumping
         /\ UNCHANGED <<mode, concurrency, pending, paused, resumeTimers, waiter>>
         /\ Busy' = Busy /\ joined \subseteq joined'
         /\ Claimable' \subseteq Claimable

\* Rows that only leave the queue give the pump nothing to claim.
LEMMA ClaimableShrinks ==
  ASSUME \A j \in Jobs : Standalone(j) /\ status'[j] = "queued" => status[j] = "queued",
         \A j \in Jobs : ~held'[j] => ~held[j] \/ status'[j] # "queued"
  PROVE  Claimable' \subseteq Claimable
BY DEF Claimable, Ready, Standalone

\* A worker that goes on keeps its slot, or ends and pumps.
LEMMA GoOnKind ==
  ASSUME TypeOK, NEW s \in Busy, NEW unit, NEW rest, NEW ready,
         NEW st \in [Jobs -> JobStatus],
         \A j \in Jobs : st[j] = "queued" => status[j] = "queued",
         GoOn(s, unit, rest, st, ready), UNCHANGED held
  PROVE  pumping' \/ (pumping' = pumping /\ Busy' = Busy /\ Claimable' \subseteq Claimable)
<1>0. s \in Slots /\ worker \in [Slots -> Worker] /\ worker[s].at # "idle"
  BY DEF TypeOK, Busy
<1>1. CASE NextMember(s, unit, rest, st, ready)
  <2>1. PICK m : /\ status' = [st EXCEPT ![m] = "preprocessing"]
                 /\ worker' = [worker EXCEPT ![s] = [at |-> "pre", unit |-> unit, cur |-> m,
                                  rest |-> {j \in rest : j > m}, ready |-> ready]]
    BY <1>1 DEF NextMember
  <2>2. \A t \in Slots : worker'[t].at = "idle" <=> worker[t].at = "idle"
    BY <1>0, <2>1
  <2>3. \A j \in Jobs : status'[j] = "queued" => status[j] = "queued"
    BY <2>1
  <2>4. pumping' = pumping
    BY <1>1 DEF NextMember
  <2> QED BY <2>2, <2>3, <2>4, ClaimableShrinks DEF Busy
<1>2. CASE StartRun(s, unit, rest, st, ready)
  <2>1. worker' = [worker EXCEPT ![s] = [at |-> "run", unit |-> unit, cur |-> NoJob,
                                         rest |-> {}, ready |-> ready]]
    BY <1>2 DEF StartRun
  <2>2. \A t \in Slots : worker'[t].at = "idle" <=> worker[t].at = "idle"
    BY <1>0, <2>1
  <2>3. \A j \in Jobs : status'[j] = "queued" => status[j] = "queued"
    BY <1>2 DEF StartRun
  <2>4. pumping' = pumping
    BY <1>2 DEF StartRun
  <2> QED BY <2>2, <2>3, <2>4, ClaimableShrinks DEF Busy
<1>3. CASE NothingToRun(s, unit, rest, st, ready)
  BY <1>3 DEF NothingToRun
<1> QED BY <1>1, <1>2, <1>3 DEF GoOn

\* A claim leaves the pump under way.
LEMMA ClaimKind ==
  ASSUME NEW s \in Slots, PumpClaimsBatch(s) \/ PumpClaimsJob(s)
  PROVE  pumping'
<1>1. pumping
  BY DEF PumpClaimsBatch, PumpClaimsJob, MayClaim
<1>2. CASE PumpClaimsBatch(s)
  BY <1>1, <1>2 DEF PumpClaimsBatch, GoOn, NextMember, StartRun, NothingToRun
<1>3. CASE PumpClaimsJob(s)
  BY <1>1, <1>3 DEF PumpClaimsJob, NextMember
<1> QED BY <1>2, <1>3

\* Every way a worker ends pumps; on the others it keeps its slot.
LEMMA WorkKind ==
  ASSUME TypeOK, NEW s \in Slots, Work(s)
  PROVE  Loud \/ Quiet
<1>0. /\ status \in [Jobs -> JobStatus] /\ worker \in [Slots -> Worker]
      /\ worker[s] \in Worker
  BY DEF TypeOK
<1>1. EndWorker(s) => Loud
  BY DEF EndWorker, Loud
<1>2. ASSUME NEW st \in [Jobs -> JobStatus], NEW ready, MemberEnds(s, st, ready),
             \A j \in Jobs : st[j] = "queued" => status[j] = "queued",
             worker[s].at # "idle", ~pumping, UNCHANGED <<held, timers, intake, startup,
             concurrency, pending, waiter>>
      PROVE  Loud \/ Quiet
  <2>1. s \in Busy /\ GoOn(s, worker[s].unit, worker[s].rest, st, ready)
    BY <1>2 DEF Busy, MemberEnds
  <2>2. pumping' \/ (pumping' = pumping /\ Busy' = Busy /\ Claimable' \subseteq Claimable)
    BY <1>2, <2>1, GoOnKind
  <2> QED BY <1>2, <2>2 DEF Loud, Quiet
<1>3. CASE PreprocessEnds(s)
  <2>1. /\ worker[s].at = "pre" /\ ~pumping
        /\ UNCHANGED <<held, timers, intake, startup, concurrency, pending, waiter>>
    BY <1>3 DEF PreprocessEnds, Preprocessing, Turn
  <2>2. CASE MemberEnds(s, status, worker[s].ready \cup {worker[s].cur})
    BY <1>0, <1>2, <2>1, <2>2
  <2>3. ASSUME NEW to \in {"deferred", "failed"},
               MemberEnds(s, [status EXCEPT ![worker[s].cur] = to], worker[s].ready)
        PROVE  Loud \/ Quiet
    <3> DEFINE st == [status EXCEPT ![worker[s].cur] = to]
    <3>1. st \in [Jobs -> JobStatus] /\ \A j \in Jobs : st[j] = "queued" => status[j] = "queued"
      BY <1>0 DEF JobStatus
    <3>2. MemberEnds(s, st, worker[s].ready)
      BY <2>3
    <3> HIDE DEF st
    <3> QED BY <1>2, <2>1, <3>1, <3>2
  <2> QED BY <1>3, <2>2, <2>3 DEF PreprocessEnds
<1>4. CASE StagingDiscarded(s)
  <2>1. /\ worker[s].at = "drop" /\ ~pumping
        /\ UNCHANGED <<held, timers, intake, startup, concurrency, pending, waiter>>
        /\ MemberEnds(s, status, worker[s].ready)
    BY <1>4 DEF StagingDiscarded, Turn
  <2> QED BY <1>0, <1>2, <2>1
<1>5. CASE PreprocessFindsDuplicate(s)
  <2>1. /\ status' = [status EXCEPT ![worker[s].cur] = "duplicate"]
        /\ worker' = [worker EXCEPT ![s].at = "drop"]
        /\ worker[s].at = "pre" /\ ~pumping
        /\ UNCHANGED <<held, timers, intake, startup, concurrency, pending, waiter>>
    BY <1>5 DEF PreprocessFindsDuplicate, Preprocessing, Turn
  <2>2. \A t \in Slots : worker'[t].at = "idle" <=> worker[t].at = "idle"
    BY <1>0, <2>1 DEF Worker
  <2>3. \A j \in Jobs : status'[j] = "queued" => status[j] = "queued"
    BY <1>0, <2>1
  <2> QED BY <2>1, <2>2, <2>3, ClaimableShrinks DEF Quiet, Busy
<1>6. CASE RunTouchesMarker(s)
  <2>1. /\ ~pumping
        /\ UNCHANGED <<status, held, worker, timers, intake, startup, concurrency, pending, waiter>>
    BY <1>6 DEF RunTouchesMarker, Running, Turn
  <2> QED BY <2>1, ClaimableShrinks DEF Quiet, Busy
<1>7. CASE RunSucceeds(s)
  <2>1. /\ MoveReady(s, "done") /\ worker' = [worker EXCEPT ![s].at = "tail"]
        /\ worker[s].at = "run" /\ ~pumping
        /\ UNCHANGED <<held, timers, intake, startup, concurrency, pending, waiter>>
    BY <1>7 DEF RunSucceeds, Running, Turn
  <2>2. \A t \in Slots : worker'[t].at = "idle" <=> worker[t].at = "idle"
    BY <1>0, <2>1 DEF Worker
  <2>3. \A j \in Jobs : status'[j] = "queued" => status[j] = "queued"
    BY <1>0, <2>1 DEF MoveReady
  <2> QED BY <2>1, <2>2, <2>3, ClaimableShrinks DEF Quiet, Busy
<1>8. CASE RejectionEndsProcess(s)
  BY <1>8 DEF RejectionEndsProcess, LoseMemory, Loud
<1>9. CASE \/ PreprocessFailsTransiently(s) \/ StagingLogFails(s) \/ RunHitsUsageLimit(s)
           \/ RunFailsTransiently(s) \/ RunFailsForGood(s) \/ WorkerCrashes(s) \/ TailEnds(s)
  BY <1>1, <1>9 DEF PreprocessFailsTransiently, StagingLogFails, RunHitsUsageLimit,
                    RunFailsTransiently, RunFailsForGood, WorkerCrashes, TailEnds
<1> QED BY <1>3, <1>4, <1>5, <1>6, <1>7, <1>8, <1>9 DEF Work


\* Intake and the operator: what makes a job claimable pumps.
LEMMA IntakeKind ==
  ASSUME TypeOK, Intake \/ Operator
  PROVE  Loud \/ Quiet \/ (pumping' /\ waiter' = "waiting")
<1>0. status \in [Jobs -> JobStatus] /\ held \in [Jobs -> BOOLEAN]
  BY DEF TypeOK
<1>1. ASSUME NEW j \in Jobs, NEW to \in {"queued", "duplicate", "failed"}, NEW hold \in BOOLEAN,
             CreateRow(j, to, hold), Standalone(j) => to = "failed"
      PROVE  Claimable' \subseteq Claimable
  <2>1. /\ status' = [status EXCEPT ![j] = to]
        /\ held' = [held EXCEPT ![j] = hold /\ to # "duplicate"]
    BY <1>1 DEF CreateRow
  <2>2. \A i \in Jobs : Standalone(i) /\ status'[i] = "queued" /\ ~held'[i]
                          => status[i] = "queued" /\ ~held[i]
    BY <1>0, <1>1, <2>1
  <2> QED BY <2>2 DEF Claimable, Ready, Standalone
<1>2. ASSUME NEW j \in Jobs, RejectOversized(j) PROVE Quiet
  <2>1. CreateRow(j, "failed", FALSE)
    BY <1>2 DEF RejectOversized
  <2>2. Claimable' \subseteq Claimable
    BY <1>1, <2>1
  <2> QED BY <1>2, <2>2 DEF RejectOversized, Turn, Quiet, Busy
<1>3. ASSUME NEW j \in Jobs, BatchAdds(j) PROVE Quiet
  <2>1. PICK hold \in BOOLEAN, to \in {"queued", "duplicate", "failed"} :
          /\ CreateRow(j, to, hold)
          /\ joined' = IF to = "queued" THEN joined \cup {j} ELSE joined
    BY <1>3 DEF BatchAdds
  <2>2. ~Standalone(j)
    BY <1>3 DEF BatchAdds
  <2>3. Claimable' \subseteq Claimable
    BY <1>1, <2>1, <2>2
  <2> QED BY <1>3, <2>1, <2>3 DEF BatchAdds, Turn, Quiet, Busy
<1>4. ASSUME NEW j \in Jobs, Enqueue(j) PROVE Loud
  BY <1>4 DEF Enqueue, Loud
<1>5. ASSUME NEW b \in Batches, BatchCloses(b) PROVE Loud
  BY <1>5 DEF BatchCloses, Loud
<1>6. ASSUME NEW j \in Jobs, RetryJob(j) PROVE Loud
  BY <1>6 DEF RetryJob, Loud
<1>7. ASSUME NEW j \in Jobs, CancelJob(j) \/ RemoveJob(j) PROVE Quiet
  <2>1. \A i \in Jobs : status'[i] = "queued" => status[i] = "queued"
    BY <1>0, <1>7 DEF CancelJob, RemoveJob
  <2>2. Claimable' \subseteq Claimable
    BY <1>7, <2>1, ClaimableShrinks DEF CancelJob, RemoveJob
  <2> QED BY <1>7, <2>2 DEF CancelJob, RemoveJob, Turn, Quiet, Busy
<1>8. CASE ClearHistory
  <2>1. \A i \in Jobs : status'[i] = "queued" => status[i] = "queued"
    BY <1>0, <1>8 DEF ClearHistory
  <2>2. Claimable' \subseteq Claimable
    BY <1>8, <2>1, ClaimableShrinks DEF ClearHistory
  <2> QED BY <1>8, <2>2 DEF ClearHistory, Turn, Quiet, Busy
<1>9. CASE SetConcurrency \/ ResumeManually \/ NightBegins
  BY <1>9 DEF SetConcurrency, ResumeManually, NightBegins, Loud
<1> QED BY <1>2, <1>3, <1>4, <1>5, <1>6, <1>7, <1>8, <1>9 DEF Intake, Operator

\* Timers, the budget, the startup and the ends of the process.
LEMMA OthersKind ==
  ASSUME TypeOK, Timer \/ Recovery \/ Process
  PROVE  Loud \/ Quiet \/ ResumeTimerFires
<1>1. ASSUME NEW j \in Jobs, RetryTimerFires(j) PROVE Loud \/ Quiet
  <2>1. CASE mode # "stopped" /\ status[j] = "failed"
    BY <1>1, <2>1 DEF RetryTimerFires, Loud
  <2>2. CASE ~(mode # "stopped" /\ status[j] = "failed")
    <3>1. status' = status /\ pumping' = FALSE
      BY <1>1, <2>2 DEF RetryTimerFires
    <3>2. /\ ~pumping
          /\ UNCHANGED <<mode, concurrency, pending, paused, resumeTimers, waiter, held,
                         worker, joined>>
      BY <1>1 DEF RetryTimerFires, Turn
    <3>3. Claimable' \subseteq Claimable
      BY <3>1, <3>2, ClaimableShrinks
    <3> QED BY <3>2, <3>3 DEF Quiet, Busy
  <2> QED BY <2>1, <2>2
<1>2. CASE BudgetSpent \/ Midnight
  <2>1. /\ ~pumping
        /\ UNCHANGED <<status, mode, concurrency, pending, paused, resumeTimers, waiter, held,
                       worker, joined>>
    BY <1>2 DEF BudgetSpent, Midnight
  <2>2. Claimable' \subseteq Claimable
    BY <2>1, ClaimableShrinks
  <2> QED BY <2>1, <2>2 DEF Quiet, Busy
<1>3. CASE ReconcileJob
  BY <1>3 DEF ReconcileJob, Loud
<1>4. CASE ReconcileEnds
  BY <1>4 DEF ReconcileEnds, Loud
<1>5. CASE Stop \/ Exit \/ Crash \/ Start \/ \E s \in Slots : CrashBetweenJobs(s)
  BY <1>5 DEF Stop, Exit, Crash, Start, CrashBetweenJobs, LoseMemory, Loud
<1>6. CASE MarkersExpire
  BY <1>6 DEF MarkersExpire, Loud
<1> QED BY <1>1, <1>2, <1>3, <1>4, <1>5, <1>6 DEF Timer, Recovery, Process

\* All steps.
LEMMA StepKind ==
  ASSUME TypeOK, Next
  PROVE  Loud \/ Quiet \/ ResumeTimerFires \/ PumpPausesForBudget \/ PumpEnds
<1>1. ASSUME Pump PROVE Loud \/ PumpPausesForBudget \/ PumpEnds
  BY <1>1, ClaimKind DEF Pump, Loud
<1> QED BY <1>1, WorkKind, IntakeKind, OthersKind DEF Next, Loud

\* A free slot of a running queue has nothing to claim: preserved by every step.
LEMMA NextConserves ==
  ASSUME TypeOK, WorkConserving, [Next]_vars
  PROVE  WorkConserving'
<1>1. CASE Loud
  BY <1>1 DEF Loud, WorkConserving
<1>2. CASE Quiet
  BY <1>2 DEF Quiet, WorkConserving
<1>3. CASE ResumeTimerFires
  <2>1. CASE paused
    BY <1>3, <2>1 DEF ResumeTimerFires, WorkConserving
  <2>2. CASE ~paused
    <3>1. /\ ~pumping /\ UNCHANGED <<mode, concurrency, pending, worker, status, held>>
      BY <1>3 DEF ResumeTimerFires, Turn
    <3> QED BY <2>2, <3>1 DEF WorkConserving, Busy, Claimable, Ready, Standalone
  <2> QED BY <2>1, <2>2
<1>4. CASE PumpPausesForBudget
  BY <1>4 DEF PumpPausesForBudget, WorkConserving
<1>5. CASE PumpEnds
  <2>1. Cardinality(Busy) \in Nat
    <3>1. Busy \subseteq Slots
      BY DEF Busy
    <3> QED BY <3>1, FS_Subset, FS_CardinalityType, ConstantsAssumption
  <2>2. concurrency \in Int
    BY SlotsCount DEF TypeOK
  <2>3. UNCHANGED <<mode, paused, concurrency, pending, Busy, Claimable>>
    BY <1>5 DEF PumpEnds, Busy, Claimable, Ready, Standalone
  <2> QED BY <1>5, <2>1, <2>2, <2>3 DEF PumpEnds, MayClaim, WorkConserving
<1>6. CASE UNCHANGED vars
  BY <1>6 DEF vars, WorkConserving, Busy, Claimable, Ready, Standalone
<1> QED BY <1>1, <1>2, <1>3, <1>4, <1>5, <1>6, StepKind

(***************************************************************************)
(* No lost wakeup: whatever frees a worker, queues a job, raises the       *)
(* concurrency or ends a pause leaves a pump behind, so between two turns  *)
(* of a running queue a free slot means there is nothing to claim.         *)
(***************************************************************************)
THEOREM WorkConserved == Spec => []WorkConserving
<1>1. Init => WorkConserving
  BY DEF Init, WorkConserving, Claimable, Ready
<1>2. TypeOK /\ WorkConserving /\ [Next]_vars => WorkConserving'
  BY NextConserves
<1> QED BY <1>1, <1>2, TypeCorrect, PTL DEF Spec

\* A waiter the pump did not wake has a slot, a drop or a pause to wait for.
LEMMA NextWakes ==
  ASSUME TypeOK, Woken, NothingStranded', [Next]_vars
  PROVE  Woken'
<1>1. CASE Loud
  BY <1>1 DEF Loud, Woken
<1>2. CASE Quiet
  BY <1>2 DEF Quiet, Woken
<1>3. CASE ResumeTimerFires
  <2>1. CASE paused
    BY <1>3, <2>1 DEF ResumeTimerFires, Woken
  <2>2. CASE ~paused
    <3>1. /\ ~pumping /\ UNCHANGED <<mode, joined, worker, waiter>>
      BY <1>3 DEF ResumeTimerFires, Turn
    <3> QED BY <2>2, <3>1 DEF Woken, Busy
  <2> QED BY <2>1, <2>2
<1>4. CASE PumpPausesForBudget
  <2>1. resumeTimers' > 0
    BY <1>4 DEF PumpPausesForBudget, TypeOK
  <2> QED BY <1>4, <2>1 DEF PumpPausesForBudget, Woken
<1>5. CASE PumpEnds
  <2>1. UNCHANGED <<status, held, mode, paused, concurrency, pending, worker, joined, Busy>>
    BY <1>5 DEF PumpEnds, Busy
  <2> SUFFICES ASSUME waiter' = "waiting", Busy' = {}, joined' = {}, mode' = "running"
               PROVE  FALSE
    BY DEF Woken
  <2>2. ~IsIdle'
    BY <1>5 DEF PumpEnds, SettleIdle
  <2>3. ~paused
    BY <2>1, <2>2 DEF IsIdle
  <2>4. ~(Cardinality(Busy) >= concurrency)
    <3>1. Busy = {} /\ Cardinality({}) = 0
      BY <2>1, FS_EmptySet
    <3>2. concurrency \in Int /\ concurrency > 0
      BY SlotsCount DEF TypeOK
    <3> QED BY <3>1, <3>2
  <2>5. pending = <<>> /\ Claimable = {}
    <3>1. mode = "running"
      BY <2>1
    <3> QED BY <1>5, <2>3, <2>4, <3>1, Zenon DEF PumpEnds
  <2>6. PICK j \in Jobs : Ready(j)
    BY <2>1, <2>2, <2>5 DEF IsIdle, Ready
  <2>7. ~Standalone(j)
    BY <2>5, <2>6 DEF Claimable
  <2>8. ~InUnit(j)'
    BY <2>1, <2>5 DEF InUnit
  <2>9. j \in Stranded'
    BY <2>1, <2>6, <2>7, <2>8 DEF Stranded, Ready, Standalone
  <2>10. ~pumping'
    BY <1>5 DEF PumpEnds
  <2> QED BY <2>9, <2>10 DEF NothingStranded
<1>6. CASE UNCHANGED vars
  BY <1>6 DEF vars, Woken, Busy
<1> QED BY <1>1, <1>2, <1>3, <1>4, <1>5, <1>6, StepKind

(***************************************************************************)
(* Whoever waits on onIdle(), as the night shift does, is never forgotten  *)
(* as long as no member is stranded: there is always a pump, a worker, a   *)
(* batch drop, a timed pause or a startup whose end looks at the waiters.  *)
(***************************************************************************)
THEOREM WaiterWoken == Spec => WaiterWakes
<1>1. Init => Woken
  BY DEF Init, Woken
<1>2. TypeOK /\ Woken /\ NothingStranded' /\ [Next]_vars => Woken'
  BY NextWakes
<1> QED BY <1>1, <1>2, TypeCorrect, PTL DEF Spec, WaiterWakes

(***************************************************************************)
(* No pause is for good: while the queue is paused, for a usage limit or a *)
(* spent budget, at least one auto-resume timer has not fired yet, however *)
(* many pauses and manual resumes came before.                             *)
(***************************************************************************)
PauseTimed == paused => resumeTimers > 0

THEOREM PausesTimed == Spec => []PauseTimed
<1>1. Init => PauseTimed
  BY DEF Init, PauseTimed
<1>2. ASSUME TypeOK, PauseTimed, Next PROVE PauseTimed'
  <2>1. resumeTimers \in Nat
    BY <1>2 DEF TypeOK
  <2>2. ASSUME UNCHANGED <<paused, resumeTimers>> PROVE PauseTimed'
    BY <1>2, <2>2, Zenon DEF PauseTimed
  <2>3. ~paused' => PauseTimed'
    BY DEF PauseTimed
  <2>4. CASE Pump
    <3>1. CASE PumpPausesForBudget
      BY <2>1, <3>1 DEF PumpPausesForBudget, PauseTimed
    <3>2. CASE PumpEnds \/ \E s \in Slots : PumpClaimsBatch(s) \/ PumpClaimsJob(s)
      BY <2>2, <3>2 DEF PumpEnds, PumpClaimsBatch, PumpClaimsJob
    <3> QED BY <2>4, <3>1, <3>2 DEF Pump
  <2>5. ASSUME NEW s \in Slots, Work(s) PROVE PauseTimed'
    <3>1. CASE RunHitsUsageLimit(s)
      <4>1. resumeTimers' = IF paused THEN resumeTimers ELSE resumeTimers + 1
        BY <2>1, <3>1 DEF RunHitsUsageLimit
      <4>2. CASE paused
        BY <1>2, <4>1, <4>2 DEF PauseTimed
      <4>3. CASE ~paused
        BY <2>1, <4>1, <4>3 DEF PauseTimed
      <4> QED BY <4>2, <4>3
    <3>2. CASE RejectionEndsProcess(s)
      BY <2>3, <3>2 DEF RejectionEndsProcess, LoseMemory
    <3>3. CASE PreprocessEnds(s) \/ PreprocessFailsTransiently(s) \/ PreprocessFindsDuplicate(s)
      BY <2>2, <3>3 DEF PreprocessEnds, PreprocessFailsTransiently, PreprocessFindsDuplicate
    <3>4. CASE StagingDiscarded(s) \/ StagingLogFails(s) \/ RunTouchesMarker(s) \/ RunSucceeds(s)
      BY <2>2, <3>4 DEF StagingDiscarded, StagingLogFails, RunTouchesMarker, RunSucceeds
    <3>5. CASE RunFailsTransiently(s) \/ RunFailsForGood(s) \/ WorkerCrashes(s) \/ TailEnds(s)
      BY <2>2, <3>5 DEF RunFailsTransiently, RunFailsForGood, WorkerCrashes, TailEnds
    <3> QED BY <2>5, <3>1, <3>2, <3>3, <3>4, <3>5 DEF Work
  <2>6. CASE Intake \/ Operator
    <3>1. CASE ResumeManually
      BY <2>3, <3>1 DEF ResumeManually
    <3>2. CASE ClearHistory \/ SetConcurrency \/ NightBegins
      BY <2>2, <3>2 DEF ClearHistory, SetConcurrency, NightBegins
    <3>3. CASE \E j \in Jobs : RetryJob(j) \/ CancelJob(j) \/ RemoveJob(j)
      BY <2>2, <3>3 DEF RetryJob, CancelJob, RemoveJob
    <3>4. CASE Intake
      BY <2>2, <3>4 DEF Intake, Enqueue, RejectOversized, BatchAdds, BatchCloses
    <3> QED BY <2>6, <3>1, <3>2, <3>3, <3>4 DEF Operator
  <2>7. CASE Timer
    <3>1. CASE ResumeTimerFires
      BY <2>3, <3>1 DEF ResumeTimerFires
    <3>2. CASE BudgetSpent \/ Midnight \/ \E j \in Jobs : RetryTimerFires(j)
      BY <2>2, <3>2 DEF BudgetSpent, Midnight, RetryTimerFires
    <3> QED BY <2>7, <3>1, <3>2 DEF Timer
  <2>8. CASE Recovery
    BY <2>2, <2>8 DEF Recovery, ReconcileJob, ReconcileEnds
  <2>9. CASE Process
    <3>1. CASE Exit \/ Crash \/ \E s \in Slots : CrashBetweenJobs(s)
      BY <2>3, <3>1 DEF Exit, Crash, CrashBetweenJobs, LoseMemory
    <3>2. CASE Stop \/ Start \/ MarkersExpire
      BY <2>2, <3>2 DEF Stop, Start, MarkersExpire
    <3> QED BY <2>9, <3>1, <3>2 DEF Process
  <2> QED BY <1>2, <2>4, <2>5, <2>6, <2>7, <2>8, <2>9 DEF Next
<1>3. PauseTimed /\ UNCHANGED vars => PauseTimed'
  BY DEF PauseTimed, vars
<1> QED BY <1>1, <1>2, <1>3, TypeCorrect, PTL DEF Spec

=============================================================================
