------------------------- MODULE IngestQueueUnits -------------------------
(***************************************************************************)
(* What the queue takes up, and with it the night hold: proof of HeldWaits *)
(* for any number of jobs, batches, slots and events.                      *)
(***************************************************************************)
EXTENDS IngestQueueProofs

\* The tuples UNCHANGED is stated with.
USE DEF table, timers, intake, startup, history

(***************************************************************************)
(* What the queue has taken up: a unit is one standalone job or members of *)
(* a batch, and none of its jobs is held or yet to be created. A job that  *)
(* is still held was never taken up.                                       *)
(***************************************************************************)
Ok(j) == ~held[j] /\ status[j] # "none"

Untouched == \A j \in Jobs : held[j] => status[j] \notin Active \cup {"done"}

PendingOk == \A i \in DOMAIN pending : \A j \in pending[i] : Ok(j) /\ ~Standalone(j)

UnitOk(s) ==
  /\ worker[s].rest \subseteq worker[s].unit /\ worker[s].ready \subseteq worker[s].unit
  /\ worker[s].at = "pre" => worker[s].cur \in worker[s].unit
  /\ (\E j \in Jobs : worker[s].unit = {j}) \/ (\A j \in worker[s].unit : ~Standalone(j))
  /\ \A j \in worker[s].unit : Ok(j)

JoinedOk == \A j \in joined :
  /\ status[j] # "none" /\ ~Standalone(j)
  /\ drop[BatchOf[j]] \in {"open", "openHeld"}
  /\ drop[BatchOf[j]] = "open" => ~held[j]

UnitInv == /\ Untouched /\ PendingOk /\ JoinedOk
           /\ \A s \in Slots : UnitOk(s)

\* The strengthening says more than HeldWaits does.
LEMMA UnitInvHeldWaits ==
  ASSUME TypeOK, UnitInv
  PROVE  HeldWaits
BY DEF UnitInv, Untouched, PendingOk, Ok, HeldWaits, TypeOK

-----------------------------------------------------------------------------
(***************************************************************************)
(* How steps treat what is taken up.                                       *)
(***************************************************************************)
\* The hold is left alone, no row reappears and no held one is taken up.
LEMMA HoldKept ==
  ASSUME TypeOK, UnitInv, UNCHANGED <<held, drop, joined>>,
         \A j \in Jobs : \/ status'[j] = status[j]
                         \/ /\ status'[j] # "none"
                            /\ held[j] => status'[j] \notin Active \cup {"done"}
  PROVE  (\A j \in Jobs : Ok(j) => Ok(j)') /\ Untouched' /\ JoinedOk'
<1>1. \A j \in Jobs : Ok(j) => Ok(j)'
  BY DEF Ok
<1>2. Untouched'
  BY DEF UnitInv, Untouched
<1>3. JoinedOk'
  BY DEF UnitInv, JoinedOk, TypeOK
<1> QED BY <1>1, <1>2, <1>3

\* Pending units are only taken away.
LEMMA PendingKept ==
  ASSUME TypeOK, UnitInv, \A j \in Jobs : Ok(j) => Ok(j)',
         UNCHANGED pending \/ (pending # <<>> /\ pending' = Tail(pending))
  PROVE  PendingOk'
<1>1. pending \in Seq(SUBSET Jobs)
  BY DEF TypeOK
<1>2. \A i \in DOMAIN pending' : \E k \in DOMAIN pending : pending'[i] = pending[k]
  <2>1. CASE UNCHANGED pending
    BY <2>1
  <2>2. CASE pending # <<>> /\ pending' = Tail(pending)
    <3>1. \A i \in DOMAIN pending' : i+1 \in DOMAIN pending /\ pending'[i] = pending[i+1]
      BY <1>1, <2>2
    <3> QED BY <3>1
  <2> QED BY <2>1, <2>2
<1>3. \A k \in DOMAIN pending : pending[k] \subseteq Jobs
  BY <1>1
<1> QED BY <1>2, <1>3 DEF UnitInv, PendingOk

\* A unit is appended.
LEMMA PendingGrows ==
  ASSUME TypeOK, UnitInv, \A j \in Jobs : Ok(j) => Ok(j)',
         NEW unit \in SUBSET Jobs, pending' = Append(pending, unit),
         \A j \in unit : Ok(j)' /\ ~Standalone(j)
  PROVE  PendingOk'
<1>1. pending \in Seq(SUBSET Jobs)
  BY DEF TypeOK
<1>2. ASSUME NEW i \in DOMAIN pending' PROVE pending'[i] = unit \/ (i \in DOMAIN pending /\ pending'[i] = pending[i])
  BY <1>1
<1>3. \A k \in DOMAIN pending : pending[k] \subseteq Jobs
  BY <1>1
<1> QED BY <1>2, <1>3 DEF UnitInv, PendingOk

\* The units a reload finds are of queued members that are not held.
LEMMA PendingReloads ==
  ASSUME TypeOK, UnitInv, \A j \in Jobs : Ok(j) => Ok(j)',
         NEW st \in [Jobs -> JobStatus], NEW hd \in [Jobs -> BOOLEAN],
         ReloadPendingBatches(st, hd), status' = st, held' = hd
  PROVE  PendingOk'
<1>1. PICK found \in Seq(UnitsOf(st, hd, Known)) : pending' = pending \o found
  BY ReloadAppends
<1>2. pending \in Seq(SUBSET Jobs)
  BY DEF TypeOK
<1>3. ASSUME NEW U \in UnitsOf(st, hd, Known), NEW j \in U
      PROVE  Ok(j)' /\ ~Standalone(j)
  BY ConstantsAssumption DEF UnitsOf, Ok, Standalone
<1>4. ASSUME NEW i \in DOMAIN pending'
      PROVE  \/ i \in DOMAIN pending /\ pending'[i] = pending[i]
             \/ pending'[i] \in UnitsOf(st, hd, Known)
  BY <1>1, <1>2
<1>5. \A k \in DOMAIN pending : pending[k] \subseteq Jobs
  BY <1>2
<1> QED BY <1>3, <1>4, <1>5 DEF UnitInv, PendingOk

\* Workers keep their units, or end.
LEMMA WorkersKept ==
  ASSUME TypeOK, UnitInv, \A j \in Jobs : Ok(j) => Ok(j)',
         \A s \in Slots : \/ worker'[s] = worker[s] \/ worker'[s] = IdleWorker
                          \/ \E at \in {"drop", "tail"} : worker'[s] = [worker[s] EXCEPT !.at = at]
  PROVE  \A s \in Slots : UnitOk(s)'
<1> SUFFICES ASSUME NEW s \in Slots PROVE UnitOk(s)'
  OBVIOUS
<1>1. worker[s] \in Worker /\ UnitOk(s) /\ worker[s].unit \subseteq Jobs
  BY DEF TypeOK, Worker, UnitInv
<1>2. CASE worker'[s] = worker[s]
  BY <1>1, <1>2 DEF UnitOk
<1>3. CASE worker'[s] = IdleWorker
  BY <1>3 DEF UnitOk, IdleWorker
<1>4. ASSUME NEW at \in {"drop", "tail"}, worker'[s] = [worker[s] EXCEPT !.at = at]
      PROVE  UnitOk(s)'
  <2>1. /\ worker'[s].rest = worker[s].rest /\ worker'[s].ready = worker[s].ready
        /\ worker'[s].unit = worker[s].unit /\ worker'[s].at = at
    BY <1>1, <1>4 DEF Worker
  <2> QED BY <1>1, <2>1 DEF UnitOk
<1> QED BY <1>2, <1>3, <1>4

\* A worker that starts or goes on takes its jobs from its unit.
LEMMA UnitGoesOn ==
  ASSUME TypeOK, UnitInv, NEW s \in Slots, NEW unit \in SUBSET Jobs, NEW rest \in SUBSET unit,
         NEW ready \in SUBSET unit, NEW st \in [Jobs -> JobStatus],
         GoOn(s, unit, rest, st, ready),
         (\E j \in Jobs : unit = {j}) \/ (\A j \in unit : ~Standalone(j)),
         \A j \in unit : Ok(j),
         \A j \in Jobs : st[j] = status[j] \/ (j \in unit /\ st[j] # "none"),
         UNCHANGED <<held, drop, joined>>,
         UNCHANGED pending \/ (pending # <<>> /\ pending' = Tail(pending))
  PROVE  UnitInv'
<1>0. worker \in [Slots -> Worker]
  BY DEF TypeOK
<1>1. \A j \in Jobs : \/ status'[j] = status[j]
                      \/ j \in unit /\ status'[j] # "none"
  <2>1. CASE NextMember(s, unit, rest, st, ready)
    BY <2>1 DEF NextMember, First
  <2>2. CASE StartRun(s, unit, rest, st, ready)
    BY <2>2 DEF StartRun
  <2>3. CASE NothingToRun(s, unit, rest, st, ready)
    BY <2>3 DEF NothingToRun
  <2> QED BY <2>1, <2>2, <2>3 DEF GoOn
<1>2. (\A j \in Jobs : Ok(j) => Ok(j)') /\ Untouched' /\ JoinedOk'
  <2>1. \A j \in unit : ~held[j]
    BY DEF Ok
  <2> QED BY <1>1, <2>1, HoldKept
<1>3. PendingOk'
  BY <1>2, PendingKept
<1>4. ASSUME NEW t \in Slots PROVE UnitOk(t)'
  <2>1. CASE t # s
    <3>1. worker'[t] = worker[t]
      BY <1>0, <2>1 DEF GoOn, NextMember, StartRun, NothingToRun
    <3>2. UnitOk(t) /\ worker[t].unit \subseteq Jobs
      BY <1>0 DEF UnitInv, Worker
    <3> QED BY <1>2, <3>1, <3>2 DEF UnitOk
  <2>2. CASE t = s
    <3>1. \A j \in unit : Ok(j)'
      BY <1>2
    <3>2. CASE NextMember(s, unit, rest, st, ready)
      <4>1. PICK m \in rest : worker'[s] = [at |-> "pre", unit |-> unit, cur |-> m,
                                            rest |-> {j \in rest : j > m}, ready |-> ready]
        BY <1>0, <3>2 DEF NextMember, First
      <4> QED BY <2>2, <3>1, <4>1 DEF UnitOk
    <3>3. CASE StartRun(s, unit, rest, st, ready)
      <4>1. worker'[s] = [at |-> "run", unit |-> unit, cur |-> NoJob,
                          rest |-> {}, ready |-> ready]
        BY <1>0, <3>3 DEF StartRun
      <4> QED BY <2>2, <3>1, <4>1 DEF UnitOk
    <3>4. CASE NothingToRun(s, unit, rest, st, ready)
      <4>1. worker'[s] = IdleWorker
        BY <1>0, <3>4 DEF NothingToRun
      <4> QED BY <2>2, <4>1 DEF UnitOk, IdleWorker
    <3> QED BY <3>2, <3>3, <3>4 DEF GoOn
  <2> QED BY <2>1, <2>2
<1> QED BY <1>2, <1>3, <1>4 DEF UnitInv

\* The process ends: nothing is taken up any more.
LEMMA UnitsForgotten ==
  ASSUME TypeOK, Untouched', LoseMemory
  PROVE  UnitInv'
BY DEF LoseMemory, UnitInv, PendingOk, JoinedOk, UnitOk, IdleWorker

\* The common case: rows move, workers keep their units or end, pending stays.
LEMMA UnitsKept ==
  ASSUME TypeOK, UnitInv, UNCHANGED <<held, drop, joined, pending>>,
         \A j \in Jobs : \/ status'[j] = status[j]
                         \/ /\ status'[j] # "none"
                            /\ held[j] => status'[j] \notin Active \cup {"done"},
         \A s \in Slots : \/ worker'[s] = worker[s] \/ worker'[s] = IdleWorker
                          \/ \E at \in {"drop", "tail"} : worker'[s] = [worker[s] EXCEPT !.at = at]
  PROVE  UnitInv'
<1>1. (\A j \in Jobs : Ok(j) => Ok(j)') /\ Untouched' /\ JoinedOk'
  BY HoldKept
<1>2. PendingOk'
  BY <1>1, PendingKept
<1>3. \A s \in Slots : UnitOk(s)'
  BY <1>1, WorkersKept
<1> QED BY <1>1, <1>2, <1>3 DEF UnitInv

-----------------------------------------------------------------------------
(***************************************************************************)
(* The step lemmas.                                                        *)
(***************************************************************************)
\* A claim takes a pending unit, or a queued job that is not held.
LEMMA PumpUnits ==
  ASSUME TypeOK, UnitInv, Pump
  PROVE  UnitInv'
<1>1. status \in [Jobs -> JobStatus] /\ pending \in Seq(SUBSET Jobs)
  BY DEF TypeOK
<1>2. ASSUME NEW s \in Slots, PumpClaimsBatch(s) PROVE UnitInv'
  <2>1. /\ pending # <<>> /\ pending' = Tail(pending)
        /\ GoOn(s, Head(pending), Head(pending), status, {})
        /\ UNCHANGED <<held, drop, joined>>
    BY <1>2 DEF PumpClaimsBatch
  <2>2. Head(pending) \in SUBSET Jobs /\ \A j \in Head(pending) : Ok(j) /\ ~Standalone(j)
    <3>1. 1 \in DOMAIN pending /\ Head(pending) = pending[1] /\ pending[1] \in SUBSET Jobs
      BY <1>1, <2>1
    <3> QED BY <3>1 DEF UnitInv, PendingOk
  <2> QED BY <1>1, <2>1, <2>2, UnitGoesOn
<1>3. ASSUME NEW s \in Slots, PumpClaimsJob(s) PROVE UnitInv'
  <2>1. PICK j \in First(Claimable) : NextMember(s, {j}, {j}, status, {})
    BY <1>3 DEF PumpClaimsJob
  <2>2. j \in Jobs /\ Ok(j)
    BY <2>1 DEF First, Claimable, Ready, Ok
  <2>3. GoOn(s, {j}, {j}, status, {}) /\ UNCHANGED <<held, drop, joined, pending>>
    BY <1>3, <2>1 DEF GoOn, PumpClaimsJob
  <2>4. {j} \in SUBSET Jobs /\ (\E k \in Jobs : {j} = {k})
    BY <2>2
  <2> QED BY <1>1, <2>2, <2>3, <2>4, UnitGoesOn
<1>4. CASE PumpPausesForBudget
  BY <1>4, UnitsKept DEF PumpPausesForBudget
<1>5. CASE PumpEnds
  BY <1>5, UnitsKept DEF PumpEnds
<1> QED BY <1>2, <1>3, <1>4, <1>5 DEF Pump

\* A worker goes on within its unit; what it requeues is what it had taken up.
LEMMA WorkUnits ==
  ASSUME TypeOK, UnitInv, NEW s \in Slots, Work(s)
  PROVE  UnitInv'
<1>1. /\ status \in [Jobs -> JobStatus] /\ worker \in [Slots -> Worker]
      /\ worker[s] \in Worker /\ worker[s].unit \in SUBSET Jobs
      /\ pending \in Seq(SUBSET Jobs)
  BY DEF TypeOK, Worker
<1>2. /\ worker[s].rest \in SUBSET worker[s].unit /\ worker[s].ready \in SUBSET worker[s].unit
      /\ worker[s].at = "pre" => worker[s].cur \in worker[s].unit
      /\ (\E j \in Jobs : worker[s].unit = {j}) \/ (\A j \in worker[s].unit : ~Standalone(j))
      /\ \A j \in worker[s].unit : Ok(j)
  BY DEF UnitInv, UnitOk
<1>3. EndWorker(s) => \A t \in Slots : worker'[t] = worker[t] \/ worker'[t] = IdleWorker
  BY <1>1 DEF EndWorker
<1>4. ASSUME NEW st \in [Jobs -> JobStatus], NEW ready \in SUBSET worker[s].unit,
             MemberEnds(s, st, ready),
             \A j \in Jobs : st[j] = status[j] \/ (j \in worker[s].unit /\ st[j] # "none"),
             UNCHANGED <<held, drop, joined, pending>>
      PROVE  UnitInv'
  <2>1. GoOn(s, worker[s].unit, worker[s].rest, st, ready)
    BY <1>4 DEF MemberEnds
  <2> QED BY <1>1, <1>2, <1>4, <2>1, UnitGoesOn
<1>5. CASE PreprocessEnds(s)
  <2>1. worker[s].at = "pre" /\ UNCHANGED <<held, drop, joined, pending>>
    BY <1>5 DEF PreprocessEnds, Preprocessing
  <2>2. ASSUME MemberEnds(s, status, worker[s].ready \cup {worker[s].cur}) PROVE UnitInv'
    <3>1. worker[s].ready \cup {worker[s].cur} \in SUBSET worker[s].unit
      BY <1>2, <2>1
    <3> QED BY <1>1, <1>4, <2>1, <2>2, <3>1
  <2>3. ASSUME NEW to \in {"deferred", "failed"},
               MemberEnds(s, [status EXCEPT ![worker[s].cur] = to], worker[s].ready)
        PROVE  UnitInv'
    <3> DEFINE st == [status EXCEPT ![worker[s].cur] = to]
    <3>1. st \in [Jobs -> JobStatus]
      BY <1>1 DEF JobStatus
    <3>2. \A j \in Jobs : st[j] = status[j] \/ (j \in worker[s].unit /\ st[j] # "none")
      BY <1>1, <1>2, <2>1
    <3>3. MemberEnds(s, st, worker[s].ready)
      BY <2>3
    <3> HIDE DEF st
    <3> QED BY <1>2, <1>4, <2>1, <3>1, <3>2, <3>3
  <2> QED BY <1>5, <2>2, <2>3 DEF PreprocessEnds
<1>6. CASE PreprocessFailsTransiently(s)
  <2>1. status' = [status EXCEPT ![worker[s].cur] = "failed"]
    BY <1>6 DEF PreprocessFailsTransiently
  <2>2. \A j \in Jobs : status'[j] = status[j] \/ status'[j] = "failed"
    BY <1>1, <2>1
  <2>3. UNCHANGED <<held, drop, joined, pending>> /\ EndWorker(s)
    BY <1>6 DEF PreprocessFailsTransiently
  <2> QED BY <1>3, <2>2, <2>3, UnitsKept DEF Active
<1>7. CASE PreprocessFindsDuplicate(s)
  <2>1. /\ status' = [status EXCEPT ![worker[s].cur] = "duplicate"]
        /\ worker' = [worker EXCEPT ![s].at = "drop"]
        /\ UNCHANGED <<held, drop, joined, pending>>
    BY <1>7 DEF PreprocessFindsDuplicate
  <2>2. \A j \in Jobs : status'[j] = status[j] \/ status'[j] = "duplicate"
    BY <1>1, <2>1
  <2>3. \A t \in Slots : \/ worker'[t] = worker[t]
                         \/ worker'[t] = [worker[t] EXCEPT !.at = "drop"]
    BY <1>1, <2>1
  <2> QED BY <2>1, <2>2, <2>3, UnitsKept DEF Active
<1>8. CASE StagingDiscarded(s)
  <2>1. /\ MemberEnds(s, status, worker[s].ready)
        /\ UNCHANGED <<held, drop, joined, pending>>
    BY <1>8 DEF StagingDiscarded
  <2> QED BY <1>1, <1>2, <1>4, <2>1
<1>9. CASE StagingLogFails(s)
  BY <1>3, <1>9, UnitsKept DEF StagingLogFails
<1>10. CASE RunTouchesMarker(s)
  BY <1>10, UnitsKept DEF RunTouchesMarker
<1>11. ASSUME NEW to \in {"done", "queued", "failed"}, MoveReady(s, to), UNCHANGED held
       PROVE  \A j \in Jobs : \/ status'[j] = status[j]
                              \/ /\ status'[j] # "none"
                                 /\ held[j] => status'[j] \notin Active \cup {"done"}
  BY <1>2, <1>11 DEF MoveReady, Ok, Active
<1>12. CASE RunSucceeds(s)
  <2>1. /\ MoveReady(s, "done") /\ worker' = [worker EXCEPT ![s].at = "tail"]
        /\ UNCHANGED <<held, drop, joined, pending>>
    BY <1>12 DEF RunSucceeds
  <2>2. \A t \in Slots : \/ worker'[t] = worker[t]
                         \/ worker'[t] = [worker[t] EXCEPT !.at = "tail"]
    BY <1>1, <2>1
  <2> QED BY <1>11, <2>1, <2>2, UnitsKept
<1>13. ASSUME Requeue(s), EndWorker(s), UNCHANGED <<held, drop, joined>>
       PROVE  UnitInv'
  <2>1. MoveReady(s, "queued")
    BY <1>13 DEF Requeue
  <2>2. (\A j \in Jobs : Ok(j) => Ok(j)') /\ Untouched' /\ JoinedOk'
    BY <1>11, <1>13, <2>1, HoldKept
  <2>3. PendingOk'
    <3>1. CASE \E j \in worker[s].ready : Standalone(j)
      BY <1>13, <2>2, <3>1, PendingKept DEF Requeue
    <3>2. CASE ~\E j \in worker[s].ready : Standalone(j)
      <4>1. pending' = Append(pending, worker[s].ready) /\ worker[s].ready \in SUBSET Jobs
        BY <1>1, <1>2, <1>13, <3>2 DEF Requeue
      <4>2. \A j \in worker[s].ready : Ok(j)' /\ ~Standalone(j)
        BY <1>2, <2>2, <3>2, <4>1
      <4> QED BY <2>2, <4>1, <4>2, PendingGrows
    <3> QED BY <3>1, <3>2
  <2>4. \A t \in Slots : UnitOk(t)'
    BY <1>3, <1>13, <2>2, WorkersKept
  <2> QED BY <2>2, <2>3, <2>4 DEF UnitInv
<1>14. CASE RunHitsUsageLimit(s)
  BY <1>13, <1>14 DEF RunHitsUsageLimit
<1>15. CASE RunFailsTransiently(s)
  BY <1>13, <1>15 DEF RunFailsTransiently
<1>16. CASE RunFailsForGood(s)
  BY <1>3, <1>11, <1>16, UnitsKept DEF RunFailsForGood
<1>17. CASE WorkerCrashes(s)
  <2>1. UNCHANGED <<held, drop, joined, pending>> /\ EndWorker(s)
    BY <1>17 DEF WorkerCrashes
  <2>2. MoveReady(s, "failed") \/ UNCHANGED status
    BY <1>17 DEF WorkerCrashes
  <2> QED BY <1>3, <1>11, <2>1, <2>2, UnitsKept
<1>18. CASE TailEnds(s)
  BY <1>3, <1>18, UnitsKept DEF TailEnds
<1>19. CASE RejectionEndsProcess(s)
  <2>1. Untouched'
    <3>1. PICK last \in LastClaims(s) :
             status' = [j \in Jobs |-> IF j \in last THEN "preprocessing" ELSE status[j]]
      BY <1>19 DEF RejectionEndsProcess
    <3>2. held' = held
      BY <1>19 DEF RejectionEndsProcess
    <3>3. \A j \in last : ~held[j]
      BY <3>1 DEF LastClaims, Ready
    <3> QED BY <3>1, <3>2, <3>3 DEF UnitInv, Untouched
  <2> QED BY <1>19, <2>1, UnitsForgotten DEF RejectionEndsProcess
<1> QED BY <1>5, <1>6, <1>7, <1>8, <1>9, <1>10, <1>12, <1>14, <1>15, <1>16, <1>17,
           <1>18, <1>19 DEF Work

\* Rows come in held or not; a closed drop makes a unit only of those that are not.
LEMMA IntakeUnits ==
  ASSUME TypeOK, UnitInv, Intake
  PROVE  UnitInv'
<1>1. /\ status \in [Jobs -> JobStatus] /\ held \in [Jobs -> BOOLEAN]
      /\ pending \in Seq(SUBSET Jobs) /\ joined \in SUBSET Jobs
      /\ drop \in [Batches -> {"new", "open", "openHeld", "closed"}]
      /\ \A s \in Slots : worker[s].unit \in SUBSET Jobs
  BY DEF TypeOK, Worker
<1>2. ASSUME NEW j \in Jobs, NEW to \in {"queued", "duplicate", "failed"}, NEW hold \in BOOLEAN,
             CreateRow(j, to, hold), UNCHANGED <<pending, worker>>
      PROVE  /\ ~Ok(j) /\ j \notin joined
             /\ status'[j] # "none"
             /\ \A k \in Jobs \ {j} : status'[k] = status[k] /\ held'[k] = held[k]
             /\ Untouched' /\ PendingOk' /\ \A s \in Slots : UnitOk(s)'
  <2>1. /\ status[j] = "none" /\ status' = [status EXCEPT ![j] = to]
        /\ held' = [held EXCEPT ![j] = hold /\ to # "duplicate"]
    BY <1>2 DEF CreateRow, IsNextRow
  <2>2. ~Ok(j) /\ j \notin joined
    BY <2>1 DEF Ok, UnitInv, JoinedOk
  <2>3. /\ status'[j] \in {"queued", "duplicate", "failed"}
        /\ \A k \in Jobs \ {j} : status'[k] = status[k] /\ held'[k] = held[k]
    BY <1>1, <2>1
  <2>4. \A k \in Jobs : Ok(k) => Ok(k)'
    BY <2>2, <2>3 DEF Ok
  <2>5. Untouched'
    BY <2>3 DEF UnitInv, Untouched, Active
  <2>6. PendingOk'
    BY <1>2, <2>4, PendingKept
  <2>7. \A s \in Slots : UnitOk(s)'
    BY <1>2, <2>4, WorkersKept
  <2> QED BY <2>2, <2>3, <2>5, <2>6, <2>7
<1>3. ASSUME NEW j \in Jobs, NEW to \in {"queued", "duplicate", "failed"}, NEW hold \in BOOLEAN,
             CreateRow(j, to, hold), UNCHANGED <<pending, worker, drop, joined>>
      PROVE  UnitInv'
  <2>1. JoinedOk'
    BY <1>1, <1>2, <1>3 DEF UnitInv, JoinedOk
  <2> QED BY <1>2, <1>3, <2>1 DEF UnitInv
<1>4. ASSUME NEW j \in Jobs, Enqueue(j) PROVE UnitInv'
  BY <1>3, <1>4 DEF Enqueue
<1>5. ASSUME NEW j \in Jobs, RejectOversized(j) PROVE UnitInv'
  BY <1>3, <1>5 DEF RejectOversized
<1>6. ASSUME NEW j \in Jobs, BatchAdds(j) PROVE UnitInv'
  <2> DEFINE b == BatchOf[j]
  <2>1. PICK hold \in IF drop[b] = "new" THEN BOOLEAN ELSE {drop[b] = "openHeld"},
             to \in {"queued", "duplicate", "failed"} :
           /\ CreateRow(j, to, hold)
           /\ drop' = [drop EXCEPT ![b] = IF hold THEN "openHeld" ELSE "open"]
           /\ joined' = IF to = "queued" THEN joined \cup {j} ELSE joined
    BY <1>6 DEF BatchAdds
  <2>2. /\ b \in Batches /\ ~Standalone(j) /\ drop[b] # "closed"
        /\ UNCHANGED <<pending, worker>>
    BY <1>6, ConstantsAssumption DEF BatchAdds, Standalone
  <2>3. hold \in BOOLEAN
    BY <2>1, Zenon
  <2>4. /\ j \notin joined /\ status'[j] # "none"
        /\ \A k \in Jobs \ {j} : status'[k] = status[k] /\ held'[k] = held[k]
        /\ Untouched' /\ PendingOk' /\ \A s \in Slots : UnitOk(s)'
    BY <1>2, <2>1, <2>2, <2>3
  <2>5. drop'[b] = IF hold THEN "openHeld" ELSE "open"
    BY <1>1, <2>1, <2>2
  <2>6. \A c \in Batches \ {b} : drop'[c] = drop[c]
    BY <1>1, <2>1, <2>2
  <2>7. held'[j] = (hold /\ to # "duplicate")
    BY <1>1, <2>1 DEF CreateRow
  <2>8. \A k \in joined : BatchOf[k] = b => drop'[b] = drop[b]
    <3> SUFFICES ASSUME NEW k \in joined, BatchOf[k] = b PROVE drop'[b] = drop[b]
      OBVIOUS
    <3>1. drop[b] \in {"open", "openHeld"}
      BY DEF UnitInv, JoinedOk
    <3>2. hold = (drop[b] = "openHeld")
      BY <2>1, <3>1
    <3>3. CASE drop[b] = "open"
      BY <2>5, <3>2, <3>3
    <3>4. CASE drop[b] = "openHeld"
      BY <2>5, <3>2, <3>4
    <3> QED BY <3>1, <3>3, <3>4
  <2>9. JoinedOk'
    <3> SUFFICES ASSUME NEW k \in joined'
                 PROVE  /\ status'[k] # "none" /\ ~Standalone(k)
                        /\ drop'[BatchOf[k]] \in {"open", "openHeld"}
                        /\ drop'[BatchOf[k]] = "open" => ~held'[k]
      BY DEF JoinedOk, Standalone
    <3>1. CASE k = j
      <4>1. hold => drop'[b] = "openHeld"
        BY <2>5
      <4>2. ~hold => ~held'[j]
        BY <2>7
      <4>3. drop'[b] \in {"open", "openHeld"}
        BY <2>5
      <4> QED BY <2>2, <2>4, <3>1, <4>1, <4>2, <4>3
    <3>2. CASE k # j
      <4>1. /\ k \in joined /\ k \in Jobs /\ ~Standalone(k) /\ status[k] # "none"
            /\ drop[BatchOf[k]] \in {"open", "openHeld"}
            /\ drop[BatchOf[k]] = "open" => ~held[k]
        BY <1>1, <2>1, <3>2 DEF UnitInv, JoinedOk
      <4>2. BatchOf[k] \in Batches
        BY <4>1, ConstantsAssumption DEF Standalone
      <4>3. drop'[BatchOf[k]] = drop[BatchOf[k]]
        BY <2>6, <2>8, <4>1, <4>2
      <4> QED BY <2>4, <3>2, <4>1, <4>3
    <3> QED BY <3>1, <3>2
  <2> QED BY <2>4, <2>9 DEF UnitInv
<1>7. ASSUME NEW b \in Batches, BatchCloses(b) PROVE UnitInv'
  <2> DEFINE members == {j \in joined : BatchOf[j] = b}
  <2>1. /\ drop[b] \in {"open", "openHeld"}
        /\ pending' = IF drop[b] = "open" /\ members # {} THEN Append(pending, members) ELSE pending
        /\ drop' = [drop EXCEPT ![b] = "closed"]
        /\ joined' = joined \ members
        /\ UNCHANGED <<status, held, worker>>
    BY <1>7 DEF BatchCloses
  <2>2. Untouched' /\ (\A j \in Jobs : Ok(j) => Ok(j)') /\ \A j \in Jobs : Ok(j)' <=> Ok(j)
    BY <2>1 DEF UnitInv, Untouched, Ok
  <2>3. JoinedOk'
    BY <1>1, <2>1, ConstantsAssumption DEF UnitInv, JoinedOk, Standalone
  <2>4. \A s \in Slots : UnitOk(s)'
    BY <2>1, <2>2, WorkersKept
  <2>5. PendingOk'
    <3>1. CASE drop[b] = "open" /\ members # {}
      <4>1. pending' = Append(pending, members) /\ members \in SUBSET Jobs
        BY <1>1, <2>1, <3>1
      <4>2. \A j \in members : Ok(j)' /\ ~Standalone(j)
        BY <1>1, <2>2, <3>1 DEF UnitInv, JoinedOk, Ok
      <4> QED BY <2>2, <4>1, <4>2, PendingGrows
    <3>2. CASE ~(drop[b] = "open" /\ members # {})
      BY <2>1, <2>2, <3>2, PendingKept
    <3> QED BY <3>1, <3>2
  <2> QED BY <2>2, <2>3, <2>4, <2>5 DEF UnitInv
<1> QED BY <1>4, <1>5, <1>6, <1>7 DEF Intake

\* The operator requeues and reloads; the shift lifts holds, and sets none.
LEMMA OperatorUnits ==
  ASSUME TypeOK, UnitInv, Operator
  PROVE  UnitInv'
<1>1. status \in [Jobs -> JobStatus] /\ held \in [Jobs -> BOOLEAN] /\ joined \in SUBSET Jobs
  BY DEF TypeOK
<1>2. ASSUME NEW j \in Jobs, NEW to \in {"queued", "cancelled", "removed"},
             status' = [status EXCEPT ![j] = to]
      PROVE  \A k \in Jobs : \/ status'[k] = status[k]
                             \/ /\ status'[k] # "none"
                                /\ held[k] => status'[k] \notin Active \cup {"done"}
  BY <1>1, <1>2 DEF Active
<1>3. ASSUME NEW j \in Jobs, RetryJob(j) PROVE UnitInv'
  <2>1. /\ status' = [status EXCEPT ![j] = "queued"]
        /\ UNCHANGED <<held, drop, joined, worker>>
        /\ UNCHANGED pending \/ ReloadPendingBatches(status', held)
    BY <1>3 DEF RetryJob
  <2>2. (\A k \in Jobs : Ok(k) => Ok(k)') /\ Untouched' /\ JoinedOk'
    BY <1>2, <2>1, HoldKept
  <2>3. PendingOk'
    <3>1. CASE UNCHANGED pending
      BY <2>2, <3>1, PendingKept
    <3>2. CASE ReloadPendingBatches(status', held)
      <4>1. status' \in [Jobs -> JobStatus]
        BY <1>1, <2>1 DEF JobStatus
      <4> QED BY <1>1, <2>1, <2>2, <3>2, <4>1, PendingReloads
    <3> QED BY <2>1, <3>1, <3>2
  <2>4. \A s \in Slots : UnitOk(s)'
    BY <2>1, <2>2, WorkersKept
  <2> QED BY <2>2, <2>3, <2>4 DEF UnitInv
<1>4. ASSUME NEW j \in Jobs, CancelJob(j) PROVE UnitInv'
  BY <1>2, <1>4, UnitsKept DEF CancelJob
<1>5. ASSUME NEW j \in Jobs, RemoveJob(j) PROVE UnitInv'
  BY <1>2, <1>5, UnitsKept DEF RemoveJob
<1>6. CASE SetConcurrency
  BY <1>6, UnitsKept DEF SetConcurrency
<1>7. CASE ResumeManually
  BY <1>7, UnitsKept DEF ResumeManually
<1>8. CASE NightBegins
  <2>1. /\ UNCHANGED <<status, drop, joined, worker>>
        /\ ReloadPendingBatches(status, held')
        /\ held' \in [Jobs -> BOOLEAN] /\ \A j \in Jobs : held'[j] => held[j]
    BY <1>8 DEF NightBegins
  <2>2. (\A k \in Jobs : Ok(k) => Ok(k)') /\ Untouched' /\ JoinedOk'
    BY <1>1, <2>1 DEF UnitInv, Untouched, JoinedOk, Ok
  <2>3. PendingOk'
    BY <1>1, <2>1, <2>2, PendingReloads
  <2>4. \A s \in Slots : UnitOk(s)'
    BY <2>1, <2>2, WorkersKept
  <2> QED BY <2>2, <2>3, <2>4 DEF UnitInv
<1>9. CASE ClearHistory
  <2>1. \A j \in Jobs : status'[j] = status[j] \/ status'[j] = "removed"
    BY <1>9 DEF ClearHistory
  <2>2. UNCHANGED <<held, drop, joined, pending, worker>>
    BY <1>9 DEF ClearHistory
  <2> QED BY <2>1, <2>2, UnitsKept DEF Active
<1> QED BY <1>3, <1>4, <1>5, <1>6, <1>7, <1>8, <1>9 DEF Operator

\* A timer requeues a failed job; reconcile settles active ones; both leave holds alone.
LEMMA TimerAndRecoveryUnits ==
  ASSUME TypeOK, UnitInv, Timer \/ Recovery
  PROVE  UnitInv'
<1>1. status \in [Jobs -> JobStatus] /\ held \in [Jobs -> BOOLEAN] /\ toReconcile \in SUBSET Jobs
  BY DEF TypeOK
<1>2. CASE ResumeTimerFires
  BY <1>2, UnitsKept DEF ResumeTimerFires
<1>3. CASE BudgetSpent \/ Midnight
  BY <1>3, UnitsKept DEF BudgetSpent, Midnight
<1>4. ASSUME NEW j \in Jobs, RetryTimerFires(j) PROVE UnitInv'
  <2>1. /\ status' = [status EXCEPT ![j] = "queued"] \/ status' = status
        /\ UNCHANGED <<held, drop, joined, pending, worker>>
    BY <1>4 DEF RetryTimerFires
  <2>2. \A k \in Jobs : status'[k] = status[k] \/ status'[k] = "queued"
    BY <1>1, <2>1
  <2> QED BY <2>1, <2>2, UnitsKept DEF Active
<1>5. CASE ReconcileJob
  <2>1. PICK j \in First(toReconcile) :
          status' = [status EXCEPT ![j] =
                       IF status[j] = "ingesting" /\ marker[j] THEN "done" ELSE "failed"]
    BY <1>5 DEF ReconcileJob
  <2>2. j \in Jobs /\ (held[j] => status[j] # "ingesting")
    BY <1>1, <2>1 DEF First, UnitInv, Untouched, Active
  <2>3. \A k \in Jobs : \/ status'[k] = status[k]
                        \/ /\ status'[k] # "none"
                           /\ held[k] => status'[k] \notin Active \cup {"done"}
    BY <1>1, <2>1, <2>2 DEF Active
  <2> QED BY <1>5, <2>3, UnitsKept DEF ReconcileJob
<1>6. CASE ReconcileEnds
  <2>1. ReloadPendingBatches(status, held) /\ UNCHANGED <<status, held, drop, joined, worker>>
    BY <1>6 DEF ReconcileEnds
  <2>2. (\A k \in Jobs : Ok(k) => Ok(k)') /\ Untouched' /\ JoinedOk'
    BY <2>1, HoldKept
  <2>3. PendingOk'
    BY <1>1, <2>1, <2>2, PendingReloads
  <2>4. \A s \in Slots : UnitOk(s)'
    BY <2>1, <2>2, WorkersKept
  <2> QED BY <2>2, <2>3, <2>4 DEF UnitInv
<1> QED BY <1>2, <1>3, <1>4, <1>5, <1>6 DEF Timer, Recovery

\* Stop, the ways the process ends, and the start.
LEMMA ProcessUnits ==
  ASSUME TypeOK, UnitInv, Process
  PROVE  UnitInv'
<1>1. CASE Stop \/ Start \/ MarkersExpire
  BY <1>1, UnitsKept DEF Stop, Start, MarkersExpire
<1>2. CASE Exit \/ Crash
  <2>1. Untouched' /\ LoseMemory
    BY <1>2 DEF Exit, Crash, UnitInv, Untouched
  <2> QED BY <2>1, UnitsForgotten
<1>3. ASSUME NEW s \in Slots, CrashBetweenJobs(s) PROVE UnitInv'
  <2>1. \A j \in Jobs : status'[j] = status[j] \/ j \in worker[s].ready
    BY <1>3 DEF CrashBetweenJobs, TypeOK
  <2>2. UNCHANGED held /\ LoseMemory
    BY <1>3 DEF CrashBetweenJobs
  <2>3. \A j \in worker[s].ready : ~held[j]
    BY DEF UnitInv, UnitOk, Ok
  <2>4. Untouched'
    BY <2>1, <2>2, <2>3 DEF UnitInv, Untouched
  <2> QED BY <2>2, <2>4, UnitsForgotten
<1> QED BY <1>1, <1>2, <1>3 DEF Process

-----------------------------------------------------------------------------
\* Nothing is taken up in a fresh installation.
LEMMA InitUnits == Init => UnitInv
BY DEF Init, UnitInv, Untouched, PendingOk, JoinedOk, UnitOk, IdleWorker, Active

\* Every step preserves what is taken up.
LEMMA NextUnits ==
  ASSUME TypeOK, UnitInv, [Next]_vars
  PROVE  UnitInv'
<1>1. CASE Next
  BY <1>1, PumpUnits, WorkUnits, IntakeUnits, OperatorUnits, TimerAndRecoveryUnits,
     ProcessUnits DEF Next
<1>2. CASE UNCHANGED vars
  BY <1>2, UnitsKept DEF vars
<1> QED BY <1>1, <1>2

\* The strengthening holds in every behaviour of the queue.
THEOREM UnitsCorrect == Spec => []UnitInv
<1>1. Init => UnitInv
  BY InitUnits
<1>2. TypeOK /\ UnitInv /\ [Next]_vars => UnitInv'
  BY NextUnits
<1> QED BY <1>1, <1>2, TypeCorrect, PTL DEF Spec

(***************************************************************************)
(* A job held for the night shift is never in a unit, active or done while *)
(* it is held: claims, reloads, retries, requeues, batch drops and the     *)
(* recovery after a crash all respect the hold.                            *)
(***************************************************************************)
THEOREM HeldCorrect == Spec => []HeldWaits
<1>1. TypeOK /\ UnitInv => HeldWaits
  BY UnitInvHeldWaits
<1> QED BY <1>1, TypeCorrect, UnitsCorrect, PTL
=============================================================================
