------------------------- MODULE IngestQueueSafety -------------------------
(***************************************************************************)
(* Who answers for an active job, the job lifecycle and the retries:       *)
(* proofs of OneOwner, Lifecycle and RetryBound for any number of jobs,    *)
(* batches, slots and events.                                              *)
(***************************************************************************)
EXTENDS IngestQueueUnits

\* The tuples UNCHANGED is stated with.
USE DEF table, timers, intake, startup, history

(***************************************************************************)
(* The strengthening of OneOwner. An active job always has an answer: a    *)
(* worker, the reconcile snapshot or the orphans. While the process starts *)
(* no worker runs, and a crash leaves nothing in memory, so what reconcile *)
(* finds active is all there is.                                           *)
(***************************************************************************)
Disjoint == \A s, t \in Slots, j \in Jobs : j \in Hands(s) /\ j \in Hands(t) => s = t

Holds(s) == \A j \in Hands(s) :
              /\ j \notin toReconcile /\ j \notin orphaned
              /\ status[j] = IF worker[s].at = "run" THEN "ingesting" ELSE "preprocessing"

Answered == mode # "down" => \A j \in Jobs : status[j] \in Active =>
              (\E s \in Slots : j \in Hands(s)) \/ j \in toReconcile \/ j \in orphaned

LeftActive == \A j \in toReconcile \cup orphaned : status[j] \in Active

OneInHand == \A s \in Slots : worker[s].at = "pre" => worker[s].cur \notin worker[s].ready

Starting == /\ mode \in {"down", "reconciling"} =>
                 orphaned = {} /\ \A s \in Slots : worker[s].at = "idle"
            /\ mode = "down" => toReconcile = {}

OwnerInv == /\ Disjoint /\ \A s \in Slots : Holds(s)
            /\ Answered /\ LeftActive /\ OneInHand /\ Starting

\* The strengthening says more than OneOwner does.
LEMMA OwnerInvOneOwner ==
  ASSUME TypeOK, OwnerInv
  PROVE  OneOwner
<1>1. \A s \in Slots : Hands(s) \subseteq Jobs
  BY DEF Hands, TypeOK, Worker
<1>2. \A s, t \in Slots : s # t => Hands(s) \cap Hands(t) = {}
  BY <1>1 DEF OwnerInv, Disjoint
<1>3. \A s \in Slots : /\ Hands(s) \cap (toReconcile \cup orphaned) = {}
                       /\ \A j \in Hands(s) :
                            status[j] = IF worker[s].at = "run" THEN "ingesting"
                                                                ELSE "preprocessing"
  BY DEF OwnerInv, Holds
<1> DEFINE hands == UNION {Hands(s) : s \in Slots}
<1>4. \A j : j \in hands <=> \E s \in Slots : j \in Hands(s)
  BY Zenon
<1> HIDE DEF hands
<1>5. ASSUME mode # "down"
      PROVE  {j \in Jobs : status[j] \in Active} = hands \cup toReconcile \cup orphaned
  <2>1. ASSUME NEW j \in Jobs, status[j] \in Active
        PROVE  j \in hands \cup toReconcile \cup orphaned
    BY <1>4, <1>5, <2>1 DEF OwnerInv, Answered
  <2>2. ASSUME NEW j \in hands \cup toReconcile \cup orphaned
        PROVE  j \in Jobs /\ status[j] \in Active
    <3>1. CASE j \in toReconcile \cup orphaned
      BY <3>1 DEF OwnerInv, LeftActive, TypeOK
    <3>2. CASE \E s \in Slots : j \in Hands(s)
      BY <1>1, <1>3, <3>2 DEF Active
    <3> QED BY <1>4, <2>2, <3>1, <3>2
  <2> QED BY <2>1, <2>2
<1>6. mode # "down" => {j \in Jobs : status[j] \in Active} =
                         (UNION {Hands(s) : s \in Slots}) \cup toReconcile \cup orphaned
  <2>1. hands = UNION {Hands(s) : s \in Slots}
    BY DEF hands
  <2> QED BY <1>5, <2>1
<1> QED BY <1>2, <1>3, <1>6, Zenon DEF OneOwner

-----------------------------------------------------------------------------
(***************************************************************************)
(* Four ways a step treats the active jobs.                                *)
(***************************************************************************)
\* No worker moves, and no job becomes or ceases to be active.
LEMMA OwnersKept ==
  ASSUME TypeOK, OwnerInv,
         UNCHANGED <<worker, toReconcile, orphaned>>,
         UNCHANGED mode \/ (mode = "running" /\ mode' = "stopped"),
         \A j \in Jobs : status'[j] = status[j] \/ {status[j], status'[j]} \cap Active = {}
  PROVE  OwnerInv'
<1>1. \A s \in Slots : Hands(s)' = Hands(s) /\ Hands(s) \subseteq Jobs
  BY DEF Hands, TypeOK, Worker
<1>2. Disjoint' /\ OneInHand' /\ Starting'
  BY <1>1 DEF OwnerInv, Disjoint, OneInHand, Starting
<1>3. \A s \in Slots : Holds(s)'
  <2> SUFFICES ASSUME NEW s \in Slots, NEW j \in Hands(s)
               PROVE  /\ j \notin toReconcile /\ j \notin orphaned
                      /\ status'[j] = IF worker[s].at = "run" THEN "ingesting"
                                                              ELSE "preprocessing"
    BY <1>1 DEF Holds
  <2>1. /\ j \in Jobs /\ j \notin toReconcile /\ j \notin orphaned
        /\ status[j] = IF worker[s].at = "run" THEN "ingesting" ELSE "preprocessing"
    BY <1>1 DEF OwnerInv, Holds
  <2>2. status[j] \in Active
    BY <2>1 DEF Active
  <2> QED BY <2>1, <2>2
<1>4. \A j \in Jobs : status[j] \in Active <=> status'[j] \in Active
  OBVIOUS
<1>5. Answered'
  BY <1>1, <1>4 DEF OwnerInv, Answered
<1>6. LeftActive'
  BY <1>4 DEF OwnerInv, LeftActive, TypeOK
<1> QED BY <1>2, <1>3, <1>5, <1>6 DEF OwnerInv

\* A worker goes on: what it had in hand is ready or settled, the rest is as it was.
LEMMA OwnersGoOn ==
  ASSUME TypeOK, OwnerInv, NEW s \in Slots, NEW unit \in SUBSET Jobs, NEW rest \in SUBSET Jobs,
         NEW st \in [Jobs -> JobStatus], NEW ready \in SUBSET Jobs,
         GoOn(s, unit, rest, st, ready),
         mode \notin {"down", "reconciling"},
         UNCHANGED <<mode, toReconcile, orphaned>>,
         ready \subseteq Hands(s),
         \A j \in ready : st[j] = "preprocessing",
         \A j \in Hands(s) \ ready : st[j] \notin Active,
         \A j \in Jobs \ Hands(s) : st[j] = status[j]
  PROVE  OwnerInv'
<1>0. /\ \A t \in Slots : Hands(t) \subseteq Jobs
      /\ worker \in [Slots -> Worker] /\ status \in [Jobs -> JobStatus]
  BY DEF Hands, TypeOK, Worker
<1>1. \A t \in Slots \ {s} : worker'[t] = worker[t] /\ Hands(t)' = Hands(t)
  <2>1. \A t \in Slots \ {s} : worker'[t] = worker[t]
    BY <1>0 DEF GoOn, NextMember, StartRun, NothingToRun
  <2> QED BY <2>1 DEF Hands
<1> DEFINE theirs(j) == (\E t \in Slots \ {s} : j \in Hands(t)) \/ j \in toReconcile \/ j \in orphaned
<1>2. \A j \in Jobs : theirs(j) => j \notin Hands(s) /\ status[j] \in Active /\ st[j] = status[j]
  BY <1>0 DEF OwnerInv, Disjoint, Holds, LeftActive, Active
<1>3. \A j \in Jobs : st[j] \in Active => j \in ready \/ theirs(j)
  BY DEF OwnerInv, Answered
<1>4. worker'[s].at \in {"pre", "run", "idle"} /\ worker'[s].at = "pre" => worker'[s].cur \notin worker'[s].ready
  BY <1>0 DEF GoOn, NextMember, StartRun, NothingToRun, First, IdleWorker
<1>5. \A j \in Jobs : theirs(j) => j \notin Hands(s)' /\ status'[j] = status[j]
  <2>1. CASE NextMember(s, unit, rest, st, ready)
    <3>1. PICK m \in First({j \in rest : st[j] = "queued"}) :
             /\ status' = [st EXCEPT ![m] = "preprocessing"]
             /\ worker' = [worker EXCEPT ![s] = [at |-> "pre", unit |-> unit, cur |-> m,
                              rest |-> {j \in rest : j > m}, ready |-> ready]]
      BY <2>1 DEF NextMember
    <3>2. m \in Jobs /\ st[m] = "queued"
      BY <3>1 DEF First
    <3>3. Hands(s)' = ready \cup {m}
      BY <1>0, <3>1 DEF Hands
    <3>4. ~theirs(m)
      BY <1>2, <3>2 DEF Active
    <3> QED BY <1>2, <3>1, <3>2, <3>3, <3>4
  <2>2. CASE StartRun(s, unit, rest, st, ready)
    <3>1. Hands(s)' = ready
      BY <1>0, <2>2 DEF StartRun, Hands
    <3> QED BY <1>2, <2>2, <3>1 DEF StartRun
  <2>3. CASE NothingToRun(s, unit, rest, st, ready)
    <3>1. Hands(s)' = {}
      BY <1>0, <2>3 DEF NothingToRun, Hands, IdleWorker
    <3> QED BY <1>2, <2>3, <3>1 DEF NothingToRun
  <2> QED BY <2>1, <2>2, <2>3 DEF GoOn
<1>6. /\ Hands(s)' \subseteq Jobs
      /\ \A j \in Hands(s)' : status'[j] = IF worker'[s].at = "run" THEN "ingesting"
                                                                  ELSE "preprocessing"
      /\ \A j \in Jobs : status'[j] \in Active => j \in Hands(s)' \/ theirs(j)
  <2>1. CASE NextMember(s, unit, rest, st, ready)
    <3>1. PICK m \in First({j \in rest : st[j] = "queued"}) :
             /\ status' = [st EXCEPT ![m] = "preprocessing"]
             /\ worker' = [worker EXCEPT ![s] = [at |-> "pre", unit |-> unit, cur |-> m,
                              rest |-> {j \in rest : j > m}, ready |-> ready]]
      BY <2>1 DEF NextMember
    <3>2. m \in Jobs /\ worker'[s].at = "pre"
      BY <1>0, <3>1 DEF First
    <3>3. Hands(s)' = ready \cup {m}
      BY <1>0, <3>1 DEF Hands
    <3> QED BY <1>3, <3>1, <3>2, <3>3
  <2>2. CASE StartRun(s, unit, rest, st, ready)
    <3>1. Hands(s)' = ready /\ worker'[s].at = "run"
      BY <1>0, <2>2 DEF StartRun, Hands
    <3> QED BY <1>3, <2>2, <3>1 DEF StartRun
  <2>3. CASE NothingToRun(s, unit, rest, st, ready)
    <3>1. Hands(s)' = {}
      BY <1>0, <2>3 DEF NothingToRun, Hands, IdleWorker
    <3> QED BY <1>3, <2>3, <3>1 DEF NothingToRun
  <2> QED BY <2>1, <2>2, <2>3 DEF GoOn
<1>7. Disjoint'
  BY <1>1, <1>5 DEF OwnerInv, Disjoint
<1>8. ASSUME NEW t \in Slots PROVE Holds(t)'
  <2>1. CASE t = s
    BY <1>5, <1>6, <2>1 DEF Holds
  <2>2. CASE t # s
    <3>1. \A j \in Hands(t) : j \in Jobs /\ status'[j] = status[j]
      BY <1>0, <1>5, <2>2
    <3> QED BY <1>1, <2>2, <3>1 DEF OwnerInv, Holds
  <2> QED BY <2>1, <2>2
<1>9. Answered'
  BY <1>1, <1>6 DEF Answered
<1>10. LeftActive'
  <2>1. \A j \in toReconcile \cup orphaned : j \in Jobs /\ status'[j] = status[j]
    BY <1>5 DEF TypeOK
  <2> QED BY <2>1 DEF OwnerInv, LeftActive
<1>11. OneInHand' /\ Starting'
  BY <1>1, <1>4 DEF OwnerInv, OneInHand, Starting
<1> QED BY <1>7, <1>8, <1>9, <1>10, <1>11 DEF OwnerInv

\* A worker lets go of jobs, which it settles or leaves orphaned.
LEMMA OwnersLetGo ==
  ASSUME TypeOK, OwnerInv, NEW s \in Slots,
         \A t \in Slots \ {s} : worker'[t] = worker[t],
         Hands(s)' \subseteq Hands(s), worker'[s].at \notin {"pre", "run"},
         mode \notin {"down", "reconciling"},
         UNCHANGED <<mode, toReconcile>>,
         orphaned \subseteq orphaned', orphaned' \subseteq orphaned \cup Hands(s),
         \A j \in Hands(s)' : status'[j] = "preprocessing" /\ j \notin orphaned',
         \A j \in Hands(s) \ Hands(s)' : status'[j] \in Active <=> j \in orphaned',
         \A j \in Jobs \ Hands(s) : status'[j] = status[j]
  PROVE  OwnerInv'
<1>0. /\ \A t \in Slots : Hands(t) \subseteq Jobs
      /\ \A t \in Slots \ {s} : Hands(t)' = Hands(t)
  BY DEF Hands, TypeOK, Worker
<1>1. \A t \in Slots \ {s} : \A j \in Hands(t) :
         /\ j \in Jobs /\ j \notin Hands(s) /\ status'[j] = status[j]
         /\ j \notin toReconcile /\ j \notin orphaned'
  BY <1>0 DEF OwnerInv, Disjoint, Holds
<1>2. Disjoint'
  BY <1>0, <1>1 DEF OwnerInv, Disjoint
<1>3. ASSUME NEW t \in Slots PROVE Holds(t)'
  <2>1. CASE t = s
    BY <2>1 DEF OwnerInv, Holds
  <2>2. CASE t # s
    BY <1>0, <1>1, <2>2 DEF OwnerInv, Holds
  <2> QED BY <2>1, <2>2
<1>4. Answered'
  <2> SUFFICES ASSUME NEW j \in Jobs, status'[j] \in Active
               PROVE  (\E t \in Slots : j \in Hands(t)') \/ j \in toReconcile \/ j \in orphaned'
    BY DEF Answered
  <2>1. CASE j \in Hands(s)
    BY <2>1
  <2>2. CASE j \notin Hands(s)
    <3>1. (\E t \in Slots \ {s} : j \in Hands(t)) \/ j \in toReconcile \/ j \in orphaned
      BY <2>2 DEF OwnerInv, Answered
    <3> QED BY <1>0, <3>1
  <2> QED BY <2>1, <2>2
<1>5. LeftActive'
  <2> SUFFICES ASSUME NEW j \in toReconcile \cup orphaned' PROVE status'[j] \in Active
    BY DEF LeftActive
  <2>1. CASE j \in Hands(s)
    BY <2>1 DEF OwnerInv, Holds
  <2>2. CASE j \notin Hands(s)
    BY <2>2 DEF OwnerInv, LeftActive, TypeOK
  <2> QED BY <2>1, <2>2
<1>6. OneInHand' /\ Starting'
  BY DEF OwnerInv, OneInHand, Starting
<1> QED BY <1>2, <1>3, <1>4, <1>5, <1>6 DEF OwnerInv

\* The process ends: no one answers for the active rows until the next start.
LEMMA OwnersForgotten ==
  ASSUME LoseMemory
  PROVE  OwnerInv'
<1>1. \A s \in Slots : worker'[s] = IdleWorker /\ Hands(s)' = {}
  BY DEF LoseMemory, Hands, IdleWorker
<1> QED BY <1>1 DEF LoseMemory, OwnerInv, Disjoint, Holds, Answered, LeftActive, OneInHand,
                    Starting, IdleWorker

-----------------------------------------------------------------------------
(***************************************************************************)
(* The step lemmas.                                                        *)
(***************************************************************************)
\* A claim: the worker was idle, so it had nothing in hand.
LEMMA PumpOwns ==
  ASSUME TypeOK, OwnerInv, Pump
  PROVE  OwnerInv'
<1>1. ASSUME NEW s \in Slots, FreeSlot(s) PROVE Hands(s) = {}
  BY <1>1 DEF FreeSlot, Busy, Hands
<1>2. status \in [Jobs -> JobStatus] /\ {} \in SUBSET Jobs
  BY DEF TypeOK
<1>3. ASSUME NEW s \in Slots, PumpClaimsBatch(s) PROVE OwnerInv'
  <2>1. Head(pending) \in SUBSET Jobs /\ Hands(s) = {}
    BY <1>1, <1>3 DEF PumpClaimsBatch, TypeOK
  <2>2. /\ GoOn(s, Head(pending), Head(pending), status, {})
        /\ mode \notin {"down", "reconciling"}
        /\ UNCHANGED <<mode, toReconcile, orphaned>>
    BY <1>3 DEF PumpClaimsBatch, MayClaim
  <2> QED BY <1>2, <2>1, <2>2, OwnersGoOn
<1>4. ASSUME NEW s \in Slots, PumpClaimsJob(s) PROVE OwnerInv'
  <2>1. PICK j \in First(Claimable) : NextMember(s, {j}, {j}, status, {})
    BY <1>4 DEF PumpClaimsJob
  <2>2. {j} \in SUBSET Jobs /\ GoOn(s, {j}, {j}, status, {}) /\ Hands(s) = {}
    BY <1>1, <1>4, <2>1 DEF PumpClaimsJob, First, Claimable, GoOn
  <2>3. mode \notin {"down", "reconciling"} /\ UNCHANGED <<mode, toReconcile, orphaned>>
    BY <1>4 DEF PumpClaimsJob, MayClaim
  <2> QED BY <1>2, <2>2, <2>3, OwnersGoOn
<1>5. CASE PumpPausesForBudget
  BY <1>5, OwnersKept DEF PumpPausesForBudget
<1>6. CASE PumpEnds
  BY <1>6, OwnersKept DEF PumpEnds
<1> QED BY <1>3, <1>4, <1>5, <1>6 DEF Pump

\* Every step of a worker settles what it had in hand, or keeps it.
LEMMA WorkOwns ==
  ASSUME TypeOK, UnitInv, OwnerInv, NEW s \in Slots, Work(s)
  PROVE  OwnerInv'
<1>1. /\ status \in [Jobs -> JobStatus] /\ worker \in [Slots -> Worker]
      /\ worker[s] \in Worker /\ worker[s].ready \in SUBSET Jobs
      /\ worker[s].unit \in SUBSET Jobs /\ worker[s].rest \in SUBSET Jobs
      /\ Hands(s) \subseteq Jobs
  BY DEF TypeOK, Worker, Hands
<1>2. worker[s].at # "idle" /\ Turn => mode \notin {"down", "reconciling"}
  BY DEF Turn, OwnerInv, Starting
<1>3. \A j \in Hands(s) : /\ j \in Jobs /\ j \notin toReconcile /\ j \notin orphaned
                          /\ status[j] = IF worker[s].at = "run" THEN "ingesting"
                                                                  ELSE "preprocessing"
  BY <1>1 DEF OwnerInv, Holds
<1>4. ASSUME EndWorker(s)
      PROVE  /\ \A t \in Slots \ {s} : worker'[t] = worker[t]
             /\ Hands(s)' = {} /\ worker'[s].at = "idle"
  BY <1>1, <1>4 DEF EndWorker, IdleWorker, Hands
<1>5. worker[s].at = "pre" => /\ Hands(s) = worker[s].ready \cup {worker[s].cur}
                              /\ worker[s].cur \notin worker[s].ready
                              /\ worker[s].cur \in Jobs
  BY <1>1 DEF Hands, OwnerInv, OneInHand, Worker
<1>6. worker[s].at \in {"run", "drop"} => Hands(s) = worker[s].ready
  BY DEF Hands
<1>7. CASE PreprocessEnds(s)
  <2>1. /\ worker[s].at = "pre" /\ mode \notin {"down", "reconciling"}
        /\ UNCHANGED <<mode, toReconcile, orphaned>>
    BY <1>2, <1>7 DEF PreprocessEnds, Preprocessing
  <2>2. CASE MemberEnds(s, status, worker[s].ready \cup {worker[s].cur})
    <3>1. /\ GoOn(s, worker[s].unit, worker[s].rest, status, worker[s].ready \cup {worker[s].cur})
          /\ worker[s].ready \cup {worker[s].cur} \in SUBSET Jobs
      BY <1>1, <1>5, <2>1, <2>2 DEF MemberEnds
    <3>2. /\ worker[s].ready \cup {worker[s].cur} = Hands(s)
          /\ \A j \in Hands(s) : status[j] = "preprocessing"
      BY <1>3, <1>5, <2>1
    <3> QED BY <1>1, <2>1, <3>1, <3>2, OwnersGoOn
  <2>3. ASSUME NEW to \in {"deferred", "failed"},
               MemberEnds(s, [status EXCEPT ![worker[s].cur] = to], worker[s].ready)
        PROVE  OwnerInv'
    <3> DEFINE st == [status EXCEPT ![worker[s].cur] = to]
    <3>1. st \in [Jobs -> JobStatus]
      BY <1>1, <1>5, <2>1 DEF JobStatus
    <3>2. GoOn(s, worker[s].unit, worker[s].rest, st, worker[s].ready)
      BY <2>3 DEF MemberEnds
    <3>3. /\ worker[s].ready \subseteq Hands(s)
          /\ \A j \in worker[s].ready : st[j] = "preprocessing"
          /\ \A j \in Hands(s) \ worker[s].ready : st[j] \notin Active
          /\ \A j \in Jobs \ Hands(s) : st[j] = status[j]
      BY <1>1, <1>3, <1>5, <2>1 DEF Active
    <3> HIDE DEF st
    <3> QED BY <1>1, <2>1, <3>1, <3>2, <3>3, OwnersGoOn
  <2> QED BY <1>7, <2>2, <2>3 DEF PreprocessEnds
<1>8. CASE PreprocessFindsDuplicate(s)
  <2>1. /\ worker[s].at = "pre" /\ mode \notin {"down", "reconciling"}
        /\ UNCHANGED <<mode, toReconcile, orphaned>>
        /\ worker' = [worker EXCEPT ![s].at = "drop"]
        /\ status' = [status EXCEPT ![worker[s].cur] = "duplicate"]
    BY <1>2, <1>8 DEF PreprocessFindsDuplicate, Preprocessing
  <2>2. worker'[s].at = "drop" /\ worker'[s].ready = worker[s].ready
    BY <1>1, <2>1 DEF Worker
  <2>3. Hands(s)' = worker[s].ready
    BY <2>2 DEF Hands
  <2>4. /\ Hands(s)' \subseteq Hands(s)
        /\ \A j \in Hands(s)' : status'[j] = "preprocessing" /\ j \notin orphaned'
        /\ \A j \in Hands(s) \ Hands(s)' : status'[j] \in Active <=> j \in orphaned'
        /\ \A j \in Jobs \ Hands(s) : status'[j] = status[j]
    BY <1>1, <1>3, <1>5, <2>1, <2>3 DEF Active
  <2> QED BY <1>1, <2>1, <2>2, <2>4, OwnersLetGo
<1>9. CASE StagingDiscarded(s)
  <2>1. /\ worker[s].at = "drop" /\ mode \notin {"down", "reconciling"}
        /\ UNCHANGED <<mode, toReconcile, orphaned>>
        /\ GoOn(s, worker[s].unit, worker[s].rest, status, worker[s].ready)
    BY <1>2, <1>9 DEF StagingDiscarded, MemberEnds
  <2>2. Hands(s) = worker[s].ready /\ \A j \in Hands(s) : status[j] = "preprocessing"
    BY <1>3, <1>6, <2>1
  <2> QED BY <1>1, <2>1, <2>2, OwnersGoOn
<1>10. ASSUME worker[s].at \in {"run", "drop", "pre", "tail"}, Turn, EndWorker(s),
              UNCHANGED <<mode, toReconcile>>,
              orphaned \subseteq orphaned', orphaned' \subseteq orphaned \cup Hands(s),
              \A j \in Hands(s) : status'[j] \in Active <=> j \in orphaned',
              \A j \in Jobs \ Hands(s) : status'[j] = status[j]
       PROVE  OwnerInv'
  <2>1. mode \notin {"down", "reconciling"}
    BY <1>2, <1>10
  <2> QED BY <1>4, <1>10, <2>1, OwnersLetGo
<1>11. CASE PreprocessFailsTransiently(s)
  <2>1. /\ worker[s].at = "pre" /\ Turn /\ EndWorker(s) /\ Standalone(worker[s].cur)
        /\ UNCHANGED <<mode, toReconcile, orphaned>>
        /\ status' = [status EXCEPT ![worker[s].cur] = "failed"]
    BY <1>11 DEF PreprocessFailsTransiently, Preprocessing
  <2>2. \A j \in Hands(s) : status'[j] \in Active <=> j \in orphaned'
    <3>1. Hands(s) = {worker[s].cur}
      BY <1>5, <2>1 DEF UnitInv, UnitOk
    <3> QED BY <1>1, <1>3, <2>1, <3>1 DEF Active
  <2>3. \A j \in Jobs \ Hands(s) : status'[j] = status[j]
    BY <1>1, <1>5, <2>1
  <2> QED BY <1>10, <2>1, <2>2, <2>3
<1>12. CASE StagingLogFails(s)
  <2>1. /\ worker[s].at = "drop" /\ Turn /\ EndWorker(s)
        /\ UNCHANGED <<mode, toReconcile, status>>
        /\ orphaned' = orphaned \cup worker[s].ready
    BY <1>12 DEF StagingLogFails
  <2>2. \A j \in Hands(s) : status'[j] \in Active /\ j \in orphaned'
    BY <1>3, <1>6, <2>1 DEF Active
  <2> QED BY <1>6, <1>10, <2>1, <2>2
<1>13. CASE RunTouchesMarker(s)
  BY <1>13, OwnersKept DEF RunTouchesMarker
<1>14. ASSUME NEW to \in {"done", "queued", "failed"}, MoveReady(s, to), worker[s].at = "run",
              UNCHANGED orphaned
       PROVE  /\ \A j \in Hands(s) : status'[j] \in Active <=> j \in orphaned'
              /\ \A j \in Jobs \ Hands(s) : status'[j] = status[j]
  BY <1>3, <1>6, <1>14 DEF MoveReady, Active
<1>15. CASE RunSucceeds(s)
  <2>1. /\ worker[s].at = "run" /\ Turn /\ MoveReady(s, "done")
        /\ UNCHANGED <<mode, toReconcile, orphaned>>
        /\ worker' = [worker EXCEPT ![s].at = "tail"]
    BY <1>15 DEF RunSucceeds, Running
  <2>2. worker'[s].at = "tail" /\ \A t \in Slots \ {s} : worker'[t] = worker[t]
    BY <1>1, <2>1 DEF Worker
  <2>3. Hands(s)' = {}
    BY <2>2 DEF Hands
  <2>4. mode \notin {"down", "reconciling"}
    BY <1>2, <2>1
  <2>5. /\ \A j \in Hands(s) : status'[j] \in Active <=> j \in orphaned'
        /\ \A j \in Jobs \ Hands(s) : status'[j] = status[j]
    BY <1>14, <2>1
  <2> QED BY <2>1, <2>2, <2>3, <2>4, <2>5, OwnersLetGo
<1>16. ASSUME NEW to \in {"queued", "failed"}, MoveReady(s, to), Running(s), EndWorker(s),
              UNCHANGED <<mode, toReconcile, orphaned>>
       PROVE  OwnerInv'
  <2>1. worker[s].at = "run" /\ Turn
    BY <1>16 DEF Running
  <2>2. /\ \A j \in Hands(s) : status'[j] \in Active <=> j \in orphaned'
        /\ \A j \in Jobs \ Hands(s) : status'[j] = status[j]
    BY <1>14, <1>16, <2>1
  <2> QED BY <1>10, <1>16, <2>1, <2>2
<1>17. CASE RunHitsUsageLimit(s)
  BY <1>16, <1>17 DEF RunHitsUsageLimit, Requeue
<1>18. CASE RunFailsTransiently(s)
  BY <1>16, <1>18 DEF RunFailsTransiently, Requeue
<1>19. CASE RunFailsForGood(s)
  BY <1>16, <1>19 DEF RunFailsForGood
<1>20. CASE WorkerCrashes(s)
  <2>1. CASE \E j \in worker[s].ready : Standalone(j)
    BY <1>16, <1>20, <2>1 DEF WorkerCrashes
  <2>2. CASE ~\E j \in worker[s].ready : Standalone(j)
    <3>1. /\ worker[s].at = "run" /\ Turn /\ EndWorker(s)
          /\ UNCHANGED <<mode, toReconcile, status>>
          /\ orphaned' = orphaned \cup worker[s].ready
      BY <1>20, <2>2 DEF WorkerCrashes, Running
    <3>2. \A j \in Hands(s) : status'[j] \in Active /\ j \in orphaned'
      BY <1>3, <1>6, <3>1 DEF Active
    <3> QED BY <1>6, <1>10, <3>1, <3>2
  <2> QED BY <2>1, <2>2
<1>21. CASE TailEnds(s)
  <2>1. /\ worker[s].at = "tail" /\ Turn /\ EndWorker(s)
        /\ UNCHANGED <<mode, toReconcile, status, orphaned>>
    BY <1>21 DEF TailEnds
  <2>2. Hands(s) = {}
    BY <2>1 DEF Hands
  <2> QED BY <1>10, <2>1, <2>2
<1>22. CASE RejectionEndsProcess(s)
  BY <1>22, OwnersForgotten DEF RejectionEndsProcess
<1> QED BY <1>7, <1>8, <1>9, <1>11, <1>12, <1>13, <1>15, <1>17, <1>18, <1>19, <1>20, <1>21,
           <1>22 DEF Work

\* Intake, the operator and the timers move rows that are not active.
LEMMA OthersOwn ==
  ASSUME TypeOK, OwnerInv, Intake \/ Operator \/ Timer
  PROVE  OwnerInv'
<1>1. status \in [Jobs -> JobStatus]
  BY DEF TypeOK
<1>2. ASSUME NEW j \in Jobs, NEW to \in JobStatus \ Active, status[j] \notin Active,
             status' = [status EXCEPT ![j] = to]
      PROVE  \A k \in Jobs : status'[k] = status[k] \/ {status[k], status'[k]} \cap Active = {}
  BY <1>1, <1>2
<1>3. ASSUME NEW j \in Jobs, NEW to \in {"queued", "duplicate", "failed"}, NEW hold \in BOOLEAN,
             CreateRow(j, to, hold), UNCHANGED <<mode, worker, toReconcile, orphaned>>
      PROVE  OwnerInv'
  <2>1. status[j] = "none" /\ status' = [status EXCEPT ![j] = to]
    BY <1>3 DEF CreateRow, IsNextRow
  <2>2. to \in JobStatus \ Active /\ status[j] \notin Active
    BY <2>1 DEF JobStatus, Active
  <2>3. \A k \in Jobs : status'[k] = status[k] \/ {status[k], status'[k]} \cap Active = {}
    BY <1>2, <2>1, <2>2
  <2> QED BY <1>3, <2>3, OwnersKept
<1>4. CASE Intake
  <2>1. ASSUME NEW j \in Jobs, Enqueue(j) PROVE OwnerInv'
    BY <1>3, <2>1 DEF Enqueue
  <2>2. ASSUME NEW j \in Jobs, RejectOversized(j) PROVE OwnerInv'
    BY <1>3, <2>2 DEF RejectOversized
  <2>3. ASSUME NEW j \in Jobs, BatchAdds(j) PROVE OwnerInv'
    <3>1. PICK hold \in IF drop[BatchOf[j]] = "new" THEN BOOLEAN ELSE {drop[BatchOf[j]] = "openHeld"},
               to \in {"queued", "duplicate", "failed"} : CreateRow(j, to, hold)
      BY <2>3 DEF BatchAdds
    <3>2. hold \in BOOLEAN
      BY <3>1, Zenon
    <3>3. UNCHANGED <<mode, worker, toReconcile, orphaned>>
      BY <2>3 DEF BatchAdds
    <3> QED BY <1>3, <3>1, <3>2, <3>3
  <2>4. ASSUME NEW b \in Batches, BatchCloses(b) PROVE OwnerInv'
    BY <2>4, OwnersKept DEF BatchCloses
  <2> QED BY <1>4, <2>1, <2>2, <2>3, <2>4 DEF Intake
<1>5. CASE Operator
  <2>1. ASSUME NEW j \in Jobs, RetryJob(j) \/ CancelJob(j) \/ RemoveJob(j) PROVE OwnerInv'
    <3>1. /\ status[j] \notin Active
          /\ UNCHANGED <<mode, worker, toReconcile, orphaned>>
          /\ \E to \in {"queued", "cancelled", "removed"} : status' = [status EXCEPT ![j] = to]
      BY <2>1 DEF RetryJob, CancelJob, RemoveJob, Active, Clearable
    <3>2. \A k \in Jobs : status'[k] = status[k] \/ {status[k], status'[k]} \cap Active = {}
      BY <1>2, <3>1 DEF JobStatus, Active
    <3> QED BY <3>1, <3>2, OwnersKept
  <2>2. CASE SetConcurrency \/ ResumeManually \/ NightBegins
    BY <2>2, OwnersKept DEF SetConcurrency, ResumeManually, NightBegins
  <2>3. CASE ClearHistory
    <3>1. /\ UNCHANGED <<mode, worker, toReconcile, orphaned>>
          /\ \E targets \in {{st} : st \in Clearable} \cup {Clearable} :
               status' = [j \in Jobs |-> IF status[j] \in targets THEN "removed" ELSE status[j]]
      BY <2>3 DEF ClearHistory
    <3>2. \A targets \in {{st} : st \in Clearable} \cup {Clearable} : targets \cap Active = {}
      BY DEF Clearable, Active
    <3>3. \A k \in Jobs : status'[k] = status[k] \/ {status[k], status'[k]} \cap Active = {}
      BY <3>1, <3>2 DEF Active
    <3> QED BY <3>1, <3>3, OwnersKept
  <2> QED BY <1>5, <2>1, <2>2, <2>3 DEF Operator
<1>6. CASE Timer
  <2>1. ASSUME NEW j \in Jobs, RetryTimerFires(j) PROVE OwnerInv'
    <3>1. /\ UNCHANGED <<mode, worker, toReconcile, orphaned>>
          /\ \/ status' = status
             \/ status[j] = "failed" /\ status' = [status EXCEPT ![j] = "queued"]
      BY <2>1 DEF RetryTimerFires
    <3>2. \A k \in Jobs : status'[k] = status[k] \/ {status[k], status'[k]} \cap Active = {}
      BY <1>2, <3>1 DEF JobStatus, Active
    <3> QED BY <3>1, <3>2, OwnersKept
  <2>2. CASE ResumeTimerFires \/ BudgetSpent \/ Midnight
    BY <2>2, OwnersKept DEF ResumeTimerFires, BudgetSpent, Midnight
  <2> QED BY <1>6, <2>1, <2>2 DEF Timer
<1> QED BY <1>4, <1>5, <1>6

\* The snapshot taken at startup is all that is active, and reconcile settles it.
LEMMA StartupOwns ==
  ASSUME TypeOK, OwnerInv, Recovery \/ Process
  PROVE  OwnerInv'
<1>1. status \in [Jobs -> JobStatus] /\ toReconcile \in SUBSET Jobs
  BY DEF TypeOK
<1>2. ASSUME mode \in {"down", "reconciling"}, UNCHANGED worker
      PROVE  \A s \in Slots : Hands(s) = {} /\ Hands(s)' = {} /\ worker'[s].at = "idle"
  BY <1>2 DEF Hands, OwnerInv, Starting
<1>3. CASE ReconcileJob
  <2>1. PICK j \in First(toReconcile) :
          /\ status' = [status EXCEPT ![j] =
                          IF status[j] = "ingesting" /\ marker[j] THEN "done" ELSE "failed"]
          /\ toReconcile' = toReconcile \ {j}
    BY <1>3 DEF ReconcileJob
  <2>2. /\ mode = "reconciling" /\ UNCHANGED <<mode, worker, orphaned>>
        /\ orphaned = {} /\ j \in Jobs
    BY <1>1, <1>3, <2>1 DEF ReconcileJob, OwnerInv, Starting, First
  <2>3. \A s \in Slots : Hands(s) = {} /\ Hands(s)' = {} /\ worker'[s].at = "idle"
    BY <1>2, <2>2
  <2>4. /\ status'[j] \notin Active
        /\ \A k \in Jobs \ {j} : status'[k] = status[k]
    BY <1>1, <2>1, <2>2 DEF Active
  <2>5. Answered' /\ LeftActive'
    BY <1>1, <2>1, <2>2, <2>3, <2>4 DEF OwnerInv, Answered, LeftActive
  <2> QED BY <2>2, <2>3, <2>5 DEF OwnerInv, Disjoint, Holds, OneInHand, Starting
<1>4. CASE ReconcileEnds
  <2>1. /\ mode = "reconciling" /\ mode' = "running"
        /\ UNCHANGED <<worker, status, toReconcile, orphaned>>
    BY <1>4 DEF ReconcileEnds, history, table
  <2>2. \A s \in Slots : Hands(s) = {} /\ Hands(s)' = {} /\ worker'[s].at = "idle"
    BY <1>2, <2>1
  <2>3. toReconcile = {}
    BY <1>4 DEF ReconcileEnds
  <2>4. Answered' /\ LeftActive'
    BY <2>1, <2>2, <2>3 DEF OwnerInv, Answered, LeftActive
  <2> QED BY <2>1, <2>2, <2>4 DEF OwnerInv, Disjoint, Holds, OneInHand, Starting
<1>5. CASE Start
  <2>1. /\ mode = "down" /\ mode' = "reconciling" /\ UNCHANGED <<worker, status, orphaned>>
        /\ toReconcile' = {j \in Jobs : status[j] \in Active} /\ orphaned = {}
    BY <1>5 DEF Start, OwnerInv, Starting
  <2>2. \A s \in Slots : Hands(s) = {} /\ Hands(s)' = {} /\ worker'[s].at = "idle"
    BY <1>2, <2>1
  <2>3. Answered' /\ LeftActive'
    BY <2>1 DEF Answered, LeftActive
  <2> QED BY <2>1, <2>2, <2>3 DEF OwnerInv, Disjoint, Holds, OneInHand, Starting
<1>6. CASE Stop
  BY <1>6, OwnersKept DEF Stop
<1>7. CASE MarkersExpire
  BY <1>7, OwnersKept DEF MarkersExpire
<1>8. CASE Exit \/ Crash \/ \E s \in Slots : CrashBetweenJobs(s)
  BY <1>8, OwnersForgotten DEF Exit, Crash, CrashBetweenJobs
<1> QED BY <1>3, <1>4, <1>5, <1>6, <1>7, <1>8 DEF Recovery, Process

-----------------------------------------------------------------------------
\* A fresh installation has no active job.
LEMMA InitOwns == Init => OwnerInv
<1> SUFFICES ASSUME Init PROVE OwnerInv
  OBVIOUS
<1>1. \A s \in Slots : worker[s].at = "idle" /\ Hands(s) = {}
  BY DEF Init, IdleWorker, Hands
<1> QED BY <1>1 DEF Init, OwnerInv, Disjoint, Holds, Answered, LeftActive, OneInHand, Starting,
                    Active

\* Every step preserves the strengthening.
LEMMA NextOwns ==
  ASSUME TypeOK, UnitInv, OwnerInv, [Next]_vars
  PROVE  OwnerInv'
<1>1. CASE Next
  BY <1>1, PumpOwns, WorkOwns, OthersOwn, StartupOwns DEF Next
<1>2. CASE UNCHANGED vars
  BY <1>2, OwnersKept DEF vars
<1> QED BY <1>1, <1>2

\* The strengthening holds in every behaviour of the queue.
THEOREM OwnersCorrect == Spec => []OwnerInv
<1>1. Init => OwnerInv
  BY InitOwns
<1>2. TypeOK /\ UnitInv /\ OwnerInv /\ [Next]_vars => OwnerInv'
  BY NextOwns
<1> QED BY <1>1, <1>2, TypeCorrect, UnitsCorrect, PTL DEF Spec

(***************************************************************************)
(* While the process lives, an active job is in the hands of exactly one   *)
(* worker, in the status that worker left it in, unless it waits for the   *)
(* reconcile or lost its worker to a crash of it: with any number of       *)
(* slots, overlapping units, reloads, retries and restarts.                *)
(***************************************************************************)
THEOREM OneOwnerCorrect == Spec => []OneOwner
<1>1. TypeOK /\ OwnerInv => OneOwner
  BY OwnerInvOneOwner
<1> QED BY <1>1, TypeCorrect, OwnersCorrect, PTL

-----------------------------------------------------------------------------
(***************************************************************************)
(* Lifecycle: every step moves each row along the transition table.        *)
(***************************************************************************)
Moves(j) == status'[j] = status[j] \/ status'[j] \in Job!Successors(status[j])

\* The entries of the table that the queue makes use of.
LEMMA TableEntries ==
  /\ Job!Successors("none") = {"queued", "duplicate", "failed"}
  /\ {"preprocessing", "cancelled"} \subseteq Job!Successors("queued")
  /\ {"ingesting", "deferred", "failed", "duplicate"} \subseteq Job!Successors("preprocessing")
  /\ {"done", "failed", "queued"} \subseteq Job!Successors("ingesting")
  /\ \A from \in {"failed", "deferred"} : "queued" \in Job!Successors(from)
  /\ \A from \in Clearable : "removed" \in Job!Successors(from)
BY DEF Job!Successors, Job!Created, Job!Allowed, Job!Status, Job!Active, Job!Settled, Clearable

\* A worker that starts or goes on: the one member it takes, and what it made ready.
LEMMA GoOnMoves ==
  ASSUME TypeOK, NEW s \in Slots, NEW unit, NEW rest \in SUBSET Jobs,
         NEW st \in [Jobs -> JobStatus], NEW ready \in SUBSET Jobs,
         GoOn(s, unit, rest, st, ready),
         \A j \in Jobs : \/ st[j] = status[j]
                         \/ status[j] = "preprocessing" /\ st[j] \in {"deferred", "failed"},
         \A j \in ready : st[j] = "preprocessing"
  PROVE  \A j \in Jobs : Moves(j)
<1>1. \A j \in Jobs : st[j] = status[j] \/ st[j] \in Job!Successors(status[j])
  BY TableEntries
<1>2. CASE NextMember(s, unit, rest, st, ready)
  <2>1. PICK m \in Jobs : st[m] = "queued" /\ status' = [st EXCEPT ![m] = "preprocessing"]
    BY <1>2 DEF NextMember, First
  <2>2. status[m] = "queued"
    BY <2>1
  <2> QED BY <1>1, <2>1, <2>2, TableEntries DEF Moves
<1>3. CASE StartRun(s, unit, rest, st, ready)
  <2>1. \A j \in ready : status[j] = "preprocessing" /\ status'[j] = "ingesting"
    BY <1>3 DEF StartRun
  <2>2. \A j \in Jobs \ ready : status'[j] = st[j]
    BY <1>3 DEF StartRun
  <2> QED BY <1>1, <2>1, <2>2, TableEntries DEF Moves
<1>4. CASE NothingToRun(s, unit, rest, st, ready)
  BY <1>1, <1>4 DEF NothingToRun, Moves
<1> QED BY <1>2, <1>3, <1>4 DEF GoOn

\* A claim.
LEMMA PumpMoves ==
  ASSUME TypeOK, Pump
  PROVE  \A j \in Jobs : Moves(j)
<1>1. status \in [Jobs -> JobStatus] /\ {} \in SUBSET Jobs
  BY DEF TypeOK
<1>2. ASSUME NEW s \in Slots, PumpClaimsBatch(s) PROVE \A j \in Jobs : Moves(j)
  <2>1. GoOn(s, Head(pending), Head(pending), status, {}) /\ Head(pending) \in SUBSET Jobs
    BY <1>2 DEF PumpClaimsBatch, TypeOK
  <2> QED BY <1>1, <2>1, GoOnMoves
<1>3. ASSUME NEW s \in Slots, PumpClaimsJob(s) PROVE \A j \in Jobs : Moves(j)
  <2>1. PICK j \in First(Claimable) : NextMember(s, {j}, {j}, status, {})
    BY <1>3 DEF PumpClaimsJob
  <2>2. {j} \in SUBSET Jobs /\ GoOn(s, {j}, {j}, status, {})
    BY <2>1 DEF First, Claimable, GoOn
  <2> QED BY <1>1, <2>2, GoOnMoves
<1>4. CASE PumpPausesForBudget \/ PumpEnds
  BY <1>4 DEF PumpPausesForBudget, PumpEnds, Moves
<1> QED BY <1>2, <1>3, <1>4 DEF Pump

\* What a worker has in hand is in the status it needs for its next transition.
LEMMA WorkMoves ==
  ASSUME TypeOK, OwnerInv, NEW s \in Slots, Work(s)
  PROVE  \A j \in Jobs : Moves(j)
<1>1. /\ status \in [Jobs -> JobStatus] /\ worker[s] \in Worker
      /\ worker[s].ready \in SUBSET Jobs /\ worker[s].rest \in SUBSET Jobs
  BY DEF TypeOK, Worker
<1>2. /\ worker[s].at = "pre" => /\ worker[s].cur \in Jobs
                                 /\ worker[s].cur \notin worker[s].ready
                                 /\ status[worker[s].cur] = "preprocessing"
      /\ worker[s].at \in {"pre", "drop"} =>
           \A j \in worker[s].ready : status[j] = "preprocessing"
      /\ worker[s].at = "run" => \A j \in worker[s].ready : status[j] = "ingesting"
  BY <1>1 DEF OwnerInv, Holds, OneInHand, Hands, Worker
<1>3. CASE PreprocessEnds(s)
  <2>1. worker[s].at = "pre"
    BY <1>3 DEF PreprocessEnds, Preprocessing
  <2>2. ASSUME MemberEnds(s, status, worker[s].ready \cup {worker[s].cur})
        PROVE  \A j \in Jobs : Moves(j)
    <3>1. /\ GoOn(s, worker[s].unit, worker[s].rest, status, worker[s].ready \cup {worker[s].cur})
          /\ worker[s].ready \cup {worker[s].cur} \in SUBSET Jobs
          /\ \A j \in worker[s].ready \cup {worker[s].cur} : status[j] = "preprocessing"
      BY <1>1, <1>2, <2>1, <2>2 DEF MemberEnds
    <3> QED BY <1>1, <3>1, GoOnMoves
  <2>3. ASSUME NEW to \in {"deferred", "failed"},
               MemberEnds(s, [status EXCEPT ![worker[s].cur] = to], worker[s].ready)
        PROVE  \A j \in Jobs : Moves(j)
    <3> DEFINE st == [status EXCEPT ![worker[s].cur] = to]
    <3>1. /\ st \in [Jobs -> JobStatus]
          /\ \A j \in Jobs : \/ st[j] = status[j]
                             \/ status[j] = "preprocessing" /\ st[j] \in {"deferred", "failed"}
          /\ \A j \in worker[s].ready : st[j] = "preprocessing"
      BY <1>1, <1>2, <2>1 DEF JobStatus
    <3>2. GoOn(s, worker[s].unit, worker[s].rest, st, worker[s].ready)
      BY <2>3 DEF MemberEnds
    <3> HIDE DEF st
    <3> QED BY <1>1, <3>1, <3>2, GoOnMoves
  <2> QED BY <1>3, <2>2, <2>3 DEF PreprocessEnds
<1>4. ASSUME worker[s].at = "pre", NEW to \in {"failed", "duplicate"},
             status' = [status EXCEPT ![worker[s].cur] = to]
      PROVE  \A j \in Jobs : Moves(j)
  BY <1>1, <1>2, <1>4, TableEntries DEF Moves
<1>5. CASE PreprocessFailsTransiently(s) \/ PreprocessFindsDuplicate(s)
  BY <1>4, <1>5 DEF PreprocessFailsTransiently, PreprocessFindsDuplicate, Preprocessing
<1>6. CASE StagingDiscarded(s)
  <2>1. /\ GoOn(s, worker[s].unit, worker[s].rest, status, worker[s].ready)
        /\ worker[s].at = "drop"
    BY <1>6 DEF StagingDiscarded, MemberEnds
  <2> QED BY <1>1, <1>2, <2>1, GoOnMoves
<1>7. ASSUME Running(s), NEW to \in {"done", "queued", "failed"}, MoveReady(s, to)
      PROVE  \A j \in Jobs : Moves(j)
  BY <1>1, <1>2, <1>7, TableEntries DEF Running, MoveReady, Moves
<1>8. CASE RunSucceeds(s) \/ RunHitsUsageLimit(s) \/ RunFailsTransiently(s) \/ RunFailsForGood(s)
  BY <1>7, <1>8 DEF RunSucceeds, RunHitsUsageLimit, RunFailsTransiently, RunFailsForGood, Requeue
<1>9. CASE WorkerCrashes(s)
  <2>1. Running(s) /\ (MoveReady(s, "failed") \/ UNCHANGED status)
    BY <1>9 DEF WorkerCrashes
  <2> QED BY <1>7, <2>1 DEF Moves
<1>10. CASE StagingLogFails(s) \/ RunTouchesMarker(s) \/ TailEnds(s)
  BY <1>10 DEF StagingLogFails, RunTouchesMarker, TailEnds, Moves
<1>12. CASE RejectionEndsProcess(s)
  <2>1. PICK last \in LastClaims(s) :
           status' = [j \in Jobs |-> IF j \in last THEN "preprocessing" ELSE status[j]]
    BY <1>12 DEF RejectionEndsProcess
  <2>2. \A j \in last : status[j] = "queued"
    BY <2>1 DEF LastClaims, Ready
  <2> QED BY <2>1, <2>2, TableEntries DEF Moves
<1> QED BY <1>3, <1>5, <1>6, <1>8, <1>9, <1>10, <1>12 DEF Work

\* Everyone else looks at the status before moving a row.
LEMMA OthersMove ==
  ASSUME TypeOK, Intake \/ Operator \/ Timer
  PROVE  \A j \in Jobs : Moves(j)
<1>1. status \in [Jobs -> JobStatus]
  BY DEF TypeOK
<1>2. ASSUME NEW j \in Jobs, NEW to, status' = [status EXCEPT ![j] = to],
             to \in Job!Successors(status[j])
      PROVE  \A k \in Jobs : Moves(k)
  BY <1>1, <1>2 DEF Moves
<1>3. ASSUME NEW j \in Jobs, NEW to \in {"queued", "duplicate", "failed"}, NEW hold,
             CreateRow(j, to, hold)
      PROVE  \A k \in Jobs : Moves(k)
  BY <1>2, <1>3, TableEntries DEF CreateRow, IsNextRow
<1>4. CASE Intake
  <2>1. ASSUME NEW j \in Jobs, Enqueue(j) \/ RejectOversized(j) \/ BatchAdds(j)
        PROVE  \A k \in Jobs : Moves(k)
    <3>1. \E to \in {"queued", "duplicate", "failed"} : \E hold : CreateRow(j, to, hold)
      BY <2>1 DEF Enqueue, RejectOversized, BatchAdds
    <3> QED BY <1>3, <3>1
  <2>2. ASSUME NEW b \in Batches, BatchCloses(b) PROVE \A k \in Jobs : Moves(k)
    BY <2>2 DEF BatchCloses, Moves
  <2> QED BY <1>4, <2>1, <2>2 DEF Intake
<1>5. CASE Operator
  <2>1. ASSUME NEW j \in Jobs, RetryJob(j) \/ CancelJob(j) \/ RemoveJob(j)
        PROVE  \A k \in Jobs : Moves(k)
    <3>1. \E to \in Job!Successors(status[j]) : status' = [status EXCEPT ![j] = to]
      BY <2>1, TableEntries DEF RetryJob, CancelJob, RemoveJob
    <3> QED BY <1>2, <3>1
  <2>2. CASE SetConcurrency \/ ResumeManually \/ NightBegins
    BY <2>2 DEF SetConcurrency, ResumeManually, NightBegins, Moves
  <2>3. CASE ClearHistory
    <3>1. PICK targets \in {{st} : st \in Clearable} \cup {Clearable} :
             status' = [j \in Jobs |-> IF status[j] \in targets THEN "removed" ELSE status[j]]
      BY <2>3 DEF ClearHistory
    <3>2. targets \subseteq Clearable
      BY <3>1
    <3>3. \A k \in Jobs : status'[k] = status[k] \/ (status[k] \in Clearable /\ status'[k] = "removed")
      BY <3>1, <3>2
    <3>4. \A k \in Jobs : status[k] \in Clearable => "removed" \in Job!Successors(status[k])
      BY TableEntries DEF Clearable
    <3> QED BY <3>3, <3>4 DEF Moves
  <2> QED BY <1>5, <2>1, <2>2, <2>3 DEF Operator
<1>6. CASE Timer
  <2>1. ASSUME NEW j \in Jobs, RetryTimerFires(j) PROVE \A k \in Jobs : Moves(k)
    <3>1. \/ status' = status
          \/ status[j] = "failed" /\ status' = [status EXCEPT ![j] = "queued"]
      BY <2>1 DEF RetryTimerFires
    <3> QED BY <1>2, <3>1, TableEntries DEF Moves
  <2>2. CASE ResumeTimerFires \/ BudgetSpent \/ Midnight
    BY <2>2 DEF ResumeTimerFires, BudgetSpent, Midnight, Moves
  <2> QED BY <1>6, <2>1, <2>2 DEF Timer
<1> QED BY <1>4, <1>5, <1>6

\* Reconcile moves what is active, and a crash cuts a loop between two legal moves.
LEMMA StartupMoves ==
  ASSUME TypeOK, OwnerInv, Recovery \/ Process
  PROVE  \A j \in Jobs : Moves(j)
<1>1. status \in [Jobs -> JobStatus] /\ toReconcile \in SUBSET Jobs
  BY DEF TypeOK
<1>2. CASE ReconcileJob
  <2>1. PICK j \in First(toReconcile) :
          status' = [status EXCEPT ![j] =
                       IF status[j] = "ingesting" /\ marker[j] THEN "done" ELSE "failed"]
    BY <1>2 DEF ReconcileJob
  <2>2. j \in Jobs /\ status[j] \in {"preprocessing", "ingesting"}
    BY <1>1, <2>1 DEF First, OwnerInv, LeftActive, Active
  <2> QED BY <1>1, <2>1, <2>2, TableEntries DEF Moves
<1>3. ASSUME NEW s \in Slots, CrashBetweenJobs(s) PROVE \A j \in Jobs : Moves(j)
  <2>1. /\ worker[s].at = "run"
        /\ \A j \in Jobs : \/ status'[j] = status[j]
                           \/ /\ j \in worker[s].ready
                              /\ status'[j] \in {"done", "ingesting", "failed", "queued"}
    BY <1>3 DEF CrashBetweenJobs, Running
  <2>2. \A j \in worker[s].ready : status[j] = "ingesting"
    BY <2>1 DEF OwnerInv, Holds, Hands
  <2> QED BY <2>1, <2>2, TableEntries DEF Moves
<1>4. CASE ReconcileEnds \/ Stop \/ Exit \/ Crash \/ Start \/ MarkersExpire
  BY <1>4 DEF ReconcileEnds, Stop, Exit, Crash, Start, MarkersExpire, Moves
<1> QED BY <1>2, <1>3, <1>4 DEF Recovery, Process

(***************************************************************************)
(* The queue implements the job lifecycle: no handler, timer, crash or     *)
(* recovery ever moves a row where the table of db/jobs.ts has no entry,   *)
(* so store.transition never throws for it, and no removed row comes back. *)
(***************************************************************************)
THEOREM LifecycleCorrect == Spec => Lifecycle
<1>1. Init => Job!Init
  BY DEF Init, Job!Init
<1>2. TypeOK /\ TypeOK' /\ OwnerInv /\ [Next]_vars => [Job!Next]_status
  <2> SUFFICES ASSUME TypeOK, TypeOK', OwnerInv, [Next]_vars PROVE [Job!Next]_status
    OBVIOUS
  <2>1. CASE Next
    <3>1. \A j \in Jobs : Moves(j)
      BY <2>1, PumpMoves, WorkMoves, OthersMove, StartupMoves DEF Next
    <3>2. status' \in [Jobs -> Job!Status]
      BY DEF TypeOK, JobStatus, Job!Status
    <3> QED BY <3>1, <3>2 DEF Job!Next, Moves
  <2>2. CASE UNCHANGED vars
    BY <2>2 DEF vars
  <2> QED BY <2>1, <2>2
<1> QED BY <1>1, <1>2, TypeCorrect, OwnersCorrect, PTL DEF Spec, Lifecycle, Job!Spec

-----------------------------------------------------------------------------
(***************************************************************************)
(* Automatic retries.  Every one of them, and every retry timer that may   *)
(* still cause one, has used up an attempt of its own: the attempt of a    *)
(* run under way is not used yet, since a usage limit may give it back.    *)
(* None is granted beyond MaxRetries attempts.                             *)
(***************************************************************************)
InRun(j) == \E s \in Slots : worker[s].at = "run" /\ j \in worker[s].ready
Spent(j) == auto[j] + retryTimers[j]

RetryOk(j) == /\ Spent(j) <= MaxRetries
              /\ Spent(j) <= attempts[j]
              /\ InRun(j) => Spent(j) < attempts[j]

RetryInv == \A j \in Jobs : Standalone(j) => RetryOk(j)

\* The types the counting needs.
LEMMA CountTypes ==
  ASSUME TypeOK, NEW j \in Jobs
  PROVE  attempts[j] \in Nat /\ auto[j] \in Nat /\ retryTimers[j] \in Nat /\ MaxRetries \in Nat
BY ConstantsAssumption DEF TypeOK

\* The strengthening says more than RetryBound does.
LEMMA RetryInvBound ==
  ASSUME TypeOK, RetryInv
  PROVE  RetryBound
BY CountTypes DEF RetryInv, RetryOk, Spent, RetryBound

\* A step that spends nothing keeps a job's count, and a run that begins brings an attempt.
LEMMA SpendsNothing ==
  ASSUME TypeOK, NEW j \in Jobs, RetryOk(j), attempts'[j] \in Nat, Spent(j)' \in Nat,
         Spent(j)' <= Spent(j), attempts'[j] >= attempts[j],
         InRun(j)' => InRun(j) \/ attempts'[j] > attempts[j]
  PROVE  RetryOk(j)'
<1>1. Spent(j) \in Nat /\ attempts[j] \in Nat /\ MaxRetries \in Nat
  BY CountTypes DEF Spent
<1> QED BY <1>1 DEF RetryOk

\* The common case: the counters stay, and no run begins.
LEMMA CountsKept ==
  ASSUME TypeOK, RetryInv, UNCHANGED <<attempts, auto, retryTimers>>,
         \A j \in Jobs : InRun(j)' => InRun(j)
  PROVE  RetryInv'
<1> SUFFICES ASSUME NEW j \in Jobs, Standalone(j) PROVE RetryOk(j)'
  BY DEF RetryInv, Standalone
<1>1. RetryOk(j)
  BY DEF RetryInv
<1> QED BY <1>1, CountTypes, SpendsNothing DEF Spent

\* The end of the process forgets runs and timers.
LEMMA MemoryCounts ==
  ASSUME TypeOK, RetryInv, LoseMemory, UNCHANGED <<attempts, auto>>
  PROVE  RetryInv'
<1> SUFFICES ASSUME NEW j \in Jobs, Standalone(j) PROVE RetryOk(j)'
  BY DEF RetryInv, Standalone
<1>1. RetryOk(j) /\ attempts[j] \in Nat /\ auto[j] \in Nat /\ retryTimers[j] \in Nat
  BY CountTypes DEF RetryInv
<1>2. ~InRun(j)' /\ retryTimers'[j] = 0
  BY DEF LoseMemory, InRun, IdleWorker
<1>3. attempts'[j] = attempts[j] /\ auto'[j] = auto[j]
  OBVIOUS
<1> QED BY <1>1, <1>2, <1>3, SpendsNothing DEF Spent

\* A worker that goes on starts a run only with an attempt for each of its jobs.
LEMMA GoOnCounts ==
  ASSUME TypeOK, RetryInv, NEW s \in Slots, NEW unit, NEW rest, NEW st, NEW ready,
         GoOn(s, unit, rest, st, ready), UNCHANGED <<auto, retryTimers>>
  PROVE  RetryInv'
<1>0. worker \in [Slots -> Worker] /\ attempts \in [Jobs -> Nat]
  BY DEF TypeOK
<1> SUFFICES ASSUME NEW j \in Jobs, Standalone(j) PROVE RetryOk(j)'
  BY DEF RetryInv, Standalone
<1>1. RetryOk(j)
  BY DEF RetryInv
<1>2. attempts'[j] \in Nat /\ attempts'[j] >= attempts[j]
  <2>1. CASE attempts' = attempts
    BY <1>0, <2>1
  <2>2. CASE StartRun(s, unit, rest, st, ready)
    BY <1>0, <2>2 DEF StartRun
  <2> QED BY <2>1, <2>2 DEF GoOn, NextMember, NothingToRun
<1>3. InRun(j)' => InRun(j) \/ attempts'[j] > attempts[j]
  <2> SUFFICES ASSUME NEW t \in Slots, worker'[t].at = "run", j \in worker'[t].ready
               PROVE  InRun(j) \/ attempts'[j] > attempts[j]
    BY DEF InRun
  <2>1. CASE t # s
    <3>1. worker'[t] = worker[t]
      BY <1>0, <2>1 DEF GoOn, NextMember, StartRun, NothingToRun
    <3> QED BY <3>1 DEF InRun
  <2>2. CASE t = s
    <3>1. CASE NextMember(s, unit, rest, st, ready)
      <4>1. worker'[s].at = "pre"
        BY <1>0, <3>1 DEF NextMember
      <4> QED BY <2>2, <4>1
    <3>2. CASE StartRun(s, unit, rest, st, ready)
      <4>1. worker'[s] = [at |-> "run", unit |-> unit, cur |-> NoJob, rest |-> {}, ready |-> ready]
        BY <1>0, <3>2 DEF StartRun
      <4>2. attempts'[j] = attempts[j] + 1
        BY <1>0, <2>2, <3>2, <4>1 DEF StartRun
      <4> QED BY <1>0, <4>2
    <3>3. CASE NothingToRun(s, unit, rest, st, ready)
      <4>1. worker'[s].at = "idle"
        BY <1>0, <3>3 DEF NothingToRun, IdleWorker
      <4> QED BY <2>2, <4>1
    <3> QED BY <3>1, <3>2, <3>3 DEF GoOn
  <2> QED BY <2>1, <2>2
<1>4. Spent(j)' = Spent(j) /\ Spent(j) \in Nat
  BY CountTypes DEF Spent
<1> QED BY <1>1, <1>2, <1>3, <1>4, SpendsNothing

\* Where a worker is let go, its jobs are in no run any more, and others stay as they were.
LEMMA RunLetGo ==
  ASSUME TypeOK, OwnerInv, NEW s \in Slots, EndWorker(s)
  PROVE  /\ \A j \in Jobs : InRun(j)' => InRun(j)
         /\ \A j \in Hands(s) : ~InRun(j)'
<1>1. worker \in [Slots -> Worker] /\ worker' = [worker EXCEPT ![s] = IdleWorker]
  BY DEF TypeOK, EndWorker
<1>2. ASSUME NEW j \in Jobs, NEW t \in Slots, worker'[t].at = "run", j \in worker'[t].ready
      PROVE  t # s /\ worker[t].at = "run" /\ j \in worker[t].ready /\ j \in Hands(t)
  <2>1. t # s
    BY <1>1, <1>2 DEF IdleWorker
  <2>2. worker'[t] = worker[t]
    BY <1>1, <2>1
  <2> QED BY <1>2, <2>1, <2>2 DEF Hands
<1>3. Hands(s) \subseteq Jobs
  BY <1>1 DEF Hands, Worker
<1>4. ASSUME NEW j \in Hands(s), InRun(j)' PROVE FALSE
  <2>1. PICK t \in Slots : worker'[t].at = "run" /\ j \in worker'[t].ready
    BY <1>4 DEF InRun
  <2>2. t # s /\ j \in Hands(t)
    BY <1>2, <1>3, <1>4, <2>1
  <2> QED BY <1>3, <1>4, <2>2 DEF OwnerInv, Disjoint
<1>5. ASSUME NEW j \in Jobs, InRun(j)' PROVE InRun(j)
  <2>1. PICK t \in Slots : worker'[t].at = "run" /\ j \in worker'[t].ready
    BY <1>5 DEF InRun
  <2> QED BY <1>2, <2>1 DEF InRun
<1> QED BY <1>4, <1>5

\* A standalone job is alone in its run, so the first job of the run is this job.
LEMMA AloneInRun ==
  ASSUME TypeOK, UnitInv, NEW s \in Slots, NEW j \in worker[s].ready, Standalone(j)
  PROVE  First(worker[s].ready) \subseteq {j}
<1>1. worker[s].ready \subseteq worker[s].unit
  BY DEF UnitInv, UnitOk
<1>2. PICK k \in Jobs : worker[s].unit = {k}
  BY <1>1 DEF UnitInv, UnitOk
<1> QED BY <1>1, <1>2 DEF First

\* What a worker does to the counts.
LEMMA WorkCounts ==
  ASSUME TypeOK, UnitInv, OwnerInv, RetryInv, NEW s \in Slots, Work(s)
  PROVE  RetryInv'
<1>0. /\ worker \in [Slots -> Worker] /\ worker[s] \in Worker
      /\ attempts \in [Jobs -> Nat] /\ auto \in [Jobs -> Nat] /\ retryTimers \in [Jobs -> Nat]
  BY DEF TypeOK
<1>1. ASSUME EndWorker(s), UNCHANGED <<attempts, auto, retryTimers>> PROVE RetryInv'
  BY <1>1, RunLetGo, CountsKept
<1>2. ASSUME NEW st, NEW ready, MemberEnds(s, st, ready), UNCHANGED <<auto, retryTimers>>
      PROVE  RetryInv'
  BY <1>2, GoOnCounts DEF MemberEnds
<1>3. CASE PreprocessEnds(s)
  BY <1>2, <1>3 DEF PreprocessEnds
<1>4. CASE PreprocessFailsTransiently(s)
  <2> DEFINE c == worker[s].cur
  <2>1. /\ c \in Jobs /\ c \in Hands(s)
        /\ attempts' = [attempts EXCEPT ![c] = @ + 1]
        /\ \/ /\ attempts[c] + 1 <= MaxRetries
              /\ retryTimers' = [retryTimers EXCEPT ![c] = @ + 1]
           \/ retryTimers' = retryTimers
        /\ auto' = auto /\ EndWorker(s)
    BY <1>0, <1>4 DEF PreprocessFailsTransiently, Preprocessing, Hands, Worker
  <2> HIDE DEF c
  <2> SUFFICES ASSUME NEW j \in Jobs, Standalone(j) PROVE RetryOk(j)'
    BY DEF RetryInv, Standalone
  <2>2. RetryOk(j) /\ attempts[j] \in Nat /\ auto[j] \in Nat /\ retryTimers[j] \in Nat
        /\ MaxRetries \in Nat
    BY CountTypes DEF RetryInv
  <2>3. CASE j = c
    <3>1. ~InRun(j)'
      BY <2>1, <2>3, RunLetGo
    <3>2. attempts'[j] = attempts[j] + 1 /\ auto'[j] = auto[j]
      BY <1>0, <2>1, <2>3
    <3>3. \/ retryTimers'[j] = retryTimers[j] + 1 /\ attempts[j] + 1 <= MaxRetries
          \/ retryTimers'[j] = retryTimers[j]
      BY <1>0, <2>1, <2>3
    <3> QED BY <2>2, <3>1, <3>2, <3>3 DEF RetryOk, Spent
  <2>4. CASE j # c
    <3>1. attempts'[j] = attempts[j] /\ auto'[j] = auto[j] /\ retryTimers'[j] = retryTimers[j]
      BY <1>0, <2>1, <2>4
    <3>2. InRun(j)' => InRun(j)
      BY <2>1, RunLetGo
    <3> QED BY <2>2, <3>1, <3>2, SpendsNothing DEF Spent
  <2> QED BY <2>3, <2>4
<1>5. CASE PreprocessFindsDuplicate(s)
  <2>1. worker' = [worker EXCEPT ![s].at = "drop"] /\ UNCHANGED <<attempts, auto, retryTimers>>
    BY <1>5 DEF PreprocessFindsDuplicate
  <2>2. \A j \in Jobs : InRun(j)' => InRun(j)
    BY <1>0, <2>1 DEF InRun, Worker
  <2> QED BY <2>1, <2>2, CountsKept
<1>6. CASE StagingDiscarded(s)
  BY <1>2, <1>6 DEF StagingDiscarded
<1>7. CASE RunTouchesMarker(s)
  <2>1. UNCHANGED <<worker, attempts, auto, retryTimers>>
    BY <1>7 DEF RunTouchesMarker
  <2> QED BY <2>1, CountsKept DEF InRun
<1>8. CASE RunSucceeds(s)
  <2>1. worker' = [worker EXCEPT ![s].at = "tail"] /\ UNCHANGED <<attempts, auto, retryTimers>>
    BY <1>8 DEF RunSucceeds
  <2>2. \A j \in Jobs : InRun(j)' => InRun(j)
    BY <1>0, <2>1 DEF InRun, Worker
  <2> QED BY <2>1, <2>2, CountsKept
<1>9. CASE RunHitsUsageLimit(s)
  <2>1. /\ attempts' = [j \in Jobs |-> IF j \in worker[s].ready /\ attempts[j] > 0
                                       THEN attempts[j] - 1 ELSE attempts[j]]
        /\ UNCHANGED <<auto, retryTimers>> /\ EndWorker(s) /\ worker[s].at = "run"
    BY <1>9 DEF RunHitsUsageLimit, Running
  <2> SUFFICES ASSUME NEW j \in Jobs, Standalone(j) PROVE RetryOk(j)'
    BY DEF RetryInv, Standalone
  <2>2. RetryOk(j) /\ attempts[j] \in Nat /\ auto[j] \in Nat /\ retryTimers[j] \in Nat
        /\ MaxRetries \in Nat
    BY CountTypes DEF RetryInv
  <2>3. auto'[j] = auto[j] /\ retryTimers'[j] = retryTimers[j]
    BY <2>1
  <2>4. CASE j \in worker[s].ready
    <3>1. InRun(j) /\ j \in Hands(s)
      BY <2>1, <2>4 DEF InRun, Hands
    <3>2. ~InRun(j)'
      BY <2>1, <3>1, RunLetGo
    <3>3. attempts[j] > 0 => attempts'[j] = attempts[j] - 1
      BY <2>1, <2>4
    <3> QED BY <2>2, <2>3, <3>1, <3>2, <3>3 DEF RetryOk, Spent
  <2>5. CASE j \notin worker[s].ready
    <3>1. attempts'[j] = attempts[j] /\ (InRun(j)' => InRun(j))
      BY <2>1, <2>5, RunLetGo
    <3> QED BY <2>2, <2>3, <3>1, SpendsNothing DEF Spent
  <2> QED BY <2>4, <2>5
<1>10. CASE RunFailsTransiently(s)
  <2>1. /\ \E j \in First(worker[s].ready) : attempts[j] <= MaxRetries
        /\ auto' = [j \in Jobs |-> auto[j] + (IF j \in worker[s].ready THEN 1 ELSE 0)]
        /\ UNCHANGED <<attempts, retryTimers>> /\ EndWorker(s) /\ worker[s].at = "run"
    BY <1>10 DEF RunFailsTransiently, Running
  <2> SUFFICES ASSUME NEW j \in Jobs, Standalone(j) PROVE RetryOk(j)'
    BY DEF RetryInv, Standalone
  <2>2. RetryOk(j) /\ attempts[j] \in Nat /\ auto[j] \in Nat /\ retryTimers[j] \in Nat
        /\ MaxRetries \in Nat
    BY CountTypes DEF RetryInv
  <2>3. CASE j \in worker[s].ready
    <3>1. InRun(j) /\ j \in Hands(s)
      BY <2>1, <2>3 DEF InRun, Hands
    <3>2. ~InRun(j)'
      BY <2>1, <3>1, RunLetGo
    <3>3. attempts[j] <= MaxRetries
      BY <2>1, <2>3, AloneInRun
    <3>4. /\ auto'[j] = auto[j] + 1 /\ attempts'[j] = attempts[j]
          /\ retryTimers'[j] = retryTimers[j]
      BY <2>1, <2>3
    <3> QED BY <2>2, <3>1, <3>2, <3>3, <3>4 DEF RetryOk, Spent
  <2>4. CASE j \notin worker[s].ready
    <3>1. auto'[j] = auto[j] /\ (InRun(j)' => InRun(j))
      BY <2>1, <2>2, <2>4, RunLetGo
    <3>2. attempts'[j] = attempts[j] /\ retryTimers'[j] = retryTimers[j]
      BY <2>1
    <3> QED BY <2>2, <3>1, <3>2, SpendsNothing DEF Spent
  <2> QED BY <2>3, <2>4
<1>11. CASE StagingLogFails(s) \/ RunFailsForGood(s) \/ WorkerCrashes(s) \/ TailEnds(s)
  BY <1>1, <1>11 DEF StagingLogFails, RunFailsForGood, WorkerCrashes, TailEnds
<1>12. CASE RejectionEndsProcess(s)
  BY <1>0, <1>12, MemoryCounts DEF RejectionEndsProcess
<1> QED BY <1>3, <1>4, <1>5, <1>6, <1>7, <1>8, <1>9, <1>10, <1>11, <1>12 DEF Work

\* Everything else: timers pass their retry on, a crash forgets the timers.
LEMMA NextCounts ==
  ASSUME TypeOK, UnitInv, OwnerInv, RetryInv, [Next]_vars
  PROVE  RetryInv'
<1>0. /\ worker \in [Slots -> Worker]
      /\ attempts \in [Jobs -> Nat] /\ auto \in [Jobs -> Nat] /\ retryTimers \in [Jobs -> Nat]
  BY DEF TypeOK
<1>1. ASSUME UNCHANGED <<worker, attempts, auto, retryTimers>> PROVE RetryInv'
  BY <1>1, CountsKept DEF InRun
<1>2. CASE Pump
  <2>1. ASSUME NEW s \in Slots, PumpClaimsBatch(s) PROVE RetryInv'
    BY <2>1, GoOnCounts DEF PumpClaimsBatch
  <2>2. ASSUME NEW s \in Slots, PumpClaimsJob(s) PROVE RetryInv'
    <3>1. PICK j \in First(Claimable) : NextMember(s, {j}, {j}, status, {})
      BY <2>2 DEF PumpClaimsJob
    <3>2. GoOn(s, {j}, {j}, status, {})
      BY <3>1 DEF GoOn
    <3> QED BY <2>2, <3>2, GoOnCounts DEF PumpClaimsJob
  <2>3. CASE PumpPausesForBudget \/ PumpEnds
    BY <1>1, <2>3 DEF PumpPausesForBudget, PumpEnds
  <2> QED BY <1>2, <2>1, <2>2, <2>3 DEF Pump
<1>3. CASE Intake
  BY <1>1, <1>3 DEF Intake, Enqueue, RejectOversized, BatchAdds, BatchCloses
<1>4. CASE Operator
  <2>1. CASE ClearHistory \/ SetConcurrency \/ ResumeManually \/ NightBegins
    BY <1>1, <2>1 DEF ClearHistory, SetConcurrency, ResumeManually, NightBegins
  <2>2. CASE \E j \in Jobs : RetryJob(j) \/ CancelJob(j) \/ RemoveJob(j)
    BY <1>1, <2>2 DEF RetryJob, CancelJob, RemoveJob
  <2> QED BY <1>4, <2>1, <2>2 DEF Operator
<1>5. CASE ResumeTimerFires \/ BudgetSpent \/ Midnight
  BY <1>1, <1>5 DEF ResumeTimerFires, BudgetSpent, Midnight
<1>6. ASSUME NEW i \in Jobs, RetryTimerFires(i) PROVE RetryInv'
  <2>1. /\ retryTimers[i] > 0
        /\ retryTimers' = [retryTimers EXCEPT ![i] = @ - 1]
        /\ auto' = [auto EXCEPT ![i] = @ + 1] \/ auto' = auto
        /\ UNCHANGED <<worker, attempts>>
    BY <1>6 DEF RetryTimerFires
  <2> SUFFICES ASSUME NEW j \in Jobs, Standalone(j) PROVE RetryOk(j)'
    BY DEF RetryInv, Standalone
  <2>2. RetryOk(j) /\ attempts[j] \in Nat /\ auto[j] \in Nat /\ retryTimers[j] \in Nat
    BY CountTypes DEF RetryInv
  <2>3. /\ j = i => retryTimers'[j] = retryTimers[j] - 1 /\ auto'[j] \in {auto[j], auto[j] + 1}
        /\ j # i => retryTimers'[j] = retryTimers[j] /\ auto'[j] = auto[j]
    BY <1>0, <2>1
  <2>4. Spent(j)' \in Nat /\ Spent(j)' <= Spent(j)
    BY <2>1, <2>2, <2>3 DEF Spent
  <2>5. attempts'[j] = attempts[j] /\ (InRun(j)' => InRun(j))
    BY <2>1 DEF InRun
  <2> QED BY <2>2, <2>4, <2>5, SpendsNothing
<1>7. CASE Recovery
  BY <1>1, <1>7 DEF Recovery, ReconcileJob, ReconcileEnds
<1>8. CASE Stop \/ Start \/ MarkersExpire
  BY <1>1, <1>8 DEF Stop, Start, MarkersExpire
<1>9. CASE Exit \/ Crash
  BY <1>9, MemoryCounts DEF Exit, Crash
<1>10. ASSUME NEW s \in Slots, CrashBetweenJobs(s) PROVE RetryInv'
  <2>1. PICK cut \in worker[s].ready,
             to \in {<<"done", "ingesting">>, <<"failed", "ingesting">>, <<"queued", "failed">>} :
          /\ to[1] = "queued" => \E j \in First(worker[s].ready) : attempts[j] <= MaxRetries
          /\ auto' = [j \in Jobs |-> auto[j] +
                        (IF j \in worker[s].ready /\ j < cut /\ to[1] = "queued" THEN 1 ELSE 0)]
    BY <1>10 DEF CrashBetweenJobs
  <2>2. LoseMemory /\ attempts' = attempts /\ worker[s].at = "run"
    BY <1>10 DEF CrashBetweenJobs, Running
  <2> SUFFICES ASSUME NEW j \in Jobs, Standalone(j) PROVE RetryOk(j)'
    BY DEF RetryInv, Standalone
  <2>3. RetryOk(j) /\ attempts[j] \in Nat /\ auto[j] \in Nat /\ retryTimers[j] \in Nat
        /\ MaxRetries \in Nat
    BY CountTypes DEF RetryInv
  <2>4. ~InRun(j)' /\ retryTimers'[j] = 0 /\ attempts'[j] = attempts[j]
    BY <2>2 DEF LoseMemory, InRun, IdleWorker
  <2>5. CASE j \in worker[s].ready /\ j < cut /\ to[1] = "queued"
    <3>1. InRun(j) /\ attempts[j] <= MaxRetries
      BY <2>1, <2>2, <2>5, AloneInRun DEF InRun
    <3>2. auto'[j] = auto[j] + 1
      BY <2>1, <2>5
    <3> QED BY <2>3, <2>4, <3>1, <3>2 DEF RetryOk, Spent
  <2>6. CASE ~(j \in worker[s].ready /\ j < cut /\ to[1] = "queued")
    <3>1. auto'[j] = auto[j]
      BY <2>1, <2>3, <2>6
    <3> QED BY <2>3, <2>4, <3>1 DEF RetryOk, Spent
  <2> QED BY <2>5, <2>6
<1>11. CASE Timer
  BY <1>5, <1>6, <1>11 DEF Timer
<1>12. CASE Process
  BY <1>8, <1>9, <1>10, <1>12 DEF Process
<1>13. CASE UNCHANGED vars
  BY <1>1, <1>13 DEF vars
<1> QED BY <1>2, <1>3, <1>4, <1>7, <1>11, <1>12, <1>13, WorkCounts DEF Next

\* The strengthening holds in every behaviour of the queue.
THEOREM RetriesCounted == Spec => []RetryInv
<1>1. Init => RetryInv
  <2> SUFFICES ASSUME Init, NEW j \in Jobs PROVE RetryOk(j)
    BY DEF RetryInv
  <2>1. auto[j] = 0 /\ retryTimers[j] = 0 /\ attempts[j] = 0 /\ ~InRun(j) /\ MaxRetries \in Nat
    BY ConstantsAssumption DEF Init, InRun, IdleWorker
  <2> QED BY <2>1 DEF RetryOk, Spent
<1>2. TypeOK /\ UnitInv /\ OwnerInv /\ RetryInv /\ [Next]_vars => RetryInv'
  BY NextCounts
<1> QED BY <1>1, <1>2, TypeCorrect, UnitsCorrect, OwnersCorrect, PTL DEF Spec

(***************************************************************************)
(* A standalone job is retried on its own at most MaxRetries times in its  *)
(* life, whatever timers, usage limits, crashes and manual retries come.   *)
(***************************************************************************)
THEOREM RetriesBounded == Spec => []RetryBound
<1>1. TypeOK /\ RetryInv => RetryBound
  BY RetryInvBound
<1> QED BY <1>1, TypeCorrect, RetriesCounted, PTL

=============================================================================
