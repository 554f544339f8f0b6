-------------------------- MODULE NightShiftProofs --------------------------
(***************************************************************************)
(* What holds of NightShift for any crew, any proposals and quotas, any    *)
(* number of runs, nights and events, and any length of the register.      *)
(***************************************************************************)
EXTENDS NightShift, TLAPS, FiniteSetTheorems

Statuses == {"none"} \cup Lifecycle!Decidable \cup Lifecycle!Closed

\* The types of the register and the crew, without what only bounds a behaviour.
CrewTypes1 ==
  /\ RunsTypeOK
  /\ state \in [Crew -> States] /\ proposal \in [Proposals -> Statuses]
  /\ inFlight \in [Crew -> Runs \cup {NoRun}] /\ what \in [Runs -> Job]
  /\ handler \in [Runs -> Handling] /\ heard \subseteq Runs /\ night \in Nights

\* Runs are numbered as they come, and a run that has not begun is nobody's.
Numbered == \A r \in Runs : r > count <=> stage[r] = "none"
Blank ==
  \A r \in Runs : r > count =>
    /\ what[r] = NoJob /\ kind[r] = "none" /\ handler[r] = "none"
    /\ r \notin board /\ r \notin listener /\ r \notin ledger /\ r \notin heard

Whose == \A r \in Runs : what[r].by \in Crew <=> kind[r] \in {"plan", "step", "deepen"}

\* A Fellow's slot is held by its run as long as that runs.
SlotHeld == \A r \in Runs : what[r].by \in Crew /\ Running(r) => inFlight[what[r].by] = r

\* A run's handler begins when the run is over.
HandlerLast == \A r \in Runs : handler[r] # "none" => Over(r) /\ what[r].by \in Crew

\* A Fellow listens to its run as long as the register knows it.
Listening == \A r \in Runs : what[r].by \in Crew /\ Running(r) /\ r \in board => r \in listener

\* What has ended is not what an active Fellow is busy with.
ActiveFirst ==
  \A f \in Crew : state[f] = "active" => handler[inFlight[f]] \in {"none", "reads"}

\* A night whose timer began a shift has its row.
RowKept == \A n \in Nights : timed[n] # 0 => timed[n] = 1 /\ rows[n] # "none"

CrewInv == /\ CrewTypes1 /\ Numbered /\ Blank /\ Whose
           /\ SlotHeld /\ HandlerLast /\ Listening /\ ActiveHasRun /\ ActiveFirst

\* A Fellow's turn lasts while its topic, its own, is weighed and its run is awaited.
OwnTopic == /\ at \in {"weighs", "awaits"} => turn \in Crew
            /\ at = "weighs" => pick \in Of(turn)

RowTypes ==
  /\ skip \in [Crew -> 0..MaxNights] /\ born \in [Proposals -> 0..MaxNights]
  /\ events \in 0..MaxEvents

ShiftTypes ==
  /\ at \in At /\ part \in Parts /\ cycle \in 0..MaxNights /\ todo \subseteq Crew
  /\ turn \in Crew \cup {Nobody} /\ pick \in Proposals \cup {Nobody} /\ firm \in BOOLEAN
  /\ waits \in Runs \cup {NoRun} /\ doomed \subseteq Proposals /\ ran \subseteq Crew
  /\ moved \in BOOLEAN /\ rounds \in 0..MaxRounds /\ reset \in {"no", "due", "waited"}
  /\ rows \in [Nights -> {"none", "open", "closed"}] /\ timed \in [Nights -> Nat]

Inv == CrewInv /\ RowTypes /\ ShiftTypes /\ OwnTopic /\ RowKept
-----------------------------------------------------------------------------
(***************************************************************************)
(* A step as the crew sees it: RowStep only rewrites rows, and makes       *)
(* nobody active.                                                          *)
(***************************************************************************)
RowStep ==
  /\ UNCHANGED register /\ UNCHANGED <<inFlight, what, handler, heard, night>>
  /\ state' \in [Crew -> States] /\ proposal' \in [Proposals -> Statuses]
  /\ \A f \in Crew : state'[f] = "active" => state[f] = "active"

CrewGoes ==
  \/ RowStep \/ NightFalls
  \/ \E f \in Crew : Plan(f) \/ \E p \in Of(f) \cup {Nobody}, h \in BOOLEAN : Step(f, p, h)
  \/ \E k \in Kinds : OtherStarts(k)
  \/ \E r \in Runs : AdmitRun(r) \/ ReadingFiled(r) \/ Frees(r) \/ \E ok \in BOOLEAN : RunEnds(r, ok)

CrewStep == CrewGoes \/ CrewRestarts

-----------------------------------------------------------------------------
(***************************************************************************)
(* What a step of the register does: the runs in E end, those in B begin,  *)
(* and their starters listen to them if h says so.                         *)
(***************************************************************************)
Moves(E, B, h) ==
  /\ RunsTypeOK'
  /\ B \subseteq Runs /\ B \subseteq {Next1} /\ count' = IF B = {} THEN count ELSE Next1
  /\ \A q \in Runs :
       /\ q \in B => stage'[q] = "queued" /\ (h => q \in listener')
       /\ q \in E => stage[q] = "works" /\ stage'[q] \in {"done", "error"}
       /\ q \notin B \cup E => stage'[q] = stage[q]
       /\ q \notin B => /\ kind'[q] = kind[q]
                        /\ q \in board' => q \in board
                        /\ q \in listener' => q \in listener
       /\ q \notin B \cup E /\ q \in board' /\ q \in listener => q \in listener'
       /\ q \in ledger' => q \in ledger \/ q \in E

LEMMA KeptSubset == \A b : Kept(b) \subseteq b
  BY DEF Kept

LEMMA NextRun ==
  ASSUME RunsTypeOK, count < MaxRuns
  PROVE  Next1 \in Runs /\ Next1 > count
  BY RunBounds DEF RunsTypeOK, Next1, Runs

LEMMA StartsMoves ==
  ASSUME RunsTypeOK, Numbered, NEW k \in Kinds, NEW h \in BOOLEAN, Starts(k, h)
  PROVE  Moves({}, {Next1}, h) /\ kind'[Next1] = k
<1>1. Next1 \in Runs /\ Next1 > count
  BY NextRun DEF Starts
<1>2. RunsTypeOK'
  <2>1. count' \in 0..MaxRuns /\ stage' \in [Runs -> Stages] /\ kind' \in [Runs -> Kinds]
    BY <1>1, RunBounds DEF Starts, RunsTypeOK, Stages, Kinds, Runs, Next1
  <2>2. board' \subseteq Runs
    BY <1>1, KeptSubset DEF Starts, RunsTypeOK
  <2> QED
    BY <1>1, <2>1, <2>2 DEF Starts, RunsTypeOK
<1> QED
  BY <1>1, <1>2 DEF Starts, RunsTypeOK, Kept, Moves, Kinds

LEMMA EndsMoves ==
  ASSUME RunsTypeOK, NEW r \in Runs, NEW ok \in BOOLEAN, Ends(r, ok), NEW h \in BOOLEAN
  PROVE  Moves({r}, {}, h)
  BY DEF Ends, Verdict, RunsTypeOK, Stages, Moves

LEMMA OversizedMoves ==
  ASSUME RunsTypeOK, Numbered, NEW r \in Runs, NEW ok \in BOOLEAN, EndsOversized(r, ok)
  PROVE  Moves({r}, {Next1}, FALSE) /\ kind'[Next1] = "hot"
<1>1. Next1 \in Runs /\ Next1 > count
  BY NextRun DEF EndsOversized
<1>2. r # Next1
  BY <1>1 DEF EndsOversized, Numbered
<1>3. RunsTypeOK'
  <2>1. count' \in 0..MaxRuns /\ stage' \in [Runs -> Stages] /\ kind' \in [Runs -> Kinds]
    BY <1>1, RunBounds DEF EndsOversized, RunsTypeOK, Stages, Kinds, Verdict, Runs, Next1
  <2>2. board' \subseteq Runs
    BY <1>1, KeptSubset DEF EndsOversized, RunsTypeOK
  <2> QED
    BY <1>1, <2>1, <2>2 DEF EndsOversized, RunsTypeOK
<1> QED
  BY <1>1, <1>2, <1>3 DEF EndsOversized, RunsTypeOK, Kept, Verdict, Moves

LEMMA EndsAndStartsMoves ==
  ASSUME RunsTypeOK, Numbered, NEW r \in Runs, NEW ok \in BOOLEAN, NEW k \in Kinds,
         EndsAndStarts(r, ok, k)
  PROVE  Moves({r}, {Next1}, TRUE) /\ kind'[Next1] = k /\ r # Next1
<1>1. Next1 \in Runs /\ Next1 > count
  BY NextRun DEF EndsAndStarts
<1>2. r # Next1
  BY <1>1 DEF EndsAndStarts, Numbered
<1>3. RunsTypeOK'
  <2>1. count' \in 0..MaxRuns /\ stage' \in [Runs -> Stages] /\ kind' \in [Runs -> Kinds]
    BY <1>1, RunBounds DEF EndsAndStarts, RunsTypeOK, Stages, Kinds, Verdict, Runs, Next1
  <2>2. board' \subseteq Runs
    BY <1>1, KeptSubset DEF EndsAndStarts, RunsTypeOK
  <2> QED
    BY <1>1, <2>1, <2>2 DEF EndsAndStarts, RunsTypeOK
<1> QED
  BY <1>1, <1>2, <1>3 DEF EndsAndStarts, RunsTypeOK, Kept, Verdict, Moves

LEMMA JobTypes ==
  ASSUME NEW f \in Crew, NEW p \in Proposals \cup {Nobody}, NEW h \in BOOLEAN,
         NEW q \in Runs \cup {NoRun}, night \in Nights
  PROVE  /\ [by |-> f, topic |-> p, exempt |-> h, retries |-> q, night |-> night] \in Job
         /\ NoJob \in Job
  BY CrewBounds DEF Job, NoJob, Nights, NoRun

LEMMA ProposalTypes ==
  ASSUME CrewTypes1
  PROVE  /\ \A f \in Crew : Expired(f) \in [Proposals -> Statuses]
         /\ \A S \in SUBSET Proposals : Superseded(S) \in [Proposals -> Statuses]
         /\ \A f \in Crew, r \in Runs : Proposes(f, r) =>
              /\ proposal' \in [Proposals -> Statuses]
              /\ state' \in [Crew -> States]
              /\ \A g \in Crew : state'[g] = "active" => g # f /\ state[g] = "active"
  BY DEF CrewTypes1, Expired, Superseded, Proposes, Statuses, Lifecycle!Decidable,
     Lifecycle!Pending, Lifecycle!Closed, Becomes, States

LEMMA CountFacts ==
  ASSUME CrewTypes1
  PROVE  count \in Nat /\ NoRun \notin Runs /\ \A q \in Runs : q \in Nat
  BY RunBounds DEF CrewTypes1, RunsTypeOK, Runs, NoRun

LEMMA FreshRuns ==
  ASSUME CrewInv, NEW E, NEW B, NEW h, Moves(E, B, h)
  PROVE  \A q \in B : /\ q \in Runs /\ q = Next1 /\ stage[q] = "none" /\ what[q] = NoJob
                       /\ kind[q] = "none" /\ handler[q] = "none" /\ q \notin heard
                       /\ q \notin board /\ q \notin listener /\ q \notin ledger
                       /\ what[q].by = Nobody
<1>1. \A q \in B : q \in Runs /\ q = Next1 /\ q > count
  BY CountFacts DEF Moves, CrewInv, Next1
<1>2. NoJob.by = Nobody
  BY DEF NoJob
<1> QED
  BY <1>1, <1>2 DEF CrewInv, Blank, Numbered

\* The slot of a Fellow that has a run is that run's, and it has no other.
LEMMA SlotFacts ==
  ASSUME CrewInv
  PROVE  /\ \A f \in Crew : inFlight[f] = NoRun => \A q \in Runs : Running(q) => what[q].by # f
         /\ \A r \in Runs : what[r].by \in Crew /\ Running(r) =>
              \A q \in Runs : Running(q) /\ what[q].by = what[r].by => q = r
  BY DEF CrewInv, SlotHeld, NoRun, Runs

LEMMA ActiveFacts ==
  ASSUME CrewInv, NEW f \in Crew, state[f] = "active"
  PROVE  /\ inFlight[f] \in Runs /\ what[inFlight[f]].by = f
         /\ inFlight[f] \in board => Running(inFlight[f]) \/ handler[inFlight[f]] = "reads"
         /\ handler[inFlight[f]] \in {"none", "reads"}
  BY DEF CrewInv, CrewTypes1, ActiveHasRun, ActiveFirst

LEMMA StepKeeps ==
  ASSUME CrewInv, NEW f \in Crew, NEW p \in Of(f) \cup {Nobody}, NEW h \in BOOLEAN, Step(f, p, h)
  PROVE  CrewInv'
<1> USE DEF CrewInv
<1>1. Moves({}, {Next1}, TRUE) /\ kind'[Next1] \in {"step", "deepen"}
  BY StartsMoves DEF Step, StepKind, CrewTypes1, Kinds
<1>2. \A q \in {Next1} : /\ q \in Runs /\ q = Next1 /\ stage[q] = "none" /\ what[q] = NoJob
                 /\ kind[q] = "none" /\ handler[q] = "none" /\ q \notin heard
                 /\ q \notin board /\ q \notin listener /\ q \notin ledger /\ what[q].by = Nobody
  BY <1>1, FreshRuns
<1>3. /\ what' = [what EXCEPT ![Next1] = what'[Next1]] /\ what'[Next1] \in Job /\ what'[Next1].by = f
      /\ inFlight' = [inFlight EXCEPT ![f] = Next1] /\ inFlight[f] = NoRun /\ handler' = handler /\ heard' = heard /\ night' = night
      /\ state' = [state EXCEPT ![f] = "active"]
      /\ proposal' \in [Proposals -> Statuses]
  <2>1. what' = [what EXCEPT ![Next1] = what'[Next1]] /\ what'[Next1] \in Job /\ what'[Next1].by = f
    BY <1>2, JobTypes DEF Step, Tracks, CrewTypes1, Of
  <2>2. inFlight' = [inFlight EXCEPT ![f] = Next1] /\ inFlight[f] = NoRun /\ handler' = handler /\ heard' = heard /\ night' = night
    BY DEF Step, Tracks, Gate
  <2>3. state' = [state EXCEPT ![f] = "active"]
    BY DEF Step, Gate, Becomes, Off
  <2>4. proposal' \in [Proposals -> Statuses]
    BY DEF Step, CrewTypes1, Statuses, Lifecycle!Closed
  <2> QED
    BY <2>1, <2>2, <2>3, <2>4
<1>4. CrewTypes1'
  BY <1>1, <1>2, <1>3 DEF Moves, CrewTypes1, RunsTypeOK, Handling, States, Stages
<1>5. Numbered'
  BY <1>1, <1>2, <1>3, CountFacts, <1>4 DEF Moves, Numbered, Next1, CrewTypes1, RunsTypeOK
<1>6. Blank'
  BY <1>1, <1>2, <1>3, CountFacts, <1>4
    DEF Moves, Blank, Numbered, Next1, CrewTypes1, RunsTypeOK
<1>7. Whose'
  BY <1>1, <1>2, <1>3, CrewTypes, <1>4 DEF Moves, Whose, CrewTypes1, RunsTypeOK
<1>8. SlotHeld'
  BY <1>1, <1>2, <1>3, SlotFacts, <1>4, CrewTypes
    DEF Moves, SlotHeld, Running, Over, CrewTypes1, RunsTypeOK
<1>9. HandlerLast'
  BY <1>1, <1>2, <1>3, <1>4, CrewTypes
    DEF Moves, HandlerLast, Running, Over, CrewTypes1, RunsTypeOK
<1>10. Listening'
  BY <1>1, <1>2, <1>3, <1>4, CrewTypes
    DEF Moves, Listening, Running, CrewTypes1, RunsTypeOK
<1>11. ActiveHasRun'
  BY <1>1, <1>2, <1>3, ActiveFacts, SlotFacts, CountFacts, <1>4, CrewTypes
    DEF Moves, ActiveHasRun, Running, Over, CrewTypes1, RunsTypeOK
<1>12. ActiveFirst'
  BY <1>1, <1>2, <1>3, ActiveFacts, SlotFacts, <1>4, CrewTypes
    DEF Moves, ActiveFirst, Running, Over, CrewTypes1, RunsTypeOK
<1> QED
  BY <1>4, <1>5, <1>6, <1>7, <1>8, <1>9, <1>10, <1>11, <1>12

LEMMA PlanKeeps ==
  ASSUME CrewInv, NEW f \in Crew, Plan(f)
  PROVE  CrewInv'
<1> USE DEF CrewInv
<1>1. Moves({}, {Next1}, TRUE) /\ kind'[Next1] = "plan"
  BY StartsMoves DEF Plan, CrewTypes1, Kinds
<1>2. \A q \in {Next1} : /\ q \in Runs /\ q = Next1 /\ stage[q] = "none" /\ what[q] = NoJob
                 /\ kind[q] = "none" /\ handler[q] = "none" /\ q \notin heard
                 /\ q \notin board /\ q \notin listener /\ q \notin ledger /\ what[q].by = Nobody
  BY <1>1, FreshRuns
<1>3. /\ what' = [what EXCEPT ![Next1] = what'[Next1]] /\ what'[Next1] \in Job /\ what'[Next1].by = f
      /\ inFlight' = [inFlight EXCEPT ![f] = Next1] /\ inFlight[f] = NoRun /\ handler' = handler /\ heard' = heard /\ night' = night
      /\ state' = [state EXCEPT ![f] = "active"]
      /\ proposal' \in [Proposals -> Statuses]
  <2>1. what' = [what EXCEPT ![Next1] = what'[Next1]] /\ what'[Next1] \in Job /\ what'[Next1].by = f
    BY <1>2, JobTypes DEF Plan, Tracks, CrewTypes1
  <2>2. inFlight' = [inFlight EXCEPT ![f] = Next1] /\ inFlight[f] = NoRun /\ handler' = handler /\ heard' = heard /\ night' = night
    BY DEF Plan, Tracks, Gate
  <2>3. state' = [state EXCEPT ![f] = "active"]
    BY DEF Plan, Gate, Becomes, Off
  <2>4. proposal' \in [Proposals -> Statuses]
    BY ProposalTypes DEF Plan
  <2> QED
    BY <2>1, <2>2, <2>3, <2>4
<1>4. CrewTypes1'
  BY <1>1, <1>2, <1>3 DEF Moves, CrewTypes1, RunsTypeOK, Handling, States, Stages
<1>5. Numbered'
  BY <1>1, <1>2, <1>3, CountFacts, <1>4 DEF Moves, Numbered, Next1, CrewTypes1, RunsTypeOK
<1>6. Blank'
  BY <1>1, <1>2, <1>3, CountFacts, <1>4
    DEF Moves, Blank, Numbered, Next1, CrewTypes1, RunsTypeOK
<1>7. Whose'
  BY <1>1, <1>2, <1>3, CrewTypes, <1>4 DEF Moves, Whose, CrewTypes1, RunsTypeOK
<1>8. SlotHeld'
  BY <1>1, <1>2, <1>3, SlotFacts, <1>4, CrewTypes
    DEF Moves, SlotHeld, Running, Over, CrewTypes1, RunsTypeOK
<1>9. HandlerLast'
  BY <1>1, <1>2, <1>3, <1>4, CrewTypes
    DEF Moves, HandlerLast, Running, Over, CrewTypes1, RunsTypeOK
<1>10. Listening'
  BY <1>1, <1>2, <1>3, <1>4, CrewTypes
    DEF Moves, Listening, Running, CrewTypes1, RunsTypeOK
<1>11. ActiveHasRun'
  BY <1>1, <1>2, <1>3, ActiveFacts, SlotFacts, CountFacts, <1>4, CrewTypes
    DEF Moves, ActiveHasRun, Running, Over, CrewTypes1, RunsTypeOK
<1>12. ActiveFirst'
  BY <1>1, <1>2, <1>3, ActiveFacts, SlotFacts, <1>4, CrewTypes
    DEF Moves, ActiveFirst, Running, Over, CrewTypes1, RunsTypeOK
<1> QED
  BY <1>4, <1>5, <1>6, <1>7, <1>8, <1>9, <1>10, <1>11, <1>12

LEMMA OtherStartsKeeps ==
  ASSUME CrewInv, NEW k \in Kinds, OtherStarts(k)
  PROVE  CrewInv'
<1> USE DEF CrewInv
<1>1. Moves({}, {Next1}, FALSE) /\ kind'[Next1] \in {"hot", "other", "index"}
  BY StartsMoves DEF OtherStarts, CrewTypes1, Kinds
<1>2. \A q \in {Next1} : /\ q \in Runs /\ q = Next1 /\ stage[q] = "none" /\ what[q] = NoJob
                 /\ kind[q] = "none" /\ handler[q] = "none" /\ q \notin heard
                 /\ q \notin board /\ q \notin listener /\ q \notin ledger /\ what[q].by = Nobody
  BY <1>1, FreshRuns
<1>3. /\ UNCHANGED <<what, inFlight, state, proposal, handler, heard, night>>
  <2>1. UNCHANGED <<what, inFlight, state, proposal, handler, heard, night>>
    BY DEF OtherStarts, Stays
  <2> QED
    BY <2>1
<1>4. CrewTypes1'
  BY <1>1, <1>2, <1>3 DEF Moves, CrewTypes1, RunsTypeOK, Handling, States, Stages
<1>5. Numbered'
  BY <1>1, <1>2, <1>3, CountFacts, <1>4 DEF Moves, Numbered, Next1, CrewTypes1, RunsTypeOK
<1>6. Blank'
  BY <1>1, <1>2, <1>3, CountFacts, <1>4
    DEF Moves, Blank, Numbered, Next1, CrewTypes1, RunsTypeOK
<1>7. Whose'
  BY <1>1, <1>2, <1>3, CrewTypes, <1>4 DEF Moves, Whose, CrewTypes1, RunsTypeOK
<1>8. SlotHeld'
  BY <1>1, <1>2, <1>3, SlotFacts, <1>4, CrewTypes
    DEF Moves, SlotHeld, Running, Over, CrewTypes1, RunsTypeOK
<1>9. HandlerLast'
  BY <1>1, <1>2, <1>3, <1>4, CrewTypes
    DEF Moves, HandlerLast, Running, Over, CrewTypes1, RunsTypeOK
<1>10. Listening'
  BY <1>1, <1>2, <1>3, <1>4, CrewTypes
    DEF Moves, Listening, Running, CrewTypes1, RunsTypeOK
<1>11. ActiveHasRun'
  BY <1>1, <1>2, <1>3, ActiveFacts, SlotFacts, CountFacts, <1>4, CrewTypes
    DEF Moves, ActiveHasRun, Running, Over, CrewTypes1, RunsTypeOK
<1>12. ActiveFirst'
  BY <1>1, <1>2, <1>3, ActiveFacts, SlotFacts, <1>4, CrewTypes
    DEF Moves, ActiveFirst, Running, Over, CrewTypes1, RunsTypeOK
<1> QED
  BY <1>4, <1>5, <1>6, <1>7, <1>8, <1>9, <1>10, <1>11, <1>12

LEMMA StepEndsKeeps ==
  ASSUME CrewInv, NEW r \in Runs, NEW ok \in BOOLEAN, StepEnds(r, ok)
  PROVE  CrewInv'
<1> USE DEF CrewInv
<1>1. PICK B \in {{}, {Next1}} : Moves({r}, B, FALSE) /\ (B = {} \/ kind'[Next1] = "hot")
  BY EndsMoves, OversizedMoves DEF StepEnds, CrewTypes1, Kinds
<1>2. \A q \in B : /\ q \in Runs /\ q = Next1 /\ stage[q] = "none" /\ what[q] = NoJob
                 /\ kind[q] = "none" /\ handler[q] = "none" /\ q \notin heard
                 /\ q \notin board /\ q \notin listener /\ q \notin ledger /\ what[q].by = Nobody
  BY <1>1, FreshRuns
<1>3. /\ what' = what /\ inFlight' = inFlight /\ proposal' = proposal /\ heard' = heard /\ night' = night
      /\ what[r].by \in Crew /\ Running(r)
      /\ \/ r \notin board' /\ handler' = handler /\ state' = state
         \/ handler' = [handler EXCEPT ![r] = "notes"] /\ state' \in [Crew -> States] /\ \A g \in Crew : state'[g] = "active" => g # what[r].by /\ state[g] = "active"
  <2>1. what' = what /\ inFlight' = inFlight /\ proposal' = proposal /\ heard' = heard /\ night' = night
    BY DEF StepEnds, Stays, Quiet
  <2>2. what[r].by \in Crew /\ Running(r)
    BY <1>1 DEF StepEnds, StepKinds, Whose, Moves, Running
  <2>3. \/ r \notin board' /\ handler' = handler /\ state' = state
        \/ handler' = [handler EXCEPT ![r] = "notes"] /\ state' \in [Crew -> States] /\ \A g \in Crew : state'[g] = "active" => g # what[r].by /\ state[g] = "active"
    BY <1>1, <2>2
      DEF StepEnds, Stays, Listening, Moves, AfterStep, Becomes, CrewTypes1, States
  <2> QED
    BY <2>1, <2>2, <2>3
<1>4. CrewTypes1'
  BY <1>1, <1>2, <1>3 DEF Moves, CrewTypes1, RunsTypeOK, Handling, States, Stages
<1>5. Numbered'
  BY <1>1, <1>2, <1>3, CountFacts, <1>4 DEF Moves, Numbered, Next1, CrewTypes1, RunsTypeOK
<1>6. Blank'
  BY <1>1, <1>2, <1>3, CountFacts, <1>4
    DEF Moves, Blank, Numbered, Next1, CrewTypes1, RunsTypeOK
<1>7. Whose'
  BY <1>1, <1>2, <1>3, CrewTypes, <1>4 DEF Moves, Whose, CrewTypes1, RunsTypeOK
<1>8. SlotHeld'
  BY <1>1, <1>2, <1>3, SlotFacts, <1>4, CrewTypes
    DEF Moves, SlotHeld, Running, Over, CrewTypes1, RunsTypeOK
<1>9. HandlerLast'
  BY <1>1, <1>2, <1>3, <1>4, CrewTypes
    DEF Moves, HandlerLast, Running, Over, CrewTypes1, RunsTypeOK
<1>10. Listening'
  BY <1>1, <1>2, <1>3, <1>4, CrewTypes
    DEF Moves, Listening, Running, CrewTypes1, RunsTypeOK
<1>11. ActiveHasRun'
  BY <1>1, <1>2, <1>3, ActiveFacts, SlotFacts, CountFacts, <1>4, CrewTypes
    DEF Moves, ActiveHasRun, Running, Over, CrewTypes1, RunsTypeOK
<1>12. ActiveFirst'
  BY <1>1, <1>2, <1>3, ActiveFacts, SlotFacts, <1>4, CrewTypes
    DEF Moves, ActiveFirst, Running, Over, CrewTypes1, RunsTypeOK
<1> QED
  BY <1>4, <1>5, <1>6, <1>7, <1>8, <1>9, <1>10, <1>11, <1>12

LEMMA PlanUnheardKeeps ==
  ASSUME CrewInv, NEW r \in Runs, NEW ok \in BOOLEAN, PlanUnheard(r, ok)
  PROVE  CrewInv'
<1> USE DEF CrewInv
<1>1. Moves({r}, {}, FALSE)
  BY EndsMoves DEF PlanUnheard, CrewTypes1, Kinds
<1>2. /\ UNCHANGED <<what, inFlight, state, proposal, handler, heard, night>>
      /\ what[r].by \in Crew /\ Running(r) /\ r \notin board
  <2>1. UNCHANGED <<what, inFlight, state, proposal, handler, heard, night>>
    BY DEF PlanUnheard, Stays, Quiet
  <2>2. what[r].by \in Crew /\ Running(r) /\ r \notin board
    BY <1>1 DEF PlanUnheard, Whose, Listening, Told, Moves, Running
  <2> QED
    BY <2>1, <2>2
<1>3. CrewTypes1'
  BY <1>1, <1>2 DEF Moves, CrewTypes1, RunsTypeOK, Handling, States, Stages
<1>4. Numbered'
  BY <1>1, <1>2, CountFacts, <1>3 DEF Moves, Numbered, Next1, CrewTypes1, RunsTypeOK
<1>5. Blank'
  BY <1>1, <1>2, CountFacts, <1>3
    DEF Moves, Blank, Numbered, Next1, CrewTypes1, RunsTypeOK
<1>6. Whose'
  BY <1>1, <1>2, CrewTypes, <1>3 DEF Moves, Whose, CrewTypes1, RunsTypeOK
<1>7. SlotHeld'
  BY <1>1, <1>2, SlotFacts, <1>3, CrewTypes
    DEF Moves, SlotHeld, Running, Over, CrewTypes1, RunsTypeOK
<1>8. HandlerLast'
  BY <1>1, <1>2, <1>3, CrewTypes
    DEF Moves, HandlerLast, Running, Over, CrewTypes1, RunsTypeOK
<1>9. Listening'
  BY <1>1, <1>2, <1>3, CrewTypes DEF Moves, Listening, Running, CrewTypes1, RunsTypeOK
<1>10. ActiveHasRun'
  BY <1>1, <1>2, ActiveFacts, SlotFacts, CountFacts, <1>3, CrewTypes
    DEF Moves, ActiveHasRun, Running, Over, CrewTypes1, RunsTypeOK
<1>11. ActiveFirst'
  BY <1>1, <1>2, ActiveFacts, SlotFacts, <1>3, CrewTypes
    DEF Moves, ActiveFirst, Running, Over, CrewTypes1, RunsTypeOK
<1> QED
  BY <1>3, <1>4, <1>5, <1>6, <1>7, <1>8, <1>9, <1>10, <1>11

LEMMA PlanAnswersKeeps ==
  ASSUME CrewInv, NEW r \in Runs, PlanAnswers(r)
  PROVE  CrewInv'
<1> USE DEF CrewInv
<1>1. Moves({r}, {}, FALSE)
  BY EndsMoves DEF PlanAnswers, CrewTypes1, Kinds
<1>2. /\ what' = what /\ inFlight' = inFlight /\ heard' = heard /\ night' = night
      /\ what[r].by \in Crew /\ Running(r)
      /\ \/ handler' = [handler EXCEPT ![r] = "reads"] /\ state' = state /\ proposal' = proposal
         \/ /\ handler' = [handler EXCEPT ![r] = "notes"] /\ proposal' \in [Proposals -> Statuses]
            /\ state' \in [Crew -> States] /\ \A g \in Crew : state'[g] = "active" => g # what[r].by /\ state[g] = "active"
  <2>1. what' = what /\ inFlight' = inFlight /\ heard' = heard /\ night' = night
    BY DEF PlanAnswers, Quiet
  <2>2. what[r].by \in Crew /\ Running(r)
    BY <1>1 DEF PlanAnswers, Whose, Moves, Running
  <2>3. \/ handler' = [handler EXCEPT ![r] = "reads"] /\ state' = state /\ proposal' = proposal
        \/ /\ handler' = [handler EXCEPT ![r] = "notes"] /\ proposal' \in [Proposals -> Statuses]
           /\ state' \in [Crew -> States] /\ \A g \in Crew : state'[g] = "active" => g # what[r].by /\ state[g] = "active"
    BY <2>2, ProposalTypes DEF PlanAnswers, CrewTypes1
  <2> QED
    BY <2>1, <2>2, <2>3
<1>3. CrewTypes1'
  BY <1>1, <1>2 DEF Moves, CrewTypes1, RunsTypeOK, Handling, States, Stages
<1>4. Numbered'
  BY <1>1, <1>2, CountFacts, <1>3 DEF Moves, Numbered, Next1, CrewTypes1, RunsTypeOK
<1>5. Blank'
  BY <1>1, <1>2, CountFacts, <1>3
    DEF Moves, Blank, Numbered, Next1, CrewTypes1, RunsTypeOK
<1>6. Whose'
  BY <1>1, <1>2, CrewTypes, <1>3 DEF Moves, Whose, CrewTypes1, RunsTypeOK
<1>7. SlotHeld'
  BY <1>1, <1>2, SlotFacts, <1>3, CrewTypes
    DEF Moves, SlotHeld, Running, Over, CrewTypes1, RunsTypeOK
<1>8. HandlerLast'
  BY <1>1, <1>2, <1>3, CrewTypes
    DEF Moves, HandlerLast, Running, Over, CrewTypes1, RunsTypeOK
<1>9. Listening'
  BY <1>1, <1>2, <1>3, CrewTypes DEF Moves, Listening, Running, CrewTypes1, RunsTypeOK
<1>10. ActiveHasRun'
  BY <1>1, <1>2, ActiveFacts, SlotFacts, CountFacts, <1>3, CrewTypes
    DEF Moves, ActiveHasRun, Running, Over, CrewTypes1, RunsTypeOK
<1>11. ActiveFirst'
  BY <1>1, <1>2, ActiveFacts, SlotFacts, <1>3, CrewTypes
    DEF Moves, ActiveFirst, Running, Over, CrewTypes1, RunsTypeOK
<1> QED
  BY <1>3, <1>4, <1>5, <1>6, <1>7, <1>8, <1>9, <1>10, <1>11

LEMMA PlanRetriedKeeps ==
  ASSUME CrewInv, NEW r \in Runs, NEW ok \in BOOLEAN, PlanRetried(r, ok)
  PROVE  CrewInv'
<1> USE DEF CrewInv
<1>1. Moves({r}, {Next1}, TRUE) /\ kind'[Next1] = "plan" /\ r # Next1
  BY EndsAndStartsMoves DEF PlanRetried, CrewTypes1, Kinds
<1>2. \A q \in {Next1} : /\ q \in Runs /\ q = Next1 /\ stage[q] = "none" /\ what[q] = NoJob
                 /\ kind[q] = "none" /\ handler[q] = "none" /\ q \notin heard
                 /\ q \notin board /\ q \notin listener /\ q \notin ledger /\ what[q].by = Nobody
  BY <1>1, FreshRuns
<1>3. /\ what[r].by \in Crew /\ Running(r)
      /\ what' = [what EXCEPT ![Next1] = what'[Next1]] /\ what'[Next1] \in Job /\ what'[Next1].by = what[r].by
      /\ inFlight' = [inFlight EXCEPT ![what[r].by] = Next1] /\ heard' = heard /\ night' = night
      /\ state' = [state EXCEPT ![what[r].by] = "active"] /\ handler' = [handler EXCEPT ![r] = "retried"]
      /\ proposal' \in [Proposals -> Statuses]
  <2>1. what[r].by \in Crew /\ Running(r)
    BY <1>1 DEF PlanRetried, Whose, Moves, Running
  <2>2. what' = [what EXCEPT ![Next1] = what'[Next1]] /\ what'[Next1] \in Job /\ what'[Next1].by = what[r].by
    BY <1>2, <2>1, JobTypes DEF PlanRetried, Tracks, CrewTypes1
  <2>3. inFlight' = [inFlight EXCEPT ![what[r].by] = Next1] /\ heard' = heard /\ night' = night
    BY DEF PlanRetried, Tracks, Quiet
  <2>4. state' = [state EXCEPT ![what[r].by] = "active"] /\ handler' = [handler EXCEPT ![r] = "retried"]
    BY DEF PlanRetried, Becomes, Off
  <2>5. proposal' \in [Proposals -> Statuses]
    BY ProposalTypes, <2>1 DEF PlanRetried
  <2> QED
    BY <2>1, <2>2, <2>3, <2>4, <2>5
<1>4. CrewTypes1'
  BY <1>1, <1>2, <1>3 DEF Moves, CrewTypes1, RunsTypeOK, Handling, States, Stages
<1>5. Numbered'
  BY <1>1, <1>2, <1>3, CountFacts, <1>4 DEF Moves, Numbered, Next1, CrewTypes1, RunsTypeOK
<1>6. Blank'
  BY <1>1, <1>2, <1>3, CountFacts, <1>4
    DEF Moves, Blank, Numbered, Next1, CrewTypes1, RunsTypeOK
<1>7. Whose'
  BY <1>1, <1>2, <1>3, CrewTypes, <1>4 DEF Moves, Whose, CrewTypes1, RunsTypeOK
<1>8. SlotHeld'
  BY <1>1, <1>2, <1>3, SlotFacts, <1>4, CrewTypes
    DEF Moves, SlotHeld, Running, Over, CrewTypes1, RunsTypeOK
<1>9. HandlerLast'
  BY <1>1, <1>2, <1>3, <1>4, CrewTypes
    DEF Moves, HandlerLast, Running, Over, CrewTypes1, RunsTypeOK
<1>10. Listening'
  BY <1>1, <1>2, <1>3, <1>4, CrewTypes
    DEF Moves, Listening, Running, CrewTypes1, RunsTypeOK
<1>11. ActiveHasRun'
  BY <1>1, <1>2, <1>3, ActiveFacts, SlotFacts, CountFacts, <1>4, CrewTypes
    DEF Moves, ActiveHasRun, Running, Over, CrewTypes1, RunsTypeOK
<1>12. ActiveFirst'
  BY <1>1, <1>2, <1>3, ActiveFacts, SlotFacts, <1>4, CrewTypes
    DEF Moves, ActiveFirst, Running, Over, CrewTypes1, RunsTypeOK
<1> QED
  BY <1>4, <1>5, <1>6, <1>7, <1>8, <1>9, <1>10, <1>11, <1>12

LEMMA PlanFailsKeeps ==
  ASSUME CrewInv, NEW r \in Runs, NEW ok \in BOOLEAN, PlanFails(r, ok)
  PROVE  CrewInv'
<1> USE DEF CrewInv
<1>1. Moves({r}, {}, FALSE)
  BY EndsMoves DEF PlanFails, CrewTypes1, Kinds
<1>2. /\ what[r].by \in Crew /\ Running(r)
      /\ what' = what /\ handler' = [handler EXCEPT ![r] = "notes"] /\ heard' = heard /\ night' = night
      /\ inFlight' \in [Crew -> Runs \cup {NoRun}] /\ \A g \in Crew : g # what[r].by => inFlight'[g] = inFlight[g]
      /\ state' \in [Crew -> States] /\ \A g \in Crew : state'[g] = "active" => g # what[r].by /\ state[g] = "active"
      /\ proposal' \in [Proposals -> Statuses]
  <2>1. what[r].by \in Crew /\ Running(r)
    BY <1>1 DEF PlanFails, Whose, Moves, Running
  <2>2. what' = what /\ handler' = [handler EXCEPT ![r] = "notes"] /\ heard' = heard /\ night' = night
    BY DEF PlanFails, Quiet
  <2>3. inFlight' \in [Crew -> Runs \cup {NoRun}] /\ \A g \in Crew : g # what[r].by => inFlight'[g] = inFlight[g]
    BY <2>1 DEF PlanFails, CrewTypes1
  <2>4. state' \in [Crew -> States] /\ \A g \in Crew : state'[g] = "active" => g # what[r].by /\ state[g] = "active"
    BY <2>1 DEF PlanFails, Becomes, CrewTypes1, States
  <2>5. proposal' \in [Proposals -> Statuses]
    BY ProposalTypes, <2>1 DEF PlanFails, CrewTypes1
  <2> QED
    BY <2>1, <2>2, <2>3, <2>4, <2>5
<1>3. CrewTypes1'
  BY <1>1, <1>2 DEF Moves, CrewTypes1, RunsTypeOK, Handling, States, Stages
<1>4. Numbered'
  BY <1>1, <1>2, CountFacts, <1>3 DEF Moves, Numbered, Next1, CrewTypes1, RunsTypeOK
<1>5. Blank'
  BY <1>1, <1>2, CountFacts, <1>3
    DEF Moves, Blank, Numbered, Next1, CrewTypes1, RunsTypeOK
<1>6. Whose'
  BY <1>1, <1>2, CrewTypes, <1>3 DEF Moves, Whose, CrewTypes1, RunsTypeOK
<1>7. SlotHeld'
  BY <1>1, <1>2, SlotFacts, <1>3, CrewTypes
    DEF Moves, SlotHeld, Running, Over, CrewTypes1, RunsTypeOK
<1>8. HandlerLast'
  BY <1>1, <1>2, <1>3, CrewTypes
    DEF Moves, HandlerLast, Running, Over, CrewTypes1, RunsTypeOK
<1>9. Listening'
  BY <1>1, <1>2, <1>3, CrewTypes DEF Moves, Listening, Running, CrewTypes1, RunsTypeOK
<1>10. ActiveHasRun'
  BY <1>1, <1>2, ActiveFacts, SlotFacts, CountFacts, <1>3, CrewTypes
    DEF Moves, ActiveHasRun, Running, Over, CrewTypes1, RunsTypeOK
<1>11. ActiveFirst'
  BY <1>1, <1>2, ActiveFacts, SlotFacts, <1>3, CrewTypes
    DEF Moves, ActiveFirst, Running, Over, CrewTypes1, RunsTypeOK
<1> QED
  BY <1>3, <1>4, <1>5, <1>6, <1>7, <1>8, <1>9, <1>10, <1>11

LEMMA OtherEndsKeeps ==
  ASSUME CrewInv, NEW r \in Runs, NEW ok \in BOOLEAN, OtherEnds(r, ok)
  PROVE  CrewInv'
<1> USE DEF CrewInv
<1>1. PICK B \in {{}, {Next1}} : Moves({r}, B, FALSE) /\ (B = {} \/ kind'[Next1] = "hot")
  BY EndsMoves, OversizedMoves DEF OtherEnds, CrewTypes1, Kinds
<1>2. \A q \in B : /\ q \in Runs /\ q = Next1 /\ stage[q] = "none" /\ what[q] = NoJob
                 /\ kind[q] = "none" /\ handler[q] = "none" /\ q \notin heard
                 /\ q \notin board /\ q \notin listener /\ q \notin ledger /\ what[q].by = Nobody
  BY <1>1, FreshRuns
<1>3. /\ UNCHANGED <<what, inFlight, state, proposal, handler, heard, night>>
      /\ what[r].by \notin Crew
  <2>1. UNCHANGED <<what, inFlight, state, proposal, handler, heard, night>>
    BY DEF OtherEnds, Stays, Quiet
  <2>2. what[r].by \notin Crew
    BY DEF OtherEnds, Whose
  <2> QED
    BY <2>1, <2>2
<1>4. CrewTypes1'
  BY <1>1, <1>2, <1>3 DEF Moves, CrewTypes1, RunsTypeOK, Handling, States, Stages
<1>5. Numbered'
  BY <1>1, <1>2, <1>3, CountFacts, <1>4 DEF Moves, Numbered, Next1, CrewTypes1, RunsTypeOK
<1>6. Blank'
  BY <1>1, <1>2, <1>3, CountFacts, <1>4
    DEF Moves, Blank, Numbered, Next1, CrewTypes1, RunsTypeOK
<1>7. Whose'
  BY <1>1, <1>2, <1>3, CrewTypes, <1>4 DEF Moves, Whose, CrewTypes1, RunsTypeOK
<1>8. SlotHeld'
  BY <1>1, <1>2, <1>3, SlotFacts, <1>4, CrewTypes
    DEF Moves, SlotHeld, Running, Over, CrewTypes1, RunsTypeOK
<1>9. HandlerLast'
  BY <1>1, <1>2, <1>3, <1>4, CrewTypes
    DEF Moves, HandlerLast, Running, Over, CrewTypes1, RunsTypeOK
<1>10. Listening'
  BY <1>1, <1>2, <1>3, <1>4, CrewTypes
    DEF Moves, Listening, Running, CrewTypes1, RunsTypeOK
<1>11. ActiveHasRun'
  BY <1>1, <1>2, <1>3, ActiveFacts, SlotFacts, CountFacts, <1>4, CrewTypes
    DEF Moves, ActiveHasRun, Running, Over, CrewTypes1, RunsTypeOK
<1>12. ActiveFirst'
  BY <1>1, <1>2, <1>3, ActiveFacts, SlotFacts, <1>4, CrewTypes
    DEF Moves, ActiveFirst, Running, Over, CrewTypes1, RunsTypeOK
<1> QED
  BY <1>4, <1>5, <1>6, <1>7, <1>8, <1>9, <1>10, <1>11, <1>12

LEMMA ReadingFiledKeeps ==
  ASSUME CrewInv, NEW r \in Runs, ReadingFiled(r)
  PROVE  CrewInv'
<1> USE DEF CrewInv
<1>1. /\ handler[r] = "reads" /\ UNCHANGED <<register, what, inFlight, heard, night>>
      /\ what[r].by \in Crew /\ Over(r)
      /\ proposal' \in [Proposals -> Statuses] /\ state' \in [Crew -> States] /\ \A g \in Crew : state'[g] = "active" => g # what[r].by /\ state[g] = "active"
      /\ handler' = [handler EXCEPT ![r] = "notes"]
  <2>1. handler[r] = "reads" /\ UNCHANGED <<register, what, inFlight, heard, night>>
    BY DEF ReadingFiled
  <2>2. what[r].by \in Crew /\ Over(r)
    BY DEF ReadingFiled, HandlerLast
  <2>3. proposal' \in [Proposals -> Statuses] /\ state' \in [Crew -> States] /\ \A g \in Crew : state'[g] = "active" => g # what[r].by /\ state[g] = "active"
    BY <2>2, ProposalTypes DEF ReadingFiled
  <2>4. handler' = [handler EXCEPT ![r] = "notes"]
    BY DEF ReadingFiled
  <2> QED
    BY <2>1, <2>2, <2>3, <2>4
<1>2. CrewTypes1'
  BY <1>1 DEF register, CrewTypes1, RunsTypeOK, Handling, States, Stages
<1>3. Numbered'
  BY <1>1, CountFacts, <1>2 DEF register, Numbered, Next1, CrewTypes1, RunsTypeOK
<1>4. Blank'
  BY <1>1, CountFacts, <1>2 DEF register, Blank, Numbered, Next1, CrewTypes1, RunsTypeOK
<1>5. Whose'
  BY <1>1, CrewTypes, <1>2 DEF register, Whose, CrewTypes1, RunsTypeOK
<1>6. SlotHeld'
  BY <1>1, SlotFacts, <1>2, CrewTypes
    DEF register, SlotHeld, Running, Over, CrewTypes1, RunsTypeOK
<1>7. HandlerLast'
  BY <1>1, <1>2, CrewTypes
    DEF register, HandlerLast, Running, Over, CrewTypes1, RunsTypeOK
<1>8. Listening'
  BY <1>1, <1>2, CrewTypes DEF register, Listening, Running, CrewTypes1, RunsTypeOK
<1>9. ActiveHasRun'
  BY <1>1, ActiveFacts, SlotFacts, CountFacts, <1>2, CrewTypes
    DEF register, ActiveHasRun, Running, Over, CrewTypes1, RunsTypeOK
<1>10. ActiveFirst'
  BY <1>1, ActiveFacts, SlotFacts, <1>2, CrewTypes
    DEF register, ActiveFirst, Running, Over, CrewTypes1, RunsTypeOK
<1> QED
  BY <1>2, <1>3, <1>4, <1>5, <1>6, <1>7, <1>8, <1>9, <1>10

LEMMA FreesKeeps ==
  ASSUME CrewInv, NEW r \in Runs, Frees(r)
  PROVE  CrewInv'
<1> USE DEF CrewInv
<1>1. /\ UNCHANGED <<register, state, proposal, what, night>>
      /\ Over(r) /\ handler[r] \in {"notes", "retried"}
      /\ handler' = [handler EXCEPT ![r] = "none"] /\ heard' = heard \cup {r}
      /\ /\ inFlight' \in [Crew -> Runs \cup {NoRun}]
         /\ \A g \in Crew : inFlight[g] # r => inFlight'[g] = inFlight[g]
  <2>1. UNCHANGED <<register, state, proposal, what, night>>
    BY DEF Frees
  <2>2. Over(r) /\ handler[r] \in {"notes", "retried"}
    BY DEF Frees, HandlerLast
  <2>3. handler' = [handler EXCEPT ![r] = "none"] /\ heard' = heard \cup {r}
    BY DEF Frees
  <2>4. /\ inFlight' \in [Crew -> Runs \cup {NoRun}]
        /\ \A g \in Crew : inFlight[g] # r => inFlight'[g] = inFlight[g]
    BY DEF Frees, CrewTypes1
  <2> QED
    BY <2>1, <2>2, <2>3, <2>4
<1>2. CrewTypes1'
  BY <1>1 DEF register, CrewTypes1, RunsTypeOK, Handling, States, Stages
<1>3. Numbered'
  BY <1>1, CountFacts, <1>2 DEF register, Numbered, Next1, CrewTypes1, RunsTypeOK
<1>4. Blank'
  BY <1>1, CountFacts, <1>2 DEF register, Blank, Numbered, Next1, CrewTypes1, RunsTypeOK
<1>5. Whose'
  BY <1>1, CrewTypes, <1>2 DEF register, Whose, CrewTypes1, RunsTypeOK
<1>6. SlotHeld'
  BY <1>1, SlotFacts, <1>2, CrewTypes
    DEF register, SlotHeld, Running, Over, CrewTypes1, RunsTypeOK
<1>7. HandlerLast'
  BY <1>1, <1>2, CrewTypes
    DEF register, HandlerLast, Running, Over, CrewTypes1, RunsTypeOK
<1>8. Listening'
  BY <1>1, <1>2, CrewTypes DEF register, Listening, Running, CrewTypes1, RunsTypeOK
<1>9. ActiveHasRun'
  BY <1>1, ActiveFacts, SlotFacts, CountFacts, <1>2, CrewTypes
    DEF register, ActiveHasRun, Running, Over, CrewTypes1, RunsTypeOK
<1>10. ActiveFirst'
  BY <1>1, ActiveFacts, SlotFacts, <1>2, CrewTypes
    DEF register, ActiveFirst, Running, Over, CrewTypes1, RunsTypeOK
<1> QED
  BY <1>2, <1>3, <1>4, <1>5, <1>6, <1>7, <1>8, <1>9, <1>10

LEMMA AdmitRunKeeps ==
  ASSUME CrewInv, NEW r \in Runs, AdmitRun(r)
  PROVE  CrewInv'
<1> USE DEF CrewInv
<1>1. /\ UNCHANGED <<what, inFlight, state, proposal, handler, heard, night, count, kind, board, listener, ledger, hotToday>>
      /\ stage[r] = "queued" /\ stage' = [stage EXCEPT ![r] = "works"]
  <2>1. UNCHANGED <<what, inFlight, state, proposal, handler, heard, night, count, kind, board, listener, ledger, hotToday>>
    BY DEF AdmitRun, Admit, fellows
  <2>2. stage[r] = "queued" /\ stage' = [stage EXCEPT ![r] = "works"]
    BY DEF AdmitRun, Admit
  <2> QED
    BY <2>1, <2>2
<1>2. CrewTypes1'
  BY <1>1 DEF CrewTypes1, RunsTypeOK, Handling, States, Stages
<1>3. Numbered'
  BY <1>1, CountFacts, <1>2 DEF Numbered, Next1, CrewTypes1, RunsTypeOK
<1>4. Blank'
  BY <1>1, CountFacts, <1>2 DEF Blank, Numbered, Next1, CrewTypes1, RunsTypeOK
<1>5. Whose'
  BY <1>1, CrewTypes, <1>2 DEF Whose, CrewTypes1, RunsTypeOK
<1>6. SlotHeld'
  BY <1>1, SlotFacts, <1>2, CrewTypes DEF SlotHeld, Running, Over, CrewTypes1, RunsTypeOK
<1>7. HandlerLast'
  BY <1>1, <1>2, CrewTypes DEF HandlerLast, Running, Over, CrewTypes1, RunsTypeOK
<1>8. Listening'
  BY <1>1, <1>2, CrewTypes DEF Listening, Running, CrewTypes1, RunsTypeOK
<1>9. ActiveHasRun'
  BY <1>1, ActiveFacts, SlotFacts, CountFacts, <1>2, CrewTypes
    DEF ActiveHasRun, Running, Over, CrewTypes1, RunsTypeOK
<1>10. ActiveFirst'
  BY <1>1, ActiveFacts, SlotFacts, <1>2, CrewTypes
    DEF ActiveFirst, Running, Over, CrewTypes1, RunsTypeOK
<1> QED
  BY <1>2, <1>3, <1>4, <1>5, <1>6, <1>7, <1>8, <1>9, <1>10

LEMMA NightFallsKeeps ==
  ASSUME CrewInv, NightFalls
  PROVE  CrewInv'
<1> USE DEF CrewInv
<1>1. /\ UNCHANGED <<what, inFlight, state, proposal, handler, heard, count, stage, kind, board, listener, ledger>>
      /\ hotToday' = FALSE /\ night' \in Nights
  <2>1. UNCHANGED <<what, inFlight, state, proposal, handler, heard, count, stage, kind, board, listener, ledger>>
    BY DEF NightFalls
  <2>2. hotToday' = FALSE /\ night' \in Nights
    BY CrewBounds DEF NightFalls, Nights, CrewTypes1
  <2> QED
    BY <2>1, <2>2
<1>2. CrewTypes1'
  BY <1>1 DEF CrewTypes1, RunsTypeOK, Handling, States, Stages
<1>3. Numbered'
  BY <1>1, CountFacts, <1>2 DEF Numbered, Next1, CrewTypes1, RunsTypeOK
<1>4. Blank'
  BY <1>1, CountFacts, <1>2 DEF Blank, Numbered, Next1, CrewTypes1, RunsTypeOK
<1>5. Whose'
  BY <1>1, CrewTypes, <1>2 DEF Whose, CrewTypes1, RunsTypeOK
<1>6. SlotHeld'
  BY <1>1, SlotFacts, <1>2, CrewTypes DEF SlotHeld, Running, Over, CrewTypes1, RunsTypeOK
<1>7. HandlerLast'
  BY <1>1, <1>2, CrewTypes DEF HandlerLast, Running, Over, CrewTypes1, RunsTypeOK
<1>8. Listening'
  BY <1>1, <1>2, CrewTypes DEF Listening, Running, CrewTypes1, RunsTypeOK
<1>9. ActiveHasRun'
  BY <1>1, ActiveFacts, SlotFacts, CountFacts, <1>2, CrewTypes
    DEF ActiveHasRun, Running, Over, CrewTypes1, RunsTypeOK
<1>10. ActiveFirst'
  BY <1>1, ActiveFacts, SlotFacts, <1>2, CrewTypes
    DEF ActiveFirst, Running, Over, CrewTypes1, RunsTypeOK
<1> QED
  BY <1>2, <1>3, <1>4, <1>5, <1>6, <1>7, <1>8, <1>9, <1>10

LEMMA CrewRestartsKeeps ==
  ASSUME CrewInv, CrewRestarts
  PROVE  CrewInv'
<1> USE DEF CrewInv
<1>1. /\ UNCHANGED <<what, proposal, count, kind, ledger, night>> /\ board' = {} /\ listener' = {} /\ hotToday' = FALSE
      /\ /\ stage' \in [Runs -> Stages]
         /\ \A q \in Runs : stage'[q] = IF Running(q) THEN "lost" ELSE stage[q]
      /\ handler' = [q \in Runs |-> "none"] /\ heard' = {} /\ inFlight' = [g \in Crew |-> NoRun]
      /\ state' \in [Crew -> States] /\ \A g \in Crew : state'[g] # "active"
  <2>1. UNCHANGED <<what, proposal, count, kind, ledger, night>> /\ board' = {} /\ listener' = {} /\ hotToday' = FALSE
    BY DEF CrewRestarts, RunsLost
  <2>2. /\ stage' \in [Runs -> Stages]
        /\ \A q \in Runs : stage'[q] = IF Running(q) THEN "lost" ELSE stage[q]
    BY DEF CrewRestarts, RunsLost, CrewTypes1, RunsTypeOK, Stages
  <2>3. handler' = [q \in Runs |-> "none"] /\ heard' = {} /\ inFlight' = [g \in Crew |-> NoRun]
    BY DEF CrewRestarts
  <2>4. state' \in [Crew -> States] /\ \A g \in Crew : state'[g] # "active"
    BY DEF CrewRestarts, CrewTypes1, States
  <2> QED
    BY <2>1, <2>2, <2>3, <2>4
<1>2. CrewTypes1'
  BY <1>1 DEF CrewTypes1, RunsTypeOK, Handling, States, Stages
<1>3. Numbered'
  BY <1>1, CountFacts, <1>2 DEF Numbered, Next1, CrewTypes1, RunsTypeOK, Running
<1>4. Blank'
  BY <1>1, CountFacts, <1>2 DEF Blank, Numbered, Next1, CrewTypes1, RunsTypeOK
<1>5. Whose'
  BY <1>1, CrewTypes, <1>2 DEF Whose, CrewTypes1, RunsTypeOK
<1>6. SlotHeld'
  BY <1>1, SlotFacts, <1>2, CrewTypes DEF SlotHeld, Running, Over, CrewTypes1, RunsTypeOK
<1>7. HandlerLast'
  BY <1>1, <1>2, CrewTypes DEF HandlerLast, Running, Over, CrewTypes1, RunsTypeOK
<1>8. Listening'
  BY <1>1, <1>2, CrewTypes DEF Listening, Running, CrewTypes1, RunsTypeOK
<1>9. ActiveHasRun'
  BY <1>1, ActiveFacts, SlotFacts, CountFacts, <1>2, CrewTypes
    DEF ActiveHasRun, Running, Over, CrewTypes1, RunsTypeOK
<1>10. ActiveFirst'
  BY <1>1, ActiveFacts, SlotFacts, <1>2, CrewTypes
    DEF ActiveFirst, Running, Over, CrewTypes1, RunsTypeOK
<1> QED
  BY <1>2, <1>3, <1>4, <1>5, <1>6, <1>7, <1>8, <1>9, <1>10

LEMMA RowStepKeeps ==
  ASSUME CrewInv, RowStep
  PROVE  CrewInv'
<1> USE DEF CrewInv
<1>1. /\ UNCHANGED <<what, inFlight, handler, heard, night, count, stage, kind, board, listener, ledger, hotToday>>
      /\ state' \in [Crew -> States] /\ proposal' \in [Proposals -> Statuses]
      /\ \A g \in Crew : state'[g] = "active" => state[g] = "active"
  <2>1. UNCHANGED <<what, inFlight, handler, heard, night, count, stage, kind, board, listener, ledger, hotToday>>
    BY DEF RowStep, register
  <2>2. state' \in [Crew -> States] /\ proposal' \in [Proposals -> Statuses]
    BY DEF RowStep
  <2>3. \A g \in Crew : state'[g] = "active" => state[g] = "active"
    BY DEF RowStep
  <2> QED
    BY <2>1, <2>2, <2>3
<1>2. CrewTypes1'
  BY <1>1 DEF CrewTypes1, RunsTypeOK, Handling, States, Stages
<1>3. Numbered'
  BY <1>1, CountFacts, <1>2 DEF Numbered, Next1, CrewTypes1, RunsTypeOK
<1>4. Blank'
  BY <1>1, CountFacts, <1>2 DEF Blank, Numbered, Next1, CrewTypes1, RunsTypeOK
<1>5. Whose'
  BY <1>1, CrewTypes, <1>2 DEF Whose, CrewTypes1, RunsTypeOK
<1>6. SlotHeld'
  BY <1>1, SlotFacts, <1>2, CrewTypes DEF SlotHeld, Running, Over, CrewTypes1, RunsTypeOK
<1>7. HandlerLast'
  BY <1>1, <1>2, CrewTypes DEF HandlerLast, Running, Over, CrewTypes1, RunsTypeOK
<1>8. Listening'
  BY <1>1, <1>2, CrewTypes DEF Listening, Running, CrewTypes1, RunsTypeOK
<1>9. ActiveHasRun'
  BY <1>1, ActiveFacts, SlotFacts, CountFacts, <1>2, CrewTypes
    DEF ActiveHasRun, Running, Over, CrewTypes1, RunsTypeOK
<1>10. ActiveFirst'
  BY <1>1, ActiveFacts, SlotFacts, <1>2, CrewTypes
    DEF ActiveFirst, Running, Over, CrewTypes1, RunsTypeOK
<1> QED
  BY <1>2, <1>3, <1>4, <1>5, <1>6, <1>7, <1>8, <1>9, <1>10

-----------------------------------------------------------------------------
(***************************************************************************)
(* Every step is a step of the crew, and of the shift.                     *)
(***************************************************************************)
LEMMA NightInRange ==
  ASSUME CrewTypes1
  PROVE  night \in Nights /\ night \in 0..MaxNights
  BY CrewBounds DEF CrewTypes1, Nights

LEMMA NightOf ==
  ASSUME CrewTypes1, NEW r \in Runs
  PROVE  what[r].night \in 0..MaxNights
<1>1. what[r] \in Job
  BY DEF CrewTypes1
<1> QED
  BY <1>1 DEF Job

LEMMA ProposesBorn ==
  ASSUME CrewTypes1, RowTypes, NEW f \in Crew, NEW r \in Runs, Proposes(f, r)
  PROVE  born' \in [Proposals -> 0..MaxNights]
  BY NightOf DEF RowTypes, Proposes

LEMMA StartsNext ==
  ASSUME CrewTypes1, NEW f, NEW p, NEW h, Plan(f) \/ Step(f, p, h)
  PROVE  Next1 \in Runs
  BY NextRun DEF Plan, Step, Starts, CrewTypes1

LEMMA RunsTypesInit ==
  ASSUME RunsInit
  PROVE  RunsTypeOK
<1>1. count \in 0..MaxRuns
  BY RunBounds DEF RunsInit
<1>2. stage \in [Runs -> Stages] /\ kind \in [Runs -> Kinds]
  BY DEF RunsInit, Stages, Kinds
<1> QED
  BY <1>1, <1>2 DEF RunsInit, RunsTypeOK

LEMMA CrewInit ==
  ASSUME Init
  PROVE  CrewInv
<1> USE DEF Init, RunsInit, FellowsInit
<1>1. CrewTypes1
  <2>1. NoJob \in Job
    BY CrewBounds DEF NoJob, Job, NoRun
  <2>2. RunsTypeOK
    BY RunsTypesInit
  <2>3. proposal \in [Proposals -> Statuses]
    BY DEF Lifecycle!Init, Statuses, Lifecycle!Decidable, Lifecycle!Pending
  <2> QED
    BY <2>1, <2>2, <2>3, CrewBounds DEF CrewTypes1, States, Handling, NoRun, Nights
<1>2. \A r \in Runs : r > count
  BY RunBounds DEF Runs
<1>3. Nobody \notin Crew /\ \A r \in Runs : what[r].by = Nobody
  BY CrewTypes DEF NoJob
<1> QED
  BY <1>1, <1>2, <1>3
    DEF CrewInv, Numbered, Blank, Whose, SlotHeld, HandlerLast, Listening,
     ActiveHasRun, ActiveFirst, Running

LEMMA CrewStepKeeps ==
  ASSUME CrewInv, CrewStep
  PROVE  CrewInv'
<1>1. ASSUME NEW f \in Crew, Plan(f) \/ \E p \in Of(f) \cup {Nobody}, h \in BOOLEAN : Step(f, p, h)
      PROVE  CrewInv'
  BY <1>1, PlanKeeps, StepKeeps
<1>2. ASSUME NEW r \in Runs, AdmitRun(r) \/ ReadingFiled(r) \/ Frees(r)
      PROVE  CrewInv'
  BY <1>2, AdmitRunKeeps, ReadingFiledKeeps, FreesKeeps
<1>3. ASSUME NEW r \in Runs, NEW ok \in BOOLEAN, RunEnds(r, ok)
      PROVE  CrewInv'
  BY <1>3, StepEndsKeeps, PlanUnheardKeeps, PlanRetriedKeeps, PlanFailsKeeps,
      OtherEndsKeeps,
     PlanAnswersKeeps DEF RunEnds
<1> QED
  BY <1>1, <1>2, <1>3, RowStepKeeps, NightFallsKeeps, CrewRestartsKeeps,
      OtherStartsKeeps
    DEF CrewStep, CrewGoes

LEMMA SupersedeRows ==
  ASSUME CrewTypes1, NEW S \in SUBSET Proposals, Supersede(S)
  PROVE  /\ state' \in [Crew -> States] /\ proposal' \in [Proposals -> Statuses]
         /\ \A f \in Crew : state'[f] = "active" => state[f] = "active"
  BY ProposalTypes DEF Supersede, Dropped, CrewTypes1, States

LEMMA PendingTypes ==
  /\ AllPending \subseteq Proposals /\ Loose \subseteq Proposals
  /\ \A f \in Crew : Pending(f) \subseteq Of(f) /\ Of(f) \subseteq Proposals
  /\ \A f \in Crew : Runnable(f) \subseteq Of(f)
  BY DEF AllPending, Loose, Pending, Of, Runnable

LEMMA GoesOrRestarts ==
  ASSUME CrewTypes1, ShiftTypes, OwnTopic, [Next]_vars
  PROVE  CrewGoes \/ Restart
<1>1. ASSUME Tick PROVE CrewGoes
  BY <1>1, CrewTypes
    DEF CrewGoes, RowStep, register, CrewTypes1, Tick, Begins, NoEvent, crew
<1>2. ASSUME ByHand PROVE CrewGoes
  BY <1>2, CrewTypes
    DEF CrewGoes, RowStep, register, CrewTypes1, ByHand, Begins, Event, crew
<1>3. ASSUME Dedupe PROVE CrewGoes
  BY <1>3, SupersedeRows, PendingTypes, CrewTypes
    DEF CrewGoes, RowStep, register, CrewTypes1, Dedupe, crew, Asks
<1>4. ASSUME Judged PROVE CrewGoes
  BY <1>4, SupersedeRows, CrewTypes
    DEF CrewGoes, RowStep, register, CrewTypes1, Judged, crew, ShiftTypes
<1>5. ASSUME NextRound PROVE CrewGoes
  BY <1>5, CrewTypes
    DEF CrewGoes, RowStep, register, CrewTypes1, NextRound, fellows, Lists, Listed,
      Awake, RoundOver
<1>6. ASSUME Planning PROVE CrewGoes
  BY <1>6, CrewTypes
    DEF CrewGoes, RowStep, register, CrewTypes1, Planning, fellows, Lists, Listed,
      Awake, LastRound, RoundOver
<1>7. ASSUME SecondJudging PROVE CrewGoes
  BY <1>7, PendingTypes, CrewTypes
    DEF CrewGoes, RowStep, register, CrewTypes1, SecondJudging, fellows, Asks, RoundOver
<1>8. ASSUME Closes PROVE CrewGoes
  BY <1>8, CrewTypes
    DEF CrewGoes, RowStep, register, CrewTypes1, Closes, fellows, LastRound, RoundOver
<1>9. ASSUME JudgedSame PROVE CrewGoes
  BY <1>9, SupersedeRows, PendingTypes, CrewTypes
    DEF CrewGoes, RowStep, register, CrewTypes1, JudgedSame, Weighed, crew, OwnTopic
<1>10. ASSUME Execute PROVE CrewGoes
  BY <1>10, CrewTypes DEF CrewGoes, Execute, Weighed, OwnTopic, Of
<1>11. ASSUME Refused PROVE CrewGoes
  BY <1>11, CrewTypes
    DEF CrewGoes, RowStep, register, CrewTypes1, Refused, Weighed, crew, Becomes, States
<1>12. ASSUME Hears PROVE CrewGoes
  BY <1>12, CrewTypes DEF CrewGoes, RowStep, register, CrewTypes1, Hears, fellows
<1>13. ASSUME NEW f \in Crew, PassOver(f) PROVE CrewGoes
  BY <1>13, CrewTypes DEF CrewGoes, RowStep, register, CrewTypes1, PassOver, Turn, fellows
<1>14. ASSUME NEW f \in Crew, PlansFor(f) PROVE CrewGoes
  BY <1>14, CrewTypes DEF CrewGoes, PlansFor
<1>15. ASSUME NEW f \in Crew, PlansNothing(f) PROVE CrewGoes
  BY <1>15, ProposalTypes, CrewTypes
    DEF CrewGoes, RowStep, register, CrewTypes1, PlansNothing, Turn, NoEvent,
      PlanSkipped, Becomes, States
<1>16. ASSUME NEW p \in Proposals, Covered(Author[p], p) PROVE CrewGoes
  BY <1>16, SupersedeRows, CrewTypes
    DEF CrewGoes, RowStep, register, CrewTypes1, Covered, Turn, crew
<1>17. ASSUME NEW p \in Proposals, Weigh(Author[p], p) PROVE CrewGoes
  BY <1>17, CrewTypes DEF CrewGoes, RowStep, register, CrewTypes1, Weigh, Turn, fellows
<1>19. ASSUME NEW f \in Crew, PlanByHand(f) PROVE CrewGoes
  BY <1>19, ProposalTypes, CrewTypes
    DEF CrewGoes, RowStep, register, CrewTypes1, PlanByHand, Event, Plan, PlanSkipped,
      Becomes, States
<1>20. ASSUME NEW f \in Crew, NEW p \in Of(f) \cup {Nobody}, NEW h \in BOOLEAN, StepByHand(f, p, h) PROVE CrewGoes
  BY <1>20, CrewTypes DEF CrewGoes, StepByHand
<1>21. ASSUME NEW f \in Crew, Pause(f) PROVE CrewGoes
  BY <1>21, CrewTypes
    DEF CrewGoes, RowStep, register, CrewTypes1, Pause, Asked, Event, OnlyRows, States
<1>22. ASSUME NEW f \in Crew, Resume(f) PROVE CrewGoes
  BY <1>22, CrewTypes
    DEF CrewGoes, RowStep, register, CrewTypes1, Resume, Asked, Event, OnlyRows, States
<1>23. ASSUME NEW f \in Crew, Retire(f) PROVE CrewGoes
  BY <1>23, CrewTypes
    DEF CrewGoes, RowStep, register, CrewTypes1, Retire, Asked, Event, OnlyRows,
      States, Statuses, Lifecycle!Closed
<1>24. ASSUME NEW f \in Crew, Remove(f) PROVE CrewGoes
  BY <1>24, CrewTypes
    DEF CrewGoes, RowStep, register, CrewTypes1, Remove, OnlyRows, NoEvent, States
<1>25. ASSUME NEW f \in Crew, SkipTonight(f) PROVE CrewGoes
  BY <1>25, CrewTypes
    DEF CrewGoes, RowStep, register, CrewTypes1, SkipTonight, Asked, Event, OnlyRows
<1>26. ASSUME NEW f \in Crew, Wake(f) PROVE CrewGoes
  BY <1>26, CrewTypes
    DEF CrewGoes, RowStep, register, CrewTypes1, Wake, Asked, Event, OnlyRows, States
<1>27. ASSUME NEW p \in Proposals, NEW s \in Lifecycle!Decidable, Decide(p, s) PROVE CrewGoes
  BY <1>27, CrewTypes
    DEF CrewGoes, RowStep, register, CrewTypes1, Decide, Asked, Event, OnlyRows,
      States, Statuses
<1>28. ASSUME NEW k \in Kinds, OtherStarts(k) PROVE CrewGoes
  BY <1>28, CrewTypes DEF CrewGoes
<1>29. ASSUME NightFalls PROVE CrewGoes
  BY <1>29, CrewTypes DEF CrewGoes
<1>30. ASSUME NEW r \in Runs, AdmitRun(r) PROVE CrewGoes
  BY <1>30, CrewTypes DEF CrewGoes
<1>31. ASSUME NEW r \in Runs, ReadingFiled(r) PROVE CrewGoes
  BY <1>31, CrewTypes DEF CrewGoes
<1>32. ASSUME NEW r \in Runs, Frees(r) PROVE CrewGoes
  BY <1>32, CrewTypes DEF CrewGoes
<1>33. ASSUME NEW r \in Runs, NEW ok \in BOOLEAN, RunEnds(r, ok) PROVE CrewGoes
  BY <1>33, CrewTypes DEF CrewGoes
<1>34. CASE UNCHANGED vars
  BY <1>34 DEF CrewGoes, RowStep, register, CrewTypes1, vars, fellows
<1>35. CASE ShiftStep
  BY <1>35, <1>3, <1>4, <1>5, <1>6, <1>7, <1>8, <1>9, <1>10, <1>11, <1>12, <1>13,
      <1>14, <1>15, <1>16, <1>17, CrewTypes
    DEF ShiftStep
<1>36. CASE Request /\ UNCHANGED shift
  <2>1. ASSUME NEW f \in Crew, \/ PlanByHand(f) \/ Pause(f) \/ Resume(f) \/ Retire(f)
                               \/ Remove(f) \/ SkipTonight(f) \/ Wake(f)
        PROVE  CrewGoes
    BY <2>1, <1>19, <1>21, <1>22, <1>23, <1>24, <1>25, <1>26
  <2>2. ASSUME NEW f \in Crew, NEW p \in Of(f) \cup {Nobody}, NEW h \in BOOLEAN, StepByHand(f, p, h)
        PROVE  CrewGoes
    BY <2>2, <1>20
  <2> QED
    BY <1>36, <2>1, <2>2, <1>27, <1>28 DEF Request
<1>37. CASE \E r \in Runs : RunStep(r) /\ UNCHANGED shift
  BY <1>37, <1>30, <1>31, <1>32, <1>33 DEF RunStep
<1> QED
  BY <1>1, <1>2, <1>29, <1>34, <1>35, <1>36, <1>37 DEF Next

LEMMA IsCrewStep ==
  ASSUME CrewTypes1, ShiftTypes, OwnTopic, [Next]_vars
  PROVE  CrewStep
  BY GoesOrRestarts DEF CrewStep, Restart

LEMMA RowTypesKept ==
  ASSUME CrewInv, CrewTypes1, RowTypes, [Next]_vars
  PROVE  RowTypes'
<1>1. ASSUME Tick PROVE RowTypes'
  BY <1>1, CrewBounds, CrewTypes
    DEF RowTypes, CrewTypes1, Nights, Tick, Begins, NoEvent, crew
<1>2. ASSUME ByHand PROVE RowTypes'
  BY <1>2, CrewBounds, CrewTypes
    DEF RowTypes, CrewTypes1, Nights, ByHand, Begins, Event, crew
<1>3. ASSUME Dedupe PROVE RowTypes'
  BY <1>3, CrewBounds, CrewTypes DEF RowTypes, CrewTypes1, Nights, Dedupe, crew, Asks
<1>4. ASSUME Judged PROVE RowTypes'
  BY <1>4, CrewBounds, CrewTypes
    DEF RowTypes, CrewTypes1, Nights, Judged, crew, ShiftTypes
<1>5. ASSUME NextRound PROVE RowTypes'
  BY <1>5, CrewBounds, CrewTypes
    DEF RowTypes, CrewTypes1, Nights, NextRound, fellows, Lists, Listed, Awake,
      RoundOver
<1>6. ASSUME Planning PROVE RowTypes'
  BY <1>6, CrewBounds, CrewTypes
    DEF RowTypes, CrewTypes1, Nights, Planning, fellows, Lists, Listed, Awake,
      LastRound, RoundOver
<1>7. ASSUME SecondJudging PROVE RowTypes'
  BY <1>7, CrewBounds, CrewTypes
    DEF RowTypes, CrewTypes1, Nights, SecondJudging, fellows, Asks, RoundOver
<1>8. ASSUME Closes PROVE RowTypes'
  BY <1>8, CrewBounds, CrewTypes
    DEF RowTypes, CrewTypes1, Nights, Closes, fellows, LastRound, RoundOver
<1>9. ASSUME JudgedSame PROVE RowTypes'
  BY <1>9, CrewBounds, CrewTypes
    DEF RowTypes, CrewTypes1, Nights, JudgedSame, Weighed, crew, OwnTopic
<1>10. ASSUME Execute PROVE RowTypes'
  BY <1>10, CrewBounds, CrewTypes
    DEF RowTypes, CrewTypes1, Nights, Execute, Weighed, NoEvent, Step, Starts
<1>11. ASSUME Refused PROVE RowTypes'
  BY <1>11, CrewBounds, CrewTypes
    DEF RowTypes, CrewTypes1, Nights, Refused, Weighed, crew, Becomes, States
<1>12. ASSUME Hears PROVE RowTypes'
  BY <1>12, CrewBounds, CrewTypes DEF RowTypes, CrewTypes1, Nights, Hears, fellows
<1>13. ASSUME NEW f \in Crew, PassOver(f) PROVE RowTypes'
  BY <1>13, CrewBounds, CrewTypes
    DEF RowTypes, CrewTypes1, Nights, PassOver, Turn, fellows
<1>14. ASSUME NEW f \in Crew, PlansFor(f) PROVE RowTypes'
  BY <1>14, CrewBounds, CrewTypes
    DEF RowTypes, CrewTypes1, Nights, PlansFor, Turn, NoEvent, Plan, Starts
<1>15. ASSUME NEW f \in Crew, PlansNothing(f) PROVE RowTypes'
  BY <1>15, CrewBounds, CrewTypes
    DEF RowTypes, CrewTypes1, Nights, PlansNothing, Turn, NoEvent, PlanSkipped,
      Becomes, States
<1>16. ASSUME NEW p \in Proposals, Covered(Author[p], p) PROVE RowTypes'
  BY <1>16, CrewBounds, CrewTypes DEF RowTypes, CrewTypes1, Nights, Covered, Turn, crew
<1>17. ASSUME NEW p \in Proposals, Weigh(Author[p], p) PROVE RowTypes'
  BY <1>17, CrewBounds, CrewTypes DEF RowTypes, CrewTypes1, Nights, Weigh, Turn, fellows
<1>18. ASSUME Restart PROVE RowTypes'
  BY <1>18, CrewBounds, CrewTypes
    DEF RowTypes, CrewTypes1, Nights, Restart, Event, CrewRestarts
<1>19. ASSUME NEW f \in Crew, PlanByHand(f) PROVE RowTypes'
  <2>1. events' \in 0..MaxEvents
    BY <1>19, CrewBounds DEF PlanByHand, Event, RowTypes
  <2>2. born' = born /\ skip' = skip
    BY <1>19 DEF PlanByHand, Plan, PlanSkipped
  <2> QED
    BY <2>1, <2>2 DEF RowTypes
<1>20. ASSUME NEW f \in Crew, NEW p \in Of(f) \cup {Nobody}, NEW h \in BOOLEAN, StepByHand(f, p, h) PROVE RowTypes'
  BY <1>20, CrewBounds, CrewTypes
    DEF RowTypes, CrewTypes1, Nights, StepByHand, Event, Step
<1>21. ASSUME NEW f \in Crew, Pause(f) PROVE RowTypes'
  BY <1>21, CrewBounds, CrewTypes
    DEF RowTypes, CrewTypes1, Nights, Pause, Asked, Event, OnlyRows, States
<1>22. ASSUME NEW f \in Crew, Resume(f) PROVE RowTypes'
  BY <1>22, CrewBounds, CrewTypes
    DEF RowTypes, CrewTypes1, Nights, Resume, Asked, Event, OnlyRows, States
<1>23. ASSUME NEW f \in Crew, Retire(f) PROVE RowTypes'
  BY <1>23, CrewBounds, CrewTypes
    DEF RowTypes, CrewTypes1, Nights, Retire, Asked, Event, OnlyRows, States, Statuses,
      Lifecycle!Closed
<1>24. ASSUME NEW f \in Crew, Remove(f) PROVE RowTypes'
  BY <1>24, CrewBounds, CrewTypes
    DEF RowTypes, CrewTypes1, Nights, Remove, OnlyRows, NoEvent, States
<1>25. ASSUME NEW f \in Crew, SkipTonight(f) PROVE RowTypes'
  BY <1>25, CrewBounds, CrewTypes
    DEF RowTypes, CrewTypes1, Nights, SkipTonight, Asked, Event, OnlyRows
<1>26. ASSUME NEW f \in Crew, Wake(f) PROVE RowTypes'
  BY <1>26, CrewBounds, CrewTypes
    DEF RowTypes, CrewTypes1, Nights, Wake, Asked, Event, OnlyRows, States
<1>27. ASSUME NEW p \in Proposals, NEW s \in Lifecycle!Decidable, Decide(p, s) PROVE RowTypes'
  BY <1>27, CrewBounds, CrewTypes
    DEF RowTypes, CrewTypes1, Nights, Decide, Asked, Event, OnlyRows, States, Statuses
<1>28. ASSUME NEW k \in Kinds, OtherStarts(k) PROVE RowTypes'
  BY <1>28, CrewBounds, CrewTypes
    DEF RowTypes, CrewTypes1, Nights, OtherStarts, Event, Stays
<1>29. ASSUME NightFalls PROVE RowTypes'
  BY <1>29, CrewBounds, CrewTypes DEF RowTypes, CrewTypes1, Nights, NightFalls
<1>30. ASSUME NEW r \in Runs, AdmitRun(r) PROVE RowTypes'
  BY <1>30, CrewBounds, CrewTypes DEF RowTypes, CrewTypes1, Nights, AdmitRun, fellows
<1>31. ASSUME NEW r \in Runs, ReadingFiled(r) PROVE RowTypes'
  BY <1>31, ProposesBorn DEF ReadingFiled, RowTypes, CrewInv, HandlerLast
<1>32. ASSUME NEW r \in Runs, Frees(r) PROVE RowTypes'
  BY <1>32, CrewBounds, CrewTypes DEF RowTypes, CrewTypes1, Nights, Frees
<1>33. ASSUME NEW r \in Runs, NEW ok \in BOOLEAN, RunEnds(r, ok) PROVE RowTypes'
  <2>1. born' = born \/ Proposes(what[r].by, r)
    BY <1>33
      DEF RunEnds, StepEnds, PlanUnheard, PlanRetried, PlanFails, OtherEnds,
        PlanAnswers, Stays
  <2>2. skip' = skip /\ events' = events
    BY <1>33
      DEF RunEnds, StepEnds, PlanUnheard, PlanRetried, PlanFails, OtherEnds,
        PlanAnswers, Quiet
  <2>3. CASE kind[r] = "plan"
    BY <2>1, <2>2, <2>3, ProposesBorn DEF RowTypes, CrewInv, Whose
  <2>4. CASE kind[r] # "plan"
    BY <1>33, <2>2, <2>4
      DEF RowTypes, RunEnds, StepEnds, PlanUnheard, PlanRetried, PlanFails, OtherEnds,
        PlanAnswers, Stays
  <2> QED
    BY <2>3, <2>4
<1>34. CASE UNCHANGED vars
  BY <1>34 DEF RowTypes, vars, fellows
<1>35. CASE ShiftStep
  BY <1>35, <1>3, <1>4, <1>5, <1>6, <1>7, <1>8, <1>9, <1>10, <1>11, <1>12, <1>13,
      <1>14, <1>15, <1>16, <1>17, CrewTypes
    DEF ShiftStep
<1>36. CASE Request /\ UNCHANGED shift
  <2>1. ASSUME NEW f \in Crew, \/ PlanByHand(f) \/ Pause(f) \/ Resume(f) \/ Retire(f)
                               \/ Remove(f) \/ SkipTonight(f) \/ Wake(f)
        PROVE  RowTypes'
    BY <2>1, <1>19, <1>21, <1>22, <1>23, <1>24, <1>25, <1>26
  <2>2. ASSUME NEW f \in Crew, NEW p \in Of(f) \cup {Nobody}, NEW h \in BOOLEAN, StepByHand(f, p, h)
        PROVE  RowTypes'
    BY <2>2, <1>20
  <2> QED
    BY <1>36, <2>1, <2>2, <1>27, <1>28 DEF Request
<1>37. CASE \E r \in Runs : RunStep(r) /\ UNCHANGED shift
  BY <1>37, <1>30, <1>31, <1>32, <1>33 DEF RunStep
<1> QED
  BY <1>1, <1>2, <1>18, <1>29, <1>34, <1>35, <1>36, <1>37 DEF Next

LEMMA ShiftTypesKept ==
  ASSUME CrewTypes1, ShiftTypes, OwnTopic, [Next]_vars
  PROVE  ShiftTypes'
<1>1. ASSUME Tick PROVE ShiftTypes'
  <2>1. at' \in At /\ part' \in Parts
    BY <1>1 DEF ShiftTypes, At, Parts, Tick, Begins, others
  <2>2. cycle' \in 0..MaxNights /\ rounds' \in 0..MaxRounds
    BY <1>1, NightInRange, CrewBounds, RoundBound DEF ShiftTypes, Tick, Begins, others
  <2>3. todo' \subseteq Crew /\ ran' \subseteq Crew /\ doomed' \subseteq Proposals
    BY <1>1 DEF ShiftTypes, Tick, Begins, others
  <2>4. turn' \in Crew \cup {Nobody} /\ pick' \in Proposals \cup {Nobody} /\ waits' \in Runs \cup {NoRun}
    BY <1>1 DEF ShiftTypes, Tick, Begins, others
  <2>5. firm' \in BOOLEAN /\ moved' \in BOOLEAN /\ reset' \in {"no", "due", "waited"}
    BY <1>1 DEF ShiftTypes, Tick, Begins, others
  <2>6. rows' \in [Nights -> {"none", "open", "closed"}] /\ timed' \in [Nights -> Nat]
    BY <1>1, NightInRange DEF ShiftTypes, Tick, Begins, others
  <2> QED
    BY <2>1, <2>2, <2>3, <2>4, <2>5, <2>6 DEF ShiftTypes
<1>2. ASSUME ByHand PROVE ShiftTypes'
  <2>1. at' \in At /\ part' \in Parts
    BY <1>2 DEF ShiftTypes, At, Parts, ByHand, Begins, others
  <2>2. cycle' \in 0..MaxNights /\ rounds' \in 0..MaxRounds
    BY <1>2, NightInRange, CrewBounds, RoundBound DEF ShiftTypes, ByHand, Begins, others
  <2>3. todo' \subseteq Crew /\ ran' \subseteq Crew /\ doomed' \subseteq Proposals
    BY <1>2 DEF ShiftTypes, ByHand, Begins, others
  <2>4. turn' \in Crew \cup {Nobody} /\ pick' \in Proposals \cup {Nobody} /\ waits' \in Runs \cup {NoRun}
    BY <1>2 DEF ShiftTypes, ByHand, Begins, others
  <2>5. firm' \in BOOLEAN /\ moved' \in BOOLEAN /\ reset' \in {"no", "due", "waited"}
    BY <1>2 DEF ShiftTypes, ByHand, Begins, others
  <2>6. rows' \in [Nights -> {"none", "open", "closed"}] /\ timed' \in [Nights -> Nat]
    BY <1>2, NightInRange DEF ShiftTypes, ByHand, Begins, others
  <2> QED
    BY <2>1, <2>2, <2>3, <2>4, <2>5, <2>6 DEF ShiftTypes
<1>3. ASSUME Dedupe PROVE ShiftTypes'
  BY <1>3, NightInRange, RoundBound, CrewTypes, PendingTypes
    DEF ShiftTypes, At, Parts, Dedupe, Asks, others
<1>4. ASSUME Judged PROVE ShiftTypes'
  BY <1>4, NightInRange, RoundBound, CrewTypes DEF ShiftTypes, At, Parts, Judged, others
<1>5. ASSUME NextRound PROVE ShiftTypes'
  <2>1. at' \in At /\ part' \in Parts
    BY <1>5 DEF ShiftTypes, At, Parts, NextRound, RoundOver, others
  <2>2. cycle' \in 0..MaxNights /\ rounds' \in 0..MaxRounds
    BY <1>5, NightInRange, CrewBounds, RoundBound
      DEF ShiftTypes, NextRound, RoundOver, others
  <2>3. todo' \subseteq Crew /\ ran' \subseteq Crew /\ doomed' \subseteq Proposals
    BY <1>5 DEF ShiftTypes, NextRound, Lists, Listed, Awake, RoundOver, others
  <2>4. turn' \in Crew \cup {Nobody} /\ pick' \in Proposals \cup {Nobody} /\ waits' \in Runs \cup {NoRun}
    BY <1>5 DEF ShiftTypes, NextRound, RoundOver, others
  <2>5. firm' \in BOOLEAN /\ moved' \in BOOLEAN /\ reset' \in {"no", "due", "waited"}
    BY <1>5 DEF ShiftTypes, NextRound, RoundOver, others
  <2>6. rows' \in [Nights -> {"none", "open", "closed"}] /\ timed' \in [Nights -> Nat]
    BY <1>5, NightInRange DEF ShiftTypes, NextRound, RoundOver, others
  <2> QED
    BY <2>1, <2>2, <2>3, <2>4, <2>5, <2>6 DEF ShiftTypes
<1>6. ASSUME Planning PROVE ShiftTypes'
  <2>1. at' \in At /\ part' \in Parts
    BY <1>6 DEF ShiftTypes, At, Parts, Planning, LastRound, RoundOver, others
  <2>2. cycle' \in 0..MaxNights /\ rounds' \in 0..MaxRounds
    BY <1>6, NightInRange, CrewBounds, RoundBound
      DEF ShiftTypes, Planning, LastRound, RoundOver, others
  <2>3. todo' \subseteq Crew /\ ran' \subseteq Crew /\ doomed' \subseteq Proposals
    BY <1>6 DEF ShiftTypes, Planning, Lists, Listed, Awake, LastRound, RoundOver, others
  <2>4. turn' \in Crew \cup {Nobody} /\ pick' \in Proposals \cup {Nobody} /\ waits' \in Runs \cup {NoRun}
    BY <1>6 DEF ShiftTypes, Planning, LastRound, RoundOver, others
  <2>5. firm' \in BOOLEAN /\ moved' \in BOOLEAN /\ reset' \in {"no", "due", "waited"}
    BY <1>6 DEF ShiftTypes, Planning, LastRound, RoundOver, others
  <2>6. rows' \in [Nights -> {"none", "open", "closed"}] /\ timed' \in [Nights -> Nat]
    BY <1>6, NightInRange DEF ShiftTypes, Planning, LastRound, RoundOver, others
  <2> QED
    BY <2>1, <2>2, <2>3, <2>4, <2>5, <2>6 DEF ShiftTypes
<1>7. ASSUME SecondJudging PROVE ShiftTypes'
  BY <1>7, NightInRange, RoundBound, CrewTypes, PendingTypes
    DEF ShiftTypes, At, Parts, SecondJudging, Asks, RoundOver, others
<1>8. ASSUME Closes PROVE ShiftTypes'
  <2>1. at' \in At /\ part' \in Parts
    BY <1>8 DEF ShiftTypes, At, Parts, Closes, LastRound, RoundOver, others
  <2>2. cycle' \in 0..MaxNights /\ rounds' \in 0..MaxRounds
    BY <1>8, NightInRange, CrewBounds, RoundBound
      DEF ShiftTypes, Closes, LastRound, RoundOver, others
  <2>3. todo' \subseteq Crew /\ ran' \subseteq Crew /\ doomed' \subseteq Proposals
    BY <1>8 DEF ShiftTypes, Closes, LastRound, RoundOver, others
  <2>4. turn' \in Crew \cup {Nobody} /\ pick' \in Proposals \cup {Nobody} /\ waits' \in Runs \cup {NoRun}
    BY <1>8 DEF ShiftTypes, Closes, LastRound, RoundOver, others
  <2>5. firm' \in BOOLEAN /\ moved' \in BOOLEAN /\ reset' \in {"no", "due", "waited"}
    BY <1>8 DEF ShiftTypes, Closes, LastRound, RoundOver, others
  <2>6. rows' \in [Nights -> {"none", "open", "closed"}] /\ timed' \in [Nights -> Nat]
    BY <1>8, NightInRange DEF ShiftTypes, Closes, LastRound, RoundOver, others
  <2> QED
    BY <2>1, <2>2, <2>3, <2>4, <2>5, <2>6 DEF ShiftTypes
<1>9. ASSUME JudgedSame PROVE ShiftTypes'
  BY <1>9, NightInRange, RoundBound, CrewTypes
    DEF ShiftTypes, At, Parts, JudgedSame, Weighed, OwnTopic, others
<1>10. ASSUME Execute PROVE ShiftTypes'
  <2>1. at' \in At /\ part' \in Parts
    BY <1>10, StartsNext DEF ShiftTypes, At, Parts, Execute, Weighed, others
  <2>2. cycle' \in 0..MaxNights /\ rounds' \in 0..MaxRounds
    BY <1>10, StartsNext, NightInRange, CrewBounds, RoundBound
      DEF ShiftTypes, Execute, Weighed, others
  <2>3. todo' \subseteq Crew /\ ran' \subseteq Crew /\ doomed' \subseteq Proposals
    BY <1>10, StartsNext DEF ShiftTypes, Execute, Weighed, others
  <2>4. turn' \in Crew \cup {Nobody} /\ pick' \in Proposals \cup {Nobody} /\ waits' \in Runs \cup {NoRun}
    BY <1>10, StartsNext DEF ShiftTypes, Execute, Weighed, others
  <2>5. firm' \in BOOLEAN /\ moved' \in BOOLEAN /\ reset' \in {"no", "due", "waited"}
    BY <1>10, StartsNext DEF ShiftTypes, Execute, Weighed, others
  <2>6. rows' \in [Nights -> {"none", "open", "closed"}] /\ timed' \in [Nights -> Nat]
    BY <1>10, StartsNext, NightInRange DEF ShiftTypes, Execute, Weighed, others
  <2> QED
    BY <2>1, <2>2, <2>3, <2>4, <2>5, <2>6 DEF ShiftTypes
<1>11. ASSUME Refused PROVE ShiftTypes'
  BY <1>11, NightInRange, RoundBound, CrewTypes
    DEF ShiftTypes, At, Parts, Refused, Weighed, others
<1>12. ASSUME Hears PROVE ShiftTypes'
  <2>1. at' \in At /\ part' \in Parts
    BY <1>12 DEF ShiftTypes, At, Parts, Hears, others
  <2>2. cycle' \in 0..MaxNights /\ rounds' \in 0..MaxRounds
    BY <1>12, NightInRange, CrewBounds, RoundBound DEF ShiftTypes, Hears, others
  <2>3. todo' \subseteq Crew /\ ran' \subseteq Crew /\ doomed' \subseteq Proposals
    BY <1>12 DEF ShiftTypes, Hears, others, OwnTopic
  <2>4. turn' \in Crew \cup {Nobody} /\ pick' \in Proposals \cup {Nobody} /\ waits' \in Runs \cup {NoRun}
    BY <1>12 DEF ShiftTypes, Hears, others
  <2>5. firm' \in BOOLEAN /\ moved' \in BOOLEAN /\ reset' \in {"no", "due", "waited"}
    BY <1>12 DEF ShiftTypes, Hears, others
  <2>6. rows' \in [Nights -> {"none", "open", "closed"}] /\ timed' \in [Nights -> Nat]
    BY <1>12, NightInRange DEF ShiftTypes, Hears, others
  <2> QED
    BY <2>1, <2>2, <2>3, <2>4, <2>5, <2>6 DEF ShiftTypes
<1>13. ASSUME NEW f \in Crew, PassOver(f) PROVE ShiftTypes'
  BY <1>13, NightInRange, RoundBound, CrewTypes
    DEF ShiftTypes, At, Parts, PassOver, Turn, others
<1>14. ASSUME NEW f \in Crew, PlansFor(f) PROVE ShiftTypes'
  <2>1. at' \in At /\ part' \in Parts
    BY <1>14, StartsNext DEF ShiftTypes, At, Parts, PlansFor, Turn, others
  <2>2. cycle' \in 0..MaxNights /\ rounds' \in 0..MaxRounds
    BY <1>14, StartsNext, NightInRange, CrewBounds, RoundBound
      DEF ShiftTypes, PlansFor, Turn, others
  <2>3. todo' \subseteq Crew /\ ran' \subseteq Crew /\ doomed' \subseteq Proposals
    BY <1>14, StartsNext DEF ShiftTypes, PlansFor, Turn, others
  <2>4. turn' \in Crew \cup {Nobody} /\ pick' \in Proposals \cup {Nobody} /\ waits' \in Runs \cup {NoRun}
    BY <1>14, StartsNext DEF ShiftTypes, PlansFor, Turn, others
  <2>5. firm' \in BOOLEAN /\ moved' \in BOOLEAN /\ reset' \in {"no", "due", "waited"}
    BY <1>14, StartsNext DEF ShiftTypes, PlansFor, Turn, others
  <2>6. rows' \in [Nights -> {"none", "open", "closed"}] /\ timed' \in [Nights -> Nat]
    BY <1>14, StartsNext, NightInRange DEF ShiftTypes, PlansFor, Turn, others
  <2> QED
    BY <2>1, <2>2, <2>3, <2>4, <2>5, <2>6 DEF ShiftTypes
<1>15. ASSUME NEW f \in Crew, PlansNothing(f) PROVE ShiftTypes'
  BY <1>15, NightInRange, RoundBound, CrewTypes
    DEF ShiftTypes, At, Parts, PlansNothing, Turn, others
<1>16. ASSUME NEW p \in Proposals, Covered(Author[p], p) PROVE ShiftTypes'
  BY <1>16, NightInRange, RoundBound, CrewTypes
    DEF ShiftTypes, At, Parts, Covered, Turn, others
<1>17. ASSUME NEW p \in Proposals, Weigh(Author[p], p) PROVE ShiftTypes'
  BY <1>17, NightInRange, RoundBound, CrewTypes
    DEF ShiftTypes, At, Parts, Weigh, Turn, others
<1>18. ASSUME Restart PROVE ShiftTypes'
  <2>1. at' \in At /\ part' \in Parts
    BY <1>18 DEF ShiftTypes, At, Parts, Restart, others
  <2>2. cycle' \in 0..MaxNights /\ rounds' \in 0..MaxRounds
    BY <1>18, NightInRange, CrewBounds, RoundBound DEF ShiftTypes, Restart, others
  <2>3. todo' \subseteq Crew /\ ran' \subseteq Crew /\ doomed' \subseteq Proposals
    BY <1>18 DEF ShiftTypes, Restart, others
  <2>4. turn' \in Crew \cup {Nobody} /\ pick' \in Proposals \cup {Nobody} /\ waits' \in Runs \cup {NoRun}
    BY <1>18 DEF ShiftTypes, Restart, others
  <2>5. firm' \in BOOLEAN /\ moved' \in BOOLEAN /\ reset' \in {"no", "due", "waited"}
    BY <1>18 DEF ShiftTypes, Restart, others
  <2>6. rows' \in [Nights -> {"none", "open", "closed"}] /\ timed' \in [Nights -> Nat]
    BY <1>18, NightInRange DEF ShiftTypes, Restart, others
  <2> QED
    BY <2>1, <2>2, <2>3, <2>4, <2>5, <2>6 DEF ShiftTypes
<1>19. CASE UNCHANGED shift
  BY <1>19 DEF ShiftTypes, At, Parts, shift
<1>20. CASE ShiftStep
  BY <1>20, <1>3, <1>4, <1>5, <1>6, <1>7, <1>8, <1>9, <1>10, <1>11, <1>12, <1>13,
      <1>14, <1>15, <1>16, <1>17, CrewTypes
    DEF ShiftStep
<1> QED
  BY <1>1, <1>2, <1>18, <1>19, <1>20 DEF Next, vars

LEMMA OwnTopicKept ==
  ASSUME CrewTypes1, OwnTopic, [Next]_vars
  PROVE  OwnTopic'
<1>1. ASSUME Tick PROVE OwnTopic'
  BY <1>1 DEF OwnTopic, Tick, Begins, others
<1>2. ASSUME ByHand PROVE OwnTopic'
  BY <1>2 DEF OwnTopic, ByHand, Begins, others
<1>3. ASSUME Dedupe PROVE OwnTopic'
  BY <1>3 DEF OwnTopic, Dedupe, Asks, others
<1>4. ASSUME Judged PROVE OwnTopic'
  BY <1>4 DEF OwnTopic, Judged, ShiftTypes, others
<1>5. ASSUME NextRound PROVE OwnTopic'
  BY <1>5 DEF OwnTopic, NextRound, Lists, Listed, Awake, RoundOver, others
<1>6. ASSUME Planning PROVE OwnTopic'
  BY <1>6 DEF OwnTopic, Planning, Lists, Listed, Awake, LastRound, RoundOver, others
<1>7. ASSUME SecondJudging PROVE OwnTopic'
  BY <1>7 DEF OwnTopic, SecondJudging, Asks, RoundOver, others
<1>8. ASSUME Closes PROVE OwnTopic'
  BY <1>8 DEF OwnTopic, Closes, LastRound, RoundOver, others
<1>9. ASSUME JudgedSame PROVE OwnTopic'
  BY <1>9 DEF OwnTopic, JudgedSame, Weighed, others
<1>10. ASSUME Execute PROVE OwnTopic'
  BY <1>10 DEF OwnTopic, Execute, Weighed, others
<1>11. ASSUME Refused PROVE OwnTopic'
  BY <1>11 DEF OwnTopic, Refused, Weighed, others
<1>12. ASSUME Hears PROVE OwnTopic'
  BY <1>12 DEF OwnTopic, Hears, others
<1>13. ASSUME NEW f \in Crew, PassOver(f) PROVE OwnTopic'
  BY <1>13 DEF OwnTopic, PassOver, Turn, others
<1>14. ASSUME NEW f \in Crew, PlansFor(f) PROVE OwnTopic'
  BY <1>14 DEF OwnTopic, PlansFor, Turn, others
<1>15. ASSUME NEW f \in Crew, PlansNothing(f) PROVE OwnTopic'
  BY <1>15 DEF OwnTopic, PlansNothing, Turn, others
<1>16. ASSUME NEW p \in Proposals, Covered(Author[p], p) PROVE OwnTopic'
  BY <1>16 DEF OwnTopic, Covered, Turn, others
<1>17. ASSUME NEW p \in Proposals, Weigh(Author[p], p) PROVE OwnTopic'
  BY <1>17, CrewTypes, PendingTypes DEF OwnTopic, Weigh, Turn, others
<1>18. ASSUME Restart PROVE OwnTopic'
  BY <1>18 DEF OwnTopic, Restart, others
<1>19. CASE UNCHANGED shift
  BY <1>19 DEF OwnTopic, shift
<1>20. CASE ShiftStep
  BY <1>20, <1>3, <1>4, <1>5, <1>6, <1>7, <1>8, <1>9, <1>10, <1>11, <1>12, <1>13,
      <1>14, <1>15, <1>16, <1>17, CrewTypes
    DEF ShiftStep
<1> QED
  BY <1>1, <1>2, <1>18, <1>19, <1>20 DEF Next, vars

LEMMA RowKeptKept ==
  ASSUME CrewTypes1, ShiftTypes, RowKept, [Next]_vars
  PROVE  RowKept'
<1>1. ASSUME Tick PROVE RowKept'
  BY <1>1 DEF RowKept, ShiftTypes, CrewTypes1, Begins, Tick, others
<1>2. ASSUME ByHand PROVE RowKept'
  BY <1>2 DEF RowKept, ShiftTypes, CrewTypes1, Begins, ByHand, others
<1>3. ASSUME Dedupe PROVE RowKept'
  BY <1>3 DEF RowKept, ShiftTypes, CrewTypes1, Begins, Dedupe, Asks, others
<1>4. ASSUME Judged PROVE RowKept'
  BY <1>4 DEF RowKept, ShiftTypes, CrewTypes1, Begins, Judged, others
<1>5. ASSUME NextRound PROVE RowKept'
  BY <1>5
    DEF RowKept, ShiftTypes, CrewTypes1, Begins, NextRound, Lists, Listed, Awake,
      RoundOver, others
<1>6. ASSUME Planning PROVE RowKept'
  BY <1>6
    DEF RowKept, ShiftTypes, CrewTypes1, Begins, Planning, Lists, Listed, Awake,
      LastRound, RoundOver, others
<1>7. ASSUME SecondJudging PROVE RowKept'
  BY <1>7
    DEF RowKept, ShiftTypes, CrewTypes1, Begins, SecondJudging, Asks, RoundOver, others
<1>8. ASSUME Closes PROVE RowKept'
  BY <1>8
    DEF RowKept, ShiftTypes, CrewTypes1, Begins, Closes, LastRound, RoundOver, others
<1>9. ASSUME JudgedSame PROVE RowKept'
  BY <1>9
    DEF RowKept, ShiftTypes, CrewTypes1, Begins, JudgedSame, Weighed, OwnTopic, others
<1>10. ASSUME Execute PROVE RowKept'
  BY <1>10 DEF RowKept, ShiftTypes, CrewTypes1, Begins, Execute, Weighed, others
<1>11. ASSUME Refused PROVE RowKept'
  BY <1>11 DEF RowKept, ShiftTypes, CrewTypes1, Begins, Refused, Weighed, others
<1>12. ASSUME Hears PROVE RowKept'
  BY <1>12 DEF RowKept, ShiftTypes, CrewTypes1, Begins, Hears, others
<1>13. ASSUME NEW f \in Crew, PassOver(f) PROVE RowKept'
  BY <1>13 DEF RowKept, ShiftTypes, CrewTypes1, Begins, PassOver, Turn, others
<1>14. ASSUME NEW f \in Crew, PlansFor(f) PROVE RowKept'
  BY <1>14 DEF RowKept, ShiftTypes, CrewTypes1, Begins, PlansFor, Turn, others
<1>15. ASSUME NEW f \in Crew, PlansNothing(f) PROVE RowKept'
  BY <1>15 DEF RowKept, ShiftTypes, CrewTypes1, Begins, PlansNothing, Turn, others
<1>16. ASSUME NEW p \in Proposals, Covered(Author[p], p) PROVE RowKept'
  BY <1>16 DEF RowKept, ShiftTypes, CrewTypes1, Begins, Covered, Turn, others
<1>17. ASSUME NEW p \in Proposals, Weigh(Author[p], p) PROVE RowKept'
  BY <1>17 DEF RowKept, ShiftTypes, CrewTypes1, Begins, Weigh, Turn, others
<1>18. ASSUME Restart PROVE RowKept'
  BY <1>18 DEF RowKept, ShiftTypes, CrewTypes1, Begins, Restart, others
<1>19. CASE UNCHANGED shift
  BY <1>19 DEF RowKept, ShiftTypes, CrewTypes1, Begins, shift
<1>20. CASE ShiftStep
  BY <1>20, <1>3, <1>4, <1>5, <1>6, <1>7, <1>8, <1>9, <1>10, <1>11, <1>12, <1>13,
      <1>14, <1>15, <1>16, <1>17, CrewTypes
    DEF ShiftStep
<1> QED
  BY <1>1, <1>2, <1>18, <1>19, <1>20 DEF Next, vars

LEMMA InvInit ==
  ASSUME Init
  PROVE  Inv
<1>1. RowTypes
  BY CrewBounds DEF Init, FellowsInit, RowTypes
<1>2. ShiftTypes
  <2>1. cycle \in 0..MaxNights /\ rounds \in 0..MaxRounds
    BY RoundBound, CrewBounds DEF Init
  <2>2. at \in At /\ part \in Parts
    BY DEF Init, At, Parts
  <2>3. /\ rows \in [Nights -> {"none", "open", "closed"}] /\ timed \in [Nights -> Nat]
        /\ waits \in Runs \cup {NoRun}
    BY DEF Init
  <2> QED
    BY <2>1, <2>2, <2>3 DEF Init, ShiftTypes
<1>3. OwnTopic /\ RowKept
  BY DEF Init, OwnTopic, RowKept
<1> QED
  BY <1>1, <1>2, <1>3, CrewInit DEF Inv

LEMMA InvKept ==
  ASSUME Inv, [Next]_vars
  PROVE  Inv'
<1> USE DEF Inv
<1>1. CrewTypes1
  BY DEF CrewInv
<1> QED
  BY <1>1, IsCrewStep, CrewStepKeeps, RowTypesKept, ShiftTypesKept, OwnTopicKept,
      RowKeptKept

LEMMA Invariant == Spec => []Inv
<1>1. Init => Inv
  BY InvInit
<1>2. Inv /\ [Next]_vars => Inv'
  BY InvKept
<1> QED
  BY <1>1, <1>2, PTL DEF Spec
-----------------------------------------------------------------------------
(***************************************************************************)
(* The quota: no step adds to what counts against a Fellow, but for the    *)
(* start of a run that Used lets through.                                  *)
(***************************************************************************)
Counted(f, n) == {r \in Runs : /\ what[r].by = f /\ what[r].night = n /\ kind[r] = "step"
                               /\ ~what[r].exempt
                               /\ Running(r) \/ r \in ledger}

LEMMA CountedFinite ==
  ASSUME NEW f \in Crew, NEW n \in Nights
  PROVE  IsFiniteSet(Counted(f, n)) /\ Cardinality(Counted(f, n)) \in Nat
<1>1. IsFiniteSet(Runs)
  BY FS_Interval, RunBounds DEF Runs
<1>2. Counted(f, n) \subseteq Runs
  BY DEF Counted
<1> QED
  BY <1>1, <1>2, FS_Subset, FS_CardinalityType

LEMMA QuotaByFewer ==
  ASSUME QuotaKept, NEW f \in Crew, NEW n \in Nights, Counted(f, n)' \subseteq Counted(f, n)
  PROVE  Cardinality(Counted(f, n)') <= Quota[f]
<1>1. Cardinality(Counted(f, n)) <= Quota[f] /\ Quota[f] \in Nat
  BY CrewTypes DEF QuotaKept, Counted
<1>2. IsFiniteSet(Counted(f, n)')
  BY CountedFinite, FS_Subset
<1>3. Cardinality(Counted(f, n)') <= Cardinality(Counted(f, n)) /\ Cardinality(Counted(f, n)') \in Nat
  BY CountedFinite, <1>2, FS_Subset, FS_CardinalityType
<1> QED
  BY <1>1, <1>3, CountedFinite

\* With nothing under way, what counts is in the ledger, where Used sees it.
LEMMA CountedUsed ==
  ASSUME CrewInv, NEW f \in Crew, inFlight[f] = NoRun
  PROVE  Cardinality(Counted(f, night)) <= Used(f) /\ Used(f) \in Nat
<1> DEFINE U == {r \in ledger : what[r].by = f /\ kind[r] = "step" /\ what[r].night = night}
<1>0. IsFiniteSet(Runs)
  BY FS_Interval, RunBounds DEF Runs
<1>1. U \subseteq Runs /\ IsFiniteSet(Runs)
  BY <1>0 DEF CrewInv, CrewTypes1, RunsTypeOK
<1>2. IsFiniteSet(U)
  BY <1>1, FS_Subset
<1>3. Counted(f, night) \subseteq U
  BY SlotFacts DEF Counted
<1> QED
  BY <1>2, <1>3, FS_Subset, FS_CardinalityType DEF Used

LEMMA QuotaStep ==
  ASSUME CrewInv, QuotaKept, NEW f \in Crew, NEW p \in Of(f) \cup {Nobody}, NEW h \in BOOLEAN,
         Step(f, p, h)
  PROVE  QuotaKept'
<1>1. Moves({}, {Next1}, TRUE) /\ kind'[Next1] = StepKind(p) /\ Next1 \in Runs
  BY StartsMoves DEF Step, StepKind, CrewInv, CrewTypes1, Kinds, Moves
<1>2. /\ what' = [what EXCEPT ![Next1] = what'[Next1]]
      /\ what'[Next1].by = f /\ what'[Next1].night = night /\ what'[Next1].exempt = h
      /\ inFlight[f] = NoRun /\ (h \/ Used(f) < Quota[f])
  BY <1>1 DEF Step, StepKind, Tracks, Gate, CrewInv, CrewTypes1
<1>3. Next1 \notin ledger /\ stage[Next1] = "none"
  BY <1>1, FreshRuns
<1> SUFFICES ASSUME NEW g \in Crew, NEW n \in Nights
             PROVE  Cardinality(Counted(g, n)') <= Quota[g]
  BY DEF QuotaKept, Counted
<1>4. Counted(g, n)' \subseteq Counted(g, n) \cup {Next1}
  BY <1>1, <1>2, <1>3 DEF Counted, Moves, Running, CrewInv, CrewTypes1
<1>5. CASE g = f /\ n = night /\ ~h
  <2>1. Cardinality(Counted(g, n)) < Quota[g] /\ Quota[g] \in Nat
    BY <1>2, <1>5, CountedUsed, CountedFinite, CrewTypes
  <2>2. /\ IsFiniteSet(Counted(g, n) \cup {Next1})
        /\ Cardinality(Counted(g, n) \cup {Next1}) <= Cardinality(Counted(g, n)) + 1
    <3>1. IsFiniteSet(Counted(g, n)) /\ Cardinality(Counted(g, n)) \in Nat
      BY CountedFinite
    <3>2. /\ IsFiniteSet(Counted(g, n) \cup {Next1})
          /\ \/ Cardinality(Counted(g, n) \cup {Next1}) = Cardinality(Counted(g, n))
             \/ Cardinality(Counted(g, n) \cup {Next1}) = Cardinality(Counted(g, n)) + 1
      BY <3>1, FS_AddElement, Zenon
    <3> QED
      BY <3>1, <3>2
  <2>3. Cardinality(Counted(g, n)') <= Cardinality(Counted(g, n) \cup {Next1})
    BY <1>4, <2>2, FS_Subset
  <2>4. Cardinality(Counted(g, n)') \in Nat /\ Cardinality(Counted(g, n) \cup {Next1}) \in Nat
    BY <1>4, <2>2, FS_Subset, FS_CardinalityType
  <2> QED
    BY <2>1, <2>2, <2>3, <2>4, CountedFinite
<1>6. CASE ~(g = f /\ n = night /\ ~h)
  <2>1. Next1 \notin Counted(g, n)'
    BY <1>2, <1>6 DEF Counted
  <2> QED
    BY <1>4, <2>1, QuotaByFewer
<1> QED
  BY <1>5, <1>6

LEMMA QuotaStepKept ==
  ASSUME CrewInv, QuotaKept, CrewStep
  PROVE  QuotaKept'
<1>1. ASSUME NEW f \in Crew, NEW p \in Of(f) \cup {Nobody}, NEW h \in BOOLEAN, Step(f, p, h) PROVE QuotaKept'
  BY <1>1, QuotaStep
<1>2. ASSUME NEW f \in Crew, Plan(f) PROVE QuotaKept'
  <2>1. Moves({}, {Next1}, TRUE) /\ kind'[Next1] = "plan" /\ what' = [what EXCEPT ![Next1] = what'[Next1]]
    BY <1>2, StartsMoves DEF Plan, Tracks, CrewInv, CrewTypes1, Kinds
  <2>2. ASSUME NEW g \in Crew, NEW n \in Nights PROVE Counted(g, n)' \subseteq Counted(g, n)
    BY <2>1 DEF Counted, Running, CrewInv, CrewTypes1, RunsTypeOK, Moves
  <2> QED
    BY <2>2, QuotaByFewer DEF QuotaKept, Counted
<1>3. ASSUME NEW k \in Kinds, OtherStarts(k) PROVE QuotaKept'
  <2>1. Moves({}, {Next1}, FALSE) /\ kind'[Next1] # "step" /\ what' = what
    BY <1>3, StartsMoves DEF OtherStarts, Stays, CrewInv, CrewTypes1, Kinds
  <2>2. ASSUME NEW g \in Crew, NEW n \in Nights PROVE Counted(g, n)' \subseteq Counted(g, n)
    BY <2>1 DEF Counted, Running, CrewInv, CrewTypes1, RunsTypeOK, Moves
  <2> QED
    BY <2>2, QuotaByFewer DEF QuotaKept, Counted
<1>4. ASSUME NEW r \in Runs, NEW ok \in BOOLEAN, RunEnds(r, ok) PROVE QuotaKept'
  <2>1. \/ Moves({r}, {}, FALSE) /\ what' = what
        \/ /\ Moves({r}, {Next1}, FALSE) \/ Moves({r}, {Next1}, TRUE)
           /\ kind'[Next1] # "step"
           /\ \A q \in Runs : q # Next1 => what'[q] = what[q]
    <3>1. CASE StepEnds(r, ok) \/ OtherEnds(r, ok)
      <4>1. what' = what
        BY <3>1 DEF StepEnds, OtherEnds, Stays
      <4>2. \E o \in BOOLEAN : Ends(r, o) \/ EndsOversized(r, o)
        BY <3>1 DEF StepEnds, OtherEnds
      <4>3. Moves({r}, {}, FALSE) \/ (Moves({r}, {Next1}, FALSE) /\ kind'[Next1] = "hot")
        BY <4>2, EndsMoves, OversizedMoves DEF CrewInv, CrewTypes1
      <4> QED
        BY <4>1, <4>3
    <3>2. CASE PlanUnheard(r, ok) \/ PlanAnswers(r) \/ PlanFails(r, ok)
      <4>1. what' = what
        BY <3>2 DEF PlanUnheard, PlanAnswers, PlanFails, Stays
      <4>2. \E o \in BOOLEAN : Ends(r, o)
        BY <3>2 DEF PlanUnheard, PlanAnswers, PlanFails
      <4>3. Moves({r}, {}, FALSE)
        BY <4>2, EndsMoves DEF CrewInv, CrewTypes1
      <4> QED
        BY <4>1, <4>3
    <3>3. CASE PlanRetried(r, ok)
      <4>1. Moves({r}, {Next1}, TRUE) /\ kind'[Next1] = "plan"
        BY <3>3, EndsAndStartsMoves DEF PlanRetried, CrewInv, CrewTypes1, Kinds
      <4>2. what' = [what EXCEPT ![Next1] = what'[Next1]]
        BY <3>3 DEF PlanRetried, Tracks, CrewInv, CrewTypes1
      <4>3. \A q \in Runs : q # Next1 => what'[q] = what[q]
        BY <4>2 DEF CrewInv, CrewTypes1
      <4> QED
        BY <4>1, <4>3
    <3> QED
      BY <1>4, <3>1, <3>2, <3>3 DEF RunEnds
  <2>2. ASSUME NEW g \in Crew, NEW n \in Nights PROVE Counted(g, n)' \subseteq Counted(g, n)
    BY <2>1 DEF Counted, Running, CrewInv, CrewTypes1, RunsTypeOK, Moves
  <2> QED
    BY <2>2, QuotaByFewer DEF QuotaKept, Counted
<1>5. ASSUME NEW r \in Runs, AdmitRun(r) PROVE QuotaKept'
  <2>1. ASSUME NEW g \in Crew, NEW n \in Nights PROVE Counted(g, n)' \subseteq Counted(g, n)
    BY <1>5
      DEF Counted, Running, CrewInv, CrewTypes1, RunsTypeOK, AdmitRun, Admit, fellows
  <2> QED
    BY <2>1, QuotaByFewer DEF QuotaKept, Counted
<1>6. ASSUME NEW r \in Runs, ReadingFiled(r) PROVE QuotaKept'
  <2>1. ASSUME NEW g \in Crew, NEW n \in Nights PROVE Counted(g, n)' \subseteq Counted(g, n)
    BY <1>6 DEF Counted, Running, CrewInv, CrewTypes1, RunsTypeOK, ReadingFiled, register
  <2> QED
    BY <2>1, QuotaByFewer DEF QuotaKept, Counted
<1>7. ASSUME NEW r \in Runs, Frees(r) PROVE QuotaKept'
  <2>1. ASSUME NEW g \in Crew, NEW n \in Nights PROVE Counted(g, n)' \subseteq Counted(g, n)
    BY <1>7 DEF Counted, Running, CrewInv, CrewTypes1, RunsTypeOK, Frees, register
  <2> QED
    BY <2>1, QuotaByFewer DEF QuotaKept, Counted
<1>8. ASSUME NightFalls PROVE QuotaKept'
  <2>1. ASSUME NEW g \in Crew, NEW n \in Nights PROVE Counted(g, n)' \subseteq Counted(g, n)
    BY <1>8 DEF Counted, Running, CrewInv, CrewTypes1, RunsTypeOK, NightFalls
  <2> QED
    BY <2>1, QuotaByFewer DEF QuotaKept, Counted
<1>9. ASSUME CrewRestarts PROVE QuotaKept'
  <2>1. ASSUME NEW g \in Crew, NEW n \in Nights PROVE Counted(g, n)' \subseteq Counted(g, n)
    BY <1>9 DEF Counted, Running, CrewInv, CrewTypes1, RunsTypeOK, CrewRestarts, RunsLost
  <2> QED
    BY <2>1, QuotaByFewer DEF QuotaKept, Counted
<1>10. ASSUME RowStep PROVE QuotaKept'
  <2>1. ASSUME NEW g \in Crew, NEW n \in Nights PROVE Counted(g, n)' \subseteq Counted(g, n)
    BY <1>10 DEF Counted, Running, CrewInv, CrewTypes1, RunsTypeOK, RowStep, register
  <2> QED
    BY <2>1, QuotaByFewer DEF QuotaKept, Counted
<1> QED
  BY <1>1, <1>2, <1>3, <1>4, <1>5, <1>6, <1>7, <1>8, <1>9, <1>10 DEF CrewStep, CrewGoes

-----------------------------------------------------------------------------
(***************************************************************************)
(* The refinement: every proposal moves as ProposalLifecycle lets it.      *)
(***************************************************************************)
Follows == \A p \in Proposals : \/ proposal'[p] = proposal[p]
                               \/ proposal'[p] \in Lifecycle!Successors(proposal[p])

LEMMA WritesFollow ==
  ASSUME CrewTypes1
  PROVE  /\ proposal' = proposal => Follows
         /\ \A f \in Crew : proposal' = Expired(f) => Follows
         /\ \A S : proposal' = Superseded(S) => Follows
         /\ \A f \in Crew, r \in Runs : Proposes(f, r) => Follows
<1> USE
  DEF Follows, CrewTypes1, Lifecycle!Successors, Lifecycle!Pending, Lifecycle!Closed,
            Lifecycle!Decidable
<1>1. proposal' = proposal => Follows
  OBVIOUS
<1>2. ASSUME NEW f \in Crew, proposal' = Expired(f) PROVE Follows
  BY <1>2 DEF Expired, Pending
<1>3. ASSUME NEW S, proposal' = Superseded(S) PROVE Follows
  BY <1>3 DEF Superseded
<1>4. ASSUME NEW f \in Crew, NEW r \in Runs, Proposes(f, r) PROVE Follows
  BY <1>4 DEF Proposes
<1> QED
  BY <1>1, <1>2, <1>3, <1>4

LEMMA StepFollows ==
  ASSUME CrewTypes1, NEW f, NEW p, NEW h, Step(f, p, h)
  PROVE  Follows
<1>1. \A q \in Proposals : q = p => proposal[q] \in {"proposed", "approved"}
  <2>1. CASE p = Nobody
    BY <2>1, CrewTypes
  <2>2. CASE p # Nobody
    BY <2>2 DEF Step, Pending, Lifecycle!Pending
  <2> QED
    BY <2>1, <2>2
<1>2. \A q \in Proposals : proposal'[q] = IF q = p THEN "executed" ELSE proposal[q]
  BY DEF Step
<1> QED
  BY <1>1, <1>2 DEF Follows, Lifecycle!Successors, Lifecycle!Closed

LEMMA EveryStepFollows ==
  ASSUME CrewInv, CrewTypes1, [Next]_vars
  PROVE  Follows
<1>1. ASSUME Tick PROVE Follows
  BY <1>1, WritesFollow DEF Tick, Begins
<1>2. ASSUME ByHand PROVE Follows
  BY <1>2, WritesFollow DEF ByHand, Begins
<1>3. ASSUME Dedupe PROVE Follows
  BY <1>3, WritesFollow DEF Dedupe, Supersede
<1>4. ASSUME Judged PROVE Follows
  BY <1>4, WritesFollow DEF Judged, Supersede
<1>5. ASSUME NextRound PROVE Follows
  BY <1>5, WritesFollow DEF NextRound, fellows
<1>6. ASSUME Planning PROVE Follows
  BY <1>6, WritesFollow DEF Planning, fellows
<1>7. ASSUME SecondJudging PROVE Follows
  BY <1>7, WritesFollow DEF SecondJudging, fellows
<1>8. ASSUME Closes PROVE Follows
  BY <1>8, WritesFollow DEF Closes, fellows
<1>9. ASSUME JudgedSame PROVE Follows
  BY <1>9, WritesFollow DEF JudgedSame, Weighed, Supersede
<1>10. ASSUME Execute PROVE Follows
  BY <1>10, WritesFollow, StepFollows DEF Execute, Weighed
<1>11. ASSUME Refused PROVE Follows
  BY <1>11, WritesFollow DEF Refused, Weighed
<1>12. ASSUME Hears PROVE Follows
  BY <1>12, WritesFollow DEF Hears, fellows
<1>13. ASSUME NEW f \in Crew, PassOver(f) PROVE Follows
  BY <1>13, WritesFollow DEF PassOver, fellows
<1>14. ASSUME NEW f \in Crew, PlansFor(f) PROVE Follows
  BY <1>14, WritesFollow DEF PlansFor, Plan
<1>15. ASSUME NEW f \in Crew, PlansNothing(f) PROVE Follows
  BY <1>15, WritesFollow DEF PlansNothing, PlanSkipped
<1>16. ASSUME NEW p \in Proposals, Covered(Author[p], p) PROVE Follows
  BY <1>16, WritesFollow DEF Covered, Supersede
<1>17. ASSUME NEW p \in Proposals, Weigh(Author[p], p) PROVE Follows
  BY <1>17, WritesFollow DEF Weigh, fellows
<1>18. ASSUME Restart PROVE Follows
  BY <1>18, WritesFollow DEF Restart, CrewRestarts
<1>19. ASSUME NEW f \in Crew, PlanByHand(f) PROVE Follows
  BY <1>19, WritesFollow DEF PlanByHand, Plan, PlanSkipped
<1>20. ASSUME NEW f \in Crew, NEW p \in Of(f) \cup {Nobody}, NEW h \in BOOLEAN, StepByHand(f, p, h) PROVE Follows
  BY <1>20, WritesFollow, StepFollows DEF StepByHand
<1>21. ASSUME NEW f \in Crew, Pause(f) PROVE Follows
  BY <1>21, WritesFollow DEF Pause
<1>22. ASSUME NEW f \in Crew, Resume(f) PROVE Follows
  BY <1>22, WritesFollow DEF Resume
<1>23. ASSUME NEW f \in Crew, Retire(f) PROVE Follows
  BY <1>23, WritesFollow
    DEF Retire, Pending, Follows, CrewTypes1, Lifecycle!Successors, Lifecycle!Pending,
      Lifecycle!Closed, Lifecycle!Decidable
<1>24. ASSUME NEW f \in Crew, Remove(f) PROVE Follows
  BY <1>24, WritesFollow DEF Remove
<1>25. ASSUME NEW f \in Crew, SkipTonight(f) PROVE Follows
  BY <1>25, WritesFollow DEF SkipTonight
<1>26. ASSUME NEW f \in Crew, Wake(f) PROVE Follows
  BY <1>26, WritesFollow DEF Wake
<1>27. ASSUME NEW p \in Proposals, NEW s \in Lifecycle!Decidable, Decide(p, s) PROVE Follows
  BY <1>27, WritesFollow
    DEF Decide, Follows, CrewTypes1, Lifecycle!Successors, Lifecycle!Pending,
      Lifecycle!Closed, Lifecycle!Decidable
<1>28. ASSUME NEW k \in Kinds, OtherStarts(k) PROVE Follows
  BY <1>28, WritesFollow DEF OtherStarts, Stays
<1>29. ASSUME NightFalls PROVE Follows
  BY <1>29, WritesFollow DEF NightFalls
<1>30. ASSUME NEW r \in Runs, AdmitRun(r) PROVE Follows
  BY <1>30, WritesFollow DEF AdmitRun, fellows
<1>31. ASSUME NEW r \in Runs, ReadingFiled(r) PROVE Follows
  <2>1. what[r].by \in Crew
    BY <1>31 DEF ReadingFiled, CrewInv, HandlerLast
  <2> QED
    BY <1>31, <2>1, WritesFollow DEF ReadingFiled
<1>32. ASSUME NEW r \in Runs, Frees(r) PROVE Follows
  BY <1>32, WritesFollow DEF Frees
<1>33. ASSUME NEW r \in Runs, NEW ok \in BOOLEAN, RunEnds(r, ok) PROVE Follows
  <2>1. CASE kind[r] = "plan"
    <3>1. what[r].by \in Crew
      BY <2>1 DEF CrewInv, Whose
    <3> QED
      BY <1>33, <2>1, <3>1, WritesFollow
        DEF RunEnds, StepEnds, PlanUnheard, PlanRetried, PlanFails, OtherEnds,
          PlanAnswers, Stays
  <2>2. CASE kind[r] # "plan"
    BY <1>33, <2>2, WritesFollow
      DEF RunEnds, StepEnds, PlanUnheard, PlanRetried, PlanFails, OtherEnds,
        PlanAnswers, Stays
  <2> QED
    BY <2>1, <2>2
<1>34. CASE UNCHANGED vars
  BY <1>34, WritesFollow DEF vars, fellows
<1>35. CASE ShiftStep
  BY <1>35, <1>3, <1>4, <1>5, <1>6, <1>7, <1>8, <1>9, <1>10, <1>11, <1>12, <1>13,
      <1>14, <1>15, <1>16, <1>17, CrewTypes
    DEF ShiftStep
<1>36. CASE Request /\ UNCHANGED shift
  <2>1. ASSUME NEW f \in Crew, \/ PlanByHand(f) \/ Pause(f) \/ Resume(f) \/ Retire(f)
                               \/ Remove(f) \/ SkipTonight(f) \/ Wake(f)
        PROVE  Follows
    BY <2>1, <1>19, <1>21, <1>22, <1>23, <1>24, <1>25, <1>26
  <2>2. ASSUME NEW f \in Crew, NEW p \in Of(f) \cup {Nobody}, NEW h \in BOOLEAN, StepByHand(f, p, h)
        PROVE  Follows
    BY <2>2, <1>20
  <2> QED
    BY <1>36, <2>1, <2>2, <1>27, <1>28 DEF Request
<1>37. CASE \E r \in Runs : RunStep(r) /\ UNCHANGED shift
  BY <1>37, <1>30, <1>31, <1>32, <1>33 DEF RunStep
<1> QED
  BY <1>1, <1>2, <1>18, <1>29, <1>34, <1>35, <1>36, <1>37 DEF Next

-----------------------------------------------------------------------------
(***************************************************************************)
(* Whom the shift awaits.  A run it waits for is under way, or it is over  *)
(* and, unless its record was evicted before it could be settled, somebody *)
(* answers for it: its handler is at work, or waits for the run that was   *)
(* started as its retry.                                                   *)
(***************************************************************************)
Retrying(r) == {q \in Runs : what[q].retries = r}

Answered(r) == \/ r \in heard
               \/ handler[r] \in {"reads", "notes"}
               \/ handler[r] = "retried" /\ Retrying(r) # {}

Answers(r) == /\ what[r].by \in Crew
              /\ Running(r) \/ (Over(r) /\ (r \in ledger => Answered(r)))

LedgerOver == \A r \in ledger : Over(r)

\* A run is the retry of an earlier one, which is not a retry itself.
RetryOnce ==
  \A q \in Runs : LET r == what[q].retries IN
    r <= count /\ (r \in Runs => what[r].retries = NoRun)

Awaiting == at = "awaits" => /\ waits \in Runs /\ Answers(waits)
                             /\ \A q \in Retrying(waits) : Answers(q)

AnswerInv == LedgerOver /\ RetryOnce /\ Awaiting

\* What a step of the crew leaves of the answers.
AnswersKept ==
  /\ LedgerOver' /\ RetryOnce'
  /\ \A r \in Runs : Answers(r) => Answers(r)'
  /\ \A q \in Runs : what'[q] = what[q] \/ (Answers(q)' /\ what[q] = NoJob)

\* A run that begins is nobody's, or a Fellow's, and then a retry of one of E at most.
BegunFor(q, E) ==
  what'[q] = what[q] \/
    /\ what'[q].by \in Crew
    /\ \/ what'[q].retries = NoRun
       \/ what'[q].retries \in E \cap Runs /\ what[what'[q].retries].retries = NoRun

\* A step of the register, with the runs that end in E and those that begin in B.
LEMMA MovesAnswer ==
  ASSUME CrewInv, LedgerOver, RetryOnce, NEW E, NEW B, NEW h, Moves(E, B, h),
         heard \subseteq heard', what' \in [Runs -> Job],
         \A q \in Runs \ B : what'[q] = what[q],
         \A q \in B : BegunFor(q, E),
         \A q \in Runs \ E : handler'[q] = handler[q],
         \A q \in E \cap Runs : what[q].by \in Crew /\ q \in ledger' => Answered(q)'
  PROVE  AnswersKept
<1> USE DEF CrewInv
<1>1. \A q \in B : /\ q \in Runs /\ q = Next1 /\ q > count /\ stage[q] = "none" /\ what[q] = NoJob
                   /\ q \notin ledger /\ what[q].by = Nobody
  <2>1. \A q \in B : q \in Runs /\ q = Next1 /\ stage[q] = "none" /\ what[q] = NoJob
                     /\ q \notin ledger /\ what[q].by = Nobody
    BY FreshRuns
  <2> QED BY <2>1, CountFacts DEF Next1
<1>2. /\ NoJob.retries = NoRun /\ NoRun \notin Runs
      /\ count \in Nat /\ count' \in Nat /\ count <= count' /\ \A q \in Runs : q \in Nat
  <2>1. count' = count \/ count' = Next1
    BY DEF Moves
  <2> QED BY <2>1, CountFacts DEF NoJob, Next1
<1>3. LedgerOver'
  <2> SUFFICES ASSUME NEW r \in ledger' PROVE Over(r)'
    BY DEF LedgerOver
  <2>1. r \in Runs
    BY DEF Moves, RunsTypeOK
  <2> QED BY <2>1, <1>1 DEF Moves, LedgerOver, Over
<1>4. RetryOnce'
  <2> SUFFICES ASSUME NEW q \in Runs
               PROVE  /\ what'[q].retries <= count'
                      /\ what'[q].retries \in Runs => what'[what'[q].retries].retries = NoRun
    BY DEF RetryOnce
  <2>1. \A r \in E \cap Runs : r \notin B /\ r <= count
    BY <1>1, <1>2 DEF Moves, Numbered
  <2>2. CASE what'[q] = what[q]
    <3>1. what[q].retries \in Runs \cup {NoRun} /\ what[q].retries <= count
          /\ (what[q].retries \in Runs => what[what[q].retries].retries = NoRun)
      BY DEF RetryOnce, CrewTypes1, Job
    <3>2. what[q].retries \notin B
      BY <3>1, <1>1, <1>2
    <3> QED BY <2>2, <3>1, <3>2, <1>2 DEF NoRun
  <2>3. CASE q \in B /\ what'[q] # what[q]
    <3> USE DEF BegunFor
    <3>1. CASE what'[q].retries = NoRun
      BY <3>1, <1>2 DEF NoRun
    <3>2. CASE what'[q].retries \in E \cap Runs /\ what[what'[q].retries].retries = NoRun
      BY <3>2, <2>1, <1>2
    <3> QED BY <2>3, <3>1, <3>2
  <2> QED BY <2>2, <2>3
<1>5. \A q \in Runs : what'[q] = what[q] \/ (Answers(q)' /\ what[q] = NoJob)
  BY <1>1 DEF Moves, Answers, Running, BegunFor
<1>6. ASSUME NEW r \in Runs, Answers(r) PROVE Answers(r)'
  <2>1. r \notin B /\ what'[r] = what[r] /\ what[r].by \in Crew
    BY <1>1, <1>6, CrewTypes DEF Answers
  <2>2. CASE r \in E
    BY <2>1, <2>2 DEF Answers, Moves, Over
  <2>3. CASE r \notin E
    <3>1. stage'[r] = stage[r] /\ (r \in ledger' => r \in ledger) /\ handler'[r] = handler[r]
      BY <2>1, <2>3 DEF Moves
    <3>2. Retrying(r) # {} => Retrying(r)' # {}
      BY <1>1, <1>2 DEF Retrying
    <3> QED BY <2>1, <3>1, <3>2, <1>6 DEF Answers, Answered, Running, Over
  <2> QED BY <2>2, <2>3
<1> QED BY <1>3, <1>4, <1>5, <1>6 DEF AnswersKept

\* A run ends, and what the runs are for stays.
\* Run Next1 begins, and of the runs in E, one or none, each has an answer if it ends.
LEMMA BeginningAnswers ==
  ASSUME CrewInv, LedgerOver, RetryOnce, NEW E, NEW h, Moves(E, {Next1}, h), heard' = heard,
         what' \in [Runs -> Job], \A q \in Runs \ {Next1} : what'[q] = what[q], BegunFor(Next1, E),
         \A q \in Runs \ E : handler'[q] = handler[q],
         \A q \in E \cap Runs : what[q].by \in Crew /\ q \in ledger' => Answered(q)'
  PROVE  AnswersKept
<1>1. PICK B : B = {Next1}
  OBVIOUS
<1>2. \A q \in B : BegunFor(q, E)
  <2> SUFFICES ASSUME NEW q \in B PROVE BegunFor(q, E)
    OBVIOUS
  <2>1. q = Next1
    BY <1>1
  <2> QED BY <2>1
<1>3. Moves(E, B, h) /\ heard \subseteq heard' /\ \A q \in Runs \ B : what'[q] = what[q]
  BY <1>1
<1> QED BY ONLY CrewInv, LedgerOver, RetryOnce, <1>2, <1>3, what' \in [Runs -> Job],
               \A q \in Runs \ E : handler'[q] = handler[q],
               \A q \in E \cap Runs : what[q].by \in Crew /\ q \in ledger' => Answered(q)',
               MovesAnswer

LEMMA EndingAnswers ==
  ASSUME CrewInv, LedgerOver, RetryOnce, NEW r \in Runs, NEW B, Moves({r}, B, FALSE),
         what' = what, heard' = heard, \A q \in Runs \ {r} : handler'[q] = handler[q],
         what[r].by \in Crew /\ r \in ledger' => Answered(r)'
  PROVE  AnswersKept
<1>1. what' \in [Runs -> Job]
  BY DEF CrewInv, CrewTypes1
<1>2. \A q \in {r} \cap Runs : what[q].by \in Crew /\ q \in ledger' => Answered(q)'
  OBVIOUS
<1>3. \A q \in B : BegunFor(q, {r})
  BY DEF BegunFor
<1> QED BY ONLY CrewInv, LedgerOver, RetryOnce, Moves({r}, B, FALSE), what' = what,
    heard' = heard,
               \A q \in Runs \ {r} : handler'[q] = handler[q], <1>1, <1>2, <1>3, MovesAnswer

\* A step that begins and ends no run.
LEMMA StillAnswers ==
  ASSUME CrewInv, LedgerOver, RetryOnce, UNCHANGED <<count, ledger, what>>,
         \A q \in Runs : stage'[q] = stage[q] \/ (Running(q) /\ Running(q)'),
         heard \subseteq heard',
         \A q \in Runs : \/ handler'[q] = handler[q] \/ handler'[q] \in {"reads", "notes"}
                         \/ q \in heard'
  PROVE  AnswersKept
<1>1. LedgerOver' /\ RetryOnce'
  BY DEF LedgerOver, RetryOnce, Over, Running, CrewInv, CrewTypes1, RunsTypeOK
<1>2. ASSUME NEW r \in Runs, Answers(r) PROVE Answers(r)'
  <2>1. Answered(r) => Answered(r)'
    BY DEF Answered, Retrying
  <2> QED BY <1>2, <2>1 DEF Answers, Running, Over
<1> QED BY <1>1, <1>2 DEF AnswersKept

LEMMA StepsAnswer ==
  ASSUME CrewInv, LedgerOver, RetryOnce, NEW f \in Crew,
         Plan(f) \/ \E p \in Of(f) \cup {Nobody}, h \in BOOLEAN : Step(f, p, h)
  PROVE  AnswersKept /\ \E r \in Runs : r = Next1 /\ Answers(r)' /\ Retrying(r)' = {}
<1>1. Moves({}, {Next1}, TRUE)
  BY StartsMoves DEF Step, Plan, StepKind, CrewInv, CrewTypes1, Kinds
<1>2. /\ Next1 \in Runs /\ Next1 > count
      /\ NoRun \notin Runs /\ count \in Nat /\ \A q \in Runs : q \in Nat
  <2>1. Next1 \in Runs
    BY <1>1, FreshRuns
  <2> QED BY <2>1, CountFacts DEF Next1, CrewInv
<1>3. /\ what' \in [Runs -> Job] /\ \A q \in Runs \ {Next1} : what'[q] = what[q]
      /\ what'[Next1].by \in Crew /\ what'[Next1].retries = NoRun
      /\ heard' = heard /\ handler' = handler
  <2>1. CASE Plan(f)
    BY <2>1, <1>2, JobTypes DEF Plan, Tracks, CrewInv, CrewTypes1
  <2>2. ASSUME NEW p \in Of(f) \cup {Nobody}, NEW h \in BOOLEAN, Step(f, p, h)
        PROVE  /\ what' \in [Runs -> Job] /\ \A q \in Runs \ {Next1} : what'[q] = what[q]
               /\ what'[Next1].by \in Crew /\ what'[Next1].retries = NoRun
               /\ heard' = heard /\ handler' = handler
    BY <2>2, <1>2, JobTypes DEF Step, Tracks, CrewInv, CrewTypes1, Of
  <2> QED BY <2>1, <2>2
<1>4. AnswersKept
  <2>1. BegunFor(Next1, {})
    BY <1>3 DEF BegunFor
  <2>2. \A q \in {} \cap Runs : what[q].by \in Crew /\ q \in ledger' => Answered(q)'
    OBVIOUS
  <2>3. heard' = heard /\ \A q \in Runs \ {} : handler'[q] = handler[q]
    BY <1>3
  <2> QED BY ONLY CrewInv, LedgerOver, RetryOnce, <1>1, <1>3, <2>1, <2>2, <2>3,
      BeginningAnswers
<1>5. PICK r \in Runs : r = Next1
  BY <1>2
<1>6. Answers(r)'
  <2>1. what'[r].by \in Crew /\ stage'[r] = "queued"
    BY <1>1, <1>3, <1>5 DEF Moves
  <2> QED BY <2>1 DEF Answers, Running
<1>7. Retrying(r)' = {}
  <2> SUFFICES ASSUME NEW q \in Runs PROVE what'[q].retries # r
    BY DEF Retrying
  <2>1. CASE q = Next1
    BY <2>1, <1>2, <1>3, <1>5
  <2>2. CASE q # Next1
    <3>1. what'[q] = what[q] /\ what[q].retries <= count /\ what[q].retries \in Runs \cup {NoRun}
      BY <2>2, <1>3 DEF RetryOnce, CrewInv, CrewTypes1, Job
    <3> QED BY <3>1, <1>2, <1>5
  <2> QED BY <2>1, <2>2
<1> QED BY <1>4, <1>5, <1>6, <1>7

LEMMA OthersAnswer ==
  ASSUME CrewInv, LedgerOver, RetryOnce, NEW k \in Kinds, OtherStarts(k)
  PROVE  AnswersKept
<1>1. Moves({}, {Next1}, FALSE)
  BY StartsMoves DEF OtherStarts, CrewInv, CrewTypes1
<1>2. what' = what /\ heard' = heard /\ handler' = handler
  BY DEF OtherStarts, Stays
<1>3. what' \in [Runs -> Job] /\ BegunFor(Next1, {})
  BY <1>2 DEF CrewInv, CrewTypes1, BegunFor
<1> QED BY <1>1, <1>2, <1>3, BeginningAnswers

\* A run that is settled with a record has a listener; one without is not in the ledger.
LEMMA EndsAnswer ==
  ASSUME CrewInv, LedgerOver, RetryOnce, NEW r \in Runs, NEW ok \in BOOLEAN, RunEnds(r, ok)
  PROVE  AnswersKept
<1>1. r \notin ledger /\ Running(r)
  BY DEF RunEnds, StepEnds, PlanUnheard, PlanAnswers, PlanRetried, PlanFails, OtherEnds,
     Ends, EndsOversized, EndsAndStarts, LedgerOver, Running, Over
<1>2. ASSUME StepEnds(r, ok) PROVE AnswersKept
  <2>1. PICK B \in {{}, {Next1}} : Moves({r}, B, FALSE)
    BY <1>2, EndsMoves, OversizedMoves DEF StepEnds, CrewInv, CrewTypes1
  <2>2. r \in ledger' => r \in board'
    BY <1>1, <1>2 DEF StepEnds, Ends, EndsOversized
  <2>3. what[r].by \in Crew
    BY <1>2 DEF StepEnds, StepKinds, CrewInv, Whose
  <2>4. r \in board' => r \in listener
    BY <1>1, <2>1, <2>3, FreshRuns DEF Moves, CrewInv, Listening, Running
  <2>5. r \in ledger' => handler'[r] = "notes"
    BY <1>2, <2>2, <2>4 DEF StepEnds, CrewInv, CrewTypes1
  <2>6. \A q \in Runs \ {r} : handler'[q] = handler[q]
    BY <1>2 DEF StepEnds, Stays, CrewInv, CrewTypes1
  <2>7. what' = what /\ heard' = heard
    BY <1>2 DEF StepEnds, Stays, Quiet
  <2>8. Answered(r)' \/ r \notin ledger'
    BY <2>5 DEF Answered
  <2> QED BY <2>1, <2>6, <2>7, <2>8, EndingAnswers
<1>3. ASSUME PlanUnheard(r, ok) PROVE AnswersKept
  <2>1. Moves({r}, {}, FALSE)
    BY <1>3, EndsMoves DEF PlanUnheard, CrewInv, CrewTypes1
  <2>2. r \notin ledger'
    BY <1>1, <1>3 DEF PlanUnheard, Ends, Told, CrewInv, Listening, Whose
  <2>3. what' = what /\ heard' = heard /\ handler' = handler
    BY <1>3 DEF PlanUnheard, Stays, Quiet
  <2> QED BY <2>1, <2>2, <2>3, EndingAnswers
<1>4. ASSUME PlanAnswers(r) PROVE AnswersKept
  <2>1. Moves({r}, {}, FALSE)
    BY <1>4, EndsMoves DEF PlanAnswers, CrewInv, CrewTypes1
  <2>2. /\ handler'[r] \in {"reads", "notes"} /\ \A q \in Runs \ {r} : handler'[q] = handler[q]
        /\ what' = what /\ heard' = heard
    BY <1>4 DEF PlanAnswers, Quiet, CrewInv, CrewTypes1
  <2>3. Answered(r)'
    BY <2>2 DEF Answered
  <2> QED BY <2>1, <2>2, <2>3, EndingAnswers
<1>5. ASSUME PlanFails(r, ok) PROVE AnswersKept
  <2>1. Moves({r}, {}, FALSE)
    BY <1>5, EndsMoves DEF PlanFails, CrewInv, CrewTypes1
  <2>2. /\ handler'[r] = "notes" /\ \A q \in Runs \ {r} : handler'[q] = handler[q]
        /\ what' = what /\ heard' = heard
    BY <1>5 DEF PlanFails, Quiet, CrewInv, CrewTypes1
  <2>3. Answered(r)'
    BY <2>2 DEF Answered
  <2> QED BY <2>1, <2>2, <2>3, EndingAnswers
<1>6. ASSUME OtherEnds(r, ok) PROVE AnswersKept
  <2>1. PICK B \in {{}, {Next1}} : Moves({r}, B, FALSE)
    BY <1>6, EndsMoves, OversizedMoves DEF OtherEnds, CrewInv, CrewTypes1
  <2>2. what[r].by \notin Crew
    BY <1>6 DEF OtherEnds, CrewInv, Whose
  <2>3. what' = what /\ heard' = heard /\ handler' = handler
    BY <1>6 DEF OtherEnds, Stays, Quiet
  <2> QED BY <2>1, <2>2, <2>3, EndingAnswers
<1>7. ASSUME PlanRetried(r, ok) PROVE AnswersKept
  <2>1. Moves({r}, {Next1}, TRUE) /\ r # Next1 /\ Next1 \in Runs
    <3>1. Moves({r}, {Next1}, TRUE) /\ r # Next1
      BY <1>7, EndsAndStartsMoves DEF PlanRetried, CrewInv, CrewTypes1, Kinds
    <3> QED BY <3>1, FreshRuns
  <2>2. what[r].by \in Crew /\ what[r].retries = NoRun
    BY <1>7 DEF PlanRetried, CrewInv, Whose
  <2>3. /\ what' \in [Runs -> Job] /\ \A q \in Runs \ {Next1} : what'[q] = what[q]
        /\ what'[Next1].by \in Crew /\ what'[Next1].retries = r
    BY <1>7, <2>1, <2>2, JobTypes DEF PlanRetried, Tracks, CrewInv, CrewTypes1
  <2>4. /\ handler'[r] = "retried" /\ \A q \in Runs \ {r} : handler'[q] = handler[q]
        /\ heard' = heard
    BY <1>7 DEF PlanRetried, Quiet, CrewInv, CrewTypes1
  <2>5. Answered(r)'
    BY <2>1, <2>3, <2>4 DEF Answered, Retrying
  <2>6. BegunFor(Next1, {r})
    BY <2>2, <2>3 DEF BegunFor
  <2>7. \A q \in {r} \cap Runs : what[q].by \in Crew /\ q \in ledger' => Answered(q)'
    BY <2>5
  <2> QED BY ONLY CrewInv, LedgerOver, RetryOnce, <2>1, <2>3, <2>4, <2>6, <2>7,
      BeginningAnswers
<1> QED BY <1>2, <1>3, <1>4, <1>5, <1>6, <1>7 DEF RunEnds

LEMMA GoesAnswer ==
  ASSUME CrewInv, LedgerOver, RetryOnce, CrewGoes
  PROVE  AnswersKept
<1> USE DEF CrewInv
<1>1. CASE RowStep
  BY <1>1, StillAnswers DEF RowStep, register
<1>2. CASE NightFalls
  BY <1>2, StillAnswers DEF NightFalls
<1>3. ASSUME NEW r \in Runs, AdmitRun(r) PROVE AnswersKept
  BY <1>3, StillAnswers DEF AdmitRun, Admit, fellows, Running, CrewTypes1, RunsTypeOK
<1>4. ASSUME NEW r \in Runs, ReadingFiled(r) PROVE AnswersKept
  BY <1>4, StillAnswers DEF ReadingFiled, register, CrewTypes1
<1>5. ASSUME NEW r \in Runs, Frees(r) PROVE AnswersKept
  BY <1>5, StillAnswers DEF Frees, register, CrewTypes1
<1> QED
  BY <1>1, <1>2, <1>3, <1>4, <1>5, StepsAnswer, OthersAnswer, EndsAnswer DEF CrewGoes

\* Where the shift may stand when it awaits a run after a step.
LEMMA ShiftAwaits ==
  ASSUME OwnTopic, [Next]_vars, at' = "awaits"
  PROVE  \/ at = "awaits" /\ waits' = waits
         \/ waits' = Next1 /\ \E f \in Crew :
              Plan(f) \/ \E p \in Of(f) \cup {Nobody}, h \in BOOLEAN : Step(f, p, h)
<1>1. CASE UNCHANGED shift
  BY <1>1 DEF shift
<1>2. CASE Tick \/ ByHand
  BY <1>2 DEF Tick, ByHand, Begins
<1>3. CASE Restart
  BY <1>3 DEF Restart
<1>4. CASE ShiftStep
  <2>1. CASE Dedupe \/ Judged \/ NextRound \/ Planning \/ SecondJudging \/ Closes
    BY <2>1
      DEF Dedupe, Judged, NextRound, Planning, SecondJudging, Closes, RoundOver,
        LastRound
  <2>2. CASE JudgedSame \/ Refused \/ Hears
    BY <2>2 DEF JudgedSame, Refused, Hears
  <2>3. CASE Execute
    BY <2>3 DEF Execute, Weighed, OwnTopic, Of
  <2>4. ASSUME NEW f \in Crew, PassOver(f) \/ PlansNothing(f) PROVE FALSE
    BY <2>4 DEF PassOver, PlansNothing, Turn
  <2>5. ASSUME NEW f \in Crew, PlansFor(f) PROVE waits' = Next1 /\ Plan(f)
    BY <2>5 DEF PlansFor
  <2>6. ASSUME NEW p \in Proposals, Covered(Author[p], p) \/ Weigh(Author[p], p) PROVE FALSE
    BY <2>6 DEF Covered, Weigh, Turn
  <2> QED BY <1>4, <2>1, <2>2, <2>3, <2>4, <2>5, <2>6 DEF ShiftStep
<1> QED BY <1>1, <1>2, <1>3, <1>4 DEF Next, vars
LEMMA AnswerKept ==
  ASSUME Inv, AnswerInv, [Next]_vars
  PROVE  AnswerInv'
<1> USE DEF Inv
<1>1. CASE CrewGoes
  <2>1. AnswersKept
    BY <1>1, GoesAnswer DEF AnswerInv
  <2>2. ASSUME at' = "awaits" PROVE Awaiting'
    <3>1. CASE at = "awaits" /\ waits' = waits
      <4>1. waits \in Runs /\ Answers(waits)' /\ waits' \in Runs
        BY <2>1, <3>1 DEF AnswerInv, Awaiting, AnswersKept, Answers
      <4>2. ASSUME NEW q \in Runs, what'[q].retries = waits' PROVE Answers(q)'
        BY <2>1, <3>1, <4>2 DEF AnswerInv, Awaiting, AnswersKept, Retrying
      <4> QED BY <4>1, <4>2 DEF Awaiting, Retrying
    <3>2. ASSUME NEW f \in Crew, waits' = Next1,
                 Plan(f) \/ \E p \in Of(f) \cup {Nobody}, h \in BOOLEAN : Step(f, p, h)
          PROVE  Awaiting'
      <4>1. PICK r \in Runs : r = Next1 /\ Answers(r)' /\ Retrying(r)' = {}
        BY <3>2, StepsAnswer DEF AnswerInv
      <4>2. waits' = r
        BY <3>2, <4>1
      <4>3. Answers(waits)'
        BY <4>1, <4>2 DEF Answers, Answered, Running, Over, Retrying
      <4>4. Retrying(waits)' = {}
        BY <4>1, <4>2 DEF Retrying
      <4> QED BY <4>2, <4>3, <4>4 DEF Awaiting
    <3> QED BY <2>2, <3>1, <3>2, ShiftAwaits
  <2> QED BY <2>1, <2>2 DEF AnswersKept, AnswerInv, Awaiting
<1>2. CASE Restart
  <2>1. LedgerOver'
    BY <1>2
      DEF Restart, CrewRestarts, RunsLost, AnswerInv, LedgerOver, Over, Running,
        CrewInv,
       CrewTypes1, RunsTypeOK
  <2>2. RetryOnce'
    BY <1>2 DEF Restart, CrewRestarts, RunsLost, AnswerInv, RetryOnce
  <2>3. Awaiting'
    BY <1>2 DEF Restart, Awaiting
  <2> QED BY <2>1, <2>2, <2>3 DEF AnswerInv
<1> QED BY <1>1, <1>2, GoesOrRestarts DEF CrewInv


(***************************************************************************)
(* Theorems.                                                               *)
(***************************************************************************)

\* Every variable keeps its type, whatever the crew, the bounds and the length of the
\* register: in particular no handler, row or slot is left with a value of another kind.
THEOREM TypeCorrect == Spec => []TypeOK
<1>1. Inv => TypeOK
  BY
    DEF Inv, CrewInv, CrewTypes1, RowTypes, ShiftTypes, TypeOK, FellowsTypeOK,
      Statuses, Nights
<1> QED
  BY <1>1, Invariant, PTL

\* For any crew: a Fellow never has two runs queued or at work, because its slot is held
\* by the one that runs (SlotHeld) from registration to the write of its notebook.
THEOREM OneRunAlways == Spec => []OneRunPerFellow
<1>1. Inv => OneRunPerFellow
  BY CrewTypes DEF Inv, CrewInv, CrewTypes1, SlotHeld, OneRunPerFellow, Job
<1> QED
  BY <1>1, Invariant, PTL

\* For any crew: an active Fellow's slot holds its own run, which is under way or has an
\* answer being read, as long as the register knows that run.
THEOREM ActiveHasRunAlways == Spec => []ActiveHasRun
<1>1. Inv => ActiveHasRun
  BY DEF Inv, CrewInv
<1> QED
  BY <1>1, Invariant, PTL

\* Over any number of nights, crashes and manual shifts, the timer begins at most one shift
\* a night: the row it writes first outlives the process.
THEOREM OneShiftAlways == Spec => []OneShiftPerNight
<1>1. Inv => OneShiftPerNight
  BY DEF Inv, RowKept, ShiftTypes, OneShiftPerNight
<1> QED
  BY <1>1, Invariant, PTL

\* For any crew and any number of proposals: whatever the user, the judge, a plan and a
\* retirement do to a proposal between two awaits, it lives through what ProposalLifecycle
\* allows: no veto is overwritten, no approved topic merged away, no topic run twice.
THEOREM LifecycleImplemented == Spec => ImplementsLifecycle
<1>1. Init => Lifecycle!Init
  BY DEF Init, FellowsInit
<1>2. Inv /\ [Next]_vars => [Lifecycle!Next]_proposal
  <2>1. ASSUME Inv, [Next]_vars PROVE Lifecycle!Next
    <3>1. Inv'
      BY <2>1, InvKept
    <3>2. Follows
      BY <2>1, EveryStepFollows DEF Inv, CrewInv
    <3> QED
      BY <3>1, <3>2 DEF Follows, Lifecycle!Next, Inv, CrewInv, CrewTypes1, Statuses
  <2> QED
    BY <2>1
<1> QED
  BY <1>1, <1>2, Invariant, PTL DEF Spec, Lifecycle!Spec, ImplementsLifecycle

\* For any quota and any number of runs and nights: the research a Fellow does in a night,
\* short of an override, never exceeds its quota, though the ledger that is counted knows
\* nothing of the run under way. The slot closes that gap.
THEOREM QuotaAlways == Spec => []QuotaKept
<1>1. Init => QuotaKept
  <2>1. ASSUME Init, NEW f \in Crew, NEW n \in Nights PROVE Counted(f, n) = {}
    BY <2>1, CrewTypes DEF Init, FellowsInit, RunsInit, NoJob, Counted, Running
  <2>2. ASSUME Init, NEW f \in Crew, NEW n \in Nights PROVE Cardinality(Counted(f, n)) <= Quota[f]
    <3>1. Cardinality(Counted(f, n)) = 0 /\ Quota[f] \in Nat
      BY <2>1, <2>2, FS_EmptySet, CrewTypes
    <3> QED
      BY <3>1
  <2> QED
    BY <2>2 DEF QuotaKept, Counted
<1>2. QuotaKept /\ Inv /\ [Next]_vars => QuotaKept'
  BY IsCrewStep, QuotaStepKept DEF Inv, CrewInv
<1> QED
  BY <1>1, <1>2, Invariant, PTL DEF Spec

(***************************************************************************)
(* The shift never waits for nothing.  While it awaits a run, either it    *)
(* has been heard, or a step is on its way that leads there: that run or   *)
(* its retry is under way, or the handler of one of them has its pages or  *)
(* its retry's answer to take.  The one exception is a run that ended      *)
(* after its record was evicted (maintenance.ts:1475), of which nobody     *)
(* will hear.                                                              *)
(***************************************************************************)
Unheard(r) == Over(r) /\ r \notin ledger

ShiftGoesOn ==
  at = "awaits" =>
    \/ waits \in heard
    \/ \E r \in {waits} \cup Retrying(waits) :
         \/ Running(r) \/ Unheard(r)
         \/ handler[r] \in {"reads", "notes"}
         \/ handler[r] = "retried" /\ \E q \in heard : what[q].retries = r

THEOREM AwaitedAnswers == Spec => []ShiftGoesOn
<1>1. Init => AnswerInv
  <2>1. ASSUME Init, NEW q \in Runs PROVE what[q].retries = 0 /\ count = 0 /\ 0 \notin Runs
    BY <2>1, RunBounds DEF Init, FellowsInit, RunsInit, NoJob, NoRun, Runs
  <2>2. ASSUME Init PROVE RetryOnce
    <3>1. count = 0
      BY <2>2 DEF Init, RunsInit
    <3> QED BY <2>1, <2>2, <3>1 DEF RetryOnce
  <2> QED BY <2>2 DEF Init, RunsInit, AnswerInv, LedgerOver, Awaiting
<1>2. Inv /\ AnswerInv /\ [Next]_vars => AnswerInv'
  BY AnswerKept
<1>3. AnswerInv => ShiftGoesOn
  <2> SUFFICES ASSUME AnswerInv, at = "awaits" PROVE ShiftGoesOn
    BY DEF ShiftGoesOn
  <2>1. /\ waits \in Runs /\ Answers(waits) /\ \A q \in Retrying(waits) : Answers(q)
        /\ \A q \in Retrying(waits) : Retrying(q) = {}
    BY DEF AnswerInv, Awaiting, RetryOnce, Retrying, NoRun, Runs
  <2>2. CASE handler[waits] = "retried"
    <3>1. CASE Running(waits) \/ Unheard(waits) \/ waits \in heard
      BY <3>1 DEF ShiftGoesOn
    <3>2. CASE Retrying(waits) # {}
      <4>1. PICK q \in Runs : q \in Retrying(waits) /\ what[q].retries = waits
        BY <3>2 DEF Retrying
      <4>2. Running(q) \/ Unheard(q) \/ q \in heard \/ handler[q] \in {"reads", "notes"}
        BY <2>1, <4>1 DEF Answers, Answered, Unheard
      <4> QED BY <2>2, <4>1, <4>2 DEF ShiftGoesOn
    <3> QED BY <2>1, <2>2, <3>1, <3>2 DEF Answers, Answered, Unheard
  <2>3. CASE handler[waits] # "retried"
    BY <2>1, <2>3 DEF Answers, Answered, ShiftGoesOn, Unheard
  <2> QED BY <2>2, <2>3
<1> QED BY <1>1, <1>2, <1>3, Invariant, PTL DEF Spec

=============================================================================
