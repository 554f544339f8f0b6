----------------------------- MODULE NightShift -----------------------------
(***************************************************************************)
(* The night shift (shift.ts): one pass over the crew per night, which     *)
(* merges topics two Fellows share, runs what was left standing, plans for *)
(* the next night, and runs the plans of the Fellows that need no consent. *)
(* It awaits every run and every verdict of the judge, and meanwhile the   *)
(* user decides, skips, pauses and retires.                                *)
(*                                                                         *)
(* A round takes its list of Fellows once and goes through it; the shift   *)
(* is at `stage` of `part`:                                                *)
(*   "opens"   the row of the night is written, the reading is filed       *)
(*   "judges"  the judge is asked about pairs of pending topics            *)
(*   "turns"   it is somebody's turn                                       *)
(*   "weighs"  the judge is asked whether a topic was covered tonight      *)
(*   "awaits"  a run it started has not been heard of                      *)
(***************************************************************************)
EXTENDS Fellows

CONSTANT MaxRounds  \* MAX_ROUNDS

ASSUME RoundBound == MaxRounds \in Nat \ {0}

VARIABLES
  at,       \* the shift's stage, "off" when none runs
  part,     \* "veto", "plan" or "auto": which of its three passes
  cycle,    \* the night it is for
  todo,     \* Fellows the round has yet to come to
  turn,     \* whose topic is weighed, or whose run is awaited
  pick,     \* the topic weighed
  firm,     \* whether it was approved when it was picked
  waits,    \* the run awaited
  doomed,   \* topics the judge may merge: pending, not approved when asked
  ran,      \* Fellows with a good run tonight (executed)
  moved,    \* the round started something
  rounds,   \* rounds of this part so far
  reset,    \* "no", "due" or "waited": the wait for the plan's window
  rows,     \* per night: its row, "none", "open" or "closed": survives a crash
  timed     \* history, per night: shifts its timer started

shift == <<at, part, cycle, todo, turn, pick, firm, waits, doomed, ran, moved, rounds,
           reset, rows, timed>>
vars  == <<register, fellows, shift>>
crew  == <<skip, born, inFlight, what, handler, heard, night>>  \* fellows, but for a merge

At     == {"off", "opens", "judges", "turns", "weighs", "awaits"}
Parts  == {"veto", "plan", "auto"}
Nights == 1..MaxNights

Init ==
  /\ RunsInit /\ FellowsInit
  /\ at = "off" /\ part = "veto" /\ cycle = 0 /\ todo = {}
  /\ turn = Nobody /\ pick = Nobody /\ firm = FALSE /\ waits = NoRun
  /\ doomed = {} /\ ran = {} /\ moved = FALSE /\ rounds = 0 /\ reset = "no"
  /\ rows = [n \in Nights |-> "none"] /\ timed = [n \in Nights |-> 0]

TypeOK ==
  /\ RunsTypeOK /\ FellowsTypeOK
  /\ at \in At /\ part \in Parts /\ cycle \in 0..MaxNights /\ todo \subseteq Crew
  /\ turn \in Crew \cup {Nobody} /\ pick \in Proposals \cup {Nobody} /\ firm \in BOOLEAN
  /\ waits \in Runs \cup {NoRun} /\ doomed \subseteq Proposals /\ ran \subseteq Crew
  /\ moved \in BOOLEAN /\ rounds \in 0..MaxRounds /\ reset \in {"no", "due", "waited"}
  /\ rows \in [Nights -> {"none", "open", "closed"}] /\ timed \in [Nights -> Nat]

-----------------------------------------------------------------------------
\* Mutant: the row is only written when the shift closes.
BeginsUnrecorded ==
  /\ at = "off"
  /\ at' = "opens" /\ cycle' = night
  /\ part' = "veto" /\ ran' = {} /\ rounds' = 0 /\ reset' = "no" /\ moved' = FALSE
  /\ UNCHANGED <<register, crew, state, proposal, rows, todo, turn, pick, firm, waits, doomed>>

\* run: one shift at a time; its row is written before anything is awaited.
Begins ==
  /\ at = "off"
  /\ at' = "opens" /\ cycle' = night
  /\ rows' = [rows EXCEPT ![night] = "open"]
  /\ part' = "veto" /\ ran' = {} /\ rounds' = 0 /\ reset' = "no" /\ moved' = FALSE
  /\ UNCHANGED <<register, crew, state, proposal, todo, turn, pick, firm, waits, doomed>>

\* tick: the timer begins a shift when the night has no row yet.
Tick ==
  /\ rows[night] = "none"
  /\ Begins /\ NoEvent
  /\ timed' = [timed EXCEPT ![night] = @ + 1]

\* By hand a shift begins at any hour, and again.
ByHand == Begins /\ Event /\ UNCHANGED timed

AllPending == UNION {Pending(f) : f \in {f \in Crew : state[f] \notin {"retired", "gone"}}}
Loose      == {p \in AllPending : proposal[p] = "proposed"}

\* Each topic is compared with those kept before it, by other Fellows: the first stays.
Asks(kept) ==
  \E first \in IF kept = {} THEN {Nobody} ELSE kept :
    doomed' = {p \in kept \cap Loose : p # first /\ \E q \in kept : Author[q] # Author[p]}

\* The lexical pass: a topic close to one that another Fellow keeps is merged.
Dedupe ==
  /\ at = "opens"
  /\ \E S \in SUBSET Loose :
       /\ \A p \in S : \E q \in AllPending \ S : Author[q] # Author[p]
       /\ Supersede(S) /\ Asks(AllPending \ S)
  /\ at' = "judges"
  /\ UNCHANGED <<register, crew, events, part, cycle, todo, turn, pick, firm, waits, ran, moved,
                 rounds, reset, rows, timed>>

Awake == {f \in Crew : state[f] \notin Off}

\* The Fellows a round comes to; a resting one is planned for if it has a trigger.
Listed(k, T) ==
  LET able == {f \in Awake : state[f] \notin {"blocked", "active"}} IN
  IF k = "plan" THEN {f \in able : state[f] = "resting" => f \in T}
  ELSE {f \in able : (Autonomy[f] = "auto") = (k = "auto") /\ skip[f] < cycle}

\* The verdicts arrive, from the first pass and, after planning, the second.
Judged ==
  /\ at = "judges"
  /\ \E S \in SUBSET doomed : Supersede(S)
  /\ doomed' = {} /\ at' = "turns" /\ moved' = TRUE /\ rounds' = 0
  /\ part' = IF part = "veto" THEN "veto" ELSE "auto"
  /\ UNCHANGED <<register, crew, events, cycle, todo, turn, pick, firm, waits, ran, reset, rows, timed>>

-----------------------------------------------------------------------------
(***************************************************************************)
(* Rounds. A part goes on in rounds while they start something, and once   *)
(* more after a wait when the plan's window was the only thing in the way. *)
(***************************************************************************)
RoundOver == at = "turns" /\ todo = {}

Lists(k) == \E T \in SUBSET {f \in Crew : k = "plan" /\ state[f] = "resting"} : todo' = Listed(k, T)

\* Mutant: rounds without a bound.
NextRoundAlways ==
  /\ RoundOver /\ part # "plan"
  /\ moved \/ (part = "veto" /\ reset = "due")
  /\ reset' = IF moved THEN (IF reset = "due" THEN "no" ELSE reset) ELSE "waited"
  /\ Lists(part) /\ moved' = FALSE /\ rounds' = rounds + 1
  /\ UNCHANGED <<register, fellows, at, part, cycle, turn, pick, firm, waits, doomed, ran, rows, timed>>

NextRound ==
  /\ RoundOver /\ part # "plan" /\ rounds < MaxRounds
  /\ moved \/ (part = "veto" /\ reset = "due")
  /\ reset' = IF moved THEN (IF reset = "due" THEN "no" ELSE reset) ELSE "waited"
  /\ Lists(part) /\ moved' = FALSE /\ rounds' = rounds + 1
  /\ UNCHANGED <<register, fellows, at, part, cycle, turn, pick, firm, waits, doomed, ran, rows, timed>>

LastRound == /\ RoundOver /\ part # "plan"
             /\ rounds = MaxRounds \/ ~moved

Planning ==
  /\ LastRound /\ part = "veto"
  /\ part' = "plan" /\ Lists("plan") /\ moved' = FALSE /\ rounds' = 0 /\ reset' = "waited"
  /\ UNCHANGED <<register, fellows, at, cycle, turn, pick, firm, waits, doomed, ran, rows, timed>>

SecondJudging ==
  /\ RoundOver /\ part = "plan"
  /\ at' = "judges" /\ Asks(AllPending)
  /\ UNCHANGED <<register, fellows, part, cycle, todo, turn, pick, firm, waits, ran, moved,
                 rounds, reset, rows, timed>>

Closes ==
  /\ LastRound /\ part = "auto"
  /\ at' = "off" /\ rows' = [rows EXCEPT ![cycle] = "closed"]
  /\ part' = "veto" /\ cycle' = 0 /\ ran' = {} /\ moved' = FALSE /\ rounds' = 0 /\ reset' = "no"
  /\ UNCHANGED <<register, fellows, todo, turn, pick, firm, waits, doomed, timed>>

-----------------------------------------------------------------------------
(***************************************************************************)
(* A Fellow's turn: executeOne, and planNight.                             *)
(***************************************************************************)
Turn(f) == at = "turns" /\ f \in todo /\ todo' = todo \ {f}

\* runnable: approved topics first; nothing undecided for a manual or resting Fellow.
Runnable(f) ==
  LET approved == {p \in Pending(f) : proposal[p] = "approved"} IN
  IF approved # {} THEN approved
  ELSE IF Autonomy[f] = "manual" \/ state[f] = "resting" THEN {} ELSE Pending(f)

others == <<part, cycle, rounds, rows, timed>>   \* what a turn leaves alone

\* Nothing runnable, only drift, or no room left before the window ends.
PassOver(f) ==
  /\ Turn(f)
  /\ UNCHANGED <<register, fellows, others, at, turn, pick, firm, waits, doomed, ran, moved, reset>>

\* Another Fellow's run of tonight covers the topic: merged, or held if approved.
Covered(f, p) ==
  /\ Turn(f) /\ part # "plan" /\ p \in Runnable(f) /\ ran \ {f} # {}
  /\ Supersede({p})
  /\ UNCHANGED <<register, crew, events, others, at, turn, pick, firm, waits, doomed, ran, moved, reset>>

Weigh(f, p) ==
  /\ Turn(f) /\ part # "plan" /\ p \in Runnable(f)
  /\ at' = "weighs" /\ turn' = f /\ pick' = p /\ firm' = (proposal[p] = "approved")
  /\ UNCHANGED <<register, fellows, others, waits, doomed, ran, moved, reset>>

Weighed == at = "weighs" /\ pick' = Nobody /\ firm' = FALSE

\* The judge finds it the same question as a run of tonight.
JudgedSame ==
  /\ Weighed /\ ran \ {turn} # {}
  /\ IF firm THEN UNCHANGED <<state, proposal>> ELSE Supersede({pick})
  /\ at' = "turns" /\ turn' = Nobody
  /\ UNCHANGED <<register, crew, events, others, todo, waits, doomed, ran, moved, reset>>

Execute ==
  /\ Weighed
  /\ \E released \in BOOLEAN : Step(turn, pick, released)
  /\ NoEvent
  /\ at' = "awaits" /\ waits' = Next1
  /\ UNCHANGED <<others, todo, turn, doomed, ran, moved, reset>>

\* The topic is decided, the Fellow off or busy; or the quota or budget is spent.
Refused ==
  /\ Weighed
  /\ IF pick \in Pending(turn) /\ state[turn] \notin Off /\ inFlight[turn] = NoRun
     THEN /\ state' = Becomes(turn, "sleeping")
          /\ reset' = IF Used(turn) < Quota[turn] /\ reset = "no" THEN "due" ELSE reset
     ELSE UNCHANGED <<state, reset>>
  /\ at' = "turns" /\ turn' = Nobody
  /\ UNCHANGED <<register, proposal, crew, events, others, todo, waits, doomed, ran, moved>>

PlansFor(f) ==
  /\ Turn(f) /\ part = "plan"
  /\ Plan(f) /\ NoEvent
  /\ at' = "awaits" /\ turn' = f /\ waits' = Next1
  /\ UNCHANGED <<others, pick, firm, doomed, ran, moved, reset>>

PlansNothing(f) ==
  /\ Turn(f) /\ part = "plan"
  /\ PlanSkipped(f) /\ NoEvent
  /\ UNCHANGED <<others, at, turn, pick, firm, waits, doomed, ran, moved, reset>>

Hears ==
  /\ at = "awaits" /\ waits \in heard
  /\ IF part = "plan" THEN UNCHANGED <<ran, moved>>
     ELSE moved' = TRUE /\ ran' = IF stage[waits] = "done" THEN ran \cup {turn} ELSE ran
  /\ at' = "turns" /\ turn' = Nobody /\ waits' = NoRun
  /\ UNCHANGED <<register, fellows, others, todo, pick, firm, doomed, reset>>

ShiftStep == \/ Dedupe \/ Judged \/ NextRound \/ Planning \/ SecondJudging \/ Closes
             \/ JudgedSame \/ Execute \/ Refused \/ Hears
             \/ \E f \in Crew : PassOver(f) \/ PlansFor(f) \/ PlansNothing(f)
             \/ \E p \in Proposals : Covered(Author[p], p) \/ Weigh(Author[p], p)

-----------------------------------------------------------------------------
\* A crash; the row the shift left open is closed before the next tick.
Restart ==
  /\ Event /\ CrewRestarts
  /\ rows' = [n \in Nights |-> IF rows[n] = "open" THEN "closed" ELSE rows[n]]
  /\ at' = "off" /\ part' = "veto" /\ cycle' = 0 /\ todo' = {} /\ turn' = Nobody
  /\ pick' = Nobody /\ firm' = FALSE /\ waits' = NoRun /\ doomed' = {} /\ ran' = {}
  /\ moved' = FALSE /\ rounds' = 0 /\ reset' = "no"
  /\ UNCHANGED timed

RunStep(r) == AdmitRun(r) \/ ReadingFiled(r) \/ Frees(r) \/ \E ok \in BOOLEAN : RunEnds(r, ok)

Next == \/ Tick \/ ByHand \/ ShiftStep \/ Restart
        \/ (Request \/ NightFalls \/ \E r \in Runs : RunStep(r)) /\ UNCHANGED shift

Spec == Init /\ [][Next]_vars

(***************************************************************************)
(* Fairness: the shift goes on when what it awaits is there, the mutexes   *)
(* are fair, a run ends (at the latest by its timeout), and the handler of *)
(* its end writes its pages.                                               *)
(***************************************************************************)
FairSpec == /\ Spec /\ WF_vars(ShiftStep)
            /\ \A r \in Runs : WF_vars(RunStep(r) /\ UNCHANGED shift)

-----------------------------------------------------------------------------
(***************************************************************************)
(* Properties.                                                             *)
(***************************************************************************)

\* A Fellow never has two runs queued or at work, although a planning run's retry
\* takes over its slot (inFlight.delete in onPlanSettled) and the first attempt's
\* handler returns after it (the comparison in track).
OneRunPerFellow ==
  \A q, r \in Runs : what[q].by = what[r].by /\ what[r].by # Nobody /\ Running(q) /\ Running(r) => q = r

\* "`active` means a run is in flight right now" (reconcileInterrupted), over failures,
\* pauses, retries and restarts: nobody is left active with nothing to wait for. Only a
\* run whose record was dropped leaves its Fellow active.
ActiveHasRun ==
  \A f \in Crew : state[f] = "active" =>
    LET r == inFlight[f] IN
    /\ r # NoRun /\ what[r].by = f
    /\ r \in board => Running(r) \/ handler[r] = "reads"

\* quotaRunsPerDay: of the research a Fellow does in one night, however it is asked for
\* short of an override or a release, no more than its quota is recorded or under way.
QuotaKept ==
  \A f \in Crew, n \in Nights :
    Cardinality({r \in Runs : /\ what[r].by = f /\ what[r].night = n /\ kind[r] = "step"
                              /\ ~what[r].exempt
                              /\ Running(r) \/ r \in ledger}) <= Quota[f]

\* "guards against a second shift after a restart" (shift.ts): the timer begins at most
\* one shift a night, whatever crashes and manual shifts come between.
OneShiftPerNight == \A n \in Nights : timed[n] <= 1

\* The promise of ProposalLifecycle: see there.
ImplementsLifecycle == Lifecycle!Spec

\* A shift that has begun comes to its end, or is ended by a restart.
NightEnds == at # "off" ~> at = "off"

\* "Retired is final" (fellows.ts, pause): what a Fellow is once it is retired.
RetiredIsFinal == [][\A f \in Crew : state[f] = "retired" => state'[f] \in {"retired", "gone"}]_vars

\* "hard cap on steps per day" (docs/agents/SPEC.md): QuotaKept for steps of every kind.
HardCap ==
  \A f \in Crew, n \in Nights :
    Cardinality({r \in Runs : /\ what[r].by = f /\ what[r].night = n /\ kind[r] \in StepKinds
                              /\ ~what[r].exempt
                              /\ Running(r) \/ r \in ledger}) <= Quota[f]
=============================================================================
