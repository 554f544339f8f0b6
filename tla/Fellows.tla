------------------------------ MODULE Fellows ------------------------------
(***************************************************************************)
(* The Fellows (fellows.ts): each is a row with a state, proposes topics   *)
(* in planning runs, and runs one topic at a time. Step, Plan and the      *)
(* handlers of a run's end are the service's own; the rest are the user's  *)
(* requests. A handler first writes the state of the Fellow, then awaits   *)
(* its notebook, and only then frees the Fellow's slot.                    *)
(*                                                                         *)
(* A Fellow has one standing task here. A sleeping Fellow is "resting"     *)
(* when it sleeps `covered` or `stalled`, "sleeping" otherwise.            *)
(***************************************************************************)
EXTENDS MaintenanceRuns

CONSTANTS Crew, Proposals, Nobody,
          Standing,   \* proposals of an earlier night, pending at the start
          Author,     \* the Fellow that makes a proposal
          Deepens,    \* proposals to deepen existing pages (research-expand)
          Autonomy,   \* per Fellow: "manual", "veto" or "auto"
          Quota,      \* quotaRunsPerDay
          KeepNights, \* nights a pending proposal stands before it expires
          MaxNights,  \* bound: nights in a behaviour
          MaxEvents   \* bound: requests and crashes

ASSUME CrewTypes ==
  /\ Standing \subseteq Proposals /\ Deepens \subseteq Proposals
  /\ Author \in [Proposals -> Crew] /\ Nobody \notin Crew \cup Proposals
  /\ Autonomy \in [Crew -> {"manual", "veto", "auto"}] /\ Quota \in [Crew -> Nat]
ASSUME CrewBounds == KeepNights \in Nat /\ MaxNights \in Nat \ {0} /\ MaxEvents \in Nat

VARIABLES
  state,    \* per Fellow: its row's state
  skip,     \* per Fellow: the night it was asked to leave out (skipUntil)
  proposal, \* per proposal: its status
  born,     \* per proposal: the night it was made for
  inFlight, \* per Fellow: the run that holds its slot
  what,     \* per run: whose it is, what for, who asked, in which night
  handler,  \* per run: how far the handler of its end is
  heard,    \* runs whose handler is through (the promise of track)
  night,    \* the cycle
  events

fellows == <<state, skip, proposal, born, inFlight, what, handler, heard, night, events>>

States   == {"proposed", "active", "waiting", "sleeping", "resting", "blocked", "paused", "retired", "gone"}
Off      == {"paused", "retired", "gone"}
Handling == {"none", "reads", "notes", "retried"}

Job   == [by : Crew \cup {Nobody}, topic : Proposals \cup {Nobody}, exempt : BOOLEAN,
          retries : Runs \cup {NoRun}, night : 0..MaxNights]
NoJob == [by |-> Nobody, topic |-> Nobody, exempt |-> FALSE, retries |-> NoRun, night |-> 0]

Lifecycle == INSTANCE ProposalLifecycle

FellowsInit ==
  /\ state = [f \in Crew |-> IF \E p \in Standing : Author[p] = f THEN "waiting" ELSE "proposed"]
  /\ skip = [f \in Crew |-> 0]
  /\ Lifecycle!Init /\ born = [p \in Proposals |-> 0]
  /\ inFlight = [f \in Crew |-> NoRun] /\ what = [r \in Runs |-> NoJob]
  /\ handler = [r \in Runs |-> "none"] /\ heard = {}
  /\ night = 1 /\ events = 0

FellowsTypeOK ==
  /\ state \in [Crew -> States] /\ skip \in [Crew -> 0..MaxNights]
  /\ proposal \in [Proposals -> {"none"} \cup Lifecycle!Decidable \cup Lifecycle!Closed]
  /\ born \in [Proposals -> 0..MaxNights]
  /\ inFlight \in [Crew -> Runs \cup {NoRun}] /\ what \in [Runs -> Job]
  /\ handler \in [Runs -> Handling] /\ heard \subseteq Runs
  /\ night \in 1..MaxNights /\ events \in 0..MaxEvents

-----------------------------------------------------------------------------
Event   == events < MaxEvents /\ events' = events + 1
NoEvent == events' = events

Of(f)      == {p \in Proposals : Author[p] = f}
Pending(f) == {p \in Of(f) : proposal[p] \in Lifecycle!Pending}

\* agents.update writes whatever state it is given; a removed row stays away.
Becomes(f, s) == IF state[f] = "gone" THEN state ELSE [state EXCEPT ![f] = s]

\* Mutant: a run that failed costs no quota.
UsedWell(f) == Cardinality({r \in ledger : /\ what[r].by = f /\ kind[r] = "step"
                                           /\ what[r].night = night /\ stage[r] = "done"})

\* runsThisCycle: research runs of this cycle that are in the ledger; isResearchKind
\* leaves the deepening ones out.
Used(f) == Cardinality({r \in ledger : /\ what[r].by = f /\ kind[r] = "step"
                                       /\ what[r].night = night})

\* Mutant: the gate does not look at the slot.
GateUnslotted(f, k, exempt) ==
  /\ state[f] \notin Off
  /\ k = "plan" \/ exempt \/ Used(f) < Quota[f]

\* gateFor, but for the budget, which may refuse anything at any time. A click may override
\* the quota, and a release suspends it: such a run is exempt.
Gate(f, k, exempt) ==
  /\ state[f] \notin Off
  /\ inFlight[f] = NoRun
  /\ k = "plan" \/ exempt \/ Used(f) < Quota[f]

Tracks(f, p, exempt, retries) ==
  /\ inFlight' = [inFlight EXCEPT ![f] = Next1]
  /\ what' = [what EXCEPT ![Next1] = [by |-> f, topic |-> p, exempt |-> exempt,
                                      retries |-> retries, night |-> night]]

StepKinds   == {"step", "deepen"}
StepKind(p) == IF p \in Deepens THEN "deepen" ELSE "step"

\* execute and step: p is the topic, or Nobody for a topic typed by hand.
Step(f, p, exempt) ==
  /\ Gate(f, StepKind(p), exempt)
  /\ p # Nobody => p \in Pending(f)
  /\ Starts(StepKind(p), TRUE)
  /\ Tracks(f, p, exempt, NoRun)
  /\ state' = Becomes(f, "active")
  /\ proposal' = [q \in Proposals |-> IF q = p THEN "executed" ELSE proposal[q]]
  /\ UNCHANGED <<skip, born, handler, heard, night>>

Expired(f) == [p \in Proposals |->
                 IF p \in Pending(f) /\ born[p] + KeepNights < night THEN "expired" ELSE proposal[p]]

Plan(f) ==
  /\ Gate(f, "plan", FALSE)
  /\ Starts("plan", TRUE)
  /\ Tracks(f, Nobody, FALSE, NoRun)
  /\ state' = Becomes(f, "active")
  /\ proposal' = Expired(f)
  /\ UNCHANGED <<skip, born, handler, heard, night>>

\* Nothing to plan from: the Fellow sleeps, or rests when its task is answered,
\* or stays as it is when there is nothing to deepen.
PlanSkipped(f) ==
  /\ Gate(f, "plan", FALSE)
  /\ \E s \in {"sleeping", "resting", state[f]} : state' = Becomes(f, s)
  /\ proposal' = Expired(f)
  /\ UNCHANGED <<register, skip, born, inFlight, what, handler, heard, night>>

\* Mutant: a merge goes by what was read before the verdict was awaited.
SupersededUnseen(S) == [p \in Proposals |->
                          IF p \in S \cap (UNION {Pending(f) : f \in Crew}) THEN "superseded" ELSE proposal[p]]

\* supersedeProposal looks again: only what is still merely proposed goes.
Superseded(S) == [p \in Proposals |->
                    IF p \in S /\ proposal[p] = "proposed" THEN "superseded" ELSE proposal[p]]

\* A Fellow left without a topic sleeps, if it was waiting.
Dropped(S) == [f \in Crew |->
  IF /\ state[f] = "waiting"
     /\ \E p \in S : Author[p] = f /\ proposal[p] = "proposed"
     /\ \A p \in Of(f) : Superseded(S)[p] \notin Lifecycle!Pending
  THEN "sleeping" ELSE state[f]]

Supersede(S) ==
  /\ proposal' = Superseded(S)
  /\ state' = Dropped(S)

-----------------------------------------------------------------------------
(***************************************************************************)
(* The end of a run. A run that has lost its record ends unheard.          *)
(***************************************************************************)
Stays == UNCHANGED <<state, proposal, born, inFlight, what, handler>>

Quiet == UNCHANGED <<skip, heard, night, events>>

\* onStepSettled: blocked after a failure, unless the pages it deepened were restored.
AfterStep(f, r, ok) == IF ok THEN {"resting", IF Pending(f) # {} THEN "waiting" ELSE "sleeping"}
                       ELSE {"blocked"} \cup {s \in {"sleeping"} : kind[r] = "deepen"}

StepEnds(r, ok) ==
  /\ kind[r] \in StepKinds
  /\ Ends(r, ok) \/ (ok /\ EndsOversized(r, ok))
  /\ LET f == what[r].by IN
       IF r \in listener \cap board'
       THEN /\ \E s \in AfterStep(f, r, ok) : state' = Becomes(f, s)
            /\ handler' = [handler EXCEPT ![r] = "notes"]
            /\ UNCHANGED <<proposal, born, inFlight, what>>
       ELSE Stays
  /\ Quiet

\* What a usable answer does, once its reading is filed.
Proposes(f, r) ==
  \E new \in SUBSET {p \in Of(f) : proposal[p] = "none"} :
    /\ proposal' = [p \in Proposals |->
                      IF p \in new THEN "proposed"
                      ELSE IF p \in Of(f) /\ proposal[p] = "proposed" THEN "superseded" ELSE proposal[p]]
    /\ born' = [p \in Proposals |-> IF p \in new THEN what[r].night ELSE born[p]]
    /\ state' = Becomes(f, IF new # {} \/ \E p \in Of(f) : proposal[p] = "approved"
                           THEN "waiting" ELSE "resting")

PlanUnheard(r, ok) ==
  /\ kind[r] = "plan" /\ Ends(r, ok)
  /\ ~Told(r)
  /\ Stays /\ Quiet

\* With something to read on the list, the list is awaited first.
PlanAnswers(r) ==
  /\ kind[r] = "plan" /\ Ends(r, TRUE)
  /\ Told(r)
  /\ \/ /\ state[what[r].by] # "gone"
        /\ handler' = [handler EXCEPT ![r] = "reads"]
        /\ UNCHANGED <<state, proposal, born>>
     \/ /\ handler' = [handler EXCEPT ![r] = "notes"]
        /\ IF state[what[r].by] = "gone" THEN UNCHANGED <<state, proposal, born>>
                                         ELSE Proposes(what[r].by, r)
  /\ UNCHANGED <<inFlight, what>> /\ Quiet

ReadingFiled(r) ==
  /\ handler[r] = "reads"
  /\ Proposes(what[r].by, r)
  /\ handler' = [handler EXCEPT ![r] = "notes"]
  /\ UNCHANGED <<register, inFlight, what, skip, heard, night, events>>

\* An unusable answer is asked for once more, in the slot of the first.
PlanRetried(r, ok) ==
  LET f == what[r].by IN
  /\ kind[r] = "plan" /\ EndsAndStarts(r, ok, "plan")
  /\ Told(r) /\ what[r].retries = NoRun /\ state[f] \notin Off
  /\ Tracks(f, Nobody, FALSE, r)
  /\ state' = Becomes(f, "active")
  /\ proposal' = Expired(f)
  /\ handler' = [handler EXCEPT ![r] = "retried"]
  /\ UNCHANGED born /\ Quiet

\* Or the retry is refused or skipped, or this was the retry.
PlanFails(r, ok) ==
  LET f == what[r].by IN
  /\ kind[r] = "plan" /\ Ends(r, ok)
  /\ Told(r)
  /\ state' = Becomes(f, "sleeping")
  /\ handler' = [handler EXCEPT ![r] = "notes"]
  /\ inFlight' = IF what[r].retries = NoRun THEN [inFlight EXCEPT ![f] = NoRun] ELSE inFlight
  /\ \/ UNCHANGED proposal
     \/ what[r].retries = NoRun /\ state[f] \notin Off /\ proposal' = Expired(f)
  /\ UNCHANGED <<born, what>> /\ Quiet

\* A run of anybody else, which no Fellow listens to.
OtherEnds(r, ok) ==
  /\ kind[r] \in {"hot", "other", "index"}
  /\ Ends(r, ok) \/ EndsOversized(r, ok)
  /\ Stays /\ Quiet

\* Mutant: only the holder of the slot tells who waits for it.
FreesOwnOnly(r) ==
  /\ \/ handler[r] = "notes"
     \/ handler[r] = "retried" /\ \E q \in heard : what[q].retries = r
  /\ handler' = [handler EXCEPT ![r] = "none"]
  /\ heard' = heard \cup {q \in {r} : inFlight[what[r].by] = r}
  /\ inFlight' = [f \in Crew |-> IF f = what[r].by /\ inFlight[f] = r THEN NoRun ELSE inFlight[f]]
  /\ UNCHANGED <<register, state, skip, proposal, born, what, night, events>>

\* The notebook is written: the slot is freed if it is still this run's.
Frees(r) ==
  /\ \/ handler[r] = "notes"
     \/ handler[r] = "retried" /\ \E q \in heard : what[q].retries = r
  /\ handler' = [handler EXCEPT ![r] = "none"]
  /\ heard' = heard \cup {r}
  /\ inFlight' = [f \in Crew |-> IF f = what[r].by /\ inFlight[f] = r THEN NoRun ELSE inFlight[f]]
  /\ UNCHANGED <<register, state, skip, proposal, born, what, night, events>>

RunEnds(r, ok) == \/ StepEnds(r, ok) \/ PlanUnheard(r, ok) \/ PlanRetried(r, ok)
                  \/ PlanFails(r, ok) \/ OtherEnds(r, ok)
                  \/ (ok /\ PlanAnswers(r))

AdmitRun(r) == Admit(r) /\ UNCHANGED fellows

-----------------------------------------------------------------------------
(***************************************************************************)
(* What the user asks for, at any time.                                    *)
(***************************************************************************)
StepByHand(f, p, exempt) == Event /\ Step(f, p, exempt)

PlanByHand(f) == Event /\ (Plan(f) \/ PlanSkipped(f))

OtherStarts(k) == /\ k \in {"hot", "other", "index"} /\ Event
                  /\ Starts(k, FALSE) /\ Stays /\ UNCHANGED <<skip, heard, night>>

OnlyRows == UNCHANGED <<register, born, inFlight, what, handler, heard, night>>
Asked    == Event /\ OnlyRows

Decide(p, s) ==
  LET f == Author[p] IN
  /\ Asked
  /\ proposal[p] \in Lifecycle!Decidable /\ s \in Lifecycle!Decidable \ {proposal[p]}
  /\ proposal' = [proposal EXCEPT ![p] = s]
  /\ state' = IF state[f] \in Off \cup {"active", "blocked"} THEN state
              ELSE IF Pending(f)' # {} THEN [state EXCEPT ![f] = "waiting"]
              ELSE IF state[f] = "waiting" THEN [state EXCEPT ![f] = "sleeping"] ELSE state
  /\ UNCHANGED skip

Pause(f) ==
  /\ Asked /\ state[f] \notin {"retired", "gone"}
  /\ state' = [state EXCEPT ![f] = "paused"]
  /\ UNCHANGED <<proposal, skip>>

Resume(f) ==
  /\ Asked
  /\ state[f] \in {"paused", "blocked"} \/ (state[f] = "active" /\ inFlight[f] = NoRun)
  /\ state' = [state EXCEPT ![f] = IF Pending(f) # {} THEN "waiting" ELSE "sleeping"]
  /\ UNCHANGED <<proposal, skip>>

Retire(f) ==
  /\ Asked /\ state[f] # "gone"
  /\ state' = [state EXCEPT ![f] = "retired"]
  /\ skip' = [skip EXCEPT ![f] = 0]
  /\ proposal' = [p \in Proposals |-> IF p \in Pending(f) THEN "expired" ELSE proposal[p]]

Remove(f) ==
  /\ OnlyRows /\ NoEvent /\ state[f] = "retired"
  /\ state' = [state EXCEPT ![f] = "gone"]
  /\ UNCHANGED <<proposal, skip>>

\* "Skip tonight", for the night that is or the next one, and its taking back.
SkipTonight(f) ==
  /\ Asked /\ state[f] \notin {"retired", "gone"}
  /\ \E n \in {0, night, night + 1} \cap 0..MaxNights : skip' = [skip EXCEPT ![f] = n]
  /\ UNCHANGED <<state, proposal>>

\* A recap note or an edited intent makes the planner reconsider.
Wake(f) ==
  /\ Asked /\ state[f] = "resting"
  /\ state' = [state EXCEPT ![f] = "sleeping"]
  /\ UNCHANGED <<proposal, skip>>

Request == \/ \E f \in Crew : \/ PlanByHand(f) \/ Pause(f) \/ Resume(f) \/ Retire(f)
                              \/ Remove(f) \/ SkipTonight(f) \/ Wake(f)
                              \/ \E p \in Of(f) \cup {Nobody}, h \in BOOLEAN : StepByHand(f, p, h)
           \/ \E p \in Proposals, s \in Lifecycle!Decidable : Decide(p, s)
           \/ \E k \in Kinds : OtherStarts(k)

NightFalls ==
  /\ night < MaxNights /\ night' = night + 1
  /\ hotToday' = FALSE
  /\ UNCHANGED <<count, stage, kind, board, listener, ledger, state, skip, proposal, born,
                 inFlight, what, handler, heard, events>>

\* Mutant: the restart leaves the rows of the Fellows alone.
CrewRestartsUnreconciled ==
  /\ RunsLost
  /\ inFlight' = [f \in Crew |-> NoRun]
  /\ handler' = [r \in Runs |-> "none"] /\ heard' = {}
  /\ UNCHANGED <<state, skip, proposal, born, what, night>>

\* The process dies and comes back: reconcileInterrupted frees who was active.
CrewRestarts ==
  /\ RunsLost
  /\ inFlight' = [f \in Crew |-> NoRun]
  /\ handler' = [r \in Runs |-> "none"] /\ heard' = {}
  /\ state' = [f \in Crew |-> IF state[f] = "active" THEN "sleeping" ELSE state[f]]
  /\ UNCHANGED <<skip, proposal, born, what, night>>
=============================================================================
