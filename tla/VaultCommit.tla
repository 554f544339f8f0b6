---------------------------- MODULE VaultCommit ----------------------------
(***************************************************************************)
(* How pages get from the vault's working tree into git: the registry of   *)
(* runs that write (run-registry.ts), the commit mutex (util/mutex.ts),    *)
(* the commits of ingest and maintenance runs (queue.ts, maintenance.ts,   *)
(* git.ts), the pass over what they left (reconcile.ts) and the page edits *)
(* of the dashboard (api/routes/pages.ts), in one life of the process.     *)
(*                                                                         *)
(* A page is known by who changed it: tree[p] since it was last added to   *)
(* the index, index[p] since its last commit. It is dirty when either is   *)
(* not empty. What it says, which pages are hubs or bookkeeping, and pages *)
(* that are deleted or renamed are left out.                               *)
(***************************************************************************)
EXTENDS Integers, Sequences, FiniteSets

CONSTANTS Ingests,      \* ingest runs, of one job or of a batch
          Maintenance,  \* runs of the maintenance runner
          Pages,        \* pages under wiki/
          User,         \* whoever edits pages by hand
          Edit,         \* the dashboard's edit route, in the line for the mutex
          Pass,         \* the reconciler, in the line for the mutex
          MaxEvents     \* bound: failures of git, edits, settings, commits of agents

Runs    == Ingests \cup Maintenance
Authors == Runs \cup {User}
Callers == Runs \cup {Edit, Pass}

ASSUME NamesDiffer ==
  /\ IsFiniteSet(Runs) /\ Ingests \cap Maintenance = {}
  /\ MaxEvents \in Nat
  /\ User \notin Runs /\ Edit \notin Runs /\ Pass \notin Runs /\ Edit # Pass

VARIABLES
  at,             \* per run: how far it is
  dirtyBefore,    \* per run: the dirty pages it found when it started
  written,        \* per run: pages its Write and Edit calls reported
  pathspec,       \* per run: what it asks git to add
  active,         \* RunRegistry.active
  periodBaseline, \* RunRegistry.periodBaseline; null, {} here, while active is 0
  line,           \* the commit mutex: its holder, then who waits, in order
  pass,           \* the reconciler: inPass, its baseline and its leftovers
  edit,           \* the edit request under way and its page
  autoCommit,     \* the gitAutoCommit setting
  tree,           \* per page: who changed it since it was last added
  index,          \* per page: whose changes are added and not committed
  events,         \* events so far
  \* History, for the properties only.
  left,           \* pages a failed commit left in the index
  met,            \* <<r, w>>: w changed a page while r was under way
  blind,          \* runs whose first git status failed
  misfiled        \* <<r, w>>: r committed a page that w changed and r did not

runs     == <<at, dirtyBefore, written, pathspec>>
registry == <<active, periodBaseline>>
vault    == <<tree, index, left>>
history  == <<met, blind, misfiled>>
setting  == <<autoCommit, events>>
vars     == <<runs, registry, line, pass, edit, setting, vault, history>>

-----------------------------------------------------------------------------
Event == events < MaxEvents /\ events' = events + 1

Staged == {p \in Pages : index[p] # {}}
Dirty  == {p \in Pages : tree[p] \cup index[p] # {}}

\* Runs the registry counts, and runs that have taken their bracket.
Writing  == {"run", "wait", "sweep", "add", "commit", "landed", "kept"}
UnderWay == {r \in Runs : at[r] \in Writing \cup {"bracket"}}
Ended    == {"done", "over", "thrown"}

Holds(c) == line # <<>> /\ Head(line) = c
Move(r, from, to) == at[r] = from /\ at' = [at EXCEPT ![r] = to]

\* git add -- S, and git commit -- S, which takes S from the working tree.
Add(S) ==
  /\ index' = [p \in Pages |-> IF p \in S THEN index[p] \cup tree[p] ELSE index[p]]
  /\ tree'  = [p \in Pages |-> IF p \in S THEN {} ELSE tree[p]]
CommitOnly(S) ==
  /\ index' = [p \in Pages |-> IF p \in S THEN {} ELSE index[p]]
  /\ tree'  = [p \in Pages |-> IF p \in S THEN {} ELSE tree[p]]
  /\ left'  = left \ S

\* commitPaths(): no commit when nothing of S is staged.
CommitPaths(S) == IF S \cap Staged = {} THEN UNCHANGED vault ELSE CommitOnly(S)

NoPass == [at |-> "idle", base |-> {}, pages |-> {}]
NoEdit == [at |-> "idle", pages |-> {}]

Init ==
  /\ at = [r \in Runs |-> "off"]
  /\ dirtyBefore = [r \in Runs |-> {}] /\ written = [r \in Runs |-> {}]
  /\ pathspec = [r \in Runs |-> {}]
  /\ active = 0 /\ periodBaseline = {}
  /\ line = <<>> /\ pass = NoPass /\ edit = NoEdit /\ autoCommit = TRUE
  /\ tree = [p \in Pages |-> {}] /\ index = [p \in Pages |-> {}]
  /\ events = 0 /\ left = {} /\ met = {} /\ blind = {} /\ misfiled = {}

-----------------------------------------------------------------------------
(***************************************************************************)
(* A run. The maintenance runner admits one at a time (runMutex).          *)
(***************************************************************************)
Starts(r) ==
  /\ r \in Maintenance => \A m \in Maintenance : at[m] \in Ended \cup {"off"}
  /\ Move(r, "off", "bracket")
  /\ UNCHANGED <<written, pathspec, registry, line, pass, edit, autoCommit, vault, met, misfiled>>

Bracket(r) ==
  /\ Starts(r)
  /\ dirtyBefore' = [dirtyBefore EXCEPT ![r] = Dirty]
  /\ UNCHANGED <<events, blind>>

\* dirtyPaths() answers the empty set when git status fails.
BracketFails(r) ==
  /\ Starts(r)
  /\ Event
  /\ blind' = blind \cup {r}
  /\ UNCHANGED dirtyBefore

Begin(r) ==
  /\ Move(r, "bracket", "run")
  /\ active' = active + 1
  /\ periodBaseline' = IF active = 0 THEN dirtyBefore[r] ELSE periodBaseline
  /\ UNCHANGED <<dirtyBefore, written, pathspec, line, pass, edit, setting, vault, history>>

\* A change by w to page p, while some runs are under way.
Change(w, p) ==
  /\ tree' = [tree EXCEPT ![p] = @ \cup {w}]
  /\ met' = met \cup {<<r, w>> : r \in UnderWay \ {w}}

\* The agent changes a page, through a tool that is reported or through Bash.
Writes(r, p) ==
  /\ at[r] = "run"
  /\ Change(r, p)
  /\ \/ written' = [written EXCEPT ![r] = @ \cup {p}]
     \/ UNCHANGED written
  /\ UNCHANGED <<at, dirtyBefore, pathspec, registry, line, pass, edit, setting, index, left,
                 blind, misfiled>>

\* The vault's skill sometimes commits the run's work itself.
AgentCommits(r) ==
  /\ at[r] = "run"
  /\ \E S \in SUBSET {p \in Pages : r \in tree[p] \cup index[p]} : S # {} /\ CommitOnly(S)
  /\ Event
  /\ UNCHANGED <<runs, registry, line, pass, edit, autoCommit, history>>

\* Mutant: the count drops twice.
EndRunTwice ==
  /\ active' = active - 2
  /\ periodBaseline' = IF active > 2 THEN periodBaseline ELSE {}
  /\ UNCHANGED <<pass, line>>

\* The function begin() returned: the last writer announces the idle edge, and
\* the reconciler takes its place in the line unless a pass is under way.
EndRun ==
  /\ active' = active - 1
  /\ periodBaseline' = IF active > 1 THEN periodBaseline ELSE {}
  /\ IF active = 1 /\ pass.at = "idle" /\ autoCommit
       THEN /\ pass' = [at |-> "wait", base |-> periodBaseline, pages |-> {}]
            /\ line' = Append(line, Pass)
       ELSE UNCHANGED <<pass, line>>

\* The locals of the run are gone; what it wrote is kept for the properties.
Forget(r) == /\ dirtyBefore' = [dirtyBefore EXCEPT ![r] = {}]
             /\ pathspec' = [pathspec EXCEPT ![r] = {}]

RunFails(r) ==
  /\ Move(r, "run", "over")
  /\ EndRun
  /\ Forget(r)
  /\ UNCHANGED <<written, edit, setting, vault, history>>

\* Mutant: the registration is given back before the commit.
RunSucceedsReleasing(r) ==
  /\ Move(r, "run", "wait") /\ line' = Append(line, r)
  /\ active' = active - 1
  /\ UNCHANGED <<dirtyBefore, written, pathspec, periodBaseline, pass, edit, setting, vault, history>>

\* An ingest whose commit is switched off keeps its pages on disk; a maintenance
\* run commits whatever the setting.
RunSucceeds(r) ==
  /\ IF r \in Ingests /\ ~autoCommit
       THEN Move(r, "run", "kept") /\ UNCHANGED line
       ELSE Move(r, "run", "wait") /\ line' = Append(line, r)
  /\ UNCHANGED <<dirtyBefore, written, pathspec, registry, pass, edit, setting, vault, history>>

\* Inside the mutex: isSoleWriter(), and git status only if it is.
AsksSole(r) ==
  /\ Holds(r)
  /\ IF active = 1 THEN Move(r, "wait", "sweep") /\ UNCHANGED pathspec
                   ELSE /\ Move(r, "wait", "add")
                        /\ pathspec' = [pathspec EXCEPT ![r] = written[r]]
  /\ UNCHANGED <<dirtyBefore, written, registry, line, pass, edit, setting, vault, history>>

\* Mutant: the bracket is forgotten.
AllDirty(before) == Dirty

NewWikiPaths(before) == Dirty \ before

\* Mutant: what the tools reported is left to the sweep.
SweepsOnly(r) ==
  /\ Holds(r)
  /\ Move(r, "sweep", "add")
  /\ pathspec' = [pathspec EXCEPT ![r] = NewWikiPaths(dirtyBefore[r])]
  /\ UNCHANGED <<dirtyBefore, written, registry, line, pass, edit, setting, vault, history>>

Sweeps(r) ==
  /\ Holds(r)
  /\ Move(r, "sweep", "add")
  /\ \/ /\ pathspec' = [pathspec EXCEPT ![r] = written[r] \cup NewWikiPaths(dirtyBefore[r])]
        /\ UNCHANGED events
     \/ /\ pathspec' = [pathspec EXCEPT ![r] = written[r]]   \* git status fails
        /\ Event
  /\ UNCHANGED <<dirtyBefore, written, registry, line, pass, edit, autoCommit, vault, history>>

\* Mutant, which the code once was: git add -A when nothing matches.
AddsWithFallback(r) ==
  /\ Holds(r)
  /\ Move(r, "add", "commit")
  /\ Add(IF pathspec[r] \cap Dirty = {} THEN Pages ELSE pathspec[r])
  /\ UNCHANGED <<dirtyBefore, written, pathspec, registry, line, pass, edit, setting, left,
                 history>>

Adds(r) ==
  /\ Holds(r)
  /\ Move(r, "add", "commit")
  /\ Add(pathspec[r])
  /\ UNCHANGED <<dirtyBefore, written, pathspec, registry, line, pass, edit, setting, left,
                 history>>

\* git commit, without a pathspec: it takes the whole index.
Commits(r) ==
  /\ Holds(r)
  /\ Move(r, "commit", "landed")
  /\ line' = Tail(line)
  /\ index' = [p \in Pages |-> {}] /\ left' = {}
  /\ misfiled' = misfiled \cup
       {<<r, w>> : w \in UNION {index[p] : p \in {q \in Staged \ left : r \notin index[q]}}}
  /\ UNCHANGED <<dirtyBefore, written, pathspec, registry, pass, edit, setting, tree, met, blind>>

\* Mutant: the failure leaves the mutex held.
GitFailsHolding(r) ==
  /\ Holds(r)
  /\ \E from \in {"add", "commit"} : Move(r, from, IF r \in Ingests THEN "kept" ELSE "thrown")
  /\ left' = Staged
  /\ Event
  /\ IF r \in Ingests THEN UNCHANGED <<dirtyBefore, pathspec>> ELSE Forget(r)
  /\ UNCHANGED <<written, registry, line, pass, edit, autoCommit, tree, index, history>>

\* git add or git commit fails. The queue catches it and goes on; in the
\* maintenance runner it ends the run, past its endRun().
GitFails(r) ==
  /\ Holds(r)
  /\ \E from \in {"add", "commit"} : Move(r, from, IF r \in Ingests THEN "kept" ELSE "thrown")
  /\ line' = Tail(line)
  /\ left' = Staged
  /\ Event
  /\ IF r \in Ingests THEN UNCHANGED <<dirtyBefore, pathspec>> ELSE Forget(r)
  /\ UNCHANGED <<written, registry, pass, edit, autoCommit, tree, index, history>>

Leaves(r) ==
  /\ \/ Move(r, "landed", "done")
     \/ Move(r, "kept", "over")
  /\ EndRun
  /\ Forget(r)
  /\ UNCHANGED <<written, edit, setting, vault, history>>

Run(r) == \/ Begin(r) \/ RunFails(r) \/ RunSucceeds(r) \/ AsksSole(r) \/ Sweeps(r)
          \/ Adds(r) \/ Commits(r) \/ GitFails(r) \/ Leaves(r)

-----------------------------------------------------------------------------
(***************************************************************************)
(* The reconcile pass: commits what became dirty in the busy period.       *)
(***************************************************************************)
PassEnds == pass' = NoPass /\ line' = Tail(line)

PassChecks ==
  /\ Holds(Pass) /\ pass.at = "wait"
  /\ IF active > 0 THEN PassEnds
                   ELSE pass' = [pass EXCEPT !.at = "status"] /\ UNCHANGED line
  /\ UNCHANGED <<runs, registry, edit, setting, vault, history>>

PassFinds ==
  /\ Holds(Pass) /\ pass.at = "status"
  /\ LET leftovers == NewWikiPaths(pass.base) IN
       IF leftovers = {} THEN PassEnds
                         ELSE /\ pass' = [pass EXCEPT !.at = "add", !.pages = leftovers]
                              /\ UNCHANGED line
  /\ UNCHANGED <<runs, registry, edit, setting, vault, history>>

PassAdds ==
  /\ Holds(Pass) /\ pass.at = "add"
  /\ Add(pass.pages)
  /\ pass' = [pass EXCEPT !.at = "commit"]
  /\ UNCHANGED <<runs, registry, line, edit, setting, left, history>>

PassCommits ==
  /\ Holds(Pass) /\ pass.at = "commit"
  /\ CommitPaths(pass.pages)
  /\ PassEnds
  /\ UNCHANGED <<runs, registry, edit, setting, history>>

\* A git status that fails finds nothing; git add and git commit throw.
PassFails ==
  /\ Holds(Pass) /\ pass.at \in {"status", "add", "commit"}
  /\ left' = Staged
  /\ PassEnds
  /\ Event
  /\ UNCHANGED <<runs, registry, edit, autoCommit, tree, index, history>>

Reconcile == PassChecks \/ PassFinds \/ PassAdds \/ PassCommits \/ PassFails

-----------------------------------------------------------------------------
(***************************************************************************)
(* The dashboard's edit of a page, and changes made by hand.               *)
(***************************************************************************)
EditAsks ==
  /\ edit.at = "idle"
  /\ \E p \in Pages : edit' = [at |-> "wait", pages |-> {p}]
  /\ line' = Append(line, Edit)
  /\ Event
  /\ UNCHANGED <<runs, registry, pass, autoCommit, vault, history>>

EditEnds == edit' = NoEdit /\ line' = Tail(line)

EditConflicts ==
  /\ Holds(Edit) /\ edit.at = "wait"
  /\ EditEnds
  /\ UNCHANGED <<runs, registry, pass, setting, vault, history>>

EditWrites ==
  /\ Holds(Edit) /\ edit.at = "wait"
  /\ \E p \in edit.pages : Change(User, p)
  /\ IF autoCommit THEN edit' = [edit EXCEPT !.at = "add"] /\ UNCHANGED line
                   ELSE EditEnds
  /\ UNCHANGED <<runs, registry, pass, setting, index, left, blind, misfiled>>

EditAdds ==
  /\ Holds(Edit) /\ edit.at = "add"
  /\ Add(edit.pages)
  /\ edit' = [edit EXCEPT !.at = "commit"]
  /\ UNCHANGED <<runs, registry, line, pass, setting, left, history>>

EditCommits ==
  /\ Holds(Edit) /\ edit.at = "commit"
  /\ CommitPaths(edit.pages)
  /\ EditEnds
  /\ UNCHANGED <<runs, registry, pass, setting, history>>

\* The edit was an event: that it fails is not another.
EditFails ==
  /\ Holds(Edit) /\ edit.at \in {"add", "commit"}
  /\ left' = Staged
  /\ EditEnds
  /\ UNCHANGED <<runs, registry, pass, setting, tree, index, history>>

EditPage == EditConflicts \/ EditWrites \/ EditAdds \/ EditCommits \/ EditFails

ByHand(p) ==
  /\ Change(User, p)
  /\ Event
  /\ UNCHANGED <<runs, registry, line, pass, edit, autoCommit, index, left, blind, misfiled>>

SetAutoCommit ==
  /\ autoCommit' = ~autoCommit
  /\ Event
  /\ UNCHANGED <<runs, registry, line, pass, edit, vault, history>>

-----------------------------------------------------------------------------
Environment == \/ EditAsks \/ SetAutoCommit \/ \E p \in Pages : ByHand(p)
               \/ \E r \in Runs : Bracket(r) \/ BracketFails(r) \/ AgentCommits(r) \/ \E p \in Pages : Writes(r, p)

Next == Environment \/ Reconcile \/ EditPage \/ \E r \in Runs : Run(r)

Spec == Init /\ [][Next]_vars

\* A git command, a run and a request all end: runTool and runAgent have
\* timeouts. Nothing is assumed of who starts a run or an edit.
Fairness == WF_vars(Reconcile) /\ WF_vars(EditPage) /\ \A r \in Runs : WF_vars(Run(r))

LiveSpec == Spec /\ Fairness

-----------------------------------------------------------------------------
(***************************************************************************)
(* Properties.                                                             *)
(***************************************************************************)
TypeOK ==
  /\ at \in [Runs -> Writing \cup Ended \cup {"off", "bracket"}]
  /\ dirtyBefore \in [Runs -> SUBSET Pages] /\ written \in [Runs -> SUBSET Pages]
  /\ pathspec \in [Runs -> SUBSET Pages]
  /\ active \in Nat /\ periodBaseline \in SUBSET Pages
  /\ line \in Seq(Callers)
  /\ pass \in [at : {"idle", "wait", "status", "add", "commit"}, base : SUBSET Pages,
               pages : SUBSET Pages]
  /\ edit \in [at : {"idle", "wait", "add", "commit"}, pages : SUBSET Pages]
  /\ autoCommit \in BOOLEAN /\ events \in 0..MaxEvents
  /\ tree \in [Pages -> SUBSET Authors] /\ index \in [Pages -> SUBSET Authors]
  /\ left \in SUBSET Pages /\ blind \in SUBSET Runs
  /\ met \in SUBSET (Runs \X Authors) /\ misfiled \in SUBSET (Runs \X Authors)

(***************************************************************************)
(* The commit of a run takes the whole index. It is right to, because at   *)
(* any time the index holds only what the holder of the mutex added, and   *)
(* what a commit that failed left there.                                   *)
(***************************************************************************)
AddedBy(c) == IF c \in Runs THEN (IF at[c] = "commit" THEN pathspec[c] ELSE {})
              ELSE IF c = Pass THEN (IF pass.at = "commit" THEN pass.pages ELSE {})
              ELSE (IF edit.at = "commit" THEN edit.pages ELSE {})
IndexIsHolders ==
  Staged \subseteq left \cup (IF line = <<>> THEN {} ELSE AddedBy(Head(line)))

(***************************************************************************)
(* The registry counts every run that may write, once, until its commit is *)
(* over: "sole writer" is never answered while another one is under way. A *)
(* run that ended by an exception stays counted.                           *)
(***************************************************************************)
RegistryExact ==
  active = Cardinality({r \in Runs : at[r] \in Writing \cup {"thrown"}})

(***************************************************************************)
(* A run whose commit succeeded leaves none of the pages its tools         *)
(* reported uncommitted, whoever else wrote them, edited them or committed *)
(* them meanwhile.                                                         *)
(***************************************************************************)
ReportedPagesLand ==
  \A r \in Runs : at[r] \in {"landed", "done"} =>
    \A p \in written[r] : r \notin tree[p] \cup index[p]

(***************************************************************************)
(* What a run commits without having written it was changed while the run  *)
(* was under way: pages that were dirty before (a user's work in progress, *)
(* what earlier runs left) are never swept in. It needs the git status     *)
(* before the run to have worked.                                          *)
(***************************************************************************)
SweepSparesOlderWork ==
  \A m \in misfiled : m \in met \/ m[1] \in blind

(***************************************************************************)
(* Whoever asks for the commit mutex gets it and gives it back, however    *)
(* the commits before its own end.                                         *)
(***************************************************************************)
InLine(c) == \E i \in DOMAIN line : line[i] = c
EveryCallerServed == \A c \in Callers : InLine(c) ~> ~InLine(c)

(***************************************************************************)
(* The busy period ends when the last run has ended: what run-registry.ts  *)
(* says of the function begin() returns, that it is called in a finally.   *)
(***************************************************************************)
BusyPeriodEnds == active > 0 => UnderWay # {}
=============================================================================
