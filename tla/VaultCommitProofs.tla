------------------------- MODULE VaultCommitProofs -------------------------
(***************************************************************************)
(* What holds of VaultCommit for every set of runs and pages.              *)
(***************************************************************************)
EXTENDS VaultCommit, TLAPS, FiniteSetTheorems

USE DEF runs, registry, setting, vault, history

\* Inside the mutex, whoever it is.
InMutex(c) == IF c \in Runs THEN at[c] \in {"sweep", "add", "commit"}
              ELSE IF c = Pass THEN pass.at \in {"status", "add", "commit"}
              ELSE edit.at \in {"add", "commit"}
MutexInv == \A c \in Callers : InMutex(c) => Holds(c)

\* What is staged was added by someone at his commit, or left by a failure.
IndexInv == \A p \in Staged \ left : \E c \in Callers : p \in AddedBy(c)

\* From its end to its commit, a run's own changes are where it left them.
LandInv ==
  \A r \in Runs :
    /\ at[r] \in {"off", "bracket"} => written[r] = {}
    /\ at[r] \in {"add", "commit"} => written[r] \subseteq pathspec[r]
    /\ at[r] = "commit" => \A p \in pathspec[r] : r \notin tree[p]

\* The runs that may still sweep or commit.
Sweeping == {"bracket", "run", "wait", "sweep", "add", "commit"}

\* A change that is older than the run: w made it, but not while r was under way.
Older(r, w) == w # r /\ <<r, w>> \notin met /\ r \notin blind

OlderInv ==
  \A r \in Runs, p \in Pages, w \in Authors :
    at[r] \in Sweeping /\ Older(r, w) =>
      /\ w \in tree[p] \cup index[p] => p \in dirtyBefore[r]
      /\ p \in written[r] => /\ w \in tree[p]  => r \in tree[p]
                             /\ w \in index[p] => r \in tree[p] \cup index[p]
PathspecInv ==
  \A r \in Runs : at[r] \in {"add", "commit"} =>
    pathspec[r] \cap dirtyBefore[r] \subseteq written[r]
-----------------------------------------------------------------------------
(***************************************************************************)
(* The registry, and types.                                                *)
(***************************************************************************)
Counted == {r \in Runs : at[r] \in Writing \cup {"thrown"}}

LEMMA CountedFinite == IsFiniteSet(Counted) /\ Cardinality(Counted) \in Nat
<1>1. IsFiniteSet(Counted)
  BY NamesDiffer, FS_Subset DEF Counted
<1> QED BY <1>1, FS_CardinalityType

\* A run that is counted can be taken off the count.
LEMMA CountedPositive ==
  ASSUME TypeOK, RegistryExact, NEW r \in Counted
  PROVE  active \in Nat /\ active > 0
<1>1. active = Cardinality(Counted)
  BY DEF RegistryExact, Counted
<1>2. Cardinality(Counted) # 0
  BY CountedFinite, FS_EmptySet
<1> QED BY <1>1, <1>2, CountedFinite

PassStates == [at : {"idle", "wait", "status", "add", "commit"}, base : SUBSET Pages,
               pages : SUBSET Pages]

\* What every EndRun leaves is typed.
LEMMA EndRunType ==
  ASSUME TypeOK, EndRun, active > 0
  PROVE  /\ active' \in Nat /\ periodBaseline' \in SUBSET Pages
         /\ line' \in Seq(Callers)
         /\ pass' \in [at : {"idle", "wait", "status", "add", "commit"}, base : SUBSET Pages,
                       pages : SUBSET Pages]
<1>1. CASE UNCHANGED <<pass, line>>
  BY <1>1 DEF EndRun, TypeOK
<1>2. CASE /\ pass' = [at |-> "wait", base |-> periodBaseline, pages |-> {}]
           /\ line' = Append(line, Pass)
  BY <1>2 DEF EndRun, TypeOK, Callers
<1> QED BY <1>1, <1>2 DEF EndRun

\* So is what every change of a page leaves.
LEMMA ChangeType ==
  ASSUME TypeOK, NEW w \in Authors, NEW p \in Pages, Change(w, p)
  PROVE  tree' \in [Pages -> SUBSET Authors] /\ met' \in SUBSET (Runs \X Authors)
<1>1. tree' \in [Pages -> SUBSET Authors]
  BY DEF Change, TypeOK
<1>2. UnderWay \subseteq Runs
  BY DEF UnderWay
<1>3. {<<r, w>> : r \in UnderWay \ {w}} \subseteq Runs \X Authors
  BY <1>2
<1> QED BY <1>1, <1>3 DEF Change, TypeOK

LEMMA CommitPathsType ==
  ASSUME TypeOK, NEW S, CommitPaths(S)
  PROVE  /\ tree' \in [Pages -> SUBSET Authors] /\ index' \in [Pages -> SUBSET Authors]
         /\ left' \in SUBSET Pages
<1>1. CASE UNCHANGED vault
  BY <1>1 DEF TypeOK
<1>2. CASE CommitOnly(S)
  BY <1>2 DEF CommitOnly, TypeOK
<1> QED BY <1>1, <1>2 DEF CommitPaths

LEMMA KeptOrGivenBack ==
  ASSUME TypeOK, NEW c \in Callers, Holds(c), line' = line \/ line' = Tail(line)
  PROVE  line' \in Seq(Callers)
<1>1. line \in Seq(Callers) /\ line # <<>>
  BY DEF TypeOK, Holds
<1> QED BY <1>1

LEMMA EventType ==
  ASSUME TypeOK, Event
  PROVE  events' \in 0..MaxEvents
BY NamesDiffer DEF TypeOK, Event

\* Every step keeps the types.
LEMMA TypeStep ==
  ASSUME TypeOK, RegistryExact, [Next]_vars
  PROVE  TypeOK'
<1>1. ASSUME NEW r \in Runs, Run(r) PROVE TypeOK'
  <2>1. CASE Begin(r)
    BY <2>1 DEF Begin, Move, TypeOK, Writing
  <2>2. CASE RunFails(r)
    <3>1. active > 0
      BY <2>2, CountedPositive DEF RunFails, Move, Counted, Writing
    <3> QED BY <2>2, <3>1, EndRunType DEF RunFails, Move, Forget, TypeOK, Ended
  <2>3. CASE RunSucceeds(r)
    <3>1. at' \in [Runs -> Writing \cup Ended \cup {"off", "bracket"}]
      BY <2>3 DEF RunSucceeds, Move, TypeOK, Writing
    <3>2. line' = line \/ line' = Append(line, r)
      BY <2>3 DEF RunSucceeds
    <3>3. line' \in Seq(Callers)
      <4>1. line \in Seq(Callers) /\ r \in Callers
        BY DEF TypeOK, Callers
      <4> QED BY <3>2, <4>1
    <3> QED BY <2>3, <3>1, <3>3 DEF RunSucceeds, TypeOK
  <2>4. CASE AsksSole(r)
    BY <2>4 DEF AsksSole, Move, TypeOK, Writing
  <2>5. CASE Sweeps(r)
    BY <2>5, EventType DEF Sweeps, Move, NewWikiPaths, Dirty, TypeOK, Writing
  <2>6. CASE Adds(r)
    BY <2>6 DEF Adds, Move, Add, TypeOK, Writing
  <2>7. CASE Commits(r)
    <3>1. misfiled' \in SUBSET (Runs \X Authors)
      BY <2>7 DEF Commits, Staged, TypeOK
    <3> QED BY <2>7, <3>1 DEF Commits, Move, Holds, TypeOK, Writing
  <2>8. CASE GitFails(r)
    <3>1. at' \in [Runs -> Writing \cup Ended \cup {"off", "bracket"}]
      BY <2>8 DEF GitFails, Move, TypeOK, Writing, Ended
    <3>2. /\ dirtyBefore' \in [Runs -> SUBSET Pages]
          /\ pathspec' \in [Runs -> SUBSET Pages]
      BY <2>8 DEF GitFails, Forget, TypeOK
    <3>3. line' \in Seq(Callers) /\ left' \in SUBSET Pages
      BY <2>8 DEF GitFails, Holds, Staged, TypeOK
    <3> QED BY <2>8, <3>1, <3>2, <3>3, EventType DEF GitFails, TypeOK
  <2>9. CASE Leaves(r)
    <3>1. active > 0
      BY <2>9, CountedPositive DEF Leaves, Move, Counted, Writing
    <3> QED BY <2>9, <3>1, EndRunType DEF Leaves, Move, Forget, TypeOK, Ended
  <2> QED BY <1>1, <2>1, <2>2, <2>3, <2>4, <2>5, <2>6, <2>7, <2>8, <2>9 DEF Run
<1>2. ASSUME Reconcile PROVE TypeOK'
  <2>1. CASE PassChecks
    <3>1. pass' \in PassStates
      BY <2>1 DEF PassChecks, PassEnds, NoPass, PassStates, TypeOK
    <3>2. line' \in Seq(Callers)
      BY <2>1, KeptOrGivenBack DEF PassChecks, PassEnds, Callers
    <3> QED BY <2>1, <3>1, <3>2 DEF PassChecks, PassStates, TypeOK
  <2>2. CASE PassFinds
    <3>1. NewWikiPaths(pass.base) \in SUBSET Pages
      BY DEF NewWikiPaths, Dirty
    <3>2. pass' \in PassStates
      <4>1. ASSUME NEW S \in SUBSET Pages
            PROVE  [pass EXCEPT !.at = "add", !.pages = S] \in PassStates
        BY DEF PassStates, TypeOK
      <4>2. NoPass \in PassStates
        BY DEF NoPass, PassStates
      <4> QED BY <2>2, <3>1, <4>1, <4>2 DEF PassFinds, PassEnds
    <3>3. line' \in Seq(Callers)
      BY <2>2, KeptOrGivenBack DEF PassFinds, PassEnds, Callers
    <3> QED BY <2>2, <3>2, <3>3 DEF PassFinds, PassStates, TypeOK
  <2>3. CASE PassAdds
    BY <2>3 DEF PassAdds, Add, TypeOK
  <2>4. CASE PassCommits
    BY <2>4, CommitPathsType DEF PassCommits, PassEnds, NoPass, Holds, TypeOK
  <2>5. CASE PassFails
    BY <2>5, EventType DEF PassFails, PassEnds, NoPass, Holds, Staged, TypeOK
  <2> QED BY <1>2, <2>1, <2>2, <2>3, <2>4, <2>5 DEF Reconcile
<1>3. ASSUME EditPage PROVE TypeOK'
  <2>1. CASE EditConflicts
    BY <2>1 DEF EditConflicts, EditEnds, NoEdit, Holds, TypeOK
  <2>2. CASE EditWrites
    <3>1. /\ tree' \in [Pages -> SUBSET Authors]
          /\ met' \in SUBSET (Runs \X Authors)
      BY <2>2, ChangeType DEF EditWrites, Authors, TypeOK
    <3>2. edit' \in [at : {"idle", "wait", "add", "commit"}, pages : SUBSET Pages]
      BY <2>2 DEF EditWrites, EditEnds, NoEdit, TypeOK
    <3>3. line' \in Seq(Callers)
      BY <2>2, KeptOrGivenBack DEF EditWrites, EditEnds, Callers
    <3> QED BY <2>2, <3>1, <3>2, <3>3 DEF EditWrites, TypeOK
  <2>3. CASE EditAdds
    BY <2>3 DEF EditAdds, Add, TypeOK
  <2>4. CASE EditCommits
    BY <2>4, CommitPathsType DEF EditCommits, EditEnds, NoEdit, Holds, TypeOK
  <2>5. CASE EditFails
    BY <2>5 DEF EditFails, EditEnds, NoEdit, Holds, Staged, TypeOK
  <2> QED BY <1>3, <2>1, <2>2, <2>3, <2>4, <2>5 DEF EditPage
<1>4. ASSUME Environment PROVE TypeOK'
  <2>1. CASE EditAsks
    BY <2>1, EventType DEF EditAsks, Callers, TypeOK
  <2>2. CASE SetAutoCommit
    BY <2>2, EventType DEF SetAutoCommit, TypeOK
  <2>3. ASSUME NEW p \in Pages, ByHand(p) PROVE TypeOK'
    BY <2>3, EventType, ChangeType DEF ByHand, Authors, TypeOK
  <2>4. ASSUME NEW r \in Runs, Bracket(r) \/ BracketFails(r) PROVE TypeOK'
    <3>1. at' \in [Runs -> Writing \cup Ended \cup {"off", "bracket"}]
      BY <2>4 DEF Bracket, BracketFails, Starts, Move, TypeOK
    <3>2. dirtyBefore' \in [Runs -> SUBSET Pages]
      BY <2>4 DEF Bracket, BracketFails, Dirty, TypeOK
    <3>3. events' \in 0..MaxEvents /\ blind' \in SUBSET Runs
      BY <2>4, EventType DEF Bracket, BracketFails, TypeOK
    <3> QED BY <2>4, <3>1, <3>2, <3>3 DEF Bracket, BracketFails, Starts, TypeOK
  <2>5. ASSUME NEW r \in Runs, AgentCommits(r) PROVE TypeOK'
    BY <2>5, EventType DEF AgentCommits, CommitOnly, TypeOK
  <2>6. ASSUME NEW r \in Runs, NEW p \in Pages, Writes(r, p) PROVE TypeOK'
    <3>1. /\ tree' \in [Pages -> SUBSET Authors]
          /\ met' \in SUBSET (Runs \X Authors)
      BY <2>6, ChangeType DEF Writes, Authors
    <3>2. written' \in [Runs -> SUBSET Pages]
      BY <2>6 DEF Writes, TypeOK
    <3> QED BY <2>6, <3>1, <3>2 DEF Writes, TypeOK
  <2> QED BY <1>4, <2>1, <2>2, <2>3, <2>4, <2>5, <2>6 DEF Environment
<1>5. CASE UNCHANGED vars
  BY <1>5 DEF vars, TypeOK
<1> QED BY <1>1, <1>2, <1>3, <1>4, <1>5 DEF Next

\* Every step keeps the registry exact.
LEMMA Uncounted ==
  ASSUME RegistryExact, Counted' = Counted, active' = active
  PROVE  RegistryExact'
BY DEF RegistryExact, Counted

LEMMA CountedGrows ==
  ASSUME RegistryExact, NEW r \in Runs \ Counted, Counted' = Counted \cup {r},
         active' = active + 1
  PROVE  RegistryExact'
<1>1. active = Cardinality(Counted)
  BY DEF RegistryExact, Counted
<1>2. Cardinality(Counted \cup {r}) = Cardinality(Counted) + 1
  BY CountedFinite, FS_AddElement
<1> QED BY <1>1, <1>2 DEF RegistryExact, Counted

LEMMA CountedShrinks ==
  ASSUME RegistryExact, NEW r \in Counted, Counted' = Counted \ {r}, active' = active - 1
  PROVE  RegistryExact'
<1>1. active = Cardinality(Counted)
  BY DEF RegistryExact, Counted
<1>2. Cardinality(Counted \ {r}) = Cardinality(Counted) - 1
  BY CountedFinite, FS_RemoveElement
<1> QED BY <1>1, <1>2 DEF RegistryExact, Counted

\* A run that moves among the counted states, or among the others, is not noticed.
LEMMA MoveCounted ==
  ASSUME TypeOK, NEW r \in Runs, NEW from, NEW to, Move(r, from, to),
         from \in Writing \cup {"thrown"} <=> to \in Writing \cup {"thrown"}
  PROVE  Counted' = Counted
BY DEF Move, Counted, TypeOK

LEMMA RegistryStep ==
  ASSUME TypeOK, RegistryExact, [Next]_vars
  PROVE  RegistryExact'
<1>1. ASSUME NEW r \in Runs, Run(r) PROVE RegistryExact'
  <2>1. CASE Begin(r)
    <3>1. r \notin Counted /\ Counted' = Counted \cup {r}
      BY <2>1 DEF Begin, Move, Counted, Writing, TypeOK
    <3> QED BY <2>1, <3>1, CountedGrows DEF Begin
  <2>2. CASE RunFails(r)
    <3>1. r \in Counted /\ Counted' = Counted \ {r}
      BY <2>2 DEF RunFails, Move, Counted, Writing, TypeOK
    <3> QED BY <2>2, <3>1, CountedShrinks DEF RunFails, EndRun
  <2>3. CASE RunSucceeds(r)
    <3>1. Counted' = Counted
      BY <2>3, MoveCounted DEF RunSucceeds, Writing
    <3> QED BY <2>3, <3>1, Uncounted DEF RunSucceeds
  <2>4. CASE AsksSole(r)
    <3>1. Counted' = Counted
      BY <2>4, MoveCounted DEF AsksSole, Writing
    <3> QED BY <2>4, <3>1, Uncounted DEF AsksSole
  <2>5. CASE Sweeps(r)
    <3>1. Counted' = Counted
      BY <2>5, MoveCounted DEF Sweeps, Writing
    <3> QED BY <2>5, <3>1, Uncounted DEF Sweeps
  <2>6. CASE Adds(r)
    <3>1. Counted' = Counted
      BY <2>6, MoveCounted DEF Adds, Writing
    <3> QED BY <2>6, <3>1, Uncounted DEF Adds
  <2>7. CASE Commits(r)
    <3>1. Counted' = Counted
      BY <2>7, MoveCounted DEF Commits, Writing
    <3> QED BY <2>7, <3>1, Uncounted DEF Commits
  <2>8. CASE GitFails(r)
    <3>1. Counted' = Counted
      BY <2>8, MoveCounted DEF GitFails, Writing
    <3> QED BY <2>8, <3>1, Uncounted DEF GitFails
  <2>9. CASE Leaves(r)
    <3>1. r \in Counted /\ Counted' = Counted \ {r}
      BY <2>9 DEF Leaves, Move, Counted, Writing, TypeOK
    <3> QED BY <2>9, <3>1, CountedShrinks DEF Leaves, EndRun
  <2> QED BY <1>1, <2>1, <2>2, <2>3, <2>4, <2>5, <2>6, <2>7, <2>8, <2>9 DEF Run
<1>2. ASSUME NEW r \in Runs, Bracket(r) \/ BracketFails(r) PROVE RegistryExact'
  <2>1. Counted' = Counted
    BY <1>2, MoveCounted DEF Bracket, BracketFails, Starts, Writing
  <2> QED BY <1>2, <2>1, Uncounted DEF Bracket, BracketFails, Starts
<1>3. ASSUME UNCHANGED <<at, active>> PROVE RegistryExact'
  BY <1>3, Uncounted DEF Counted
<1>4. CASE Reconcile
  BY <1>3, <1>4 DEF Reconcile, PassChecks, PassFinds, PassAdds, PassCommits, PassFails
<1>5. CASE EditPage
  BY <1>3, <1>5 DEF EditPage, EditConflicts, EditWrites, EditAdds, EditCommits, EditFails
<1>6. CASE Environment
  BY <1>2, <1>3, <1>6 DEF Environment, EditAsks, SetAutoCommit, ByHand, AgentCommits, Writes
<1>7. CASE UNCHANGED vars
  BY <1>3, <1>7 DEF vars
<1> QED BY <1>1, <1>4, <1>5, <1>6, <1>7 DEF Next

LEMMA TypeInit == Init => TypeOK /\ RegistryExact
<1> SUFFICES ASSUME Init PROVE TypeOK /\ RegistryExact
  OBVIOUS
<1>1. TypeOK
  BY NamesDiffer DEF Init, TypeOK, NoPass, NoEdit
<1>2. Counted = {}
  BY DEF Init, Counted, Writing
<1> QED BY <1>1, <1>2, FS_EmptySet DEF Init, RegistryExact, Counted

LEMMA TypeAndRegistry == Spec => [](TypeOK /\ RegistryExact)
BY TypeInit, TypeStep, RegistryStep, PTL DEF Spec

(***************************************************************************)
(* Callers, lines, index and registry are always of their types: the count *)
(* of runs never falls below zero, whatever order runs end in.             *)
(***************************************************************************)
THEOREM TypeCorrect == Spec => []TypeOK
BY TypeAndRegistry, PTL

(***************************************************************************)
(* The count of the registry is exact: it counts each run that may write.  *)
(***************************************************************************)
THEOREM RegistryCorrect == Spec => []RegistryExact
BY TypeAndRegistry, PTL
-----------------------------------------------------------------------------
(***************************************************************************)
(* The commit mutex.                                                       *)
(***************************************************************************)
\* Whoever was inside may be inside still, if the line kept its head.
LEMMA MutexKept ==
  ASSUME TypeOK, MutexInv, \A c \in Callers : InMutex(c)' => InMutex(c),
         line' = line \/ \E x \in Callers : line' = Append(line, x)
  PROVE  MutexInv'
<1> SUFFICES ASSUME NEW c \in Callers, InMutex(c)' PROVE Holds(c)'
  BY DEF MutexInv
<1>1. line # <<>> /\ Head(line) = c
  BY DEF MutexInv, Holds
<1>2. line \in Seq(Callers)
  BY DEF TypeOK
<1> QED BY <1>1, <1>2 DEF Holds

\* The holder alone may be inside: when it leaves, nobody is.
LEMMA MutexLeft ==
  ASSUME MutexInv, NEW h \in Callers, Holds(h), ~InMutex(h)',
         \A c \in Callers \ {h} : InMutex(c)' => InMutex(c)
  PROVE  MutexInv'
BY DEF MutexInv, Holds

\* Only the holder changes its place, and keeps the line.
LEMMA MutexHeld ==
  ASSUME MutexInv, NEW h \in Callers, Holds(h), line' = line,
         \A c \in Callers \ {h} : InMutex(c)' => InMutex(c)
  PROVE  MutexInv'
BY DEF MutexInv, Holds

\* The function begin() returned takes nobody into the mutex.
LEMMA EndRunMutex ==
  ASSUME TypeOK, EndRun
  PROVE  /\ line' = line \/ \E x \in Callers : line' = Append(line, x)
         /\ pass'.at \in {"status", "add", "commit"} => pass' = pass
BY DEF EndRun, Callers, TypeOK

LEMMA MutexStep ==
  ASSUME TypeOK, MutexInv, [Next]_vars
  PROVE  MutexInv'
<1>1. ASSUME NEW r \in Runs, Run(r) PROVE MutexInv'
  <2>1. CASE Begin(r)
    BY <2>1, MutexKept DEF Begin, Move, InMutex, TypeOK
  <2>2. CASE RunFails(r) \/ Leaves(r)
    <3>1. at' = [at EXCEPT ![r] = "over"] \/ at' = [at EXCEPT ![r] = "done"]
      BY <2>2 DEF RunFails, Leaves, Move
    <3>2. EndRun /\ edit' = edit
      BY <2>2 DEF RunFails, Leaves
    <3>3. \A c \in Callers : InMutex(c)' => InMutex(c)
      BY <3>1, <3>2, EndRunMutex DEF InMutex, TypeOK
    <3> QED BY <3>2, <3>3, EndRunMutex, MutexKept
  <2>3. CASE RunSucceeds(r)
    <3>1. line' = line \/ \E x \in Callers : line' = Append(line, x)
      BY <2>3 DEF RunSucceeds, Callers
    <3>2. \A c \in Callers : InMutex(c)' => InMutex(c)
      BY <2>3 DEF RunSucceeds, Move, InMutex, TypeOK
    <3> QED BY <3>1, <3>2, MutexKept
  <2>4. CASE AsksSole(r) \/ Sweeps(r) \/ Adds(r)
    <3>1. Holds(r) /\ line' = line
      BY <2>4 DEF AsksSole, Sweeps, Adds
    <3>2. \A c \in Callers \ {r} : InMutex(c)' => InMutex(c)
      BY <2>4 DEF AsksSole, Sweeps, Adds, Move, InMutex, TypeOK
    <3> QED BY <3>1, <3>2, MutexHeld DEF Callers
  <2>5. CASE Commits(r) \/ GitFails(r)
    <3>1. Holds(r)
      BY <2>5 DEF Commits, GitFails
    <3>2. ~InMutex(r)' /\ \A c \in Callers \ {r} : InMutex(c)' => InMutex(c)
      BY <2>5 DEF Commits, GitFails, Move, InMutex, TypeOK
    <3> QED BY <3>1, <3>2, MutexLeft DEF Callers
  <2> QED BY <1>1, <2>1, <2>2, <2>3, <2>4, <2>5 DEF Run
<1>2. ASSUME Reconcile PROVE MutexInv'
  <2>1. Holds(Pass) /\ at' = at /\ edit' = edit
    BY <1>2 DEF Reconcile, PassChecks, PassFinds, PassAdds, PassCommits, PassFails
  <2>2. \A c \in Callers \ {Pass} : InMutex(c)' => InMutex(c)
    BY <2>1 DEF InMutex
  <2>3. line' = line \/ pass' = NoPass
    BY <1>2 DEF Reconcile, PassChecks, PassFinds, PassAdds, PassCommits, PassFails, PassEnds
  <2>4. pass' = NoPass => ~InMutex(Pass)'
    BY NamesDiffer DEF InMutex, NoPass
  <2> QED BY <2>1, <2>2, <2>3, <2>4, MutexHeld, MutexLeft DEF Callers
<1>3. ASSUME EditPage PROVE MutexInv'
  <2>1. Holds(Edit) /\ at' = at /\ pass' = pass
    BY <1>3 DEF EditPage, EditConflicts, EditWrites, EditAdds, EditCommits, EditFails
  <2>2. \A c \in Callers \ {Edit} : InMutex(c)' => InMutex(c)
    BY <2>1 DEF InMutex, Callers
  <2>3. line' = line \/ edit' = NoEdit
    BY <1>3 DEF EditPage, EditConflicts, EditWrites, EditAdds, EditCommits, EditFails, EditEnds
  <2>4. edit' = NoEdit => ~InMutex(Edit)'
    BY NamesDiffer DEF InMutex, NoEdit
  <2> QED BY <2>1, <2>2, <2>3, <2>4, MutexHeld, MutexLeft DEF Callers
<1>4. ASSUME Environment PROVE MutexInv'
  <2>1. CASE EditAsks
    <3>1. line' = Append(line, Edit) /\ at' = at /\ pass' = pass /\ edit'.at = "wait"
      BY <2>1 DEF EditAsks
    <3>2. \A c \in Callers : InMutex(c)' => InMutex(c)
      BY <3>1 DEF InMutex
    <3> QED BY <3>1, <3>2, MutexKept DEF Callers
  <2>2. CASE UNCHANGED <<at, line, pass, edit>>
    BY <2>2, MutexKept DEF InMutex
  <2>3. ASSUME NEW r \in Runs, Bracket(r) \/ BracketFails(r) PROVE MutexInv'
    <3>1. at' = [at EXCEPT ![r] = "bracket"] /\ UNCHANGED <<line, pass, edit>>
      BY <2>3 DEF Bracket, BracketFails, Starts, Move
    <3> QED BY <3>1, MutexKept DEF InMutex, TypeOK
  <2> QED BY <1>4, <2>1, <2>2, <2>3
          DEF Environment, SetAutoCommit, ByHand, AgentCommits, Writes
<1>5. CASE UNCHANGED vars
  BY <1>5, MutexKept DEF vars, InMutex
<1> QED BY <1>1, <1>2, <1>3, <1>4, <1>5 DEF Next
-----------------------------------------------------------------------------
(***************************************************************************)
(* The line for the mutex.                                                 *)
(***************************************************************************)
\* Who has asked for the mutex and not given it back.
Wants(c) == IF c \in Runs THEN at[c] \in {"wait", "sweep", "add", "commit"}
            ELSE IF c = Pass THEN pass.at # "idle"
            ELSE edit.at # "idle"

\* Nobody stands in the line twice, and those in it are those that want the mutex.
LineExact ==
  /\ \A i, j \in DOMAIN line : line[i] = line[j] => i = j
  /\ \A c \in Callers : InLine(c) <=> Wants(c)

LEMMA LineKept ==
  ASSUME LineExact, line' = line, \A c \in Callers : Wants(c)' <=> Wants(c)
  PROVE  LineExact'
BY DEF LineExact, InLine

LEMMA LineJoined ==
  ASSUME TypeOK, LineExact, NEW h \in Callers, line' = Append(line, h), ~Wants(h), Wants(h)',
         \A c \in Callers \ {h} : Wants(c)' <=> Wants(c)
  PROVE  LineExact'
<1> line \in Seq(Callers)
  BY DEF TypeOK
<1>1. /\ DOMAIN line = 1..Len(line) /\ Len(line) \in Nat
      /\ DOMAIN line' = 1..(Len(line) + 1) /\ line'[Len(line) + 1] = h
      /\ \A i \in 1..Len(line) : line'[i] = line[i]
  OBVIOUS
<1>2. \A i \in 1..Len(line) : line[i] # h
  BY <1>1 DEF LineExact, InLine
<1>3. \A i, j \in DOMAIN line' : line'[i] = line'[j] => i = j
  BY <1>1, <1>2 DEF LineExact
<1>4. ASSUME NEW c \in Callers PROVE InLine(c)' <=> Wants(c)'
  <2>1. InLine(c)' <=> InLine(c) \/ c = h
    BY <1>1 DEF InLine
  <2> QED BY <2>1 DEF LineExact
<1> QED BY <1>3, <1>4 DEF LineExact

LEMMA LineServed ==
  ASSUME TypeOK, LineExact, NEW h \in Callers, Holds(h), line' = Tail(line), ~Wants(h)',
         \A c \in Callers \ {h} : Wants(c)' <=> Wants(c)
  PROVE  LineExact'
<1> line \in Seq(Callers) /\ line # <<>> /\ Head(line) = h
  BY DEF TypeOK, Holds
<1>1. /\ DOMAIN line = 1..Len(line) /\ Len(line) \in Nat /\ Len(line) > 0
      /\ DOMAIN line' = 1..(Len(line) - 1) /\ line[1] = h
      /\ \A i \in 1..(Len(line) - 1) : line'[i] = line[i + 1]
  OBVIOUS
<1>2. \A i, j \in DOMAIN line' : line'[i] = line'[j] => i = j
  BY <1>1 DEF LineExact
<1>3. ASSUME NEW c \in Callers, c # h PROVE InLine(c)' <=> Wants(c)'
  <2>1. InLine(c)' => InLine(c)
    BY <1>1 DEF InLine
  <2>2. ASSUME InLine(c) PROVE InLine(c)'
    <3>1. PICK i \in 1..Len(line) : line[i] = c
      BY <1>1, <2>2 DEF InLine
    <3>2. i # 1 /\ i - 1 \in 1..(Len(line) - 1) /\ line'[i - 1] = c
      BY <1>1, <1>3, <3>1
    <3> QED BY <1>1, <3>2 DEF InLine
  <2> QED BY <1>3, <2>1, <2>2 DEF LineExact
<1>4. ~InLine(h)'
  BY <1>1 DEF InLine, LineExact
<1> QED BY <1>2, <1>3, <1>4 DEF LineExact

\* The idle edge puts the pass into the line, and only when it is not in it.
LEMMA EndRunLine ==
  ASSUME TypeOK, LineExact, EndRun, edit' = edit,
         \A r \in Runs : Wants(r)' <=> Wants(r)
  PROVE  LineExact'
<1>1. CASE UNCHANGED <<pass, line>>
  <2>1. \A c \in Callers : Wants(c)' <=> Wants(c)
    BY <1>1 DEF Wants, Callers
  <2> QED BY <1>1, <2>1, LineKept
<1>2. CASE /\ pass.at = "idle" /\ line' = Append(line, Pass)
           /\ pass' = [at |-> "wait", base |-> periodBaseline, pages |-> {}]
  <2>1. ~Wants(Pass) /\ Wants(Pass)'
    BY <1>2, NamesDiffer DEF Wants
  <2>2. \A c \in Callers \ {Pass} : Wants(c)' <=> Wants(c)
    BY NamesDiffer DEF Wants, Callers
  <2> QED BY <1>2, <2>1, <2>2, LineJoined DEF Callers
<1> QED BY <1>1, <1>2 DEF EndRun

LEMMA LineStep ==
  ASSUME TypeOK, LineExact, [Next]_vars
  PROVE  LineExact'
<1>1. ASSUME NEW r \in Runs, Run(r) PROVE LineExact'
  <2>1. CASE Begin(r)
    BY <2>1, LineKept DEF Begin, Move, Wants, TypeOK
  <2>2. CASE RunFails(r) \/ Leaves(r)
    <3>1. /\ at[r] \in {"run", "landed", "kept"}
          /\ at' = [at EXCEPT ![r] = "over"] \/ at' = [at EXCEPT ![r] = "done"]
      BY <2>2 DEF RunFails, Leaves, Move
    <3>2. EndRun /\ edit' = edit
      BY <2>2 DEF RunFails, Leaves
    <3>3. \A q \in Runs : Wants(q)' <=> Wants(q)
      BY <3>1 DEF Wants, TypeOK
    <3> QED BY <3>2, <3>3, EndRunLine
  <2>3. CASE RunSucceeds(r)
    <3>1. CASE Move(r, "run", "kept") /\ UNCHANGED line
      <4>1. \A c \in Callers : Wants(c)' <=> Wants(c)
        BY <2>3, <3>1 DEF RunSucceeds, Move, Wants, TypeOK
      <4> QED BY <3>1, <4>1, LineKept
    <3>2. CASE Move(r, "run", "wait") /\ line' = Append(line, r)
      <4>1. ~Wants(r) /\ Wants(r)' /\ \A c \in Callers \ {r} : Wants(c)' <=> Wants(c)
        BY <2>3, <3>2 DEF RunSucceeds, Move, Wants, TypeOK
      <4> QED BY <3>2, <4>1, LineJoined DEF Callers
    <3> QED BY <2>3, <3>1, <3>2 DEF RunSucceeds
  <2>4. CASE AsksSole(r) \/ Sweeps(r) \/ Adds(r)
    <3>1. line' = line
      BY <2>4 DEF AsksSole, Sweeps, Adds
    <3>2. \A c \in Callers : Wants(c)' <=> Wants(c)
      BY <2>4 DEF AsksSole, Sweeps, Adds, Move, Wants, TypeOK
    <3> QED BY <3>1, <3>2, LineKept
  <2>5. CASE Commits(r) \/ GitFails(r)
    <3>1. Holds(r) /\ line' = Tail(line)
      BY <2>5 DEF Commits, GitFails
    <3>2. ~Wants(r)' /\ \A c \in Callers \ {r} : Wants(c)' <=> Wants(c)
      BY <2>5 DEF Commits, GitFails, Move, Wants, TypeOK
    <3> QED BY <3>1, <3>2, LineServed DEF Callers
  <2> QED BY <1>1, <2>1, <2>2, <2>3, <2>4, <2>5 DEF Run
<1>2. ASSUME Reconcile PROVE LineExact'
  <2>1. Holds(Pass) /\ at' = at /\ edit' = edit
    BY <1>2 DEF Reconcile, PassChecks, PassFinds, PassAdds, PassCommits, PassFails
  <2>2. \A c \in Callers \ {Pass} : Wants(c)' <=> Wants(c)
    BY <2>1, NamesDiffer DEF Wants, Callers
  <2>3. PassEnds \/ (line' = line /\ pass.at # "idle" /\ pass'.at # "idle")
    BY <1>2 DEF Reconcile, PassChecks, PassFinds, PassAdds, PassCommits, PassFails, TypeOK
  <2>4. CASE PassEnds
    <3>1. ~Wants(Pass)'
      BY <2>4, NamesDiffer DEF PassEnds, NoPass, Wants
    <3> QED BY <2>1, <2>2, <2>4, <3>1, LineServed DEF PassEnds, Callers
  <2>5. CASE line' = line /\ pass.at # "idle" /\ pass'.at # "idle"
    <3>1. Wants(Pass) /\ Wants(Pass)'
      BY <2>5, NamesDiffer DEF Wants
    <3> QED BY <2>2, <2>5, <3>1, LineKept
  <2> QED BY <2>3, <2>4, <2>5
<1>3. ASSUME EditPage PROVE LineExact'
  <2>1. Holds(Edit) /\ at' = at /\ pass' = pass
    BY <1>3 DEF EditPage, EditConflicts, EditWrites, EditAdds, EditCommits, EditFails
  <2>2. \A c \in Callers \ {Edit} : Wants(c)' <=> Wants(c)
    BY <2>1, NamesDiffer DEF Wants, Callers
  <2>3. EditEnds \/ (line' = line /\ edit.at # "idle" /\ edit'.at # "idle")
    BY <1>3
      DEF EditPage, EditConflicts, EditWrites, EditAdds, EditCommits, EditFails, TypeOK
  <2>4. CASE EditEnds
    <3>1. ~Wants(Edit)'
      BY <2>4, NamesDiffer DEF EditEnds, NoEdit, Wants
    <3> QED BY <2>1, <2>2, <2>4, <3>1, LineServed DEF EditEnds, Callers
  <2>5. CASE line' = line /\ edit.at # "idle" /\ edit'.at # "idle"
    <3>1. Wants(Edit) /\ Wants(Edit)'
      BY <2>5, NamesDiffer DEF Wants
    <3> QED BY <2>2, <2>5, <3>1, LineKept
  <2> QED BY <2>3, <2>4, <2>5
<1>4. ASSUME Environment PROVE LineExact'
  <2>1. CASE EditAsks
    <3>1. line' = Append(line, Edit) /\ at' = at /\ pass' = pass
      BY <2>1 DEF EditAsks
    <3>2. ~Wants(Edit) /\ Wants(Edit)'
      BY <2>1, NamesDiffer DEF EditAsks, Wants
    <3>3. \A c \in Callers \ {Edit} : Wants(c)' <=> Wants(c)
      BY <3>1, NamesDiffer DEF Wants, Callers
    <3> QED BY <3>1, <3>2, <3>3, LineJoined DEF Callers
  <2>2. CASE UNCHANGED <<at, line, pass, edit>>
    BY <2>2, LineKept DEF Wants
  <2>3. ASSUME NEW r \in Runs, Bracket(r) \/ BracketFails(r) PROVE LineExact'
    <3>1. at[r] = "off" /\ at' = [at EXCEPT ![r] = "bracket"] /\ UNCHANGED <<line, pass, edit>>
      BY <2>3 DEF Bracket, BracketFails, Starts, Move
    <3> QED BY <3>1, LineKept DEF Wants, TypeOK
  <2> QED BY <1>4, <2>1, <2>2, <2>3
          DEF Environment, SetAutoCommit, ByHand, AgentCommits, Writes
<1>5. CASE UNCHANGED vars
  BY <1>5, LineKept DEF vars, Wants
<1> QED BY <1>1, <1>2, <1>3, <1>4, <1>5 DEF Next

(***************************************************************************)
(* The line of the commit mutex is exact: a run, the pass and the edit are *)
(* in it once from the call of runExclusive to its end, whichever way that *)
(* end comes, so no turn is given twice, to nobody, or kept.               *)
(***************************************************************************)
THEOREM LineCorrect == Spec => []LineExact
<1>1. Init => LineExact
  BY NamesDiffer DEF Init, LineExact, InLine, Wants, NoPass, NoEdit, Callers
<1> QED BY <1>1, TypeCorrect, LineStep, PTL DEF Spec
-----------------------------------------------------------------------------
(***************************************************************************)
(* What is staged.                                                         *)
(***************************************************************************)
LEMMA IndexKept ==
  ASSUME IndexInv, Staged' \ left' \subseteq Staged \ left,
         \A c \in Callers : AddedBy(c) \subseteq AddedBy(c)'
  PROVE  IndexInv'
BY DEF IndexInv

\* What the holder adds is its own; when it comes to add, the rest is left.
LEMMA Adding ==
  ASSUME MutexInv, IndexInv, NEW h \in Callers, Holds(h), AddedBy(h) = {},
         NEW S \in SUBSET Pages, Add(S), left' = left, AddedBy(h)' = S
  PROVE  IndexInv'
<1> SUFFICES ASSUME NEW p \in Staged' \ left' PROVE p \in AddedBy(h)'
  BY DEF IndexInv
<1>1. CASE p \in S
  BY <1>1
<1>2. CASE p \notin S
  <2>1. p \in Staged \ left
    BY <1>2 DEF Add, Staged
  <2>2. PICK c \in Callers : p \in AddedBy(c)
    BY <2>1 DEF IndexInv
  <2>3. InMutex(c)
    BY <2>2 DEF AddedBy, InMutex
  <2>4. c = h
    BY <2>3 DEF MutexInv, Holds
  <2> QED BY <2>2, <2>4
<1> QED BY <1>1, <1>2

\* A commit of what the holder added leaves what a failure left.
LEMMA Committing ==
  ASSUME MutexInv, IndexInv, NEW h \in Callers, Holds(h), CommitPaths(AddedBy(h)),
         \A c \in Callers \ {h} : AddedBy(c)' = AddedBy(c)
  PROVE  IndexInv'
<1> SUFFICES ASSUME NEW p \in Staged' \ left' PROVE \E c \in Callers : p \in AddedBy(c)'
  BY DEF IndexInv
<1>1. p \in Staged \ left /\ p \notin AddedBy(h)
  BY DEF CommitPaths, CommitOnly, Staged
<1>2. PICK c \in Callers : p \in AddedBy(c)
  BY <1>1 DEF IndexInv
<1> QED BY <1>1, <1>2

\* A step that leaves the index alone and is of nobody at its commit.
LEMMA IndexAside ==
  ASSUME IndexInv, UNCHANGED <<index, left>>,
         \A c \in Callers : AddedBy(c) = {} \/ AddedBy(c)' = AddedBy(c)
  PROVE  IndexInv'
BY IndexKept DEF Staged

LEMMA IndexStep ==
  ASSUME TypeOK, MutexInv, IndexInv, [Next]_vars
  PROVE  IndexInv'
<1> USE NamesDiffer DEF Callers
<1>1. ASSUME NEW r \in Runs, Run(r) PROVE IndexInv'
  <2>1. CASE Begin(r) \/ RunSucceeds(r) \/ AsksSole(r) \/ Sweeps(r)
    <3>1. \A c \in Callers : AddedBy(c) = {} \/ AddedBy(c)' = AddedBy(c)
      BY <2>1 DEF Begin, RunSucceeds, AsksSole, Sweeps, Move, AddedBy, TypeOK
    <3> QED BY <2>1, <3>1, IndexAside DEF Begin, RunSucceeds, AsksSole, Sweeps
  <2>2. CASE RunFails(r) \/ Leaves(r)
    <3>1. /\ EndRun /\ Forget(r) /\ edit' = edit /\ UNCHANGED <<index, left>>
          /\ at[r] # "commit" /\ \A s \in Runs \ {r} : at'[s] = at[s]
      BY <2>2 DEF RunFails, Leaves, Move, TypeOK
    <3>2. AddedBy(r) = {}
      BY <3>1 DEF AddedBy
    <3>3. \A s \in Runs \ {r} : AddedBy(s)' = AddedBy(s)
      BY <3>1 DEF AddedBy, Forget, TypeOK
    <3>4. AddedBy(Pass) = {} \/ AddedBy(Pass)' = AddedBy(Pass)
      BY <3>1 DEF AddedBy, EndRun
    <3>5. AddedBy(Edit)' = AddedBy(Edit)
      BY <3>1 DEF AddedBy
    <3> QED BY <3>1, <3>2, <3>3, <3>4, <3>5, IndexAside
  <2>3. CASE Adds(r)
    <3>1. AddedBy(r) = {} /\ AddedBy(r)' = pathspec[r] /\ pathspec[r] \in SUBSET Pages
      BY <2>3 DEF Adds, Move, AddedBy, TypeOK
    <3> QED BY <2>3, <3>1, Adding DEF Adds
  <2>4. CASE Commits(r)
    BY <2>4 DEF Commits, Staged, IndexInv
  <2>5. CASE GitFails(r)
    BY <2>5 DEF GitFails, Staged, IndexInv
  <2> QED BY <1>1, <2>1, <2>2, <2>3, <2>4, <2>5 DEF Run
<1>2. ASSUME Reconcile PROVE IndexInv'
  <2>1. CASE PassChecks \/ PassFinds
    <3>1. AddedBy(Pass) = {}
      BY <2>1 DEF PassChecks, PassFinds, AddedBy
    <3>2. \A c \in Callers \ {Pass} : AddedBy(c)' = AddedBy(c)
      BY <2>1 DEF PassChecks, PassFinds, AddedBy
    <3> QED BY <2>1, <3>1, <3>2, IndexAside DEF PassChecks, PassFinds
  <2>2. CASE PassAdds
    <3>1. AddedBy(Pass) = {} /\ AddedBy(Pass)' = pass.pages /\ pass.pages \in SUBSET Pages
      BY <2>2 DEF PassAdds, AddedBy, TypeOK
    <3> QED BY <2>2, <3>1, Adding DEF PassAdds
  <2>3. CASE PassCommits
    <3>1. AddedBy(Pass) = pass.pages /\ \A c \in Callers \ {Pass} : AddedBy(c)' = AddedBy(c)
      BY <2>3 DEF PassCommits, AddedBy
    <3> QED BY <2>3, <3>1, Committing DEF PassCommits
  <2>4. CASE PassFails
    BY <2>4 DEF PassFails, Staged, IndexInv
  <2> QED BY <1>2, <2>1, <2>2, <2>3, <2>4 DEF Reconcile
<1>3. ASSUME EditPage PROVE IndexInv'
  <2>1. CASE EditConflicts \/ EditWrites
    <3>1. AddedBy(Edit) = {}
      BY <2>1 DEF EditConflicts, EditWrites, AddedBy
    <3>2. \A c \in Callers \ {Edit} : AddedBy(c)' = AddedBy(c)
      BY <2>1 DEF EditConflicts, EditWrites, AddedBy
    <3> QED BY <2>1, <3>1, <3>2, IndexAside DEF EditConflicts, EditWrites
  <2>2. CASE EditAdds
    <3>1. AddedBy(Edit) = {} /\ AddedBy(Edit)' = edit.pages /\ edit.pages \in SUBSET Pages
      BY <2>2 DEF EditAdds, AddedBy, TypeOK
    <3> QED BY <2>2, <3>1, Adding DEF EditAdds
  <2>3. CASE EditCommits
    <3>1. AddedBy(Edit) = edit.pages /\ \A c \in Callers \ {Edit} : AddedBy(c)' = AddedBy(c)
      BY <2>3 DEF EditCommits, AddedBy
    <3> QED BY <2>3, <3>1, Committing DEF EditCommits
  <2>4. CASE EditFails
    BY <2>4 DEF EditFails, Staged, IndexInv
  <2> QED BY <1>3, <2>1, <2>2, <2>3, <2>4 DEF EditPage
<1>4. ASSUME Environment PROVE IndexInv'
  <2>1. CASE EditAsks
    <3>1. AddedBy(Edit) = {} /\ \A c \in Callers \ {Edit} : AddedBy(c)' = AddedBy(c)
      BY <2>1 DEF EditAsks, AddedBy
    <3> QED BY <2>1, <3>1, IndexAside DEF EditAsks
  <2>2. CASE UNCHANGED <<at, pathspec, pass, edit, index, left>>
    <3>1. \A c \in Callers : AddedBy(c)' = AddedBy(c)
      BY <2>2 DEF AddedBy
    <3> QED BY <2>2, <3>1, IndexAside
  <2>3. ASSUME NEW r \in Runs, Bracket(r) \/ BracketFails(r) PROVE IndexInv'
    <3>1. /\ at[r] = "off" /\ at' = [at EXCEPT ![r] = "bracket"]
          /\ UNCHANGED <<pathspec, pass, edit, index, left>>
      BY <2>3 DEF Bracket, BracketFails, Starts, Move
    <3>2. \A c \in Callers : AddedBy(c)' = AddedBy(c)
      BY <3>1 DEF AddedBy, TypeOK
    <3> QED BY <3>1, <3>2, IndexAside
  <2>4. ASSUME NEW r \in Runs, AgentCommits(r) PROVE IndexInv'
    <3>1. \A c \in Callers : AddedBy(c)' = AddedBy(c)
      BY <2>4 DEF AgentCommits, AddedBy
    <3>2. Staged' \ left' \subseteq Staged \ left
      BY <2>4 DEF AgentCommits, CommitOnly, Staged
    <3> QED BY <3>1, <3>2, IndexKept
  <2> QED BY <1>4, <2>1, <2>2, <2>3, <2>4
          DEF Environment, SetAutoCommit, ByHand, Writes
<1>5. CASE UNCHANGED vars
  BY <1>5, IndexKept DEF vars, AddedBy, Staged
<1> QED BY <1>1, <1>2, <1>3, <1>4, <1>5 DEF Next
-----------------------------------------------------------------------------
(***************************************************************************)
(* Whose changes a commit takes.                                           *)
(***************************************************************************)
Local(r) == <<at[r], dirtyBefore[r], written[r], pathspec[r]>>

\* A run's locals change in its own steps only.
LEMMA OwnSteps ==
  ASSUME TypeOK, [Next]_vars, NEW r \in Runs
  PROVE  \/ UNCHANGED Local(r)
         \/ Bracket(r) \/ BracketFails(r) \/ Run(r)
         \/ \E p \in Pages : Writes(r, p)
<1>1. ASSUME NEW s \in Runs \ {r}, Run(s) PROVE UNCHANGED Local(r)
  BY <1>1 DEF Run, Begin, RunFails, RunSucceeds, AsksSole, Sweeps, Adds, Commits, GitFails,
              Leaves, Move, Forget, Local, TypeOK
<1>2. ASSUME NEW s \in Runs \ {r}, Bracket(s) \/ BracketFails(s) PROVE UNCHANGED Local(r)
  BY <1>2 DEF Bracket, BracketFails, Starts, Move, Local, TypeOK
<1>3. ASSUME NEW s \in Runs \ {r}, NEW p \in Pages, Writes(s, p) PROVE UNCHANGED Local(r)
  BY <1>3 DEF Writes, Local, TypeOK
<1>4. CASE UNCHANGED <<at, dirtyBefore, written, pathspec>>
  BY <1>4 DEF Local
<1>5. CASE Reconcile
  BY <1>4, <1>5 DEF Reconcile, PassChecks, PassFinds, PassAdds, PassCommits, PassFails
<1>6. CASE EditPage
  BY <1>4, <1>6 DEF EditPage, EditConflicts, EditWrites, EditAdds, EditCommits, EditFails
<1>7. CASE Environment
  BY <1>2, <1>3, <1>4, <1>7 DEF Environment, EditAsks, SetAutoCommit, ByHand, AgentCommits
<1>8. CASE UNCHANGED vars
  BY <1>4, <1>8 DEF vars
<1> QED BY <1>1, <1>5, <1>6, <1>7, <1>8 DEF Next

\* What a step may do to the pages: one change, which those under way meet, or
\* an add, or a commit of some pages or of the index.
Changes  == \E w \in Authors, p \in Pages :
              Change(w, p) /\ index' = index /\ (w \in Runs => at[w] = "run")
Commit   == tree' = tree /\ index' = [p \in Pages |-> {}]
PageStep == \/ Changes
            \/ /\ met' = met
               /\ \/ \E S \in SUBSET Pages : Add(S) \/ CommitOnly(S)
                  \/ Commit
                  \/ UNCHANGED <<tree, index>>

LEMMA PageSteps ==
  ASSUME TypeOK, [Next]_vars
  PROVE  PageStep
<1>1. ASSUME NEW r \in Runs, Run(r) PROVE PageStep
  <2>1. CASE Adds(r)
    BY <2>1 DEF Adds, PageStep, TypeOK
  <2>2. CASE Commits(r)
    BY <2>2 DEF Commits, PageStep, Commit
  <2>3. CASE UNCHANGED <<tree, index, met>>
    BY <2>3 DEF PageStep
  <2> QED BY <1>1, <2>1, <2>2, <2>3
          DEF Run, Begin, RunFails, RunSucceeds, AsksSole, Sweeps, GitFails, Leaves
<1>2. ASSUME Reconcile PROVE PageStep
  <2>1. CASE PassAdds \/ PassCommits
    <3>1. pass.pages \in SUBSET Pages
      BY DEF TypeOK
    <3> QED BY <2>1, <3>1 DEF PassAdds, PassCommits, CommitPaths, PageStep
  <2>2. CASE UNCHANGED <<tree, index, met>>
    BY <2>2 DEF PageStep
  <2> QED BY <1>2, <2>1, <2>2 DEF Reconcile, PassChecks, PassFinds, PassFails
<1>3. ASSUME EditPage PROVE PageStep
  <2>1. CASE EditAdds \/ EditCommits
    <3>1. edit.pages \in SUBSET Pages
      BY DEF TypeOK
    <3> QED BY <2>1, <3>1 DEF EditAdds, EditCommits, CommitPaths, PageStep
  <2>2. CASE EditWrites
    BY <2>2, NamesDiffer DEF EditWrites, PageStep, Changes, Authors, TypeOK
  <2>3. CASE UNCHANGED <<tree, index, met>>
    BY <2>3 DEF PageStep
  <2> QED BY <1>3, <2>1, <2>2, <2>3 DEF EditPage, EditConflicts, EditFails
<1>4. ASSUME Environment PROVE PageStep
  <2>1. ASSUME NEW p \in Pages, ByHand(p) PROVE PageStep
    BY <2>1, NamesDiffer DEF ByHand, PageStep, Changes, Authors
  <2>2. ASSUME NEW r \in Runs, NEW p \in Pages, Writes(r, p) PROVE PageStep
    BY <2>2 DEF Writes, PageStep, Changes, Authors
  <2>3. ASSUME NEW r \in Runs, AgentCommits(r) PROVE PageStep
    BY <2>3 DEF AgentCommits, PageStep
  <2>4. CASE UNCHANGED <<tree, index, met>>
    BY <2>4 DEF PageStep
  <2> QED BY <1>4, <2>1, <2>2, <2>3, <2>4
          DEF Environment, EditAsks, SetAutoCommit, Bracket, BracketFails, Starts
<1>5. CASE UNCHANGED vars
  BY <1>5 DEF vars, PageStep
<1> QED BY <1>1, <1>2, <1>3, <1>4, <1>5 DEF Next

\* Whoever is not at its run changes no page.
LEMMA NothingNew ==
  ASSUME TypeOK, [Next]_vars, NEW r \in Runs, at[r] # "run", NEW p \in Pages
  PROVE  /\ r \in tree'[p] => r \in tree[p]
         /\ r \in tree'[p] \cup index'[p] => r \in tree[p] \cup index[p]
<1>1. CASE Changes
  <2>1. PICK w \in Authors, q \in Pages :
          Change(w, q) /\ index' = index /\ (w \in Runs => at[w] = "run")
    BY <1>1 DEF Changes
  <2>2. w # r
    BY <2>1
  <2>3. tree' = [tree EXCEPT ![q] = @ \cup {w}]
    BY <2>1 DEF Change
  <2> QED BY <2>1, <2>2, <2>3 DEF TypeOK
<1>2. ASSUME NEW S \in SUBSET Pages, Add(S) \/ CommitOnly(S)
      PROVE  /\ r \in tree'[p] => r \in tree[p]
             /\ r \in tree'[p] \cup index'[p] => r \in tree[p] \cup index[p]
  BY <1>2 DEF Add, CommitOnly
<1> QED BY <1>1, <1>2, PageSteps DEF PageStep, Commit

LEMMA LandStep ==
  ASSUME TypeOK, LandInv, ReportedPagesLand, [Next]_vars
  PROVE  LandInv' /\ ReportedPagesLand'
<1> DEFINE L(r) == /\ at[r] \in {"off", "bracket"} => written[r] = {}
                   /\ at[r] \in {"add", "commit"} => written[r] \subseteq pathspec[r]
                   /\ at[r] = "commit" => \A p \in pathspec[r] : r \notin tree[p]
                   /\ at[r] \in {"landed", "done"} =>
                        \A p \in written[r] : r \notin tree[p] \cup index[p]
<1> SUFFICES ASSUME NEW r \in Runs PROVE L(r)'
  BY DEF LandInv, ReportedPagesLand
<1>1. L(r) /\ written[r] \subseteq Pages /\ pathspec[r] \subseteq Pages
  BY DEF LandInv, ReportedPagesLand, TypeOK
<1>2. CASE UNCHANGED Local(r)
  BY <1>1, <1>2, NothingNew DEF Local
<1>3. CASE Bracket(r) \/ BracketFails(r)
  BY <1>1, <1>3 DEF Bracket, BracketFails, Starts, Move, TypeOK
<1>4. ASSUME NEW p \in Pages, Writes(r, p) PROVE L(r)'
  BY <1>4 DEF Writes
<1>5. CASE Run(r)
  <2>1. CASE Begin(r) \/ RunFails(r) \/ RunSucceeds(r)
    BY <2>1 DEF Begin, RunFails, RunSucceeds, Move, TypeOK
  <2>2. CASE AsksSole(r) \/ Sweeps(r)
    BY <2>2 DEF AsksSole, Sweeps, Move, TypeOK
  <2>3. CASE Adds(r)
    BY <1>1, <2>3 DEF Adds, Move, Add, TypeOK
  <2>4. CASE Commits(r)
    BY <1>1, <2>4 DEF Commits, Move, TypeOK
  <2>5. CASE GitFails(r)
    BY <2>5 DEF GitFails, Move, TypeOK
  <2>6. CASE Leaves(r)
    BY <1>1, <2>6 DEF Leaves, Move, TypeOK
  <2> QED BY <1>5, <2>1, <2>2, <2>3, <2>4, <2>5, <2>6 DEF Run
<1> QED BY <1>2, <1>3, <1>4, <1>5, OwnSteps

LEMMA HistoryGrows ==
  ASSUME TypeOK, [Next]_vars
  PROVE  met \subseteq met' /\ blind \subseteq blind'
<1>1. met \subseteq met'
  <2>1. CASE Changes
    BY <2>1 DEF Changes, Change
  <2> QED BY <2>1, PageSteps DEF PageStep
<1>2. blind \subseteq blind'
  <2>1. ASSUME NEW r \in Runs, Run(r) PROVE blind' = blind
    BY <2>1 DEF Run, Begin, RunFails, RunSucceeds, AsksSole, Sweeps, Adds, Commits, GitFails,
                Leaves
  <2>2. ASSUME Reconcile \/ EditPage PROVE blind' = blind
    BY <2>2 DEF Reconcile, PassChecks, PassFinds, PassAdds, PassCommits, PassFails,
                EditPage, EditConflicts, EditWrites, EditAdds, EditCommits, EditFails
  <2>3. ASSUME Environment PROVE blind \subseteq blind'
    BY <2>3 DEF Environment, EditAsks, SetAutoCommit, ByHand, AgentCommits, Writes, Bracket,
                BracketFails, Starts
  <2> QED BY <2>1, <2>2, <2>3 DEF Next, vars
<1> QED BY <1>1, <1>2

\* A page that is dirty for one run has been seen, or written, by the other.
Known(r, p, w) ==
  /\ w \in tree[p] \cup index[p] => p \in dirtyBefore[r]
  /\ p \in written[r] => /\ w \in tree[p]  => r \in tree[p]
                         /\ w \in index[p] => r \in tree[p] \cup index[p]

\* A step of the pages keeps what is known, unless the run is under way and meets it.
LEMMA KnownKept ==
  ASSUME TypeOK, PageStep, NEW r \in Runs, NEW p \in Pages, NEW w \in Authors,
         r \in UnderWay, w # r, <<r, w>> \notin met', Known(r, p, w),
         dirtyBefore'[r] = dirtyBefore[r], written'[r] = written[r]
  PROVE  Known(r, p, w)'
<1>1. CASE Changes
  <2>1. PICK v \in Authors, q \in Pages : Change(v, q) /\ index' = index
    BY <1>1 DEF Changes
  <2>2. v # w
    <3> SUFFICES ASSUME v = w PROVE FALSE
      OBVIOUS
    <3>1. <<r, w>> \in met'
      BY <2>1 DEF Change
    <3> QED BY <3>1
  <2>3. tree' = [tree EXCEPT ![q] = @ \cup {v}]
    BY <2>1 DEF Change
  <2> QED BY <2>1, <2>2, <2>3 DEF Known, TypeOK
<1>2. ASSUME NEW S \in SUBSET Pages, Add(S) \/ CommitOnly(S) PROVE Known(r, p, w)'
  BY <1>2 DEF Add, CommitOnly, Known
<1>3. CASE Commit
  BY <1>3 DEF Commit, Known
<1>4. CASE UNCHANGED <<tree, index>>
  BY <1>4 DEF Known
<1> QED BY <1>1, <1>2, <1>3, <1>4 DEF PageStep

LEMMA OlderStep ==
  ASSUME TypeOK, LandInv, OlderInv, [Next]_vars
  PROVE  OlderInv'
<1> SUFFICES ASSUME NEW r \in Runs, NEW p \in Pages, NEW w \in Authors,
                    at'[r] \in Sweeping, Older(r, w)'
             PROVE  Known(r, p, w)'
  BY DEF OlderInv, Known
<1>1. w # r /\ <<r, w>> \notin met' /\ r \notin blind' /\ Older(r, w)
  BY HistoryGrows DEF Older
<1>2. ASSUME at[r] \in Sweeping PROVE r \in UnderWay /\ Known(r, p, w)
  BY <1>1, <1>2 DEF OlderInv, Known, Sweeping, UnderWay, Writing
<1>3. CASE UNCHANGED Local(r)
  BY <1>1, <1>2, <1>3, KnownKept, PageSteps DEF Local
<1>4. CASE Bracket(r)
  <2>1. written'[r] = {}
    BY <1>4 DEF Bracket, Starts, Move, LandInv
  <2>2. dirtyBefore'[r] = Dirty /\ UNCHANGED <<tree, index>>
    BY <1>4 DEF Bracket, Starts, TypeOK
  <2> QED BY <2>1, <2>2 DEF Known, Dirty
<1>5. CASE BracketFails(r)
  BY <1>1, <1>5 DEF BracketFails
<1>6. ASSUME NEW q \in Pages, Writes(r, q) PROVE Known(r, p, w)'
  <2>1. /\ at[r] = "run" /\ tree' = [tree EXCEPT ![q] = @ \cup {r}]
        /\ index' = index /\ dirtyBefore' = dirtyBefore
        /\ written' = written \/ written' = [written EXCEPT ![r] = @ \cup {q}]
    BY <1>6 DEF Writes, Change
  <2>2. Known(r, p, w)
    BY <1>2, <2>1 DEF Sweeping
  <2> QED BY <1>1, <2>1, <2>2 DEF Known, TypeOK
<1>7. CASE Run(r)
  <2>1. at[r] \in Sweeping /\ dirtyBefore' = dirtyBefore /\ written' = written
    BY <1>7 DEF Run, Begin, RunFails, RunSucceeds, AsksSole, Sweeps, Adds, Commits, GitFails,
                Leaves, Move, Sweeping, TypeOK
  <2> QED BY <1>1, <1>2, <2>1, KnownKept, PageSteps
<1> QED BY <1>3, <1>4, <1>5, <1>6, <1>7, OwnSteps

LEMMA PathspecStep ==
  ASSUME TypeOK, PathspecInv, [Next]_vars
  PROVE  PathspecInv'
<1> SUFFICES ASSUME NEW r \in Runs, at'[r] \in {"add", "commit"}
             PROVE  pathspec'[r] \cap dirtyBefore'[r] \subseteq written'[r]
  BY DEF PathspecInv
<1>1. CASE UNCHANGED Local(r)
  BY <1>1 DEF Local, PathspecInv
<1>2. CASE Bracket(r) \/ BracketFails(r) \/ \E p \in Pages : Writes(r, p)
  BY <1>2 DEF Bracket, BracketFails, Starts, Writes, Move, TypeOK
<1>3. CASE Run(r)
  <2>1. CASE AsksSole(r)
    BY <2>1 DEF AsksSole, Move, TypeOK
  <2>2. CASE Sweeps(r)
    BY <2>2 DEF Sweeps, NewWikiPaths, TypeOK
  <2>3. CASE Adds(r)
    BY <2>3 DEF Adds, Move, PathspecInv
  <2> QED BY <1>3, <2>1, <2>2, <2>3
          DEF Run, Begin, RunFails, RunSucceeds, Commits, GitFails, Leaves, Move, TypeOK
<1> QED BY <1>1, <1>2, <1>3, OwnSteps

LEMMA SweepStep ==
  ASSUME TypeOK, MutexInv, IndexInv, LandInv, OlderInv, PathspecInv, SweepSparesOlderWork,
         [Next]_vars
  PROVE  SweepSparesOlderWork'
<1>1. CASE misfiled' = misfiled
  BY <1>1, HistoryGrows DEF SweepSparesOlderWork
<1>2. ASSUME NEW r \in Runs, Commits(r) PROVE SweepSparesOlderWork'
  <2>1. ASSUME NEW p \in Staged \ left, r \notin index[p], NEW w \in index[p]
        PROVE  <<r, w>> \in met \/ r \in blind
    <3>1. Holds(r) /\ at[r] = "commit" /\ w \in Authors /\ w # r /\ p \in Pages
      BY <1>2, <2>1 DEF Commits, Move, Staged, TypeOK
    <3>2. PICK c \in Callers : p \in AddedBy(c)
      BY <2>1 DEF IndexInv
    <3>3. c = r
      BY <3>1, <3>2 DEF AddedBy, InMutex, MutexInv, Holds
    <3>4. p \in pathspec[r] /\ r \notin tree[p]
      BY <3>1, <3>2, <3>3 DEF AddedBy, LandInv
    <3> SUFFICES ASSUME Older(r, w) PROVE FALSE
      BY <3>1 DEF Older
    <3>5. Known(r, p, w)
      BY <3>1 DEF OlderInv, Known, Sweeping
    <3>6. p \in written[r]
      BY <3>1, <3>4, <3>5 DEF Known, PathspecInv
    <3> QED BY <2>1, <3>4, <3>5, <3>6 DEF Known
  <2>2. misfiled' = misfiled \cup
          {<<r, w>> : w \in UNION {index[p] : p \in {q \in Staged \ left : r \notin index[q]}}}
    BY <1>2 DEF Commits
  <2>3. ASSUME NEW m \in misfiled' PROVE m \in met \/ m[1] \in blind
    <3>1. CASE m \in misfiled
      BY <3>1 DEF SweepSparesOlderWork
    <3>2. CASE m \notin misfiled
      <4>1. PICK w \in UNION {index[p] : p \in {q \in Staged \ left : r \notin index[q]}} :
              m = <<r, w>>
        BY <2>2, <3>2
      <4>2. PICK p \in Staged \ left : r \notin index[p] /\ w \in index[p]
        OBVIOUS
      <4>3. <<r, w>> \in met \/ r \in blind
        BY <2>1, <4>2
      <4> QED BY <4>1, <4>3
    <3> QED BY <3>1, <3>2
  <2> QED BY <2>3, HistoryGrows DEF SweepSparesOlderWork
<1>3. ASSUME NEW r \in Runs, Run(r) PROVE SweepSparesOlderWork'
  BY <1>1, <1>2, <1>3 DEF Run, Begin, RunFails, RunSucceeds, AsksSole, Sweeps, Adds, GitFails,
                          Leaves
<1>4. CASE Reconcile \/ EditPage
  BY <1>1, <1>4 DEF Reconcile, PassChecks, PassFinds, PassAdds, PassCommits, PassFails,
                    EditPage, EditConflicts, EditWrites, EditAdds, EditCommits, EditFails
<1>5. CASE Environment
  BY <1>1, <1>5 DEF Environment, EditAsks, SetAutoCommit, ByHand, AgentCommits, Writes,
                    Bracket, BracketFails, Starts
<1>6. CASE UNCHANGED vars
  BY <1>1, <1>6 DEF vars
<1> QED BY <1>3, <1>4, <1>5, <1>6 DEF Next
-----------------------------------------------------------------------------
(***************************************************************************)
(* The theorems.                                                           *)
(***************************************************************************)
Inv == /\ MutexInv /\ IndexInv /\ LandInv /\ OlderInv /\ PathspecInv
       /\ ReportedPagesLand /\ SweepSparesOlderWork

LEMMA InvInit == Init => Inv
<1> SUFFICES ASSUME Init PROVE Inv
  OBVIOUS
<1>1. MutexInv
  BY DEF Init, MutexInv, InMutex, NoPass, NoEdit
<1>2. IndexInv
  BY DEF Init, IndexInv, Staged
<1>3. LandInv /\ OlderInv /\ PathspecInv
  BY DEF Init, LandInv, OlderInv, PathspecInv, Sweeping
<1>4. ReportedPagesLand /\ SweepSparesOlderWork
  BY DEF Init, ReportedPagesLand, SweepSparesOlderWork
<1> QED BY <1>1, <1>2, <1>3, <1>4 DEF Inv

LEMMA InvStep ==
  ASSUME TypeOK, Inv, [Next]_vars
  PROVE  Inv'
BY MutexStep, IndexStep, LandStep, OlderStep, PathspecStep, SweepStep DEF Inv

LEMMA InvCorrect == Spec => []Inv
BY TypeCorrect, InvInit, InvStep, PTL DEF Spec

\* Who is at its commit is inside the mutex, and at the head of the line.
LEMMA IndexFollows ==
  ASSUME MutexInv, IndexInv
  PROVE  IndexIsHolders
<1> SUFFICES ASSUME NEW p \in Staged \ left
             PROVE  line # <<>> /\ p \in AddedBy(Head(line))
  BY DEF IndexIsHolders
<1>1. PICK c \in Callers : p \in AddedBy(c)
  BY DEF IndexInv
<1>2. Holds(c)
  BY <1>1 DEF AddedBy, InMutex, MutexInv
<1> QED BY <1>1, <1>2 DEF Holds

(***************************************************************************)
(* At any time the index holds only what the holder of the commit mutex    *)
(* added and what a failed commit left: git commit without a pathspec in   *)
(* commitVault takes nobody else's pages.                                  *)
(***************************************************************************)
THEOREM IndexCorrect == Spec => []IndexIsHolders
BY InvCorrect, IndexFollows, PTL DEF Inv

(***************************************************************************)
(* A run whose commit succeeded has committed every page its tools         *)
(* reported, in whatever way runs, edits, passes and hands interleave.     *)
(***************************************************************************)
THEOREM LandCorrect == Spec => []ReportedPagesLand
BY InvCorrect, PTL DEF Inv

(***************************************************************************)
(* A commit takes from others only what they changed while the run was     *)
(* under way, unless the git status before the run failed: buildPathspec   *)
(* sweeps in no older work.                                                *)
(***************************************************************************)
THEOREM SweepCorrect == Spec => []SweepSparesOlderWork
BY InvCorrect, PTL DEF Inv
=============================================================================
