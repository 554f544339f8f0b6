-------------------------- MODULE PageWritesProofs --------------------------
(***************************************************************************)
(* What holds of PageWrites for any number of writers of every kind, any   *)
(* pages and any number of calls and failures.                             *)
(***************************************************************************)
EXTENDS PageWrites, TLAPS

USE DEF tree, patch, locks, fate

\* Which stage is whose, and who is inside the mutex.
StageInv ==
  \A w \in Writers :
    /\ at[w] \in {"checked", "clash"} => w \in Undoes
    /\ at[w] = "read" => w \in Agents /\ todo[w] = {}
    /\ at[w] = "await" => w \in Agents \cup Repairs
    /\ at[w] \in {"failed", "torn"} => w \in Splits

MutexInv == Inside \subseteq {mutex}

\* One writer goes by the lock of a page, and a caller has the lock it asked for.
OneInv == \A p \in Pages \ broken : \A v, w \in owner[p] : v = w

HoldInv ==
  \A w \in Singles \cup Agents : at[w] \in {"asks", "read"} =>
    \A p \in (goal[w] \ todo[w]) \ broken : w \in owner[p]

\* Nothing was added to a page between the read and the write, but to an agent's
\* by an undo.
EditSees ==
  \A e \in Edits \ moved : at[e] = "asks" => \A p \in goal[e] : text[p] \subseteq seen[e][p]
AgentSees ==
  \A a \in Agents : at[a] = "read" => \A p \in goal[a] \ broken :
    \A m \in text[p] \ seen[a][p] : <<m, p>> \in back
SplitSees ==
  \A s \in Splits : at[s] = "wrote" => \A p \in goal[s] \ broken :
    s \in owner[p] /\ text[p] \subseteq seen[s][p] \cup {s}

\* What may come and go beside an undo that looked at the tree.
Outside(m, p) ==
  m \in Agents \cup Repairs \/ Undone(m, p) \/ \E b \in blind : <<m, b, p>> \in lost

TargetInv == \A u \in Undoes : at[u] = "idle" => target[u] = Nobody
UndoSees ==
  \A u \in Undoes \ blind :
    /\ at[u] = "wrote" => index # head
    /\ at[u] \in {"checked", "clash"} =>
         index = head /\ \A p \in Pages \ broken : \A m \in text[p] \ head[p] : Outside(m, p)
AgentGoes ==
  \A a \in Agents : at[a] = "read" => \A p \in goal[a] \ broken :
    \A m \in seen[a][p] \ text[p] : Outside(m, p)

Inv == /\ TypeOK /\ StageInv /\ MutexInv /\ OneInv /\ HoldInv
       /\ EditSees /\ AgentSees /\ SplitSees /\ TargetInv /\ UndoSees /\ AgentGoes
       /\ CarefulKeepAll /\ UndoSparesService
-----------------------------------------------------------------------------
(***************************************************************************)
(* What a write, an undo and a commit do.                                  *)
(***************************************************************************)
Settled(S, new) ==
  /\ text' \in [Pages -> SUBSET Words] /\ moved' \in SUBSET Edits
  /\ \A p \in Pages : text'[p] = IF p \in S THEN new[p] ELSE text[p]
  /\ moved \subseteq moved'
  /\ \A e \in Edits \ moved' : goal[e] \cap S = {}

Wrote(w, S, new) ==
  /\ Settled(S, new)
  /\ lost' \in SUBSET (Words \X Writers \X Pages) /\ lost \subseteq lost'
  /\ \A l \in lost' \ lost :
       /\ l[2] = w /\ l[3] \in S \ broken
       /\ l[1] \in Words /\ l[1] # w /\ l[1] \in text[l[3]] /\ l[1] \notin new[l[3]]
  /\ \A p \in S \ broken : \A m \in text[p] \ new[p] : m = w \/ <<m, w, p>> \in lost'

Restored(S, new) ==
  /\ back' \in SUBSET (Words \X Pages) /\ back \subseteq back'
  /\ \A p \in S : \A m \in new[p] \ text[p] : <<m, p>> \in back'

Landed(w, new) ==
  /\ head' = new
  /\ adds' \in SUBSET (Words \X Pages \X Words) /\ adds \subseteq adds'
  /\ drops' \in SUBSET (Words \X Pages \X Words) /\ drops \subseteq drops'
  /\ \A v \in Words, p \in Pages, m \in Words :
       <<v, p, m>> \in drops' \ drops => m \in head[p]

LEMMA SetsFacts ==
  ASSUME TypeOK, NEW S \in SUBSET Pages, NEW new \in [Pages -> SUBSET Words], Sets(S, new)
  PROVE  Settled(S, new)
BY DEF TypeOK, Sets, Over, Settled

LEMMA PutFacts ==
  ASSUME TypeOK, NEW w \in Writers, NEW S \in SUBSET Pages,
         NEW new \in [Pages -> SUBSET Words], Put(w, S, new)
  PROVE  Wrote(w, S, new)
<1>1. Settled(S, new)
  BY SetsFacts DEF Put
<1>2. lost' = lost \cup {l \in Words \X {w} \X (S \ broken) :
                          l[1] # w /\ l[1] \in text[l[3]] \ new[l[3]]}
  BY DEF Put
<1>3. lost \subseteq Words \X Writers \X Pages
  BY DEF TypeOK
<1>4. Words \X {w} \X (S \ broken) \subseteq Words \X Writers \X Pages
  OBVIOUS
<1>5. lost' \in SUBSET (Words \X Writers \X Pages) /\ lost \subseteq lost'
  BY <1>2, <1>3, <1>4
<1>6. ASSUME NEW l \in lost' \ lost
      PROVE  /\ l[2] = w /\ l[3] \in S \ broken
             /\ l[1] \in Words /\ l[1] # w /\ l[1] \in text[l[3]] /\ l[1] \notin new[l[3]]
  BY <1>2, <1>6
<1>7. ASSUME NEW p \in S \ broken, NEW m \in text[p] \ new[p], m # w
      PROVE  <<m, w, p>> \in lost'
  <2>1. m \in Words
    BY DEF TypeOK
  <2>2. <<m, w, p>> \in Words \X {w} \X (S \ broken)
    BY <2>1
  <2> QED BY <1>2, <1>7, <2>2
<1> QED BY <1>1, <1>5, <1>6, <1>7 DEF Wrote

LEMMA RestoresFacts ==
  ASSUME TypeOK, NEW S \in SUBSET Pages, NEW new \in [Pages -> SUBSET Words],
         Restores(S, new)
  PROVE  Restored(S, new)
<1>1. back' = back \cup {b \in Words \X S : b[1] \in new[b[2]] \ text[b[2]]}
  BY DEF Restores
<1>2. back' \in SUBSET (Words \X Pages) /\ back \subseteq back'
  BY <1>1 DEF TypeOK
<1>3. ASSUME NEW p \in S, NEW m \in new[p] \ text[p] PROVE <<m, p>> \in back'
  BY <1>1
<1> QED BY <1>2, <1>3 DEF Restored

LEMMA LandsFacts ==
  ASSUME TypeOK, NEW w \in Words, NEW new, Lands(w, new)
  PROVE  Landed(w, new)
<1>1. head' = new /\ adds \subseteq adds' /\ drops \subseteq drops'
  BY DEF Lands
<1>2. adds' \subseteq Words \X Pages \X Words /\ drops' \subseteq Words \X Pages \X Words
  BY DEF Lands, TypeOK
<1>3. ASSUME NEW v \in Words, NEW p \in Pages, NEW m \in Words, <<v, p, m>> \in drops' \ drops
      PROVE  m \in head[p]
  BY <1>3 DEF Lands
<1> QED BY <1>1, <1>2, <1>3 DEF Landed

LEMMA WritesFacts ==
  ASSUME TypeOK, NEW w \in Writers, Writes(w)
  PROVE  Wrote(w, goal[w], IF w \in Notes THEN Renewed(w, text) ELSE Added(w, seen[w]))
<1> DEFINE S == goal[w]
           new == IF w \in Notes THEN Renewed(w, text) ELSE Added(w, seen[w])
<1>1. S \in SUBSET Pages /\ new \in [Pages -> SUBSET Words]
  BY KindsDiffer, TheHub
    DEF Writes, Enters, Enables, TypeOK, Words, Writers, Singles, Batches, Mine, Added,
      Renewed
<1>2. Put(w, S, new)
  BY DEF Writes
<1> HIDE DEF S, new
<1>3. Wrote(w, S, new)
  BY <1>1, <1>2, PutFacts
<1> QED BY <1>3 DEF S, new

LEMMA RepairWritesFacts ==
  ASSUME TypeOK, NEW w \in Writers, RepairWrites(w)
  PROVE  Wrote(w, {p \in Mine(w) : text[p] = seen[w][p]}, Added(w, seen[w]))
<1> DEFINE S == {p \in Mine(w) : text[p] = seen[w][p]}
           new == Added(w, seen[w])
<1>1. S \in SUBSET Pages /\ new \in [Pages -> SUBSET Words]
  BY KindsDiffer, TheHub
    DEF RepairWrites, TypeOK, Words, Writers, Singles, Batches, Mine, Added, Renewed
<1>2. Put(w, S, new)
  BY DEF RepairWrites
<1> HIDE DEF S, new
<1>3. Wrote(w, S, new)
  BY <1>1, <1>2, PutFacts
<1> QED BY <1>3 DEF S, new

LEMMA AgentWritesFacts ==
  ASSUME TypeOK, NEW w \in Writers, AgentWrites(w)
  PROVE  Wrote(w, goal[w], Added(w, seen[w]))
<1> DEFINE S == goal[w]
           new == Added(w, seen[w])
<1>1. S \in SUBSET Pages /\ new \in [Pages -> SUBSET Words]
  BY KindsDiffer, TheHub
    DEF AgentWrites, TypeOK, Words, Writers, Singles, Batches, Mine, Added, Renewed
<1>2. Put(w, S, new)
  BY DEF AgentWrites
<1> HIDE DEF S, new
<1>3. Wrote(w, S, new)
  BY <1>1, <1>2, PutFacts
<1> QED BY <1>3 DEF S, new

LEMMA SplitWritesFacts ==
  ASSUME TypeOK, NEW w \in Writers, SplitWrites(w)
  PROVE  Wrote(w, Mine(w), Renewed(w, text))
<1> DEFINE S == Mine(w)
           new == Renewed(w, text)
<1>1. S \in SUBSET Pages /\ new \in [Pages -> SUBSET Words]
  BY KindsDiffer, TheHub
    DEF SplitWrites, Enters, Enables, TypeOK, Words, Writers, Singles, Batches, Mine,
      Added, Renewed
<1>2. Put(w, S, new)
  BY DEF SplitWrites
<1> HIDE DEF S, new
<1>3. Wrote(w, S, new)
  BY <1>1, <1>2, PutFacts
<1> QED BY <1>3 DEF S, new

LEMMA SplitFailsFacts ==
  ASSUME TypeOK, NEW w \in Writers, SplitFails(w)
  PROVE  Wrote(w, goal[w], seen[w])
<1> DEFINE S == goal[w]
           new == seen[w]
<1>1. S \in SUBSET Pages /\ new \in [Pages -> SUBSET Words]
  BY KindsDiffer, TheHub
    DEF SplitFails, TypeOK, Words, Writers, Singles, Batches, Mine, Added, Renewed
<1>2. Put(w, S, new)
  BY DEF SplitFails
<1> HIDE DEF S, new
<1>3. Wrote(w, S, new)
  BY <1>1, <1>2, PutFacts
<1> QED BY <1>3 DEF S, new

LEMMA SplitTearsFacts ==
  ASSUME TypeOK, NEW w \in Writers, SplitTears(w)
  PROVE  /\ Wrote(w, goal[w], seen[w])
         /\ Landed(w, Over(head, goal[w], text)) \/ UNCHANGED <<head, patch>>
<1>1. goal[w] \in SUBSET Pages /\ seen[w] \in [Pages -> SUBSET Words] /\ w \in Words
  BY DEF SplitTears, TypeOK, Words, Batches
<1>2. Wrote(w, goal[w], seen[w])
  BY <1>1, PutFacts DEF SplitTears
<1>3. Lands(w, Over(head, goal[w], text)) \/ UNCHANGED <<head, patch>>
  BY DEF SplitTears
<1> QED BY <1>1, <1>2, <1>3, LandsFacts

LEMMA CommitsFacts ==
  ASSUME TypeOK, NEW w \in Writers, Commits(w)
  PROVE  Landed(w, IF w \in Agents THEN Over(index, goal[w], text)
                   ELSE Over(head, goal[w], text))
<1>1. w \in Words
  BY DEF Commits
<1>2. Lands(w, IF w \in Agents THEN Over(index, goal[w], text) ELSE Over(head, goal[w], text))
  BY DEF Commits
<1> QED BY <1>1, <1>2, LandsFacts

LEMMA UndoAppliesFacts ==
  ASSUME TypeOK, NEW w \in Writers, UndoApplies(w)
  PROVE  Settled(Touched(w), Reverted(w)) /\ Restored(Touched(w), Reverted(w))
<1>1. Touched(w) \in SUBSET Pages /\ Reverted(w) \in [Pages -> SUBSET Words]
  BY DEF TypeOK, Touched, Reverted, Minus
<1>2. Sets(Touched(w), Reverted(w)) /\ Restores(Touched(w), Reverted(w))
  BY DEF UndoApplies
<1> QED BY <1>1, <1>2, SetsFacts, RestoresFacts

LEMMA RevertChanges ==
  ASSUME NEW u, UndoApplies(u), NEW p \in Touched(u)
  PROVE  p \in Pages /\ text[p] = index[p] /\ Reverted(u)[p] # text[p]
<1>1. p \in Pages /\ Plus(u, p) \cup Minus(u, p) # {}
  BY DEF Touched
<1>2. text[p] = index[p] /\ Plus(u, p) \subseteq text[p] /\ Minus(u, p) \cap text[p] = {}
  BY DEF UndoApplies
<1>3. Reverted(u)[p] = (text[p] \ Plus(u, p)) \cup Minus(u, p)
  BY <1>1 DEF Reverted
<1> HIDE DEF Plus, Minus
<1> QED BY <1>1, <1>2, <1>3

LEMMA UndoCommitsFacts ==
  ASSUME TypeOK, NEW w \in Writers, UndoCommits(w)
  PROVE  /\ Wrote(w, IF index = head THEN Dirty ELSE {}, head)
         /\ Restored(IF index = head THEN Dirty ELSE {}, head)
<1> DEFINE S == IF index = head THEN Dirty ELSE {}
<1>1. S \in SUBSET Pages /\ head \in [Pages -> SUBSET Words]
  BY DEF TypeOK, Dirty
<1>2. Put(w, S, head) /\ Restores(S, head)
  BY DEF UndoCommits
<1> HIDE DEF S
<1>3. Wrote(w, S, head) /\ Restored(S, head)
  BY <1>1, <1>2, PutFacts, RestoresFacts
<1> QED BY <1>3 DEF S

LEMMA UndoResetsFacts ==
  ASSUME TypeOK, NEW w \in Writers, UndoResets(w)
  PROVE  \/ Wrote(w, Dirty, head) /\ Restored(Dirty, head) /\ index' = head
         \/ UNCHANGED <<text, index, moved, lost, back>>
<1>1. Dirty \in SUBSET Pages /\ head \in [Pages -> SUBSET Words]
  BY DEF TypeOK, Dirty
<1>2. \/ Put(w, Dirty, head) /\ Restores(Dirty, head) /\ index' = head
      \/ UNCHANGED <<text, index, moved, lost, back>>
  BY DEF UndoResets
<1> QED BY <1>1, <1>2, PutFacts, RestoresFacts

LEMMA TypeStep ==
  ASSUME TypeOK, [Next]_vars
  PROVE  TypeOK'
<1> USE KindsDiffer, TheHub
 
    DEF TypeOK, Stages, Go, Event, Inside, Words, Singles, Batches, Writers, Hasty,
      Mine, Settled, Over
<1>1. ASSUME NEW w \in Writers, Begins(w) PROVE TypeOK'
  BY <1>1 DEF Begins, Reads
<1>2. ASSUME NEW w \in Writers, UndoEnters(w) PROVE TypeOK'
  BY <1>2 DEF UndoEnters
<1>3. ASSUME NEW w \in Writers, NEW p \in Pages, Acquires(w, p) PROVE TypeOK'
  BY <1>3 DEF Acquires, Asks, Lock!Take
<1>4. ASSUME NEW w \in Writers, NEW p \in Pages, Busy(w, p) PROVE TypeOK'
  <2>1. at' = at \/ at' = [at EXCEPT ![w] = "done"]
    BY <1>4 DEF Busy, Asks
  <2>2. (at[w] = "asks" /\ w \notin Undoes) \/ UNCHANGED at
    BY <1>4 DEF Busy, Asks
  <2> QED BY <1>4, <2>1, <2>2 DEF Busy, Asks
<1>5. ASSUME NEW w \in Writers, Writes(w) PROVE TypeOK'
  <2>1. Wrote(w, goal[w], IF w \in Notes THEN Renewed(w, text) ELSE Added(w, seen[w]))
    BY <1>5, WritesFacts
  <2> QED BY <1>5, <2>1 DEF Writes, Enters, Enables, Wrote, Added, Renewed
<1>6. ASSUME NEW w \in Writers, Conflicts(w) PROVE TypeOK'
  BY <1>6 DEF Conflicts, Enables
<1>7. ASSUME NEW w \in Writers, RepairWrites(w) PROVE TypeOK'
  <2>1. Wrote(w, {p \in Mine(w) : text[p] = seen[w][p]}, Added(w, seen[w]))
    BY <1>7, RepairWritesFacts
  <2> QED BY <1>7, <2>1 DEF RepairWrites, Wrote, Added
<1>8. ASSUME NEW w \in Writers, AgentReads(w) PROVE TypeOK'
  BY <1>8 DEF AgentReads, Reads
<1>9. ASSUME NEW w \in Writers, AgentWrites(w) PROVE TypeOK'
  <2>1. Wrote(w, goal[w], Added(w, seen[w]))
    BY <1>9, AgentWritesFacts
  <2> QED BY <1>9, <2>1 DEF AgentWrites, Wrote, Added
<1>10. ASSUME NEW w \in Writers, TakesMutex(w) PROVE TypeOK'
  BY <1>10 DEF TakesMutex
<1>11. ASSUME NEW w \in Writers, SplitRefuses(w) PROVE TypeOK'
  BY <1>11 DEF SplitRefuses
<1>12. ASSUME NEW w \in Writers, SplitWrites(w) PROVE TypeOK'
  <2>1. Wrote(w, Mine(w), Renewed(w, text))
    BY <1>12, SplitWritesFacts
  <2> QED BY <1>12, <2>1
    DEF SplitWrites, Enters, Enables, Wrote, Added, Renewed, Reads, Mine
<1>13. ASSUME NEW w \in Writers, SplitFails(w) PROVE TypeOK'
  <2>1. Wrote(w, goal[w], seen[w])
    BY <1>13, SplitFailsFacts
  <2> QED BY <1>13, <2>1 DEF SplitFails, Wrote
<1>14. ASSUME NEW w \in Writers, SplitTears(w) PROVE TypeOK'
  <2>1. Wrote(w, goal[w], seen[w])
    BY <1>14, SplitTearsFacts
  <2>2. Over(head, goal[w], text) \in [Pages -> SUBSET Words] /\ index' \in [Pages -> SUBSET Words]
    BY <1>14 DEF SplitTears
  <2>3. head' \in [Pages -> SUBSET Words] /\ adds' \in SUBSET (Words \X Pages \X Words)
        /\ drops' \in SUBSET (Words \X Pages \X Words)
    <3>1. CASE Landed(w, Over(head, goal[w], text))
      BY <2>2, <3>1 DEF Landed
    <3>2. CASE UNCHANGED <<head, patch>>
      BY <3>2
    <3> QED BY <1>14, <3>1, <3>2, SplitTearsFacts
  <2> QED BY <1>14, <2>1, <2>2, <2>3 DEF SplitTears, Wrote
<1>15. ASSUME NEW w \in Writers, Commits(w) PROVE TypeOK'
  <2>1. Landed(w, IF w \in Agents THEN Over(index, goal[w], text) ELSE Over(head, goal[w], text))
    BY <1>15, CommitsFacts
  <2> QED BY <1>15, <2>1 DEF Commits, AfterCommit, Landed, Over
<1>16. ASSUME NEW w \in Writers, CommitFails(w) PROVE TypeOK'
  BY <1>16 DEF CommitFails, AfterCommit, Over
<1>17. ASSUME NEW w \in Writers, Releases(w) PROVE TypeOK'
  BY <1>17 DEF Releases
<1>18. ASSUME NEW w \in Writers, UndoChecks(w) PROVE TypeOK'
  BY <1>18 DEF UndoChecks
<1>19. ASSUME NEW w \in Writers, UndoRefuses(w) PROVE TypeOK'
  <2>1. at' = [at EXCEPT ![w] = "done"] /\ mutex' = Nobody /\ events' \in Nat
    BY <1>19, Bounds DEF UndoRefuses, Refuses
  <2> QED BY <1>19, <2>1 DEF UndoRefuses, Refuses
<1>20. ASSUME NEW w \in Writers, UndoApplies(w) PROVE TypeOK'
  <2>1. Settled(Touched(w), Reverted(w)) /\ Restored(Touched(w), Reverted(w))
    BY <1>20, UndoAppliesFacts
  <2>2. Touched(w) \in SUBSET Pages /\ Reverted(w) \in [Pages -> SUBSET Words]
    BY DEF Touched, Reverted, Minus
  <2>3. index' \in [Pages -> SUBSET Words]
    BY <1>20, <2>2 DEF UndoApplies
  <2> QED BY <1>20, <2>1, <2>2, <2>3 DEF UndoApplies, Restored
<1>21. ASSUME NEW w \in Writers, UndoCommits(w) PROVE TypeOK'
  <2>1. Wrote(w, IF index = head THEN Dirty ELSE {}, head) /\ Restored(IF index = head THEN Dirty ELSE {}, head)
    BY <1>21, UndoCommitsFacts
  <2> QED BY <1>21, <2>1 DEF UndoCommits, Wrote, Restored, Dirty
<1>22. ASSUME NEW w \in Writers, UndoCommitFails(w) PROVE TypeOK'
  BY <1>22 DEF UndoCommitFails
<1>23. ASSUME NEW w \in Writers, UndoClashes(w) PROVE TypeOK'
  BY <1>23 DEF UndoClashes
<1>24. ASSUME NEW w \in Writers, UndoResets(w) PROVE TypeOK'
  <2>1. \/ Wrote(w, Dirty, head) /\ Restored(Dirty, head) /\ index' = head
        \/ UNCHANGED <<text, index, moved, lost, back>>
    BY <1>24, UndoResetsFacts
  <2> QED BY <1>24, <2>1 DEF UndoResets, Wrote, Restored, Dirty
<1>25. ASSUME NEW p \in Pages, Breaks(p) PROVE TypeOK'
  BY <1>25 DEF Breaks
<1>26. CASE UNCHANGED vars
  BY <1>26 DEF vars
<1> QED
  BY <1>1, <1>2, <1>3, <1>4, <1>5, <1>6, <1>7, <1>8, <1>9, <1>10, <1>11, <1>12, <1>13,
      <1>14, <1>15, <1>16, <1>17, <1>18, <1>19, <1>20, <1>21, <1>22, <1>23, <1>24,
      <1>25, <1>26
  DEF Next, Step

LEMMA StageStep ==
  ASSUME TypeOK, StageInv, MutexInv, [Next]_vars
  PROVE  StageInv'
<1> USE KindsDiffer DEF TypeOK, StageInv, Stages, Go, Words, Singles, Batches, Writers
<1>1. ASSUME NEW w \in Writers, Begins(w) PROVE StageInv'
  BY <1>1 DEF Begins, Reads
<1>2. ASSUME NEW w \in Writers, UndoEnters(w) PROVE StageInv'
  BY <1>2 DEF UndoEnters
<1>3. ASSUME NEW w \in Writers, NEW p \in Pages, Acquires(w, p) PROVE StageInv'
  BY <1>3 DEF Acquires, Asks, Lock!Take
<1>4. ASSUME NEW w \in Writers, NEW p \in Pages, Busy(w, p) PROVE StageInv'
  BY <1>4 DEF Busy, Asks
<1>5. ASSUME NEW w \in Writers, Writes(w) PROVE StageInv'
  BY <1>5 DEF Writes, Enters, Enables
<1>6. ASSUME NEW w \in Writers, Conflicts(w) PROVE StageInv'
  BY <1>6 DEF Conflicts, Enables
<1>7. ASSUME NEW w \in Writers, RepairWrites(w) PROVE StageInv'
  BY <1>7 DEF RepairWrites
<1>8. ASSUME NEW w \in Writers, AgentReads(w) PROVE StageInv'
  BY <1>8 DEF AgentReads, Reads
<1>9. ASSUME NEW w \in Writers, AgentWrites(w) PROVE StageInv'
  BY <1>9 DEF AgentWrites
<1>10. ASSUME NEW w \in Writers, TakesMutex(w) PROVE StageInv'
  BY <1>10 DEF TakesMutex
<1>11. ASSUME NEW w \in Writers, SplitRefuses(w) PROVE StageInv'
  BY <1>11 DEF SplitRefuses
<1>12. ASSUME NEW w \in Writers, SplitWrites(w) PROVE StageInv'
  BY <1>12 DEF SplitWrites, Enters, Enables
<1>13. ASSUME NEW w \in Writers, SplitFails(w) PROVE StageInv'
  BY <1>13 DEF SplitFails
<1>14. ASSUME NEW w \in Writers, SplitTears(w) PROVE StageInv'
  BY <1>14 DEF SplitTears
<1>15. ASSUME NEW w \in Writers, Commits(w) PROVE StageInv'
  BY <1>15 DEF Commits, AfterCommit
<1>16. ASSUME NEW w \in Writers, CommitFails(w) PROVE StageInv'
  BY <1>16 DEF CommitFails, AfterCommit
<1>17. ASSUME NEW w \in Writers, Releases(w) PROVE StageInv'
  BY <1>17 DEF Releases
<1>18. ASSUME NEW w \in Writers, UndoChecks(w) PROVE StageInv'
  BY <1>18 DEF UndoChecks
<1>19. ASSUME NEW w \in Writers, UndoRefuses(w) PROVE StageInv'
  BY <1>19 DEF UndoRefuses, Refuses
<1>20. ASSUME NEW w \in Writers, UndoApplies(w) PROVE StageInv'
  BY <1>20 DEF UndoApplies
<1>21. ASSUME NEW w \in Writers, UndoCommits(w) PROVE StageInv'
  BY <1>21 DEF UndoCommits
<1>22. ASSUME NEW w \in Writers, UndoCommitFails(w) PROVE StageInv'
  BY <1>22 DEF UndoCommitFails
<1>23. ASSUME NEW w \in Writers, UndoClashes(w) PROVE StageInv'
  BY <1>23 DEF UndoClashes
<1>24. ASSUME NEW w \in Writers, UndoResets(w) PROVE StageInv'
  BY <1>24 DEF UndoResets
<1>25. ASSUME NEW p \in Pages, Breaks(p) PROVE StageInv'
  BY <1>25 DEF Breaks
<1>26. CASE UNCHANGED vars
  BY <1>26 DEF vars
<1> QED
  BY <1>1, <1>2, <1>3, <1>4, <1>5, <1>6, <1>7, <1>8, <1>9, <1>10, <1>11, <1>12, <1>13,
      <1>14, <1>15, <1>16, <1>17, <1>18, <1>19, <1>20, <1>21, <1>22, <1>23, <1>24,
      <1>25, <1>26
  DEF Next, Step

LEMMA MutexStep ==
  ASSUME TypeOK, StageInv, MutexInv, [Next]_vars
  PROVE  MutexInv'
<1> USE KindsDiffer
  DEF TypeOK, StageInv, MutexInv, Inside, Go, Words, Singles, Batches, Writers
<1>1. ASSUME NEW w \in Writers, Begins(w) PROVE MutexInv'
  BY <1>1 DEF Begins, Reads
<1>2. ASSUME NEW w \in Writers, UndoEnters(w) PROVE MutexInv'
  BY <1>2 DEF UndoEnters
<1>3. ASSUME NEW w \in Writers, NEW p \in Pages, Acquires(w, p) PROVE MutexInv'
  BY <1>3 DEF Acquires, Asks, Lock!Take
<1>4. ASSUME NEW w \in Writers, NEW p \in Pages, Busy(w, p) PROVE MutexInv'
  BY <1>4 DEF Busy, Asks
<1>5. ASSUME NEW w \in Writers, Writes(w) PROVE MutexInv'
  BY <1>5 DEF Writes, Enters, Enables
<1>6. ASSUME NEW w \in Writers, Conflicts(w) PROVE MutexInv'
  BY <1>6 DEF Conflicts, Enables
<1>7. ASSUME NEW w \in Writers, RepairWrites(w) PROVE MutexInv'
  BY <1>7 DEF RepairWrites
<1>8. ASSUME NEW w \in Writers, AgentReads(w) PROVE MutexInv'
  BY <1>8 DEF AgentReads, Reads
<1>9. ASSUME NEW w \in Writers, AgentWrites(w) PROVE MutexInv'
  BY <1>9 DEF AgentWrites
<1>10. ASSUME NEW w \in Writers, TakesMutex(w) PROVE MutexInv'
  BY <1>10 DEF TakesMutex
<1>11. ASSUME NEW w \in Writers, SplitRefuses(w) PROVE MutexInv'
  BY <1>11 DEF SplitRefuses
<1>12. ASSUME NEW w \in Writers, SplitWrites(w) PROVE MutexInv'
  BY <1>12 DEF SplitWrites, Enters, Enables
<1>13. ASSUME NEW w \in Writers, SplitFails(w) PROVE MutexInv'
  BY <1>13 DEF SplitFails
<1>14. ASSUME NEW w \in Writers, SplitTears(w) PROVE MutexInv'
  BY <1>14 DEF SplitTears
<1>15. ASSUME NEW w \in Writers, Commits(w) PROVE MutexInv'
  BY <1>15 DEF Commits, AfterCommit
<1>16. ASSUME NEW w \in Writers, CommitFails(w) PROVE MutexInv'
  BY <1>16 DEF CommitFails, AfterCommit
<1>17. ASSUME NEW w \in Writers, Releases(w) PROVE MutexInv'
  BY <1>17 DEF Releases
<1>18. ASSUME NEW w \in Writers, UndoChecks(w) PROVE MutexInv'
  BY <1>18 DEF UndoChecks
<1>19. ASSUME NEW w \in Writers, UndoRefuses(w) PROVE MutexInv'
  BY <1>19 DEF UndoRefuses, Refuses
<1>20. ASSUME NEW w \in Writers, UndoApplies(w) PROVE MutexInv'
  BY <1>20 DEF UndoApplies
<1>21. ASSUME NEW w \in Writers, UndoCommits(w) PROVE MutexInv'
  BY <1>21 DEF UndoCommits
<1>22. ASSUME NEW w \in Writers, UndoCommitFails(w) PROVE MutexInv'
  BY <1>22 DEF UndoCommitFails
<1>23. ASSUME NEW w \in Writers, UndoClashes(w) PROVE MutexInv'
  BY <1>23 DEF UndoClashes
<1>24. ASSUME NEW w \in Writers, UndoResets(w) PROVE MutexInv'
  BY <1>24 DEF UndoResets
<1>25. ASSUME NEW p \in Pages, Breaks(p) PROVE MutexInv'
  BY <1>25 DEF Breaks
<1>26. CASE UNCHANGED vars
  BY <1>26 DEF vars
<1> QED
  BY <1>1, <1>2, <1>3, <1>4, <1>5, <1>6, <1>7, <1>8, <1>9, <1>10, <1>11, <1>12, <1>13,
      <1>14, <1>15, <1>16, <1>17, <1>18, <1>19, <1>20, <1>21, <1>22, <1>23, <1>24,
      <1>25, <1>26
  DEF Next, Step

LEMMA LockStep ==
  ASSUME TypeOK, StageInv, OneInv, HoldInv, [Next]_vars
  PROVE  (OneInv /\ HoldInv)'
<1> USE KindsDiffer
  DEF TypeOK, StageInv, OneInv, HoldInv, Go, Words, Singles, Batches, Writers
<1>1. ASSUME NEW w \in Writers, Begins(w) PROVE (OneInv /\ HoldInv)'
  BY <1>1 DEF Begins, Reads
<1>2. ASSUME NEW w \in Writers, UndoEnters(w) PROVE (OneInv /\ HoldInv)'
  BY <1>2 DEF UndoEnters
<1>3. ASSUME NEW w \in Writers, NEW p \in Pages, Acquires(w, p) PROVE (OneInv /\ HoldInv)'
  BY <1>3 DEF Acquires, Asks, Lock!Take
<1>4. ASSUME NEW w \in Writers, NEW p \in Pages, Busy(w, p) PROVE (OneInv /\ HoldInv)'
  BY <1>4 DEF Busy, Asks
<1>5. ASSUME NEW w \in Writers, Writes(w) PROVE (OneInv /\ HoldInv)'
  BY <1>5 DEF Writes, Enters, Enables
<1>6. ASSUME NEW w \in Writers, Conflicts(w) PROVE (OneInv /\ HoldInv)'
  BY <1>6 DEF Conflicts, Enables
<1>7. ASSUME NEW w \in Writers, RepairWrites(w) PROVE (OneInv /\ HoldInv)'
  BY <1>7 DEF RepairWrites
<1>8. ASSUME NEW w \in Writers, AgentReads(w) PROVE (OneInv /\ HoldInv)'
  BY <1>8 DEF AgentReads, Reads
<1>9. ASSUME NEW w \in Writers, AgentWrites(w) PROVE (OneInv /\ HoldInv)'
  BY <1>9 DEF AgentWrites
<1>10. ASSUME NEW w \in Writers, TakesMutex(w) PROVE (OneInv /\ HoldInv)'
  BY <1>10 DEF TakesMutex
<1>11. ASSUME NEW w \in Writers, SplitRefuses(w) PROVE (OneInv /\ HoldInv)'
  BY <1>11 DEF SplitRefuses
<1>12. ASSUME NEW w \in Writers, SplitWrites(w) PROVE (OneInv /\ HoldInv)'
  BY <1>12 DEF SplitWrites, Enters, Enables
<1>13. ASSUME NEW w \in Writers, SplitFails(w) PROVE (OneInv /\ HoldInv)'
  BY <1>13 DEF SplitFails
<1>14. ASSUME NEW w \in Writers, SplitTears(w) PROVE (OneInv /\ HoldInv)'
  BY <1>14 DEF SplitTears
<1>15. ASSUME NEW w \in Writers, Commits(w) PROVE (OneInv /\ HoldInv)'
  BY <1>15 DEF Commits, AfterCommit
<1>16. ASSUME NEW w \in Writers, CommitFails(w) PROVE (OneInv /\ HoldInv)'
  BY <1>16 DEF CommitFails, AfterCommit
<1>17. ASSUME NEW w \in Writers, Releases(w) PROVE (OneInv /\ HoldInv)'
  BY <1>17 DEF Releases
<1>18. ASSUME NEW w \in Writers, UndoChecks(w) PROVE (OneInv /\ HoldInv)'
  BY <1>18 DEF UndoChecks
<1>19. ASSUME NEW w \in Writers, UndoRefuses(w) PROVE (OneInv /\ HoldInv)'
  <2>1. at' = [at EXCEPT ![w] = "done"]
    BY <1>19 DEF UndoRefuses, Refuses
  <2> QED BY <1>19, <2>1 DEF UndoRefuses, Refuses
<1>20. ASSUME NEW w \in Writers, UndoApplies(w) PROVE (OneInv /\ HoldInv)'
  BY <1>20 DEF UndoApplies
<1>21. ASSUME NEW w \in Writers, UndoCommits(w) PROVE (OneInv /\ HoldInv)'
  BY <1>21 DEF UndoCommits
<1>22. ASSUME NEW w \in Writers, UndoCommitFails(w) PROVE (OneInv /\ HoldInv)'
  BY <1>22 DEF UndoCommitFails
<1>23. ASSUME NEW w \in Writers, UndoClashes(w) PROVE (OneInv /\ HoldInv)'
  BY <1>23 DEF UndoClashes
<1>24. ASSUME NEW w \in Writers, UndoResets(w) PROVE (OneInv /\ HoldInv)'
  BY <1>24 DEF UndoResets
<1>25. ASSUME NEW p \in Pages, Breaks(p) PROVE (OneInv /\ HoldInv)'
  BY <1>25 DEF Breaks
<1>26. CASE UNCHANGED vars
  BY <1>26 DEF vars
<1> QED
  BY <1>1, <1>2, <1>3, <1>4, <1>5, <1>6, <1>7, <1>8, <1>9, <1>10, <1>11, <1>12, <1>13,
      <1>14, <1>15, <1>16, <1>17, <1>18, <1>19, <1>20, <1>21, <1>22, <1>23, <1>24,
      <1>25, <1>26
  DEF Next, Step

LEMMA TargetStep ==
  ASSUME TypeOK, TargetInv, [Next]_vars
  PROVE  TargetInv'
<1> USE KindsDiffer DEF TypeOK, TargetInv, Stages, Go, Words, Singles, Batches, Writers
<1>1. ASSUME NEW w \in Writers, Begins(w) PROVE TargetInv'
  BY <1>1 DEF Begins, Reads
<1>2. ASSUME NEW w \in Writers, UndoEnters(w) PROVE TargetInv'
  BY <1>2 DEF UndoEnters
<1>3. ASSUME NEW w \in Writers, NEW p \in Pages, Acquires(w, p) PROVE TargetInv'
  BY <1>3 DEF Acquires, Asks, Lock!Take
<1>4. ASSUME NEW w \in Writers, NEW p \in Pages, Busy(w, p) PROVE TargetInv'
  BY <1>4 DEF Busy, Asks
<1>5. ASSUME NEW w \in Writers, Writes(w) PROVE TargetInv'
  BY <1>5 DEF Writes, Enters, Enables
<1>6. ASSUME NEW w \in Writers, Conflicts(w) PROVE TargetInv'
  BY <1>6 DEF Conflicts, Enables
<1>7. ASSUME NEW w \in Writers, RepairWrites(w) PROVE TargetInv'
  BY <1>7 DEF RepairWrites
<1>8. ASSUME NEW w \in Writers, AgentReads(w) PROVE TargetInv'
  BY <1>8 DEF AgentReads, Reads
<1>9. ASSUME NEW w \in Writers, AgentWrites(w) PROVE TargetInv'
  BY <1>9 DEF AgentWrites
<1>10. ASSUME NEW w \in Writers, TakesMutex(w) PROVE TargetInv'
  BY <1>10 DEF TakesMutex
<1>11. ASSUME NEW w \in Writers, SplitRefuses(w) PROVE TargetInv'
  BY <1>11 DEF SplitRefuses
<1>12. ASSUME NEW w \in Writers, SplitWrites(w) PROVE TargetInv'
  BY <1>12 DEF SplitWrites, Enters, Enables
<1>13. ASSUME NEW w \in Writers, SplitFails(w) PROVE TargetInv'
  BY <1>13 DEF SplitFails
<1>14. ASSUME NEW w \in Writers, SplitTears(w) PROVE TargetInv'
  BY <1>14 DEF SplitTears
<1>15. ASSUME NEW w \in Writers, Commits(w) PROVE TargetInv'
  BY <1>15 DEF Commits, AfterCommit
<1>16. ASSUME NEW w \in Writers, CommitFails(w) PROVE TargetInv'
  BY <1>16 DEF CommitFails, AfterCommit
<1>17. ASSUME NEW w \in Writers, Releases(w) PROVE TargetInv'
  BY <1>17 DEF Releases
<1>18. ASSUME NEW w \in Writers, UndoChecks(w) PROVE TargetInv'
  BY <1>18 DEF UndoChecks
<1>19. ASSUME NEW w \in Writers, UndoRefuses(w) PROVE TargetInv'
  <2>1. at' = [at EXCEPT ![w] = "done"]
    BY <1>19 DEF UndoRefuses, Refuses
  <2> QED BY <1>19, <2>1 DEF UndoRefuses, Refuses
<1>20. ASSUME NEW w \in Writers, UndoApplies(w) PROVE TargetInv'
  BY <1>20 DEF UndoApplies
<1>21. ASSUME NEW w \in Writers, UndoCommits(w) PROVE TargetInv'
  BY <1>21 DEF UndoCommits
<1>22. ASSUME NEW w \in Writers, UndoCommitFails(w) PROVE TargetInv'
  BY <1>22 DEF UndoCommitFails
<1>23. ASSUME NEW w \in Writers, UndoClashes(w) PROVE TargetInv'
  BY <1>23 DEF UndoClashes
<1>24. ASSUME NEW w \in Writers, UndoResets(w) PROVE TargetInv'
  BY <1>24 DEF UndoResets
<1>25. ASSUME NEW p \in Pages, Breaks(p) PROVE TargetInv'
  BY <1>25 DEF Breaks
<1>26. CASE UNCHANGED vars
  BY <1>26 DEF vars
<1> QED
  BY <1>1, <1>2, <1>3, <1>4, <1>5, <1>6, <1>7, <1>8, <1>9, <1>10, <1>11, <1>12, <1>13,
      <1>14, <1>15, <1>16, <1>17, <1>18, <1>19, <1>20, <1>21, <1>22, <1>23, <1>24,
      <1>25, <1>26
  DEF Next, Step

-----------------------------------------------------------------------------
(***************************************************************************)
(* Steps that move no words: a caller goes on, a lock is taken, dropped or *)
(* broken, an undo looks at the tree. The others move words.               *)
(***************************************************************************)
Still ==
  /\ UNCHANGED <<goal, seen, moved, text, index, head, adds, drops, lost, back>>
  /\ broken \subseteq broken' /\ blind \subseteq blind'
  /\ \A u \in Undoes : target[u] # Nobody => target'[u] = target[u]
  /\ \A w \in Writers : at[w] # "idle" => at'[w] # "idle"
  /\ \A w \in Words : at'[w] \in {"asks", "read"} => at'[w] = at[w]
  /\ \A s \in Splits : at'[s] = at[s] \/ (at[s] = "free" /\ at'[s] = "done")
  /\ \A s \in Splits, p \in Pages : at[s] = "wrote" /\ s \in owner[p] => s \in owner'[p]

LEMMA StillKinds ==
  ASSUME TypeOK, StageInv, TargetInv, NEW w \in Writers,
         \/ \E p \in Pages : Acquires(w, p) \/ Busy(w, p)
         \/ UndoEnters(w) \/ Conflicts(w) \/ TakesMutex(w) \/ Releases(w)
         \/ UndoChecks(w) \/ UndoRefuses(w) \/ UndoCommitFails(w) \/ UndoClashes(w)
  PROVE  Still
<1> USE KindsDiffer DEF TypeOK, StageInv, Still, Go, Words, Singles, Batches, Writers
<1>1. ASSUME NEW p \in Pages, Acquires(w, p) PROVE Still
  BY <1>1 DEF Acquires, Asks, Lock!Take
<1>2. ASSUME NEW p \in Pages, Busy(w, p) PROVE Still
  BY <1>2 DEF Busy, Asks
<1>3. CASE UndoEnters(w)
  BY <1>3 DEF UndoEnters, TargetInv
<1>4. CASE Conflicts(w)
  BY <1>4 DEF Conflicts, Enables
<1>5. CASE TakesMutex(w)
  BY <1>5 DEF TakesMutex
<1>6. CASE Releases(w)
  BY <1>6 DEF Releases
<1>7. CASE UndoChecks(w)
  BY <1>7 DEF UndoChecks
<1>8. CASE UndoRefuses(w)
  <2>1. at' = [at EXCEPT ![w] = "done"] /\ w \in Undoes /\ at[w] # "idle"
    BY <1>8 DEF UndoRefuses, Refuses
  <2> QED BY <1>8, <2>1 DEF UndoRefuses
<1>9. CASE UndoCommitFails(w)
  BY <1>9 DEF UndoCommitFails
<1>10. CASE UndoClashes(w)
  BY <1>10 DEF UndoClashes
<1> QED
  BY <1>1, <1>2, <1>3, <1>4, <1>5, <1>6, <1>7, <1>8, <1>9, <1>10

Moves(w) ==
  \/ Begins(w) \/ Writes(w) \/ RepairWrites(w) \/ AgentReads(w) \/ AgentWrites(w)
  \/ SplitRefuses(w) \/ SplitWrites(w) \/ SplitFails(w) \/ SplitTears(w)
  \/ Commits(w) \/ CommitFails(w) \/ UndoApplies(w) \/ UndoCommits(w) \/ UndoResets(w)

LEMMA StillOrMoves ==
  ASSUME TypeOK, StageInv, TargetInv, [Next]_vars
  PROVE  Still \/ \E w \in Writers : Moves(w)
<1>1. ASSUME NEW p \in Pages, Breaks(p) PROVE Still
  BY <1>1 DEF Breaks, Still
<1>2. CASE UNCHANGED vars
  BY <1>2 DEF vars, Still
<1>3. ASSUME NEW w \in Writers, Begins(w) \/ UndoEnters(w) \/ Step(w)
      PROVE  Still \/ Moves(w)
  BY <1>3, StillKinds DEF Step, Moves
<1> QED BY <1>1, <1>2, <1>3 DEF Next

\* What only grows: the broken locks, the history and what the commits carried.
Grows ==
  /\ broken \subseteq broken' /\ blind \subseteq blind'
  /\ adds \subseteq adds' /\ drops \subseteq drops'
  /\ lost \subseteq lost' /\ back \subseteq back'
  /\ \A u \in Undoes : target[u] # Nobody => target'[u] = target[u]

LEMMA GrowsAlways ==
  ASSUME TypeOK, StageInv, TargetInv, [Next]_vars
  PROVE  Grows
<1>1. CASE Still
  BY <1>1 DEF Still, Grows
<1>2. ASSUME NEW w \in Writers, Begins(w) PROVE Grows
  BY <1>2 DEF Begins, Grows
<1>3. ASSUME NEW w \in Writers, Writes(w) PROVE Grows
  <2>1. Wrote(w, goal[w], IF w \in Notes THEN Renewed(w, text) ELSE Added(w, seen[w]))
    BY <1>3, WritesFacts
  <2> QED BY <1>3, <2>1 DEF Writes, Grows, Wrote, Added, Renewed
<1>4. ASSUME NEW w \in Writers, RepairWrites(w) PROVE Grows
  <2>1. Wrote(w, {p \in Mine(w) : text[p] = seen[w][p]}, Added(w, seen[w]))
    BY <1>4, RepairWritesFacts
  <2> QED BY <1>4, <2>1 DEF RepairWrites, Grows, Wrote, Added
<1>5. ASSUME NEW w \in Writers, AgentReads(w) PROVE Grows
  BY <1>5 DEF AgentReads, Grows
<1>6. ASSUME NEW w \in Writers, AgentWrites(w) PROVE Grows
  <2>1. Wrote(w, goal[w], Added(w, seen[w]))
    BY <1>6, AgentWritesFacts
  <2> QED BY <1>6, <2>1 DEF AgentWrites, Grows, Wrote, Added
<1>7. ASSUME NEW w \in Writers, SplitRefuses(w) PROVE Grows
  BY <1>7 DEF SplitRefuses, Grows
<1>8. ASSUME NEW w \in Writers, SplitWrites(w) PROVE Grows
  <2>1. Wrote(w, Mine(w), Renewed(w, text))
    BY <1>8, SplitWritesFacts
  <2> QED BY <1>8, <2>1 DEF SplitWrites, Grows, Wrote, Added, Renewed, Reads, Mine
<1>9. ASSUME NEW w \in Writers, SplitFails(w) PROVE Grows
  <2>1. Wrote(w, goal[w], seen[w])
    BY <1>9, SplitFailsFacts
  <2> QED BY <1>9, <2>1 DEF SplitFails, Grows, Wrote
<1>10. ASSUME NEW w \in Writers, SplitTears(w) PROVE Grows
  <2>1. Wrote(w, goal[w], seen[w]) /\ (Landed(w, Over(head, goal[w], text)) \/ UNCHANGED <<head, patch>>)
    BY <1>10, SplitTearsFacts
  <2> QED BY <1>10, <2>1 DEF SplitTears, Grows, Wrote, Landed, Over
<1>11. ASSUME NEW w \in Writers, Commits(w) PROVE Grows
  <2>1. Landed(w, IF w \in Agents THEN Over(index, goal[w], text) ELSE Over(head, goal[w], text))
    BY <1>11, CommitsFacts
  <2> QED BY <1>11, <2>1 DEF Commits, Grows, Landed
<1>12. ASSUME NEW w \in Writers, CommitFails(w) PROVE Grows
  BY <1>12 DEF CommitFails, Grows
<1>13. ASSUME NEW w \in Writers, UndoApplies(w) PROVE Grows
  <2>1. Settled(Touched(w), Reverted(w)) /\ Restored(Touched(w), Reverted(w))
    BY <1>13, UndoAppliesFacts
  <2> QED BY <1>13, <2>1 DEF UndoApplies, Grows, Settled, Restored, Reverted, Touched
<1>14. ASSUME NEW w \in Writers, UndoCommits(w) PROVE Grows
  <2>1. Wrote(w, IF index = head THEN Dirty ELSE {}, head) /\ Restored(IF index = head THEN Dirty ELSE {}, head)
    BY <1>14, UndoCommitsFacts
  <2> QED BY <1>14, <2>1 DEF UndoCommits, Grows, Wrote, Restored, Dirty
<1>15. ASSUME NEW w \in Writers, UndoResets(w) PROVE Grows
  <2>1. \/ Wrote(w, Dirty, head) /\ Restored(Dirty, head) /\ index' = head
        \/ UNCHANGED <<text, index, moved, lost, back>>
    BY <1>15, UndoResetsFacts
  <2> QED BY <1>15, <2>1 DEF UndoResets, Grows, Wrote, Restored, Dirty
<1> QED
  BY <1>1, <1>2, <1>3, <1>4, <1>5, <1>6, <1>7, <1>8, <1>9, <1>10, <1>11, <1>12, <1>13,
      <1>14, <1>15, StillOrMoves
    DEF Moves

LEMMA OutsideStays ==
  ASSUME TypeOK, Grows, NEW m \in Words, NEW p \in Pages, Outside(m, p)
  PROVE  Outside(m, p)'
<1>1. CASE Undone(m, p)
  <2>1. PICK u \in Undoes : <<target[u], p, m>> \in adds
    BY <1>1 DEF Undone, Plus
  <2>2. target[u] # Nobody
    BY <2>1, KindsDiffer DEF TypeOK, Writers, Words
  <2> QED BY <2>1, <2>2 DEF Outside, Undone, Plus, Grows
<1>2. CASE \E b \in blind : <<m, b, p>> \in lost
  BY <1>2 DEF Outside, Grows
<1>3. CASE m \in Agents \cup Repairs
  BY <1>3 DEF Outside
<1> QED BY <1>1, <1>2, <1>3 DEF Outside
-----------------------------------------------------------------------------
(***************************************************************************)
(* Each part of the invariant is kept by every step.                       *)
(***************************************************************************)

LEMMA EditStep ==
  ASSUME TypeOK, StageInv, TargetInv, EditSees, [Next]_vars
  PROVE  EditSees'
<1> USE KindsDiffer
  DEF TypeOK, StageInv, EditSees, Settled, Reads, Go, Words, Singles, Batches, Writers
<1>1. CASE Still
  BY <1>1 DEF Still
<1>2. ASSUME NEW w \in Writers, Begins(w) PROVE EditSees'
  BY <1>2 DEF Begins, Reads
<1>3. ASSUME NEW w \in Writers, Writes(w) PROVE EditSees'
  <2>1. Wrote(w, goal[w], IF w \in Notes THEN Renewed(w, text) ELSE Added(w, seen[w]))
    BY <1>3, WritesFacts
  <2> QED BY <1>3, <2>1 DEF Writes, Enters, Enables, Wrote, Added, Renewed
<1>4. ASSUME NEW w \in Writers, RepairWrites(w) PROVE EditSees'
  <2>1. Wrote(w, {p \in Mine(w) : text[p] = seen[w][p]}, Added(w, seen[w]))
    BY <1>4, RepairWritesFacts
  <2> QED BY <1>4, <2>1 DEF RepairWrites, Wrote, Added
<1>5. ASSUME NEW w \in Writers, AgentReads(w) PROVE EditSees'
  BY <1>5 DEF AgentReads, Reads
<1>6. ASSUME NEW w \in Writers, AgentWrites(w) PROVE EditSees'
  <2>1. Wrote(w, goal[w], Added(w, seen[w]))
    BY <1>6, AgentWritesFacts
  <2> QED BY <1>6, <2>1 DEF AgentWrites, Wrote, Added
<1>7. ASSUME NEW w \in Writers, SplitRefuses(w) PROVE EditSees'
  BY <1>7 DEF SplitRefuses
<1>8. ASSUME NEW w \in Writers, SplitWrites(w) PROVE EditSees'
  <2>1. Wrote(w, Mine(w), Renewed(w, text))
    BY <1>8, SplitWritesFacts
  <2> QED BY <1>8, <2>1
    DEF SplitWrites, Enters, Enables, Wrote, Added, Renewed, Reads, Mine
<1>9. ASSUME NEW w \in Writers, SplitFails(w) PROVE EditSees'
  <2>1. Wrote(w, goal[w], seen[w])
    BY <1>9, SplitFailsFacts
  <2> QED BY <1>9, <2>1 DEF SplitFails, Wrote
<1>10. ASSUME NEW w \in Writers, SplitTears(w) PROVE EditSees'
  <2>1. Wrote(w, goal[w], seen[w]) /\ (Landed(w, Over(head, goal[w], text)) \/ UNCHANGED <<head, patch>>)
    BY <1>10, SplitTearsFacts
  <2> QED BY <1>10, <2>1 DEF SplitTears, Wrote, Landed, Over
<1>11. ASSUME NEW w \in Writers, Commits(w) PROVE EditSees'
  <2>1. Landed(w, IF w \in Agents THEN Over(index, goal[w], text) ELSE Over(head, goal[w], text))
    BY <1>11, CommitsFacts
  <2> QED BY <1>11, <2>1 DEF Commits, AfterCommit, Landed, Over
<1>12. ASSUME NEW w \in Writers, CommitFails(w) PROVE EditSees'
  BY <1>12 DEF CommitFails, AfterCommit, Over
<1>13. ASSUME NEW w \in Writers, UndoApplies(w) PROVE EditSees'
  <2>1. Settled(Touched(w), Reverted(w)) /\ Restored(Touched(w), Reverted(w))
    BY <1>13, UndoAppliesFacts
  <2> QED BY <1>13, <2>1 DEF UndoApplies, Settled, Restored, Reverted, Touched
<1>14. ASSUME NEW w \in Writers, UndoCommits(w) PROVE EditSees'
  <2>1. Wrote(w, IF index = head THEN Dirty ELSE {}, head) /\ Restored(IF index = head THEN Dirty ELSE {}, head)
    BY <1>14, UndoCommitsFacts
  <2> QED BY <1>14, <2>1 DEF UndoCommits, Wrote, Restored, Dirty
<1>15. ASSUME NEW w \in Writers, UndoResets(w) PROVE EditSees'
  <2>1. \/ Wrote(w, Dirty, head) /\ Restored(Dirty, head) /\ index' = head
        \/ UNCHANGED <<text, index, moved, lost, back>>
    BY <1>15, UndoResetsFacts
  <2> QED BY <1>15, <2>1 DEF UndoResets, Wrote, Restored, Dirty
<1> QED
  BY <1>1, <1>2, <1>3, <1>4, <1>5, <1>6, <1>7, <1>8, <1>9, <1>10, <1>11, <1>12, <1>13,
      <1>14, <1>15, StillOrMoves
    DEF Moves

\* A page an agent has read is written by nobody but an undo before it writes it.
LEMMA AgentAlone ==
  ASSUME TypeOK, StageInv, TargetInv, OneInv, HoldInv, SplitSees, [Next]_vars,
         NEW a \in Agents, at'[a] = "read", NEW p \in goal'[a] \ broken'
  PROVE  \/ AgentReads(a) /\ p \in Pages /\ seen'[a][p] = text[p] /\ text'[p] = text[p]
         \/ /\ at[a] = "read" /\ p \in goal[a] \ broken /\ p \in Pages
            /\ seen'[a] = seen[a]
            /\ text'[p] = text[p] \/ \E u \in Undoes :
                 UndoApplies(u) \/ UndoCommits(u) \/ UndoResets(u)
<1> DEFINE Read == AgentReads(a) /\ p \in Pages /\ seen'[a][p] = text[p] /\ text'[p] = text[p]
           Kept == at[a] = "read" /\ p \in goal[a] /\ seen'[a] = seen[a]
           Same == text'[p] = text[p]
<1> USE KindsDiffer DEF TypeOK, StageInv, Go, Words, Singles, Batches, Writers
<1>a. p \notin broken
  BY GrowsAlways DEF Grows
<1>b. ASSUME at[a] = "read", p \in goal[a], NEW w \in Writers, w # a
      PROVE  p \in Pages /\ w \notin owner[p]
  <2>1. a \in owner[p] /\ p \in Pages
    BY <1>a, <1>b DEF HoldInv
  <2> QED BY <1>a, <1>b, <2>1 DEF OneInv
<1>1. CASE Still
  <2>1. Kept /\ Same
    BY <1>1 DEF Still
  <2> QED BY <1>a, <2>1
<1>2. ASSUME NEW w \in Writers, AgentReads(w) PROVE Read \/ (Kept /\ Same)
  <2>1. CASE w = a
    <3>1. p \in goal[a] /\ p \in Pages /\ text' = text
      BY <1>2, <2>1 DEF AgentReads
    <3>2. seen'[a][p] = text[p]
      BY <1>2, <2>1, <3>1 DEF AgentReads, Reads
    <3> QED BY <1>2, <2>1, <3>1, <3>2
  <2>2. CASE w # a
    BY <1>2, <2>2 DEF AgentReads, Reads
  <2> QED BY <2>1, <2>2
<1>3. ASSUME NEW w \in Writers, Begins(w) PROVE Kept /\ Same
  BY <1>3 DEF Begins, Reads
<1>4. ASSUME NEW w \in Writers, Writes(w) PROVE Kept /\ Same
  <2>1. Kept /\ w # a /\ goal[w] \subseteq Pages
    BY <1>4 DEF Writes, Enters, Enables
  <2>2. p \notin goal[w]
    BY <1>4, <1>a, <1>b, <2>1 DEF Writes, Enters, Enables, HoldInv
  <2> QED BY <1>4, <1>b, <2>1, <2>2, WritesFacts DEF Wrote, Settled
<1>5. ASSUME NEW w \in Writers, RepairWrites(w) PROVE Kept /\ Same
  <2>1. Kept /\ w # a
    BY <1>5 DEF RepairWrites
  <2>2. p \notin Mine(w)
    BY <1>b, <2>1 DEF Mine
  <2> QED BY <1>5, <1>b, <2>1, <2>2, RepairWritesFacts DEF Wrote, Settled
<1>6. ASSUME NEW w \in Writers, AgentWrites(w) PROVE Kept /\ Same
  <2>1. Kept /\ w # a /\ at[w] = "read" /\ w \in Agents /\ todo[w] = {}
    BY <1>6 DEF AgentWrites
  <2>2. p \notin goal[w]
    BY <1>a, <1>b, <2>1 DEF HoldInv
  <2> QED BY <1>6, <1>b, <2>1, <2>2, AgentWritesFacts DEF Wrote, Settled
<1>7. ASSUME NEW w \in Writers, SplitWrites(w) PROVE Kept /\ Same
  <2>1. Kept /\ w # a
    BY <1>7 DEF SplitWrites, Reads
  <2>2. p \notin Mine(w)
    BY <1>b, <2>1 DEF Mine
  <2> QED BY <1>7, <1>b, <2>1, <2>2, SplitWritesFacts DEF Wrote, Settled
<1>8. ASSUME NEW w \in Writers, SplitFails(w) \/ SplitTears(w) PROVE Kept /\ Same
  <2>1. Kept /\ w # a /\ w \in Splits /\ at[w] = "wrote"
    BY <1>8 DEF SplitFails, SplitTears
  <2>2. p \notin goal[w]
    BY <1>a, <1>b, <2>1 DEF SplitSees
  <2> QED BY <1>8, <1>b, <2>1, <2>2, SplitFailsFacts, SplitTearsFacts DEF Wrote, Settled
<1>9. ASSUME NEW w \in Writers, SplitRefuses(w) \/ Commits(w) \/ CommitFails(w)
      PROVE  Kept /\ Same
  BY <1>9 DEF SplitRefuses, Commits, CommitFails, AfterCommit
<1>10. ASSUME NEW w \in Writers, UndoApplies(w) \/ UndoCommits(w) \/ UndoResets(w)
       PROVE  Kept /\ w \in Undoes
  BY <1>10 DEF UndoApplies, UndoCommits, UndoResets
<1>11. Read \/ (Kept /\ Same) \/ (Kept /\ \E u \in Undoes :
                                     UndoApplies(u) \/ UndoCommits(u) \/ UndoResets(u))
  BY <1>1, <1>2, <1>3, <1>4, <1>5, <1>6, <1>7, <1>8, <1>9, <1>10, StillOrMoves
    DEF Moves, Still
<1> QED BY <1>a, <1>11

\* What an undo brings back to a page is remembered.
LEMMA UndoBack ==
  ASSUME TypeOK, NEW u \in Undoes, UndoApplies(u) \/ UndoCommits(u) \/ UndoResets(u),
         NEW p \in Pages, NEW m \in text'[p] \ text[p]
  PROVE  <<m, p>> \in back'
<1>0. u \in Writers
  BY DEF Writers
<1>1. CASE UndoApplies(u)
  BY <1>0, <1>1, UndoAppliesFacts DEF Settled, Restored
<1>2. CASE UndoCommits(u)
  BY <1>0, <1>2, UndoCommitsFacts DEF Wrote, Settled, Restored
<1>3. CASE UndoResets(u)
  BY <1>0, <1>3, UndoResetsFacts DEF Wrote, Settled, Restored
<1> QED BY <1>1, <1>2, <1>3

\* What it takes was asked for, was written beside it, or is taken blindly.
LEMMA UndoGone ==
  ASSUME TypeOK, UndoSees, Grows, NEW u \in Undoes,
         UndoApplies(u) \/ UndoCommits(u) \/ UndoResets(u),
         NEW p \in Pages \ broken, NEW m \in text[p] \ text'[p]
  PROVE  Outside(m, p)'
<1>0. u \in Writers /\ u \notin Words /\ m \in Words
  BY KindsDiffer DEF Writers, TypeOK, Words
<1>1. CASE UndoApplies(u)
  <2>1. Settled(Touched(u), Reverted(u)) /\ UNCHANGED <<target, adds>>
    BY <1>0, <1>1, UndoAppliesFacts DEF UndoApplies
  <2>2. m \in Plus(u, p)
    BY <2>1 DEF Settled, Reverted
  <2> QED BY <2>1, <2>2 DEF Outside, Undone, Plus
<1>2. CASE UndoCommits(u) \/ UndoResets(u)
  <2>1. /\ Wrote(u, Dirty, head) /\ (UndoCommits(u) => index = head)
        /\ at[u] = (IF UndoCommits(u) THEN "wrote" ELSE "clash")
        /\ blind' = blind
    <3>1. CASE UndoCommits(u)
      <4>1. Wrote(u, IF index = head THEN Dirty ELSE {}, head)
        BY <1>0, <3>1, UndoCommitsFacts
      <4>2. index = head
        BY <4>1 DEF Wrote, Settled
      <4> QED BY <3>1, <4>1, <4>2 DEF UndoCommits, Go
    <3>2. CASE ~UndoCommits(u)
      BY <1>0, <1>2, <3>2, UndoResetsFacts DEF UndoResets, Go
    <3> QED BY <3>1, <3>2
  <2>2. p \in Dirty /\ m \in text[p] \ head[p]
    BY <2>1 DEF Wrote, Settled
  <2>3. CASE u \in blind
    <3>1. <<m, u, p>> \in lost'
      BY <1>0, <2>1, <2>2 DEF Wrote
    <3> QED BY <2>1, <2>3, <3>1 DEF Outside
  <2>4. CASE u \notin blind
    <3>1. Outside(m, p)
      BY <2>1, <2>2, <2>4 DEF UndoSees
    <3> QED BY <1>0, <3>1, OutsideStays
  <2> QED BY <2>3, <2>4
<1> QED BY <1>1, <1>2

LEMMA AgentStep ==
  ASSUME TypeOK, StageInv, TargetInv, OneInv, HoldInv, SplitSees, AgentSees, [Next]_vars
  PROVE  AgentSees'
<1> SUFFICES ASSUME NEW a \in Agents, at'[a] = "read", NEW p \in goal'[a] \ broken',
                    NEW m \in text'[p] \ seen'[a][p]
             PROVE  <<m, p>> \in back'
  BY DEF AgentSees
<1>1. back \subseteq back'
  BY GrowsAlways DEF Grows
<1> QED BY <1>1, AgentAlone, UndoBack DEF AgentSees

LEMMA SplitStep ==
  ASSUME TypeOK, StageInv, MutexInv, TargetInv, OneInv, HoldInv, SplitSees, [Next]_vars
  PROVE  SplitSees'
<1> SUFFICES ASSUME NEW s \in Splits, at'[s] = "wrote", NEW p \in goal'[s] \ broken'
             PROVE  s \in owner'[p] /\ text'[p] \subseteq seen'[s][p] \cup {s}
  BY DEF SplitSees
<1> USE KindsDiffer DEF TypeOK, StageInv, Go, Words, Singles, Batches, Writers
<1>a. p \notin broken
  BY GrowsAlways DEF Grows
<1>b. ASSUME at[s] = "wrote", p \in goal[s]
      PROVE  p \in Pages /\ s \in owner[p] /\ text[p] \subseteq seen[s][p] \cup {s}
             /\ \A w \in Writers : w # s => w \notin owner[p]
  BY <1>a, <1>b DEF SplitSees, OneInv
<1>c. at[s] = "wrote" => s = mutex
  BY DEF MutexInv, Inside
<1> DEFINE Kept == at[s] = "wrote" /\ p \in goal[s] /\ seen'[s] = seen[s]
           Same == text'[p] = text[p] /\ s \in owner'[p]
<1>1. CASE Still
  BY <1>1, <1>b DEF Still
<1>2. CASE SplitWrites(s)
  <2>1. goal'[s] = Mine(s) /\ owner' = owner /\ seen'[s][p] = text[p] /\ p \in Mine(s)
    BY <1>2 DEF SplitWrites, Reads, Mine
  <2>2. p \in Pages /\ text'[p] = Renewed(s, text)[p]
    BY <1>2, <2>1, SplitWritesFacts DEF Wrote, Settled, Mine
  <2>3. Renewed(s, text)[p] \subseteq text[p] \cup {s}
    BY <2>2, TheHub DEF Renewed, Added
  <2> QED BY <2>1, <2>2, <2>3 DEF Mine
<1>3. ASSUME NEW w \in Writers, Moves(w), ~SplitWrites(s) PROVE Kept /\ w # s /\ owner' = owner
  BY <1>3
    DEF Moves, Begins, Writes, Enters, Enables, RepairWrites, AgentReads, AgentWrites,
    SplitRefuses, SplitWrites, SplitFails, SplitTears, Commits, CommitFails, AfterCommit,
    UndoApplies, UndoCommits, UndoResets, Reads
<1>4. ASSUME NEW w \in Writers, Moves(w), Kept, w # s, at[w] \notin {"wrote", "checked", "clash"}
      PROVE  text'[p] = text[p]
  <2>1. w \notin owner[p] /\ p \in Pages /\ mutex = s
    BY <1>4, <1>b, <1>c
  <2>2. CASE RepairWrites(w)
    BY <2>1, <2>2, RepairWritesFacts DEF Wrote, Settled, Mine
  <2>3. CASE AgentWrites(w)
    <3>1. p \notin goal[w]
      BY <1>a, <2>1, <2>3 DEF AgentWrites, HoldInv
    <3> QED BY <2>1, <2>3, <3>1, AgentWritesFacts DEF Wrote, Settled
  <2>4. CASE ~RepairWrites(w) /\ ~AgentWrites(w)
    BY <1>4, <2>1, <2>4 DEF Moves, Begins, Writes, Enters, Enables, AgentReads,
      SplitRefuses, SplitWrites, SplitFails, SplitTears, Commits, CommitFails,
      UndoApplies, UndoCommits, UndoResets
  <2> QED BY <2>2, <2>3, <2>4
<1>5. ASSUME NEW w \in Writers, Kept, w # s PROVE at[w] \notin {"wrote", "checked", "clash"}
  BY <1>5, <1>c DEF MutexInv, Inside
<1> QED BY <1>1, <1>2, <1>3, <1>4, <1>5, <1>b, StillOrMoves

\* How an undo comes to its stages when no words move.
LEMMA StillUndo ==
  ASSUME TypeOK, StageInv, TargetInv, [Next]_vars, Still, NEW u \in Undoes \ blind'
  PROVE  /\ at'[u] = "wrote" => at[u] = "wrote"
         /\ at'[u] \in {"checked", "clash"} /\ at[u] \notin {"checked", "clash"} => Dirty = {}
<1> DEFINE G == /\ at'[u] = "wrote" => at[u] = "wrote"
                /\ at'[u] \in {"checked", "clash"} /\ at[u] \notin {"checked", "clash"} => Dirty = {}
<1> USE KindsDiffer DEF TypeOK, StageInv, Go, Words, Singles, Batches, Writers
<1>1. ASSUME NEW w \in Writers, Begins(w) PROVE G
  BY <1>1 DEF Begins
<1>2. ASSUME NEW w \in Writers, UndoEnters(w) PROVE G
  BY <1>2 DEF UndoEnters
<1>3. ASSUME NEW w \in Writers, NEW p \in Pages, Acquires(w, p) PROVE G
  BY <1>3 DEF Acquires, Asks, Lock!Take
<1>4. ASSUME NEW w \in Writers, NEW p \in Pages, Busy(w, p) PROVE G
  BY <1>4 DEF Busy, Asks
<1>5. ASSUME NEW w \in Writers, Writes(w) PROVE G
  BY <1>5 DEF Writes, Enters, Enables
<1>6. ASSUME NEW w \in Writers, Conflicts(w) PROVE G
  BY <1>6 DEF Conflicts, Enables
<1>7. ASSUME NEW w \in Writers, RepairWrites(w) PROVE G
  BY <1>7 DEF RepairWrites
<1>8. ASSUME NEW w \in Writers, AgentReads(w) PROVE G
  BY <1>8 DEF AgentReads
<1>9. ASSUME NEW w \in Writers, AgentWrites(w) PROVE G
  BY <1>9 DEF AgentWrites
<1>10. ASSUME NEW w \in Writers, TakesMutex(w) PROVE G
  BY <1>10 DEF TakesMutex
<1>11. ASSUME NEW w \in Writers, SplitRefuses(w) PROVE G
  BY <1>11 DEF SplitRefuses
<1>12. ASSUME NEW w \in Writers, SplitWrites(w) PROVE G
  BY <1>12 DEF SplitWrites, Enters, Enables
<1>13. ASSUME NEW w \in Writers, SplitFails(w) PROVE G
  BY <1>13 DEF SplitFails
<1>14. ASSUME NEW w \in Writers, SplitTears(w) PROVE G
  BY <1>14 DEF SplitTears
<1>15. ASSUME NEW w \in Writers, Commits(w) PROVE G
  BY <1>15 DEF Commits, AfterCommit
<1>16. ASSUME NEW w \in Writers, CommitFails(w) PROVE G
  BY <1>16 DEF CommitFails, AfterCommit
<1>17. ASSUME NEW w \in Writers, Releases(w) PROVE G
  BY <1>17 DEF Releases
<1>18. ASSUME NEW w \in Writers, UndoChecks(w) PROVE G
  BY <1>18 DEF UndoChecks
<1>19. ASSUME NEW w \in Writers, UndoRefuses(w) PROVE G
  <2>1. at' = [at EXCEPT ![w] = "done"]
    BY <1>19 DEF UndoRefuses, Refuses
  <2> QED BY <1>19, <2>1 DEF UndoRefuses, Refuses
<1>20. ASSUME NEW w \in Writers, UndoApplies(w) PROVE G
  <2>1. PICK p \in Touched(w) : TRUE
    BY <1>20 DEF UndoApplies
  <2>2. p \in Pages /\ Reverted(w)[p] # text[p]
    BY <1>20, RevertChanges
  <2>3. text'[p] = Reverted(w)[p]
    BY <1>20, <2>2, UndoAppliesFacts DEF Settled
  <2> QED BY <2>2, <2>3 DEF Still
<1>21. ASSUME NEW w \in Writers, UndoCommits(w) PROVE G
  BY <1>21 DEF UndoCommits
<1>22. ASSUME NEW w \in Writers, UndoCommitFails(w) PROVE G
  BY <1>22 DEF UndoCommitFails
<1>23. ASSUME NEW w \in Writers, UndoClashes(w) PROVE G
  BY <1>23 DEF UndoClashes
<1>24. ASSUME NEW w \in Writers, UndoResets(w) PROVE G
  BY <1>24 DEF UndoResets
<1>25. ASSUME NEW p \in Pages, Breaks(p) PROVE G
  BY <1>25 DEF Breaks
<1>26. CASE UNCHANGED vars
  BY <1>26 DEF vars
<1> QED
  BY <1>1, <1>2, <1>3, <1>4, <1>5, <1>6, <1>7, <1>8, <1>9, <1>10, <1>11, <1>12, <1>13,
      <1>14, <1>15, <1>16, <1>17, <1>18, <1>19, <1>20, <1>21, <1>22, <1>23, <1>24,
      <1>25, <1>26
  DEF Next, Step

LEMMA UndoStep ==
  ASSUME TypeOK, StageInv, MutexInv, TargetInv, AgentGoes, UndoSees, [Next]_vars
  PROVE  UndoSees'
<1>a. Grows
  BY GrowsAlways
<1>b. \A m \in Words, p \in Pages : Outside(m, p) => Outside(m, p)'
  BY <1>a, OutsideStays
<1>c. \A m \in Agents \cup Repairs, p \in Pages : Outside(m, p)'
  BY DEF Outside
<1> USE <1>a, <1>b, <1>c, KindsDiffer
 
    DEF TypeOK, StageInv, MutexInv, Inside, UndoSees, Grows, Settled, Go, Words,
      Singles, Batches, Writers
<1>1. CASE Still
  <2>1. ASSUME NEW u \in Undoes \ blind', at'[u] = "wrote" PROVE (index # head)'
    <3>1. at[u] = "wrote" /\ u \notin blind
      BY <1>1, <2>1, StillUndo DEF Still
    <3> QED BY <1>1, <3>1 DEF Still, UndoSees
  <2>2. ASSUME NEW u \in Undoes \ blind', at'[u] \in {"checked", "clash"}
        PROVE  (index = head /\ \A p \in Pages \ broken : \A m \in text[p] \ head[p] : Outside(m, p))'
    <3>1. u \notin blind
      BY <1>a, <2>2 DEF Grows
    <3>2. CASE at[u] \in {"checked", "clash"}
      BY <1>1, <1>b, <3>1, <3>2 DEF Still, UndoSees
    <3>3. CASE at[u] \notin {"checked", "clash"}
      <4>1. Dirty = {}
        BY <1>1, <2>2, <3>1, <3>3, StillUndo
      <4>2. \A p \in Pages : text[p] = head[p] /\ index[p] = head[p]
        BY <4>1 DEF Dirty
      <4>3. index = head
        BY <4>2
      <4> QED BY <1>1, <4>2, <4>3 DEF Still
    <3> QED BY <3>2, <3>3
  <2> QED BY <2>1, <2>2 DEF UndoSees
<1>2. ASSUME NEW w \in Writers, Begins(w) PROVE UndoSees'
  BY <1>2 DEF Begins, Reads
<1>3. ASSUME NEW w \in Writers, Writes(w) PROVE UndoSees'
  <2>1. Wrote(w, goal[w], IF w \in Notes THEN Renewed(w, text) ELSE Added(w, seen[w]))
    BY <1>3, WritesFacts
  <2> QED BY <1>3, <2>1 DEF Writes, Enters, Enables, Wrote, Added, Renewed
<1>4. ASSUME NEW w \in Writers, RepairWrites(w) PROVE UndoSees'
  <2>1. Wrote(w, {p \in Mine(w) : text[p] = seen[w][p]}, Added(w, seen[w]))
    BY <1>4, RepairWritesFacts
  <2> QED BY <1>4, <2>1 DEF RepairWrites, Wrote, Added, Mine
<1>5. ASSUME NEW w \in Writers, AgentReads(w) PROVE UndoSees'
  BY <1>5 DEF AgentReads, Reads
<1>6. ASSUME NEW w \in Writers, AgentWrites(w) PROVE UndoSees'
  <2>1. Wrote(w, goal[w], Added(w, seen[w])) /\ w \in Agents /\ at[w] = "read"
    BY <1>6, AgentWritesFacts DEF AgentWrites
  <2>2. at' = [at EXCEPT ![w] = "await"] /\ UNCHANGED <<index, head, blind, broken>>
    BY <1>6 DEF AgentWrites
  <2>3. ASSUME NEW u \in Undoes \ blind', at'[u] \in {"checked", "clash"},
               NEW p \in Pages \ broken, NEW m \in text'[p] \ head[p]
        PROVE  Outside(m, p)'
    <3>1. index = head /\ \A n \in text[p] \ head[p] : Outside(n, p)
      BY <2>2, <2>3
    <3>2. m \in Words /\ (m \in text[p] \/ m = w \/ (p \in goal[w] /\ m \in seen[w][p]))
      BY <2>1, <2>3 DEF Wrote, Added
    <3>3. CASE m \in text[p]
      BY <2>3, <3>1, <3>2, <3>3
    <3>4. CASE m = w
      BY <2>1, <3>4
    <3>5. CASE m \notin text[p] /\ p \in goal[w] /\ m \in seen[w][p]
      <4>1. Outside(m, p)
        BY <2>1, <3>5 DEF AgentGoes
      <4> QED BY <3>2, <4>1
    <3> QED BY <3>2, <3>3, <3>4, <3>5
  <2>4. ASSUME NEW u \in Undoes \ blind'
        PROVE  at'[u] = at[u] /\ u \notin blind
    BY <2>1, <2>2, <2>4
  <2> QED BY <2>2, <2>3, <2>4
<1>7. ASSUME NEW w \in Writers, SplitRefuses(w) PROVE UndoSees'
  BY <1>7 DEF SplitRefuses
<1>8. ASSUME NEW w \in Writers, SplitWrites(w) PROVE UndoSees'
  <2>1. Wrote(w, Mine(w), Renewed(w, text))
    BY <1>8, SplitWritesFacts
  <2> QED BY <1>8, <2>1
    DEF SplitWrites, Enters, Enables, Wrote, Added, Renewed, Reads, Mine
<1>9. ASSUME NEW w \in Writers, SplitFails(w) PROVE UndoSees'
  <2>1. Wrote(w, goal[w], seen[w])
    BY <1>9, SplitFailsFacts
  <2> QED BY <1>9, <2>1 DEF SplitFails, Wrote
<1>10. ASSUME NEW w \in Writers, SplitTears(w) PROVE UndoSees'
  <2>1. Wrote(w, goal[w], seen[w]) /\ (Landed(w, Over(head, goal[w], text)) \/ UNCHANGED <<head, patch>>)
    BY <1>10, SplitTearsFacts
  <2> QED BY <1>10, <2>1 DEF SplitTears, Wrote, Landed, Over
<1>11. ASSUME NEW w \in Writers, Commits(w) PROVE UndoSees'
  <2>1. Landed(w, IF w \in Agents THEN Over(index, goal[w], text) ELSE Over(head, goal[w], text))
    BY <1>11, CommitsFacts
  <2> QED BY <1>11, <2>1 DEF Commits, AfterCommit, Landed, Over
<1>12. ASSUME NEW w \in Writers, CommitFails(w) PROVE UndoSees'
  BY <1>12 DEF CommitFails, AfterCommit, Over
<1>13. ASSUME NEW w \in Writers, UndoApplies(w) PROVE UndoSees'
  <2>1. Settled(Touched(w), Reverted(w)) /\ w \in Undoes
    BY <1>13, UndoAppliesFacts DEF UndoApplies
  <2>2. PICK p \in Touched(w) : TRUE
    BY <1>13 DEF UndoApplies
  <2>3. p \in Pages /\ text[p] = index[p] /\ Reverted(w)[p] # text[p]
    BY <1>13, <2>2, RevertChanges
  <2>4. index'[p] = Reverted(w)[p] /\ head' = head
    BY <1>13, <2>2, <2>3 DEF UndoApplies, Over
  <2>5. ASSUME NEW u \in Undoes \ blind'
        PROVE  /\ u # w => at'[u] \notin {"checked", "clash", "wrote"}
               /\ u = w => at'[u] = "wrote" /\ index[p] = head[p]
    BY <1>13, <2>1, <2>3 DEF UndoApplies
  <2> QED BY <2>3, <2>4, <2>5
<1>14. ASSUME NEW w \in Writers, UndoCommits(w) PROVE UndoSees'
  <2>1. Wrote(w, IF index = head THEN Dirty ELSE {}, head) /\ Restored(IF index = head THEN Dirty ELSE {}, head)
    BY <1>14, UndoCommitsFacts
  <2> QED BY <1>14, <2>1 DEF UndoCommits, Wrote, Restored, Dirty
<1>15. ASSUME NEW w \in Writers, UndoResets(w) PROVE UndoSees'
  <2>1. \/ Wrote(w, Dirty, head) /\ Restored(Dirty, head) /\ index' = head
        \/ UNCHANGED <<text, index, moved, lost, back>>
    BY <1>15, UndoResetsFacts
  <2> QED BY <1>15, <2>1 DEF UndoResets, Wrote, Restored, Dirty
<1> QED
  BY <1>1, <1>2, <1>3, <1>4, <1>5, <1>6, <1>7, <1>8, <1>9, <1>10, <1>11, <1>12, <1>13,
      <1>14, <1>15, StillOrMoves
    DEF Moves

LEMMA GoesStep ==
  ASSUME TypeOK, StageInv, TargetInv, OneInv, HoldInv, SplitSees, UndoSees, AgentGoes,
         [Next]_vars
  PROVE  AgentGoes'
<1> SUFFICES ASSUME NEW a \in Agents, at'[a] = "read", NEW p \in goal'[a] \ broken',
                    NEW m \in seen'[a][p] \ text'[p]
             PROVE  Outside(m, p)'
  BY DEF AgentGoes
<1>0. Grows
  BY GrowsAlways
<1>1. /\ at[a] = "read" /\ p \in goal[a] \ broken /\ p \in Pages /\ seen'[a] = seen[a]
      /\ text'[p] = text[p] \/ \E u \in Undoes :
           UndoApplies(u) \/ UndoCommits(u) \/ UndoResets(u)
  BY AgentAlone
<1>2. m \in Words
  BY <1>1 DEF TypeOK, Writers, Words
<1>3. CASE m \notin text[p]
  BY <1>0, <1>1, <1>2, <1>3, OutsideStays DEF AgentGoes
<1>4. CASE m \in text[p]
  BY <1>0, <1>1, <1>4, UndoGone
<1> QED BY <1>3, <1>4

LEMMA KeepStep ==
  ASSUME TypeOK, StageInv, TargetInv, EditSees, AgentSees, SplitSees, CarefulKeepAll, [Next]_vars
  PROVE  CarefulKeepAll'
<1> DEFINE Allowed(l) == \/ l[2] \in Hasty \cup Undoes
                         \/ l[2] \in Notes \cup Splits /\ l[3] = Hub
                         \/ l[2] \in Agents /\ <<l[1], l[3]>> \in back'
<1> SUFFICES ASSUME NEW l \in lost', l \notin lost PROVE Allowed(l)
  <2>1. back \subseteq back'
    BY GrowsAlways DEF Grows
  <2> QED BY <2>1 DEF CarefulKeepAll
<1> USE KindsDiffer DEF TypeOK, Go, Words, Singles, Batches, Writers
<1>1. PICK w \in Writers : Moves(w)
  BY StillOrMoves DEF Still
<1>2. ASSUME NEW S, NEW new, Wrote(w, S, new)
      PROVE  /\ l[2] = w /\ l[3] \in S \ broken
             /\ l[1] \in Words /\ l[1] # w /\ l[1] \in text[l[3]] /\ l[1] \notin new[l[3]]
  BY <1>2 DEF Wrote
<1> DEFINE m == l[1]
           p == l[3]
<1>3. CASE Writes(w)
  <2> DEFINE new == IF w \in Notes THEN Renewed(w, text) ELSE Added(w, seen[w])
  <2>1. l[2] = w /\ p \in goal[w] \ broken /\ m # w /\ m \in text[p] /\ m \notin new[p]
    BY <1>2, <1>3, WritesFacts
  <2>2. w \in Singles /\ at[w] = "asks" /\ Fresh(w) /\ p \in Pages
    BY <1>3, <2>1 DEF Writes, Enters, Enables
  <2>3. CASE w \in Notes
    BY <2>1, <2>2, <2>3 DEF Renewed, Added
  <2>4. CASE w \in Edits \ Unchecked
    <3>1. text[p] \subseteq seen[w][p]
      BY <2>1, <2>2, <2>4 DEF EditSees, Fresh
    <3> QED BY <2>1, <2>2, <2>4, <3>1 DEF Added
  <2>5. CASE w \in Lists \cup Unchecked
    BY <2>1, <2>5 DEF Hasty
  <2> QED BY <2>2, <2>3, <2>4, <2>5
<1>4. CASE RepairWrites(w)
  <2> DEFINE S == {q \in Mine(w) : text[q] = seen[w][q]}
  <2>1. Wrote(w, S, Added(w, seen[w]))
    BY <1>4, RepairWritesFacts
  <2> HIDE DEF S
  <2>2. p \in S /\ m \in text[p] /\ m \notin Added(w, seen[w])[p]
    BY <1>2, <2>1
  <2> QED BY <2>2 DEF S, Added, Mine
<1>5. CASE AgentWrites(w)
  <2>1. l[2] = w /\ p \in goal[w] \ broken /\ m \in text[p] /\ m \notin Added(w, seen[w])[p]
    BY <1>2, <1>5, AgentWritesFacts
  <2>2. w \in Agents /\ at[w] = "read" /\ p \in Pages /\ back' = back
    BY <1>5, <2>1 DEF AgentWrites
  <2> QED BY <2>1, <2>2 DEF AgentSees, Added
<1>6. CASE SplitWrites(w)
  <2>1. l[2] = w /\ p \in Mine(w) /\ m \in text[p] /\ m \notin Renewed(w, text)[p]
    BY <1>2, <1>6, SplitWritesFacts
  <2>2. w \in Splits /\ p \in Pages
    BY <1>6, <2>1 DEF SplitWrites, Mine
  <2> QED BY <2>1, <2>2 DEF Renewed, Added
<1>7. CASE SplitFails(w) \/ SplitTears(w)
  <2>1. p \in goal[w] \ broken /\ m # w /\ m \in text[p] /\ m \notin seen[w][p]
    BY <1>2, <1>7, SplitFailsFacts, SplitTearsFacts
  <2>2. w \in Splits /\ at[w] = "wrote"
    BY <1>7 DEF SplitFails, SplitTears
  <2> QED BY <2>1, <2>2 DEF SplitSees
<1>8. CASE UndoCommits(w) \/ UndoResets(w)
  <2>1. w \in Undoes
    BY <1>8 DEF UndoCommits, UndoResets
  <2>2. Wrote(w, Dirty, head) \/ Wrote(w, {}, head)
    BY <1>8, UndoCommitsFacts, UndoResetsFacts
  <2> QED BY <1>2, <2>1, <2>2
<1>9. CASE \/ Begins(w) \/ AgentReads(w) \/ SplitRefuses(w) \/ Commits(w) \/ CommitFails(w)
           \/ UndoApplies(w)
  BY <1>9 DEF Begins, AgentReads, SplitRefuses, Commits, CommitFails, UndoApplies
<1> QED BY <1>1, <1>3, <1>4, <1>5, <1>6, <1>7, <1>8, <1>9 DEF Moves

LEMMA SpareStep ==
  ASSUME TypeOK, StageInv, TargetInv, UndoSees, UndoSparesService, [Next]_vars
  PROVE  UndoSparesService'
<1> SUFFICES ASSUME NEW l \in lost', l[2] \in Undoes PROVE Outside(l[1], l[3])'
  BY DEF UndoSparesService, Outside
<1>0. Grows
  BY GrowsAlways
<1> USE KindsDiffer DEF TypeOK, Go, Words, Singles, Batches, Writers
<1>1. CASE l \in lost
  <2>1. l[1] \in Words /\ l[3] \in Pages /\ Outside(l[1], l[3])
    BY <1>1 DEF UndoSparesService, Outside
  <2> QED BY <1>0, <2>1, OutsideStays
<1>2. CASE l \notin lost
  <2>1. PICK w \in Writers : Moves(w)
    BY <1>2, StillOrMoves DEF Still
  <2>2. CASE UndoCommits(w) \/ UndoResets(w)
    <3>1. PICK S \in {Dirty, {}} : Wrote(w, S, head)
      BY <1>2, <2>2, UndoCommitsFacts, UndoResetsFacts
    <3>2. l[3] \in S \ broken /\ l[1] \in text[l[3]] /\ l[1] \notin head[l[3]]
      BY <1>2, <3>1 DEF Wrote
    <3>3. l[3] \in Pages \ broken /\ l[1] \in text[l[3]] \ text'[l[3]]
      BY <3>1, <3>2 DEF Wrote, Settled, Dirty
    <3>4. w \in Undoes
      BY <2>2 DEF UndoCommits, UndoResets
    <3> QED BY <1>0, <2>2, <3>3, <3>4, UndoGone
  <2>3. ASSUME NEW S, NEW new, Wrote(w, S, new) PROVE l[2] = w
    BY <1>2, <2>3 DEF Wrote
  <2>4. CASE \/ Writes(w) \/ RepairWrites(w) \/ AgentWrites(w) \/ SplitWrites(w)
             \/ SplitFails(w) \/ SplitTears(w)
    <3>1. l[2] = w
      BY <2>3, <2>4, WritesFacts, RepairWritesFacts, AgentWritesFacts, SplitWritesFacts,
         SplitFailsFacts, SplitTearsFacts
    <3>2. w \in Words
      BY <2>4 DEF Writes, RepairWrites, AgentWrites, SplitWrites, SplitFails, SplitTears
    <3> QED BY <3>1, <3>2
  <2>5. CASE \/ Begins(w) \/ AgentReads(w) \/ SplitRefuses(w) \/ Commits(w) \/ CommitFails(w)
             \/ UndoApplies(w)
    BY <1>2, <2>5 DEF Begins, AgentReads, SplitRefuses, Commits, CommitFails, UndoApplies
  <2> QED BY <2>1, <2>2, <2>4, <2>5 DEF Moves
<1> QED BY <1>1, <1>2

LEMMA InitInv ==
  Init => Inv
BY KindsDiffer, TheHub
DEF Init, Lock!Init, Inv, TypeOK, Stages, Inside, StageInv, MutexInv, OneInv, HoldInv,
  EditSees, AgentSees, SplitSees, TargetInv, UndoSees, AgentGoes, CarefulKeepAll,
  UndoSparesService, Words, Writers, Singles, Batches

LEMMA NextInv ==
  Inv /\ [Next]_vars => Inv'
BY TypeStep, StageStep, MutexStep, LockStep, EditStep, AgentStep, SplitStep, TargetStep,
  UndoStep, GoesStep, KeepStep, SpareStep
DEF Inv

LEMMA Invariance ==
  Spec => []Inv
BY InitInv, NextInv, PTL DEF Spec
-----------------------------------------------------------------------------
(***************************************************************************)
(* A split is all or nothing.                                              *)
(***************************************************************************)
\* Only who has begun holds a text, and an edit or an agent of its own page only.
SeenInv ==
  \A w \in Writers, p \in Pages : seen[w][p] # {} =>
    at[w] # "idle" /\ (w \in Edits \cup Agents => p \in goal[w])

\* Some commit took s from p, so that an undo may put it back.
Dropped(s, p) == \E v \in Words : <<v, p, s>> \in drops

\* The words of a split are nowhere before it writes, and on no page but its own.
MarkInv ==
  \A s \in Splits, p \in Pages :
    \/ s \in text[p] \/ s \in index[p] \/ s \in head[p] \/ Dropped(s, p)
    \/ \E w \in Writers : s \in seen[w][p]
    => at[s] \notin {"idle", "asks"} /\ p \in goal[s]

\* A split that may still fail is not in the index nor at HEAD, now or before, and
\* its originals are without it.
WroteInv ==
  \A s \in Splits, p \in Pages : at[s] = "wrote" =>
    s \notin head[p] /\ s \notin index[p] /\ s \notin seen[s][p] /\ ~Dropped(s, p)

\* Nobody that may still write the page would bring back the words of s.
Clean(s, p) ==
  /\ s \notin text[p] /\ s \notin index[p] /\ s \notin head[p] /\ ~Dropped(s, p)
  /\ \A e \in Edits \ (moved \cup Unchecked) : at[e] = "asks" => s \notin seen[e][p]
  /\ \A a \in Agents : at[a] = "read" => s \notin seen[a][p]
  /\ \A t \in Splits : at[t] = "wrote" => s \notin seen[t][p]

Taken(s, p) == \E h \in Hasty : s \in seen[h][p]

FailedInv ==
  \A s \in Splits, p \in Pages \ broken : at[s] = "failed" => Clean(s, p) \/ Taken(s, p)

Gone(s, p) == Overwritten(s, p) \/ Undone(s, p)

LandedInv ==
  \A s \in Splits, p \in Pages \ broken : p \in goal[s] =>
    /\ at[s] \in {"wrote", "free", "done"} => s \in text[p] \/ Gone(s, p)
    /\ at[s] \in {"free", "done"} => s \in index[p] \/ Gone(s, p)
    /\ at[s] \in {"free", "done"} => s \in head[p] \/ Gone(s, p)

SplitInv == SeenInv /\ MarkInv /\ WroteInv /\ FailedInv /\ LandedInv

LEMMA SeenStep ==
  ASSUME TypeOK, StageInv, TargetInv, SeenInv, [Next]_vars
  PROVE  SeenInv'
<1> USE KindsDiffer
  DEF TypeOK, StageInv, SeenInv, Go, Reads, Words, Singles, Batches, Writers
<1>1. CASE Still
  BY <1>1 DEF Still
<1>2. ASSUME NEW w \in Writers, Begins(w) PROVE SeenInv'
  BY <1>2 DEF Begins
<1>3. ASSUME NEW w \in Writers, Writes(w) PROVE SeenInv'
  BY <1>3 DEF Writes, Enters, Enables
<1>4. ASSUME NEW w \in Writers, RepairWrites(w) PROVE SeenInv'
  BY <1>4 DEF RepairWrites
<1>5. ASSUME NEW w \in Writers, AgentReads(w) PROVE SeenInv'
  BY <1>5 DEF AgentReads
<1>6. ASSUME NEW w \in Writers, AgentWrites(w) PROVE SeenInv'
  BY <1>6 DEF AgentWrites
<1>7. ASSUME NEW w \in Writers, SplitRefuses(w) PROVE SeenInv'
  BY <1>7 DEF SplitRefuses
<1>8. ASSUME NEW w \in Writers, SplitWrites(w) PROVE SeenInv'
  BY <1>8 DEF SplitWrites, Enters, Enables
<1>9. ASSUME NEW w \in Writers, SplitFails(w) PROVE SeenInv'
  BY <1>9 DEF SplitFails
<1>10. ASSUME NEW w \in Writers, SplitTears(w) PROVE SeenInv'
  BY <1>10 DEF SplitTears
<1>11. ASSUME NEW w \in Writers, Commits(w) PROVE SeenInv'
  BY <1>11 DEF Commits, AfterCommit
<1>12. ASSUME NEW w \in Writers, CommitFails(w) PROVE SeenInv'
  BY <1>12 DEF CommitFails, AfterCommit
<1>13. ASSUME NEW w \in Writers, UndoApplies(w) PROVE SeenInv'
  BY <1>13 DEF UndoApplies
<1>14. ASSUME NEW w \in Writers, UndoCommits(w) PROVE SeenInv'
  BY <1>14 DEF UndoCommits
<1>15. ASSUME NEW w \in Writers, UndoResets(w) PROVE SeenInv'
  BY <1>15 DEF UndoResets
<1> QED
  BY <1>1, <1>2, <1>3, <1>4, <1>5, <1>6, <1>7, <1>8, <1>9, <1>10, <1>11, <1>12, <1>13,
      <1>14, <1>15, StillOrMoves
    DEF Moves

\* A split's words get into the index, to HEAD and among what commits took from where
\* they were in the tree, in the index or at HEAD.
LEMMA GitFacts ==
  ASSUME TypeOK, NEW w \in Writers, NEW s \in Splits, NEW p \in Pages,
         \/ Commits(w) \/ CommitFails(w) \/ SplitTears(w) \/ SplitFails(w)
         \/ UndoCommits(w) \/ UndoResets(w)
  PROVE  /\ s \in index'[p] => s \in text[p] \/ s \in index[p] \/ s \in head[p]
         /\ s \in head'[p] => s \in text[p] \/ s \in index[p] \/ s \in head[p]
         /\ Dropped(s, p)' => Dropped(s, p) \/ s \in head[p]
<1> USE KindsDiffer DEF TypeOK, Words, Batches, Writers
<1>1. CASE Commits(w)
  <2>1. /\ Landed(w, IF w \in Agents THEN Over(index, goal[w], text)
                     ELSE Over(head, goal[w], text))
        /\ index' = Over(index, goal[w], text)
    BY <1>1, CommitsFacts DEF Commits
  <2> QED BY <2>1 DEF Landed, Over, Dropped
<1>2. CASE CommitFails(w)
  BY <1>2 DEF CommitFails, Over, Dropped
<1>3. CASE SplitTears(w)
  <2>1. /\ Landed(w, Over(head, goal[w], text)) \/ UNCHANGED <<head, patch>>
        /\ index' = Over(index, goal[w], text)
    BY <1>3, SplitTearsFacts DEF SplitTears
  <2> QED BY <2>1 DEF Landed, Over, Dropped
<1>4. CASE SplitFails(w)
  BY <1>4 DEF SplitFails, Over, Dropped
<1>5. CASE UndoCommits(w)
  BY <1>5 DEF UndoCommits, Dropped
<1>6. CASE UndoResets(w)
  BY <1>6 DEF UndoResets, Dropped
<1> QED BY <1>1, <1>2, <1>3, <1>4, <1>5, <1>6

\* An undo puts back what a commit took.
LEMMA PutsBack ==
  ASSUME TypeOK, NEW w \in Writers, UndoApplies(w), NEW s \in Splits, NEW p \in Pages,
         s \in text'[p] \/ s \in index'[p]
  PROVE  s \in text[p] \/ s \in index[p] \/ Dropped(s, p)
<1>1. Settled(Touched(w), Reverted(w)) /\ index' = Over(index, Touched(w), Reverted(w))
  BY UndoAppliesFacts DEF UndoApplies
<1>2. s \in text[p] \/ s \in index[p] \/ (p \in Touched(w) /\ s \in Reverted(w)[p])
  BY <1>1 DEF Settled, Over
<1>3. ASSUME s \in Reverted(w)[p], s \notin text[p] PROVE Dropped(s, p)
  <2>1. <<target[w], p, s>> \in drops
    BY <1>3 DEF Reverted, Minus
  <2>2. target[w] \in Words
    BY <2>1 DEF TypeOK
  <2> QED BY <2>1, <2>2 DEF Dropped
<1> QED BY <1>2, <1>3

LEMMA RenewedFacts ==
  ASSUME NEW w, NEW from, NEW p \in Pages
  PROVE  w \in Renewed(w, from)[p] /\ Renewed(w, from)[p] \subseteq from[p] \cup {w}
BY TheHub DEF Renewed, Added

LEMMA MarkStep ==
  ASSUME TypeOK, StageInv, TargetInv, MarkInv, [Next]_vars
  PROVE  MarkInv'
<1>d. drops' = drops => \A s \in Splits, p \in Pages : Dropped(s, p)' = Dropped(s, p)
  BY DEF Dropped
<1>e. UNCHANGED patch => drops' = drops
  OBVIOUS
<1> USE <1>d, <1>e, KindsDiffer
  DEF TypeOK, StageInv, MarkInv, Settled, Go, Words, Singles, Batches, Writers
<1>1. CASE Still
  BY <1>1 DEF Still
<1>2. ASSUME NEW w \in Writers, Begins(w) PROVE MarkInv'
  BY <1>2 DEF Begins, Reads
<1>3. ASSUME NEW w \in Writers, Writes(w) PROVE MarkInv'
  <2>1. Wrote(w, goal[w], IF w \in Notes THEN Renewed(w, text) ELSE Added(w, seen[w]))
    BY <1>3, WritesFacts
  <2>2. ASSUME NEW s \in Splits, NEW p \in Pages, s \in text'[p]
        PROVE  s \in text[p] \/ s \in seen[w][p] \/ s = w
    <3>1. \/ s \in text[p] \/ s \in Added(w, seen[w])[p] \/ s \in Renewed(w, text)[p]
      BY <2>1, <2>2 DEF Wrote
    <3> QED BY <3>1, RenewedFacts DEF Added
  <2>3. w \notin Splits
    BY <1>3 DEF Writes
  <2> QED BY <1>3, <2>2, <2>3 DEF Writes, Enters, Enables
<1>4. ASSUME NEW w \in Writers, RepairWrites(w) PROVE MarkInv'
  <2>1. Wrote(w, {p \in Mine(w) : text[p] = seen[w][p]}, Added(w, seen[w]))
    BY <1>4, RepairWritesFacts
  <2> QED BY <1>4, <2>1 DEF RepairWrites, Wrote, Added
<1>5. ASSUME NEW w \in Writers, AgentReads(w) PROVE MarkInv'
  BY <1>5 DEF AgentReads, Reads
<1>6. ASSUME NEW w \in Writers, AgentWrites(w) PROVE MarkInv'
  <2>1. Wrote(w, goal[w], Added(w, seen[w]))
    BY <1>6, AgentWritesFacts
  <2> QED BY <1>6, <2>1 DEF AgentWrites, Wrote, Added
<1>7. ASSUME NEW w \in Writers, SplitRefuses(w) PROVE MarkInv'
  BY <1>7 DEF SplitRefuses
<1>8. ASSUME NEW w \in Writers, SplitWrites(w) PROVE MarkInv'
  <2>1. Wrote(w, Mine(w), Renewed(w, text))
    BY <1>8, SplitWritesFacts
  <2>2. ASSUME NEW s \in Splits, NEW p \in Pages, s \in text'[p]
        PROVE  s \in text[p] \/ (s = w /\ p \in Mine(w))
    <3>1. s \in text[p] \/ (p \in Mine(w) /\ s \in Renewed(w, text)[p])
      BY <2>1, <2>2 DEF Wrote
    <3> QED BY <3>1, RenewedFacts
  <2>3. /\ w \in Splits /\ at[w] = "asks" /\ at' = [at EXCEPT ![w] = "wrote"]
        /\ goal' = [goal EXCEPT ![w] = Mine(w)] /\ UNCHANGED <<index, head, drops>>
    BY <1>8 DEF SplitWrites, Enters, Enables
  <2>4. ASSUME NEW s \in Splits, NEW p \in Pages, NEW v \in Writers, s \in seen'[v][p]
        PROVE  s \in seen[v][p] \/ s \in text[p]
    BY <1>8, <2>4 DEF SplitWrites, Reads
  <2>5. \A s \in Splits, p \in Pages : s = w =>
          ~(\/ s \in text[p] \/ s \in index[p] \/ s \in head[p] \/ Dropped(s, p)
            \/ \E v \in Writers : s \in seen[v][p])
    BY <2>3
  <2> SUFFICES ASSUME NEW s \in Splits, NEW p \in Pages,
                      \/ s \in text'[p] \/ s \in index'[p] \/ s \in head'[p] \/ Dropped(s, p)'
                      \/ \E v \in Writers : s \in seen'[v][p]
               PROVE  at'[s] \notin {"idle", "asks"} /\ p \in goal'[s]
    OBVIOUS
  <2>6. CASE s = w
    <3>1. s \in text'[p]
      BY <2>3, <2>4, <2>5, <2>6
    <3> QED BY <2>2, <2>3, <2>5, <2>6, <3>1
  <2>7. CASE s # w
    BY <2>2, <2>3, <2>4, <2>7
  <2> QED BY <2>6, <2>7
<1>9. ASSUME NEW w \in Writers, SplitFails(w) PROVE MarkInv'
  <2>1. ASSUME NEW s \in Splits, NEW p \in Pages
        PROVE  /\ s \in index'[p] => s \in text[p] \/ s \in index[p] \/ s \in head[p]
               /\ s \in head'[p] => s \in text[p] \/ s \in index[p] \/ s \in head[p]
               /\ Dropped(s, p)' => Dropped(s, p) \/ s \in head[p]
    BY <1>9, GitFacts
  <2>2. Wrote(w, goal[w], seen[w])
    BY <1>9, SplitFailsFacts
  <2> QED BY <1>9, <2>1, <2>2 DEF SplitFails, Wrote
<1>10. ASSUME NEW w \in Writers, SplitTears(w) PROVE MarkInv'
  <2>1. ASSUME NEW s \in Splits, NEW p \in Pages
        PROVE  /\ s \in index'[p] => s \in text[p] \/ s \in index[p] \/ s \in head[p]
               /\ s \in head'[p] => s \in text[p] \/ s \in index[p] \/ s \in head[p]
               /\ Dropped(s, p)' => Dropped(s, p) \/ s \in head[p]
    BY <1>10, GitFacts
  <2>2. Wrote(w, goal[w], seen[w])
    BY <1>10, SplitTearsFacts
  <2> QED BY <1>10, <2>1, <2>2 DEF SplitTears, Wrote
<1>11. ASSUME NEW w \in Writers, Commits(w) PROVE MarkInv'
  <2>1. ASSUME NEW s \in Splits, NEW p \in Pages
        PROVE  /\ s \in index'[p] => s \in text[p] \/ s \in index[p] \/ s \in head[p]
               /\ s \in head'[p] => s \in text[p] \/ s \in index[p] \/ s \in head[p]
               /\ Dropped(s, p)' => Dropped(s, p) \/ s \in head[p]
    BY <1>11, GitFacts
  <2> QED BY <1>11, <2>1 DEF Commits, AfterCommit
<1>12. ASSUME NEW w \in Writers, CommitFails(w) PROVE MarkInv'
  <2>1. ASSUME NEW s \in Splits, NEW p \in Pages
        PROVE  /\ s \in index'[p] => s \in text[p] \/ s \in index[p] \/ s \in head[p]
               /\ s \in head'[p] => s \in text[p] \/ s \in index[p] \/ s \in head[p]
               /\ Dropped(s, p)' => Dropped(s, p) \/ s \in head[p]
    BY <1>12, GitFacts
  <2> QED BY <1>12, <2>1 DEF CommitFails, AfterCommit
<1>13. ASSUME NEW w \in Writers, UndoApplies(w) PROVE MarkInv'
  <2>1. ASSUME NEW s \in Splits, NEW p \in Pages, s \in text'[p] \/ s \in index'[p]
        PROVE  s \in text[p] \/ s \in index[p] \/ Dropped(s, p)
    BY <1>13, <2>1, PutsBack
  <2>2. \A s \in Splits, p \in Pages : Dropped(s, p)' <=> Dropped(s, p)
    BY <1>13 DEF UndoApplies, Dropped
  <2> QED BY <1>13, <2>1, <2>2 DEF UndoApplies
<1>14. ASSUME NEW w \in Writers, UndoCommits(w) PROVE MarkInv'
  <2>1. ASSUME NEW s \in Splits, NEW p \in Pages
        PROVE  /\ s \in index'[p] => s \in text[p] \/ s \in index[p] \/ s \in head[p]
               /\ s \in head'[p] => s \in text[p] \/ s \in index[p] \/ s \in head[p]
               /\ Dropped(s, p)' => Dropped(s, p) \/ s \in head[p]
    BY <1>14, GitFacts
  <2>2. Wrote(w, Dirty, head) \/ Wrote(w, {}, head)
    BY <1>14, UndoCommitsFacts
  <2> QED BY <1>14, <2>1, <2>2 DEF UndoCommits, Wrote
<1>15. ASSUME NEW w \in Writers, UndoResets(w) PROVE MarkInv'
  <2>1. ASSUME NEW s \in Splits, NEW p \in Pages
        PROVE  /\ s \in index'[p] => s \in text[p] \/ s \in index[p] \/ s \in head[p]
               /\ s \in head'[p] => s \in text[p] \/ s \in index[p] \/ s \in head[p]
               /\ Dropped(s, p)' => Dropped(s, p) \/ s \in head[p]
    BY <1>15, GitFacts
  <2>2. Wrote(w, Dirty, head) \/ text' = text
    BY <1>15, UndoResetsFacts
  <2> QED BY <1>15, <2>1, <2>2 DEF UndoResets, Wrote
<1> QED
  BY <1>1, <1>2, <1>3, <1>4, <1>5, <1>6, <1>7, <1>8, <1>9, <1>10, <1>11, <1>12, <1>13,
      <1>14, <1>15, StillOrMoves
    DEF Moves

LEMMA WroteStep ==
  ASSUME TypeOK, StageInv, MutexInv, TargetInv, MarkInv, WroteInv, [Next]_vars
  PROVE  WroteInv'
<1>d. drops' = drops => \A s \in Splits, p \in Pages : Dropped(s, p)' = Dropped(s, p)
  BY DEF Dropped
<1>e. UNCHANGED patch => drops' = drops
  OBVIOUS
<1> USE <1>d, <1>e, KindsDiffer
  DEF TypeOK, StageInv, WroteInv, Go, Words, Singles, Batches, Writers
<1>1. CASE Still
  BY <1>1 DEF Still
<1>2. ASSUME NEW w \in Writers, Begins(w) PROVE WroteInv'
  BY <1>2 DEF Begins, Reads
<1>3. ASSUME NEW w \in Writers, Writes(w) PROVE WroteInv'
  BY <1>3 DEF Writes, Enters, Enables
<1>4. ASSUME NEW w \in Writers, RepairWrites(w) PROVE WroteInv'
  BY <1>4 DEF RepairWrites
<1>5. ASSUME NEW w \in Writers, AgentReads(w) PROVE WroteInv'
  BY <1>5 DEF AgentReads, Reads
<1>6. ASSUME NEW w \in Writers, AgentWrites(w) PROVE WroteInv'
  BY <1>6 DEF AgentWrites
<1>7. ASSUME NEW w \in Writers, SplitRefuses(w) PROVE WroteInv'
  BY <1>7 DEF SplitRefuses
<1>8. ASSUME NEW w \in Writers, SplitWrites(w) PROVE WroteInv'
  BY <1>8 DEF SplitWrites, Enters, Enables, Reads, MarkInv
<1>9. ASSUME NEW w \in Writers, SplitFails(w) PROVE WroteInv'
  <2>1. \A s \in Splits : at'[s] # "wrote"
    BY <1>9 DEF SplitFails, MutexInv, Inside
  <2> QED BY <2>1
<1>10. ASSUME NEW w \in Writers, SplitTears(w) PROVE WroteInv'
  <2>1. \A s \in Splits : at'[s] # "wrote"
    BY <1>10 DEF SplitTears, MutexInv, Inside
  <2> QED BY <2>1
<1>11. ASSUME NEW w \in Writers, Commits(w) PROVE WroteInv'
  <2>1. \A s \in Splits : at'[s] # "wrote"
    BY <1>11 DEF Commits, AfterCommit, MutexInv, Inside
  <2> QED BY <2>1
<1>12. ASSUME NEW w \in Writers, CommitFails(w) PROVE WroteInv'
  <2>1. \A s \in Splits : at'[s] # "wrote"
    BY <1>12 DEF CommitFails, AfterCommit, MutexInv, Inside
  <2> QED BY <2>1
<1>13. ASSUME NEW w \in Writers, UndoApplies(w) PROVE WroteInv'
  <2>1. \A s \in Splits : at'[s] # "wrote"
    BY <1>13 DEF UndoApplies, MutexInv, Inside
  <2> QED BY <2>1
<1>14. ASSUME NEW w \in Writers, UndoCommits(w) PROVE WroteInv'
  <2>1. \A s \in Splits : at'[s] # "wrote"
    BY <1>14 DEF UndoCommits, MutexInv, Inside
  <2> QED BY <2>1
<1>15. ASSUME NEW w \in Writers, UndoResets(w) PROVE WroteInv'
  <2>1. \A s \in Splits : at'[s] # "wrote"
    BY <1>15 DEF UndoResets, MutexInv, Inside
  <2> QED BY <2>1
<1> QED
  BY <1>1, <1>2, <1>3, <1>4, <1>5, <1>6, <1>7, <1>8, <1>9, <1>10, <1>11, <1>12, <1>13,
      <1>14, <1>15, StillOrMoves
    DEF Moves

\* What a hasty writer read it has read.
LEMMA TakenKept ==
  ASSUME TypeOK, StageInv, TargetInv, SeenInv, [Next]_vars,
         NEW s \in Splits, NEW p \in Pages, Taken(s, p)
  PROVE  Taken(s, p)'
<1>1. PICK h \in Hasty : s \in seen[h][p]
  BY DEF Taken
<1>2. h \in Edits \cup Lists /\ h \in Writers
  BY KindsDiffer DEF Hasty, Words, Singles, Writers
<1>3. at[h] # "idle"
  BY <1>1, <1>2 DEF SeenInv
<1>4. CASE Still
  BY <1>1, <1>4 DEF Still, Taken
<1>5. ASSUME NEW w \in Writers, Moves(w) PROVE seen'[h] = seen[h]
  <2> USE KindsDiffer DEF TypeOK, Go, Words, Singles, Batches, Writers
  <2>1. CASE Begins(w)
    BY <1>2, <1>3, <2>1 DEF Begins, Reads
  <2>2. CASE AgentReads(w)
    BY <1>2, <2>2 DEF AgentReads, Reads
  <2>3. CASE SplitWrites(w)
    BY <1>2, <2>3 DEF SplitWrites, Reads
  <2>4. CASE ~Begins(w) /\ ~AgentReads(w) /\ ~SplitWrites(w)
    BY <1>5, <2>4
      DEF Moves, Writes, RepairWrites, AgentWrites, SplitRefuses, SplitFails, SplitTears,
          Commits, CommitFails, UndoApplies, UndoCommits, UndoResets
  <2> QED BY <2>1, <2>2, <2>3, <2>4
<1> QED BY <1>1, <1>4, <1>5, StillOrMoves DEF Taken

\* Once the words are nowhere, only a hasty writer can bring them back.
LEMMA CleanKept ==
  ASSUME TypeOK, StageInv, TargetInv, [Next]_vars,
         NEW s \in Splits, NEW p \in Pages, at[s] = "failed", Clean(s, p), ~Taken(s, p)
  PROVE  Clean(s, p)'
<1>d. drops' = drops => Dropped(s, p)' = Dropped(s, p)
  BY DEF Dropped
<1>e. UNCHANGED patch => drops' = drops
  OBVIOUS
<1> USE <1>d, <1>e, KindsDiffer
    DEF TypeOK, StageInv, Clean, Settled, Go, Words, Singles, Batches, Writers
<1>1. CASE Still
  BY <1>1 DEF Still
<1>2. ASSUME NEW w \in Writers, Begins(w) PROVE Clean(s, p)'
  BY <1>2 DEF Begins, Reads
<1>3. ASSUME NEW w \in Writers, Writes(w) PROVE Clean(s, p)'
  <2> DEFINE new == IF w \in Notes THEN Renewed(w, text) ELSE Added(w, seen[w])
  <2>1. Wrote(w, goal[w], new)
    BY <1>3, WritesFacts
  <2>2. w # s /\ (w \notin Notes => s \notin seen[w][p])
    BY <1>3 DEF Writes, Enters, Enables, Fresh, Taken, Hasty
  <2>3. s \notin new[p]
    BY <2>2, TheHub DEF Added, Renewed
  <2> HIDE DEF new
  <2> QED BY <1>3, <2>1, <2>3 DEF Writes, Enters, Enables, Wrote
<1>4. ASSUME NEW w \in Writers, RepairWrites(w) PROVE Clean(s, p)'
  <2>1. Wrote(w, {q \in Mine(w) : text[q] = seen[w][q]}, Added(w, seen[w])) /\ w # s
    BY <1>4, RepairWritesFacts DEF RepairWrites
  <2>2. s \notin text'[p]
    BY <2>1 DEF Wrote, Added
  <2> QED BY <1>4, <2>1, <2>2 DEF RepairWrites, Wrote
<1>5. ASSUME NEW w \in Writers, AgentReads(w) PROVE Clean(s, p)'
  BY <1>5 DEF AgentReads, Reads
<1>6. ASSUME NEW w \in Writers, AgentWrites(w) PROVE Clean(s, p)'
  <2>1. Wrote(w, goal[w], Added(w, seen[w])) /\ w # s /\ s \notin seen[w][p]
    BY <1>6, AgentWritesFacts DEF AgentWrites
  <2> QED BY <1>6, <2>1 DEF AgentWrites, Wrote, Added
<1>7. ASSUME NEW w \in Writers, SplitRefuses(w) PROVE Clean(s, p)'
  BY <1>7 DEF SplitRefuses
<1>8. ASSUME NEW w \in Writers, SplitWrites(w) PROVE Clean(s, p)'
  <2>1. Wrote(w, Mine(w), Renewed(w, text)) /\ w # s
    BY <1>8, SplitWritesFacts DEF SplitWrites
  <2>2. s \notin Renewed(w, text)[p]
    BY <2>1, TheHub DEF Added, Renewed
  <2> QED BY <1>8, <2>1, <2>2 DEF SplitWrites, Enters, Enables, Wrote, Reads
<1>9. ASSUME NEW w \in Writers, SplitFails(w) PROVE Clean(s, p)'
  <2>1. s \notin index'[p] /\ s \notin head'[p] /\ ~Dropped(s, p)'
    BY <1>9, GitFacts
  <2>2. Wrote(w, goal[w], seen[w]) /\ at[w] = "wrote" /\ w \in Splits
    BY <1>9, SplitFailsFacts DEF SplitFails
  <2> QED BY <1>9, <2>1, <2>2 DEF SplitFails, Wrote
<1>10. ASSUME NEW w \in Writers, SplitTears(w) PROVE Clean(s, p)'
  <2>1. s \notin index'[p] /\ s \notin head'[p] /\ ~Dropped(s, p)'
    BY <1>10, GitFacts
  <2>2. Wrote(w, goal[w], seen[w]) /\ at[w] = "wrote" /\ w \in Splits
    BY <1>10, SplitTearsFacts DEF SplitTears
  <2> QED BY <1>10, <2>1, <2>2 DEF SplitTears, Wrote
<1>11. ASSUME NEW w \in Writers, Commits(w) PROVE Clean(s, p)'
  <2>1. s \notin index'[p] /\ s \notin head'[p] /\ ~Dropped(s, p)'
    BY <1>11, GitFacts
  <2> QED BY <1>11, <2>1 DEF Commits, AfterCommit
<1>12. ASSUME NEW w \in Writers, CommitFails(w) PROVE Clean(s, p)'
  <2>1. s \notin index'[p] /\ s \notin head'[p] /\ ~Dropped(s, p)'
    BY <1>12, GitFacts
  <2> QED BY <1>12, <2>1 DEF CommitFails, AfterCommit
<1>13. ASSUME NEW w \in Writers, UndoApplies(w) PROVE Clean(s, p)'
  <2>1. s \notin text'[p] /\ s \notin index'[p]
    BY <1>13, PutsBack
  <2>2. Settled(Touched(w), Reverted(w))
    BY <1>13, UndoAppliesFacts
  <2> QED BY <1>13, <2>1, <2>2 DEF UndoApplies
<1>14. ASSUME NEW w \in Writers, UndoCommits(w) PROVE Clean(s, p)'
  <2>1. s \notin index'[p] /\ s \notin head'[p] /\ ~Dropped(s, p)'
    BY <1>14, GitFacts
  <2>2. Wrote(w, Dirty, head) \/ Wrote(w, {}, head)
    BY <1>14, UndoCommitsFacts
  <2> QED BY <1>14, <2>1, <2>2 DEF UndoCommits, Wrote
<1>15. ASSUME NEW w \in Writers, UndoResets(w) PROVE Clean(s, p)'
  <2>1. s \notin index'[p] /\ s \notin head'[p] /\ ~Dropped(s, p)'
    BY <1>15, GitFacts
  <2>2. Wrote(w, Dirty, head) \/ UNCHANGED <<text, moved>>
    BY <1>15, UndoResetsFacts
  <2> QED BY <1>15, <2>1, <2>2 DEF UndoResets, Wrote
<1> QED
  BY <1>1, <1>2, <1>3, <1>4, <1>5, <1>6, <1>7, <1>8, <1>9, <1>10, <1>11, <1>12, <1>13,
      <1>14, <1>15, StillOrMoves
    DEF Moves

\* A split that puts its originals back leaves its words with nobody: an edit that
\* read them is out of date, an agent could not get the lock.
LEMMA FailsClean ==
  ASSUME TypeOK, StageInv, MutexInv, OneInv, HoldInv, SplitSees, SeenInv, MarkInv, WroteInv,
         NEW s \in Splits, SplitFails(s), NEW p \in Pages \ broken
  PROVE  Clean(s, p)'
<1> USE KindsDiffer DEF TypeOK, Go, Words, Singles, Batches, Writers
<1>1. Wrote(s, goal[s], seen[s])
  BY SplitFailsFacts
<1>2. at[s] = "wrote" /\ at' = [at EXCEPT ![s] = "failed"] /\ UNCHANGED <<goal, seen, head, drops>>
  BY DEF SplitFails
<1>3. s \notin head[p] /\ s \notin index[p] /\ s \notin seen[s][p] /\ ~Dropped(s, p)
  BY <1>2 DEF WroteInv
<1>4. s \notin text'[p] /\ s \notin index'[p] /\ ~Dropped(s, p)'
  <2>1. s \notin text'[p]
    BY <1>1, <1>3 DEF Wrote, Settled, MarkInv
  <2>2. s \notin index'[p]
    BY <1>3 DEF SplitFails, Over
  <2> QED BY <1>2, <1>3, <2>1, <2>2 DEF Dropped
<1>5. ASSUME NEW e \in Edits \ (moved' \cup Unchecked) PROVE s \notin seen[e][p]
  <2>1. goal[e] \cap goal[s] = {}
    BY <1>1 DEF Wrote, Settled
  <2> QED BY <2>1 DEF SeenInv, MarkInv
<1>6. ASSUME NEW a \in Agents, at[a] = "read" PROVE s \notin seen[a][p]
  <2>1. SUFFICES ASSUME s \in seen[a][p] PROVE FALSE
    OBVIOUS
  <2>2. p \in goal[a] /\ p \in goal[s]
    BY <2>1 DEF SeenInv, MarkInv
  <2>3. a \in owner[p]
    BY <1>6, <2>2 DEF HoldInv, StageInv
  <2>4. s \in owner[p]
    BY <1>2, <2>2 DEF SplitSees
  <2> QED BY <2>3, <2>4 DEF OneInv
<1>7. \A t \in Splits : at'[t] # "wrote"
  BY <1>2 DEF MutexInv, Inside
<1> QED BY <1>2, <1>3, <1>4, <1>5, <1>6, <1>7 DEF Clean

LEMMA FailedStep ==
  ASSUME Inv, SplitInv, [Next]_vars
  PROVE  FailedInv'
<1> SUFFICES ASSUME NEW s \in Splits, NEW p \in Pages \ broken', at'[s] = "failed"
             PROVE  Clean(s, p)' \/ Taken(s, p)'
  BY DEF FailedInv, Clean, Dropped, Taken
<1>a. TypeOK /\ StageInv /\ MutexInv /\ OneInv /\ HoldInv /\ SplitSees /\ TargetInv
  BY DEF Inv
<1>b. SeenInv /\ MarkInv /\ WroteInv /\ FailedInv
  BY DEF SplitInv
<1>1. p \notin broken
  BY <1>a, GrowsAlways DEF Grows
<1>2. CASE at[s] = "failed"
  <2>1. CASE Taken(s, p)
    BY <1>a, <1>b, <2>1, TakenKept
  <2>2. CASE ~Taken(s, p)
    <3>1. Clean(s, p)
      BY <1>b, <1>1, <1>2, <2>2 DEF FailedInv
    <3> QED BY <1>a, <1>2, <2>2, <3>1, CleanKept
  <2> QED BY <2>1, <2>2
<1>3. CASE at[s] # "failed"
  <2>1. ~Still
    BY <1>3 DEF Still
  <2>2. PICK w \in Writers : Moves(w)
    BY <1>a, <2>1, StillOrMoves
  <2>3. w = s /\ SplitFails(s)
    BY <1>a, <1>3, <2>2, KindsDiffer
     
        DEF TypeOK, Go, Words, Singles, Batches, Writers, Moves, Begins, Writes,
          Enters, Enables, RepairWrites, AgentReads, AgentWrites, SplitRefuses,
          SplitWrites, SplitFails, SplitTears, Commits, CommitFails, AfterCommit,
          UndoApplies, UndoCommits, UndoResets
  <2> QED BY <1>a, <1>b, <1>1, <2>3, FailsClean
<1> QED BY <1>2, <1>3

LEMMA GoneKept ==
  ASSUME TypeOK, StageInv, TargetInv, [Next]_vars, NEW s \in Splits, NEW p \in Pages, Gone(s, p)
  PROVE  Gone(s, p)'
<1>0. Grows /\ s \in Words
  BY GrowsAlways DEF Words, Batches
<1>1. CASE Overwritten(s, p)
  BY <1>0, <1>1 DEF Grows, Gone, Overwritten
<1>2. CASE Undone(s, p)
  <2>1. PICK u \in Undoes : <<target[u], p, s>> \in adds
    BY <1>2 DEF Undone, Plus
  <2>2. target[u] # Nobody
    BY <2>1, KindsDiffer DEF TypeOK, Words, Writers
  <2> QED BY <1>0, <2>1, <2>2 DEF Grows, Gone, Undone, Plus
<1> QED BY <1>1, <1>2 DEF Gone

\* Words in the tree stay there, or their loss is remembered, but for a split's own
\* restore.
LEMMA TextKept ==
  ASSUME TypeOK, StageInv, TargetInv, [Next]_vars, NEW s \in Splits, NEW p \in Pages \ broken,
         at[s] \in {"wrote", "free", "done"}, at'[s] \notin {"failed", "torn"}, s \in text[p]
  PROVE  s \in text'[p] \/ Gone(s, p)'
<1> USE KindsDiffer DEF TypeOK, Go, Words, Singles, Batches, Writers
<1>1. SUFFICES ASSUME s \notin text'[p] PROVE Gone(s, p)'
  OBVIOUS
<1>2. ~Still
  BY <1>1 DEF Still
<1>3. PICK w \in Writers : Moves(w)
  BY <1>2, StillOrMoves
<1>4. ASSUME NEW S, NEW new, Wrote(w, S, new), w # s
      PROVE  Gone(s, p)'
  BY <1>1, <1>4 DEF Wrote, Settled, Gone, Overwritten
<1>5. CASE Writes(w)
  <2>1. w # s
    BY <1>5 DEF Writes
  <2> QED BY <1>4, <1>5, <2>1, WritesFacts
<1>6. CASE RepairWrites(w)
  <2>1. w # s
    BY <1>6 DEF RepairWrites
  <2> QED BY <1>4, <1>6, <2>1, RepairWritesFacts
<1>7. CASE AgentWrites(w)
  <2>1. w # s
    BY <1>7 DEF AgentWrites
  <2> QED BY <1>4, <1>7, <2>1, AgentWritesFacts
<1>8. CASE SplitWrites(w)
  <2>1. w # s
    BY <1>8 DEF SplitWrites
  <2> QED BY <1>4, <1>8, <2>1, SplitWritesFacts
<1>9. CASE SplitFails(w) \/ SplitTears(w)
  <2>1. w # s
    BY <1>9 DEF SplitFails, SplitTears
  <2> QED BY <1>4, <1>9, <2>1, SplitFailsFacts, SplitTearsFacts
<1>10. CASE UndoApplies(w)
  <2>1. Settled(Touched(w), Reverted(w)) /\ UNCHANGED <<target, adds>> /\ w \in Undoes
    BY <1>10, UndoAppliesFacts DEF UndoApplies
  <2>2. s \in Plus(w, p)
    BY <1>1, <2>1 DEF Settled, Reverted
  <2> QED BY <2>1, <2>2 DEF Gone, Undone, Plus
<1>11. CASE UndoCommits(w) \/ UndoResets(w)
  <2>1. w # s
    BY <1>11 DEF UndoCommits, UndoResets
  <2>2. PICK S \in {Dirty, {}} : Wrote(w, S, head)
    BY <1>1, <1>11, UndoCommitsFacts, UndoResetsFacts
  <2> QED BY <1>4, <2>1, <2>2
<1>12. CASE Begins(w) \/ AgentReads(w) \/ SplitRefuses(w) \/ Commits(w) \/ CommitFails(w)
  BY <1>1, <1>12 DEF Begins, AgentReads, SplitRefuses, Commits, CommitFails
<1> QED
  BY <1>3, <1>5, <1>6, <1>7, <1>8, <1>9, <1>10, <1>11, <1>12 DEF Moves

\* So do words in the index and at HEAD: both come from the tree or from each other,
\* but for what an undo was asked to take.
LEMMA GitKept ==
  ASSUME TypeOK, StageInv, TargetInv, [Next]_vars, NEW s \in Splits, NEW p \in Pages,
         s \in text[p] \/ Gone(s, p), s \in index[p] \/ Gone(s, p), s \in head[p] \/ Gone(s, p)
  PROVE  /\ s \in index'[p] \/ Gone(s, p)'
         /\ s \in head'[p] \/ Gone(s, p)'
<1> USE KindsDiffer DEF TypeOK, Go, Words, Singles, Batches, Writers
<1>1. SUFFICES ASSUME ~Gone(s, p), ~Gone(s, p)' PROVE s \in index'[p] /\ s \in head'[p]
  BY GoneKept
<1>2. s \in text[p] /\ s \in index[p] /\ s \in head[p]
  BY <1>1
<1>3. CASE Still
  BY <1>2, <1>3 DEF Still
<1>4. ASSUME NEW w \in Writers, Commits(w) PROVE s \in index'[p] /\ s \in head'[p]
  <2>1. Landed(w, IF w \in Agents THEN Over(index, goal[w], text) ELSE Over(head, goal[w], text))
    BY <1>4, CommitsFacts
  <2> QED BY <1>2, <1>4, <2>1 DEF Commits, Landed, Over
<1>5. ASSUME NEW w \in Writers, CommitFails(w) \/ SplitFails(w)
      PROVE  s \in index'[p] /\ s \in head'[p]
  <2>1. CASE CommitFails(w)
    BY <1>2, <2>1 DEF CommitFails, Over
  <2>2. CASE SplitFails(w)
    BY <1>2, <2>2 DEF SplitFails, Over
  <2> QED BY <1>5, <2>1, <2>2
<1>6. ASSUME NEW w \in Writers, SplitTears(w) PROVE s \in index'[p] /\ s \in head'[p]
  <2>1. Landed(w, Over(head, goal[w], text)) \/ UNCHANGED <<head, patch>>
    BY <1>6, SplitTearsFacts
  <2> QED BY <1>2, <1>6, <2>1 DEF SplitTears, Landed, Over
<1>7. ASSUME NEW w \in Writers, UndoApplies(w) PROVE s \in index'[p] /\ s \in head'[p]
  <2>1. UNCHANGED <<target, adds, head>> /\ w \in Undoes
        /\ index' = Over(index, Touched(w), Reverted(w))
    BY <1>7 DEF UndoApplies
  <2>2. s \notin Plus(w, p)
    BY <1>1, <2>1 DEF Gone, Undone, Plus
  <2> QED BY <1>2, <2>1, <2>2 DEF Over, Reverted
<1>8. ASSUME NEW w \in Writers, UndoCommits(w) \/ UndoResets(w)
      PROVE  s \in index'[p] /\ s \in head'[p]
  BY <1>2, <1>8 DEF UndoCommits, UndoResets
<1>9. ASSUME NEW w \in Writers,
             \/ Begins(w) \/ Writes(w) \/ RepairWrites(w) \/ AgentReads(w) \/ AgentWrites(w)
             \/ SplitRefuses(w) \/ SplitWrites(w)
      PROVE  s \in index'[p] /\ s \in head'[p]
  BY <1>2, <1>9 DEF Begins, Writes, RepairWrites, AgentReads, AgentWrites, SplitRefuses,
    SplitWrites
<1> QED BY <1>3, <1>4, <1>5, <1>6, <1>7, <1>8, <1>9, StillOrMoves DEF Moves

\* The goal of a split is what it wrote, from its write on.
LEMMA SplitGoal ==
  ASSUME TypeOK, StageInv, TargetInv, [Next]_vars, NEW s \in Splits,
         at[s] \notin {"idle", "asks"}
  PROVE  /\ goal'[s] = goal[s] /\ at'[s] \notin {"idle", "asks"}
         /\ at[s] \in {"failed", "torn"} => at'[s] = at[s]
<1> USE KindsDiffer DEF TypeOK, StageInv, Go, Words, Singles, Batches, Writers
<1>1. CASE Still
  BY <1>1 DEF Still
<1>2. ASSUME NEW w \in Writers, Moves(w)
      PROVE  /\ goal'[s] = goal[s]
             /\ at'[s] = at[s] \/ (at[s] = "wrote" /\ at'[s] \in {"free", "failed", "torn"})
  BY <1>2
    DEF Moves, Begins, Writes, Enters, Enables, RepairWrites, AgentReads, AgentWrites,
      SplitRefuses, SplitWrites, SplitFails, SplitTears, Commits, CommitFails,
      AfterCommit, UndoApplies, UndoCommits, UndoResets
<1> QED BY <1>1, <1>2, StillOrMoves

\* What a split that has yet to write does: it begins, refuses or writes.
LEMMA SplitStarts ==
  ASSUME TypeOK, StageInv, TargetInv, [Next]_vars, NEW s \in Splits,
         at[s] \in {"idle", "asks"}
  PROVE  at'[s] \in {"idle", "asks"} \/ SplitRefuses(s) \/ SplitWrites(s)
<1> USE KindsDiffer DEF TypeOK, StageInv, Go, Words, Singles, Batches, Writers
<1>1. CASE Still
  BY <1>1 DEF Still
<1>2. ASSUME NEW w \in Writers, Moves(w)
      PROVE  at'[s] \in {"idle", "asks"} \/ SplitRefuses(s) \/ SplitWrites(s)
  BY <1>2
    DEF Moves, Begins, Writes, Enters, Enables, RepairWrites, AgentReads, AgentWrites,
      SplitRefuses, SplitWrites, SplitFails, SplitTears, Commits, CommitFails,
      AfterCommit, UndoApplies, UndoCommits, UndoResets
<1> QED BY <1>1, <1>2, StillOrMoves

\* A split comes free by its commit.
LEMMA SplitLands ==
  ASSUME TypeOK, StageInv, TargetInv, [Next]_vars, NEW s \in Splits,
         at[s] = "wrote", at'[s] \in {"free", "done"}
  PROVE  index' = Over(index, goal[s], text) /\ head' = Over(head, goal[s], text)
<1> USE KindsDiffer DEF TypeOK, StageInv, Go, Words, Singles, Batches, Writers
<1>1. ~Still
  BY DEF Still
<1>2. PICK w \in Writers : Moves(w)
  BY <1>1, StillOrMoves
<1>3. Commits(s)
  BY <1>2
    DEF Moves, Begins, Writes, Enters, Enables, RepairWrites, AgentReads, AgentWrites,
      SplitRefuses, SplitWrites, SplitFails, SplitTears, Commits, CommitFails,
      AfterCommit, UndoApplies, UndoCommits, UndoResets
<1>4. Landed(s, Over(head, goal[s], text))
  BY <1>3, CommitsFacts
<1> QED BY <1>3, <1>4 DEF Commits, Landed

LEMMA LandedStep ==
  ASSUME Inv, SplitInv, [Next]_vars
  PROVE  LandedInv'
<1> SUFFICES ASSUME NEW s \in Splits, NEW p \in Pages \ broken', p \in goal'[s]
             PROVE  /\ at'[s] \in {"wrote", "free", "done"} => s \in text'[p] \/ Gone(s, p)'
                    /\ at'[s] \in {"free", "done"} => /\ s \in index'[p] \/ Gone(s, p)'
                                                      /\ s \in head'[p] \/ Gone(s, p)'
  BY DEF LandedInv, Gone, Overwritten, Undone, Plus
<1>a. TypeOK /\ StageInv /\ TargetInv
  BY DEF Inv
<1>b. p \notin broken
  BY <1>a, GrowsAlways DEF Grows
<1>1. CASE at[s] \in {"idle", "asks"}
  <2>1. CASE SplitRefuses(s)
    <3>1. goal'[s] = {}
      BY <1>a, <2>1, KindsDiffer DEF SplitRefuses, TypeOK, Words, Batches, Writers
    <3> QED BY <3>1
  <2>2. CASE SplitWrites(s)
    <3>1. at'[s] = "wrote" /\ goal'[s] = Mine(s)
      BY <1>a, <2>2, KindsDiffer DEF SplitWrites, Go, TypeOK, Words, Batches, Writers
    <3>2. Wrote(s, Mine(s), Renewed(s, text))
      BY <1>a, <2>2, SplitWritesFacts DEF Words, Batches, Writers
    <3>3. s \in Renewed(s, text)[p]
      BY TheHub DEF Renewed, Added
    <3> QED BY <3>1, <3>2, <3>3 DEF Wrote, Settled
  <2>3. CASE at'[s] \in {"idle", "asks"}
    BY <2>3
  <2> QED BY <1>a, <1>1, <2>1, <2>2, <2>3, SplitStarts
<1>2. CASE at[s] \notin {"idle", "asks"}
  <2>1. p \in goal[s] /\ (at[s] \in {"failed", "torn"} => at'[s] = at[s])
    BY <1>a, <1>2, SplitGoal
  <2>2. SUFFICES ASSUME at'[s] \in {"wrote", "free", "done"}
                 PROVE  /\ s \in text'[p] \/ Gone(s, p)'
                        /\ at'[s] \in {"free", "done"} => /\ s \in index'[p] \/ Gone(s, p)'
                                                          /\ s \in head'[p] \/ Gone(s, p)'
    OBVIOUS
  <2>3. at[s] \in {"wrote", "free", "done"}
    BY <1>a, <1>2, <2>1, <2>2, KindsDiffer
      DEF TypeOK, StageInv, Stages, Words, Singles, Batches, Writers
  <2>4. s \in text[p] \/ Gone(s, p)
    BY <1>b, <2>1, <2>3 DEF SplitInv, LandedInv
  <2>5. s \in text'[p] \/ Gone(s, p)'
    BY <1>a, <1>b, <2>2, <2>3, <2>4, TextKept, GoneKept
  <2>6. ASSUME at'[s] \in {"free", "done"}
        PROVE  /\ s \in index'[p] \/ Gone(s, p)'
               /\ s \in head'[p] \/ Gone(s, p)'
    <3>1. CASE at[s] = "wrote"
      <4>1. index' = Over(index, goal[s], text) /\ head' = Over(head, goal[s], text)
        BY <1>a, <2>6, <3>1, SplitLands
      <4>2. index'[p] = text[p] /\ head'[p] = text[p]
        BY <2>1, <4>1 DEF Over
      <4> QED BY <1>a, <2>4, <4>2, GoneKept
    <3>2. CASE at[s] \in {"free", "done"}
      <4>1. (s \in index[p] \/ Gone(s, p)) /\ (s \in head[p] \/ Gone(s, p))
        BY <1>b, <2>1, <3>2 DEF SplitInv, LandedInv
      <4> QED BY <1>a, <2>4, <4>1, GitKept
    <3> QED BY <2>3, <3>1, <3>2
  <2> QED BY <2>5, <2>6
<1> QED BY <1>1, <1>2

LEMMA SplitInitInv ==
  Init => SplitInv
BY KindsDiffer
DEF Init, SplitInv, SeenInv, MarkInv, Dropped, WroteInv, FailedInv, LandedInv, Words,
    Writers,
  Singles, Batches

LEMMA SplitNextInv ==
  Inv /\ SplitInv /\ [Next]_vars => SplitInv'
BY SeenStep, MarkStep, WroteStep, FailedStep, LandedStep DEF Inv, SplitInv
-----------------------------------------------------------------------------
(***************************************************************************)
(* Nobody is stuck.                                                        *)
(***************************************************************************)
\* Who has ended, or undoes, has no lock; who asks for locks has those he got.
LeftInv ==
  /\ \A w \in Writers : at[w] \in {"idle", "done"} => Mine(w) = {}
  /\ \A u \in Undoes : Mine(u) = {}
  /\ \A a \in Agents : at[a] = "wrote" => Mine(a) = {}

AskInv ==
  \A w \in Words : at[w] = "asks" =>
    /\ todo[w] \subseteq goal[w] /\ Mine(w) \subseteq goal[w] \ todo[w]
    /\ w \notin Splits => \E p \in Pages : goal[w] = {p}

LEMMA LeftStep ==
  ASSUME TypeOK, StageInv, LeftInv, AskInv, [Next]_vars
  PROVE  (LeftInv /\ AskInv)'
<1> USE KindsDiffer
    DEF TypeOK, StageInv, LeftInv, AskInv, Mine, Go, Words, Singles, Batches, Writers
<1>1. ASSUME NEW w \in Writers, Begins(w) PROVE (LeftInv /\ AskInv)'
  <2>1. /\ w \in Words /\ at[w] = "idle" /\ at' = [at EXCEPT ![w] = "asks"] /\ owner' = owner
    BY <1>1 DEF Begins
  <2>2. PICK S \in (IF w \in Splits THEN {S \in SUBSET Pages : Hub \in S}
                                   ELSE {{p} : p \in Pages}) :
          goal' = [goal EXCEPT ![w] = S] /\ todo' = [todo EXCEPT ![w] = S]
    BY <1>1 DEF Begins
  <2>6. S \in SUBSET Pages /\ (w \notin Splits => \E p \in Pages : S = {p})
    BY <2>2
  <2>3. Mine(w) = {}
    BY <2>1
  <2>4. \A v \in Writers : v # w => at'[v] = at[v] /\ goal'[v] = goal[v] /\ todo'[v] = todo[v]
    BY <2>1, <2>2
  <2>5. at'[w] = "asks" /\ goal'[w] = S /\ todo'[w] = S
    BY <2>1, <2>2
  <2>7. LeftInv'
    BY <2>1, <2>3, <2>4, <2>5
  <2>8. ASSUME NEW v \in Words, at'[v] = "asks"
        PROVE  /\ todo'[v] \subseteq goal'[v] /\ Mine(v)' \subseteq goal'[v] \ todo'[v]
               /\ v \notin Splits => \E p \in Pages : goal'[v] = {p}
    <3>1. CASE v = w
      BY <2>1, <2>3, <2>5, <2>6, <3>1
    <3>2. CASE v # w
      <4>1. v \in Writers /\ at[v] = "asks" /\ goal'[v] = goal[v] /\ todo'[v] = todo[v]
            /\ Mine(v)' = Mine(v)
        BY <2>1, <2>4, <2>8, <3>2
      <4>2. /\ todo[v] \subseteq goal[v] /\ Mine(v) \subseteq goal[v] \ todo[v]
            /\ v \notin Splits => \E p \in Pages : goal[v] = {p}
        BY <4>1
      <4> HIDE DEF Mine
      <4> QED BY <4>1, <4>2
    <3> QED BY <3>1, <3>2
  <2> QED BY <2>7, <2>8
<1>2. ASSUME NEW w \in Writers, UndoEnters(w) PROVE (LeftInv /\ AskInv)'
  BY <1>2 DEF UndoEnters
<1>3. ASSUME NEW w \in Writers, NEW p \in Pages, Acquires(w, p) PROVE (LeftInv /\ AskInv)'
  BY <1>3 DEF Acquires, Asks, Lock!Take
<1>4. ASSUME NEW w \in Writers, NEW p \in Pages, Busy(w, p) PROVE (LeftInv /\ AskInv)'
  <2>1. w \in Words /\ at[w] = "asks" /\ p \in todo[w] /\ p \in goal[w] /\ owner' = owner
        /\ goal' = goal /\ todo' = [todo EXCEPT ![w] = @ \ {p}]
    BY <1>4 DEF Busy, Asks
  <2>2. p \notin Mine(w) /\ todo'[w] \subseteq goal[w] /\ Mine(w) \subseteq goal[w] \ todo'[w]
    BY <2>1
  <2>3. CASE w \in Batches
    <3>1. at' = at
      BY <1>4, <2>3 DEF Busy
    <3> QED BY <2>1, <2>2, <3>1
  <2>4. CASE w \notin Batches
    <3>1. at' = [at EXCEPT ![w] = "done"] /\ w \notin Splits
      BY <1>4, <2>1, <2>4 DEF Busy
    <3>2. Mine(w) = {}
      BY <2>1, <2>2, <3>1
    <3> QED BY <2>1, <3>1, <3>2
  <2> QED BY <2>3, <2>4
<1>5. ASSUME NEW w \in Writers, Writes(w) PROVE (LeftInv /\ AskInv)'
  BY <1>5 DEF Writes, Enters, Enables
<1>6. ASSUME NEW w \in Writers, Conflicts(w) PROVE (LeftInv /\ AskInv)'
  BY <1>6 DEF Conflicts, Enables
<1>7. ASSUME NEW w \in Writers, RepairWrites(w) PROVE (LeftInv /\ AskInv)'
  BY <1>7 DEF RepairWrites
<1>8. ASSUME NEW w \in Writers, AgentReads(w) PROVE (LeftInv /\ AskInv)'
  BY <1>8 DEF AgentReads, Reads
<1>9. ASSUME NEW w \in Writers, AgentWrites(w) PROVE (LeftInv /\ AskInv)'
  BY <1>9 DEF AgentWrites
<1>10. ASSUME NEW w \in Writers, TakesMutex(w) PROVE (LeftInv /\ AskInv)'
  BY <1>10 DEF TakesMutex
<1>11. ASSUME NEW w \in Writers, SplitRefuses(w) PROVE (LeftInv /\ AskInv)'
  BY <1>11 DEF SplitRefuses
<1>12. ASSUME NEW w \in Writers, SplitWrites(w) PROVE (LeftInv /\ AskInv)'
  BY <1>12 DEF SplitWrites, Enters, Enables
<1>13. ASSUME NEW w \in Writers, SplitFails(w) PROVE (LeftInv /\ AskInv)'
  BY <1>13 DEF SplitFails
<1>14. ASSUME NEW w \in Writers, SplitTears(w) PROVE (LeftInv /\ AskInv)'
  BY <1>14 DEF SplitTears
<1>15. ASSUME NEW w \in Writers, Commits(w) PROVE (LeftInv /\ AskInv)'
  BY <1>15 DEF Commits, AfterCommit
<1>16. ASSUME NEW w \in Writers, CommitFails(w) PROVE (LeftInv /\ AskInv)'
  BY <1>16 DEF CommitFails, AfterCommit
<1>17. ASSUME NEW w \in Writers, Releases(w) PROVE (LeftInv /\ AskInv)'
  BY <1>17 DEF Releases
<1>18. ASSUME NEW w \in Writers, UndoChecks(w) PROVE (LeftInv /\ AskInv)'
  BY <1>18 DEF UndoChecks
<1>19. ASSUME NEW w \in Writers, UndoRefuses(w) PROVE (LeftInv /\ AskInv)'
  <2>1. at' = [at EXCEPT ![w] = "done"]
    BY <1>19 DEF UndoRefuses, Refuses
  <2> QED BY <1>19, <2>1 DEF UndoRefuses, Refuses
<1>20. ASSUME NEW w \in Writers, UndoApplies(w) PROVE (LeftInv /\ AskInv)'
  BY <1>20 DEF UndoApplies
<1>21. ASSUME NEW w \in Writers, UndoCommits(w) PROVE (LeftInv /\ AskInv)'
  BY <1>21 DEF UndoCommits
<1>22. ASSUME NEW w \in Writers, UndoCommitFails(w) PROVE (LeftInv /\ AskInv)'
  BY <1>22 DEF UndoCommitFails
<1>23. ASSUME NEW w \in Writers, UndoClashes(w) PROVE (LeftInv /\ AskInv)'
  BY <1>23 DEF UndoClashes
<1>24. ASSUME NEW w \in Writers, UndoResets(w) PROVE (LeftInv /\ AskInv)'
  BY <1>24 DEF UndoResets
<1>25. ASSUME NEW p \in Pages, Breaks(p) PROVE (LeftInv /\ AskInv)'
  BY <1>25 DEF Breaks
<1>26. CASE UNCHANGED vars
  BY <1>26 DEF vars
<1> QED
  BY <1>1, <1>2, <1>3, <1>4, <1>5, <1>6, <1>7, <1>8, <1>9, <1>10, <1>11, <1>12, <1>13,
      <1>14, <1>15, <1>16, <1>17, <1>18, <1>19, <1>20, <1>21, <1>22, <1>23, <1>24,
      <1>25, <1>26
  DEF Next, Step

LEMMA SomebodyGoes ==
  ASSUME TypeOK, LeftInv
  PROVE  NobodyStuck
<1> SUFFICES ASSUME \A w \in Writers : ~Goes(w), NEW w \in Writers PROVE Rests(w)
  BY DEF NobodyStuck
<1>1. mutex = Nobody
  <2>1. ASSUME NEW u \in Inside PROVE u \in Writers /\ Goes(u)
    BY <2>1 DEF Inside, Goes
  <2> QED BY <2>1 DEF TypeOK
<1>2. at[w] \in Stages /\ (w \in Words \/ w \in Undoes)
  BY DEF TypeOK, Writers
<1>3. ~Goes(w)
  OBVIOUS
<1>4. at[w] \in {"idle", "done"} \/ (at[w] \in {"failed", "torn"} /\ Mine(w) = {})
  BY <1>1, <1>2, <1>3 DEF Goes, Stages
<1> QED BY <1>4 DEF Rests, LeftInv
-----------------------------------------------------------------------------
(***************************************************************************)
(* Results.                                                                *)
(***************************************************************************)
\* Types, and the commit mutex is with a call that is inside it.
THEOREM TypeCorrect ==
  Spec => []TypeOK
BY Invariance, PTL DEF Inv

\* On a page whose lock did not break, edits with their mtime and repairs drop
\* nobody's words, notes and splits only words on the index they regenerate, and
\* agents only words an undo put back, in every interleaving and with every failure.
THEOREM CarefulKeepAllAlways ==
  Spec => []CarefulKeepAll
BY Invariance, PTL DEF Inv

\* What an undo takes beside what it was asked for was written outside the mutex, by
\* an agent or a repair, since it looked at the tree; unless its look failed and was
\* taken for a clean tree.
THEOREM UndoSparesServiceAlways ==
  Spec => []UndoSparesService
BY Invariance, PTL DEF Inv

\* A split that failed left its words on no page but where a hasty writer had read
\* them, one that landed is at HEAD on each of its pages or was undone or overwritten.
THEOREM SplitAllOrNothingAlways ==
  Spec => []SplitAllOrNothing
<1>1. Init => Inv /\ SplitInv
  BY InitInv, SplitInitInv
<1>2. (Inv /\ SplitInv) /\ [Next]_vars => (Inv /\ SplitInv)'
  BY NextInv, SplitNextInv
<1>3. SplitInv => SplitAllOrNothing
  BY DEF SplitInv, FailedInv, LandedInv, Clean, Taken, Gone, SplitAllOrNothing
<1> QED BY <1>1, <1>2, <1>3, PTL DEF Spec

\* As long as a call has not ended or has a lock, some call can go on: the commit
\* mutex is always with a call that does not wait for a page lock.
THEOREM NobodyStuckEver ==
  Spec => []NobodyStuck
<1>1. Init => Inv /\ LeftInv /\ AskInv
  BY InitInv, KindsDiffer
    DEF Init, Lock!Init, LeftInv, AskInv, Mine, Words, Singles, Batches, Writers
<1>2. (Inv /\ LeftInv /\ AskInv) /\ [Next]_vars => (Inv /\ LeftInv /\ AskInv)'
  BY NextInv, LeftStep DEF Inv
<1>3. Inv /\ LeftInv => NobodyStuck
  BY SomebodyGoes DEF Inv
<1> QED BY <1>1, <1>2, <1>3, PTL DEF Spec

\* The writers use a page lock only as its promise allows: they take a page nobody
\* else goes by, let go of their own, and a lock that breaks stays broken. WikiLock
\* implements this promise, so what is shown here carries over to the vault's locks.
THEOREM KeepsToThePromise ==
  Spec => Lock!Spec
<1>1. Init => Lock!Init
  BY DEF Init
<1>2. Inv /\ [Next]_vars => [Lock!Next]_(Lock!vars)
  <2> SUFFICES ASSUME Inv, [Next]_vars PROVE [Lock!Next]_(Lock!vars)
    OBVIOUS
  <2>1. owner \in [Pages -> SUBSET Writers] /\ broken \in SUBSET Pages
    BY DEF Inv, TypeOK
  <2>2. ASSUME NEW w \in Writers, NEW p \in Pages, Acquires(w, p) PROVE Lock!Next
    BY <2>2 DEF Acquires, Lock!Next
  <2>3. ASSUME NEW w \in Writers, Releases(w) PROVE Lock!Next
    BY <2>1, <2>3 DEF Releases, Lock!Next, Lock!LetGo
  <2>4. ASSUME NEW p \in Pages, Breaks(p) PROVE Lock!Next
    BY <2>1, <2>4 DEF Breaks, Lock!Next, Lock!Break
  <2>5. ASSUME NEW w \in Writers, NEW p \in Pages, Busy(w, p) PROVE UNCHANGED Lock!vars
    BY <2>5 DEF Busy, Lock!vars
  <2>6. ASSUME NEW w \in Writers, Begins(w) \/ UndoEnters(w) \/ Step(w)
        PROVE  Lock!Next \/ UNCHANGED Lock!vars
    BY <2>2, <2>3, <2>5, <2>6 DEF Step, Lock!vars, Begins, UndoEnters, Writes, Conflicts,
      RepairWrites, AgentReads, AgentWrites, TakesMutex, SplitRefuses, SplitWrites, SplitFails,
      SplitTears, Commits, CommitFails, UndoChecks, UndoRefuses, Refuses, UndoApplies,
      UndoCommits, UndoCommitFails, UndoClashes, UndoResets
  <2> QED BY <2>4, <2>6 DEF Next, vars, Lock!vars
<1> QED BY <1>1, <1>2, Invariance, PTL DEF Spec, Lock!Spec
=============================================================================
