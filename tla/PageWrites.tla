----------------------------- MODULE PageWrites -----------------------------
(***************************************************************************)
(* Who may lose whose words. The writers of the wiki's pages read a page,  *)
(* compute its next text and write it, each with another discipline:       *)
(*   Edits    a person's edit of the text a client loaded (pages.ts)       *)
(*   Lists    the reading list, the pinboard and the link repair, which    *)
(*            read before they ask for the lock (reading-list.ts)          *)
(*   Notes    the Fellows' notebooks and the hubs, which read inside       *)
(*   Repairs  an approved repair, which compares before it writes, under   *)
(*            the page locks but outside the mutex (defect-repair.ts)      *)
(*   Splits   the domain split, all or nothing (domain-split-write.ts)     *)
(*   Agents   runs, which lock a page and know nothing of the mutex        *)
(*   Undoes   the undo of a commit, which takes no page lock (git.ts)      *)
(*                                                                         *)
(* The text of a page is the set of the writers whose words it holds, in   *)
(* the working tree, in git's index and at HEAD. The page lock is what     *)
(* PageLock promises (WikiLock shows that the code keeps it), and a page   *)
(* on which the promise is off is in `broken`.                             *)
(***************************************************************************)
EXTENDS Integers, FiniteSets

CONSTANTS Edits, Lists, Notes, Repairs, Splits, Agents, Undoes,
          Unchecked,  \* edits sent without the mtime of what was loaded
          Pages,
          Hub,        \* wiki/index.md: regenerated by splits and runs, left by undos
          Nobody,
          MaxCalls,   \* bound: calls in a behaviour
          MaxEvents   \* bound: failures of git and of the locks

Singles == Edits \cup Lists \cup Notes   \* one page, under lock and mutex
Batches == Repairs \cup Splits           \* withWikiLocks
Words   == Singles \cup Batches \cup Agents
Writers == Words \cup Undoes
Hasty   == Lists \cup Unchecked

ASSUME KindsDiffer ==
  /\ Edits \cap (Lists \cup Notes) = {} /\ Lists \cap Notes = {}
  /\ Singles \cap Batches = {} /\ Repairs \cap Splits = {}
  /\ Agents \cap (Singles \cup Batches) = {} /\ Undoes \cap Words = {}
  /\ Unchecked \subseteq Edits /\ Nobody \notin Writers
ASSUME TheHub == Hub \in Pages
ASSUME Bounds == MaxCalls \in Nat /\ MaxEvents \in Nat

VARIABLES
  at,     \* per writer: how far it is
  goal,   \* per writer: the pages it is about
  todo,   \* per writer: pages it has yet to ask the lock of
  seen,   \* per writer and page: the text it read
  moved,  \* edits whose page was written since the client loaded it
  target, \* per undo: the writer whose commit it undoes
  text,   \* per page: its words in the working tree
  index,  \* per page: its words in git's index
  head,   \* per page: its words at HEAD
  adds,   \* <<w, p, m>>: w's commit brought m's words to p
  drops,  \* <<w, p, m>>: w's commit took m's words from p
  owner, broken, \* the page locks
  mutex,  \* who is inside the commit mutex
  events,
  blind,  \* history: the undos whose look at the tree failed
  lost,   \* history: <<m, c, p>> when c's write dropped m's words from p
  back    \* history: <<m, p>> when an undo put m's words back on p

patch == <<adds, drops>>
tree  == <<text, index, head, patch>>
locks == <<owner, broken>>
fate  == <<blind, lost, back>>
vars  == <<at, goal, target, todo, seen, moved, tree, locks, mutex, events, fate>>

Lock == INSTANCE PageLock

Stages == {"idle", "asks", "read", "await", "wrote", "checked", "clash", "free", "failed", "torn", "done"}

-----------------------------------------------------------------------------
Event == events < MaxEvents /\ events' = events + 1

Call == Cardinality({w \in Writers : at[w] # "idle"}) < MaxCalls

Go(w, from, to) == at[w] = from /\ at' = [at EXCEPT ![w] = to]

Mine(w) == {p \in Pages : w \in owner[p]}

Dirty == {p \in Pages : text[p] # head[p] \/ index[p] # head[p]}

\* new on the pages S, old elsewhere.
Over(old, S, new) == [p \in Pages |-> IF p \in S THEN new[p] ELSE old[p]]

Sets(S, new) ==
  /\ text' = Over(text, S, new)
  /\ moved' = moved \cup {e \in Edits : goal[e] \cap S # {}}

\* w writes new[p] to the pages S. Whose words go but its own?
Put(w, S, new) ==
  /\ Sets(S, new)
  /\ lost' = lost \cup {l \in Words \X {w} \X (S \ broken) :
                         l[1] # w /\ l[1] \in text[l[3]] \ new[l[3]]}

\* What an undo brings back to the pages S.
Restores(S, new) ==
  back' = back \cup {b \in Words \X S : b[1] \in new[b[2]] \ text[b[2]]}

\* w commits: HEAD becomes new.
Lands(w, new) ==
  /\ head' = new
  /\ adds' = adds \cup {l \in {w} \X Pages \X Words : l[3] \in new[l[2]] \ head[l[2]]}
  /\ drops' = drops \cup {l \in {w} \X Pages \X Words : l[3] \in head[l[2]] \ new[l[2]]}

Reads(w, S) == [seen EXCEPT ![w] = [p \in Pages |-> IF p \in S THEN text[p] ELSE {}]]

Added(w, from) == [p \in Pages |-> from[p] \cup {w}]

\* renderIndex: the index page is made anew from what the other pages say.
Renewed(w, from) == [Added(w, from) EXCEPT ![Hub] = {w}]

Init ==
  /\ at = [w \in Writers |-> "idle"]
  /\ goal = [w \in Writers |-> {}] /\ todo = [w \in Writers |-> {}]
  /\ seen = [w \in Writers |-> [p \in Pages |-> {}]]
  /\ moved = {} /\ target = [u \in Undoes |-> Nobody]
  /\ text = [p \in Pages |-> {}] /\ index = text /\ head = text
  /\ adds = {} /\ drops = {}
  /\ Lock!Init /\ mutex = Nobody /\ events = 0
  /\ blind = {} /\ lost = {} /\ back = {}

-----------------------------------------------------------------------------
(***************************************************************************)
(* Up to the lock.                                                         *)
(***************************************************************************)
\* The page is loaded, parsed or planned over; the others read later.
Begins(w) ==
  /\ w \in Words
  /\ Call /\ Go(w, "idle", "asks")
  /\ w \in Splits => \A a \in Agents : at[a] \in {"idle", "done"}
  /\ \E S \in (IF w \in Splits THEN {S \in SUBSET Pages : Hub \in S} ELSE {{p} : p \in Pages}) :
       /\ goal' = [goal EXCEPT ![w] = S] /\ todo' = [todo EXCEPT ![w] = S]
       /\ seen' = IF w \in Edits \cup Lists \cup Repairs THEN Reads(w, S) ELSE seen
  /\ UNCHANGED <<moved, target, tree, locks, mutex, events, fate>>

Asks(w, p) == w \in Words /\ at[w] = "asks" /\ p \in todo[w]

Acquires(w, p) ==
  /\ Asks(w, p)
  /\ Lock!Take(w, p)
  /\ todo' = [todo EXCEPT ![w] = @ \ {p}]
  /\ UNCHANGED <<at, goal, target, seen, moved, tree, mutex, events, fate>>

\* A batch leaves the page out, anybody else gives up after a few attempts.
Busy(w, p) ==
  /\ Asks(w, p)
  /\ ~(owner[p] \subseteq {w} \/ p \in broken)
  /\ todo' = [todo EXCEPT ![w] = @ \ {p}]
  /\ IF w \in Batches THEN UNCHANGED at ELSE Go(w, "asks", "done")
  /\ UNCHANGED <<goal, target, seen, moved, tree, locks, mutex, events, fate>>

\* A lock outlives its window, or the script fails and the caller goes without.
Breaks(p) ==
  /\ Event
  /\ broken' = broken \cup {p}
  /\ UNCHANGED <<at, goal, target, todo, seen, moved, tree, owner, mutex, fate>>

\* The handler, under its locks, gets the mutex.
Enables(w) == at[w] = "asks" /\ todo[w] = {} /\ mutex = Nobody
Enters(w) == Enables(w) /\ mutex' = w

-----------------------------------------------------------------------------
(***************************************************************************)
(* Edits, lists and notes: the write and all it rests on, in one turn.     *)
(***************************************************************************)
Fresh(w) == w \in Edits \ Unchecked => w \notin moved

Writes(w) ==
  /\ w \in Singles
  /\ Enters(w) /\ Fresh(w)
  /\ Go(w, "asks", "wrote")
  /\ Put(w, goal[w], IF w \in Notes THEN Renewed(w, text) ELSE Added(w, seen[w]))
  /\ UNCHANGED <<goal, target, todo, seen, index, head, patch, locks, events, blind, back>>

\* 409: somebody wrote the page since it was loaded.
Conflicts(w) ==
  /\ w \in Singles
  /\ Enables(w) /\ ~Fresh(w)
  /\ Go(w, "asks", "free")
  /\ UNCHANGED <<goal, target, todo, seen, moved, tree, locks, mutex, events, fate>>

-----------------------------------------------------------------------------
(***************************************************************************)
(* Repairs and agents write outside the mutex and take it for the commit.  *)
(***************************************************************************)
\* Mutant: the comparison with the disk is left to the approval.
RepairsAsPlanned(r) ==
  /\ r \in Repairs /\ todo[r] = {}
  /\ LET S == Mine(r) IN
       /\ Go(r, "asks", IF S = {} THEN "free" ELSE "await")
       /\ goal' = [goal EXCEPT ![r] = S]
       /\ Put(r, S, Added(r, seen[r]))
  /\ UNCHANGED <<target, todo, seen, index, head, patch, locks, mutex, events, blind, back>>

\* applyRepair: of the pages held, those that are still as planned.
RepairWrites(r) ==
  /\ r \in Repairs /\ todo[r] = {}
  /\ LET S == {p \in Mine(r) : text[p] = seen[r][p]} IN
       /\ Go(r, "asks", IF S = {} THEN "free" ELSE "await")
       /\ goal' = [goal EXCEPT ![r] = S]
       /\ Put(r, S, Added(r, seen[r]))
  /\ UNCHANGED <<target, todo, seen, index, head, patch, locks, mutex, events, blind, back>>

AgentReads(a) ==
  /\ a \in Agents /\ todo[a] = {}
  /\ Go(a, "asks", "read")
  /\ seen' = Reads(a, goal[a])
  /\ UNCHANGED <<goal, target, todo, moved, tree, locks, mutex, events, fate>>

AgentWrites(a) ==
  /\ a \in Agents
  /\ Go(a, "read", "await")
  /\ Put(a, goal[a], Added(a, seen[a]))
  /\ UNCHANGED <<goal, target, todo, seen, index, head, patch, locks, mutex, events, blind, back>>

\* The run ends with its pages unlocked, and the service commits them.
TakesMutex(w) ==
  /\ Go(w, "await", "wrote")
  /\ w \in Agents => Mine(w) = {}
  /\ mutex = Nobody /\ mutex' = w
  /\ UNCHANGED <<goal, target, todo, seen, moved, tree, locks, events, fate>>

-----------------------------------------------------------------------------
(***************************************************************************)
(* The split, inside the mutex from its reads to its commit.               *)
(***************************************************************************)
SplitRefuses(s) ==
  /\ s \in Splits /\ todo[s] = {}
  /\ Hub \notin Mine(s) \/ Mine(s) = {Hub}
  /\ Go(s, "asks", "free")
  /\ goal' = [goal EXCEPT ![s] = {}]
  /\ UNCHANGED <<target, todo, seen, moved, tree, locks, mutex, events, fate>>

SplitWrites(s) ==
  /\ s \in Splits
  /\ Hub \in Mine(s) /\ Mine(s) # {Hub}
  /\ Enters(s)
  /\ Go(s, "asks", "wrote")
  /\ goal' = [goal EXCEPT ![s] = Mine(s)]
  /\ seen' = Reads(s, Mine(s))
  /\ Put(s, Mine(s), Renewed(s, text))
  /\ UNCHANGED <<target, todo, index, head, patch, locks, events, blind, back>>

\* Mutant: the index is not among the originals.
SplitForgetsIndex(s) ==
  /\ s \in Splits
  /\ Go(s, "wrote", "failed") /\ Event /\ mutex' = Nobody
  /\ Put(s, goal[s] \ {Hub}, seen[s])
  /\ index' = Over(index, goal[s], head)
  /\ UNCHANGED <<goal, target, todo, seen, head, patch, locks, blind, back>>

\* Mutant: the way out by an exception does not pass the release of the mutex.
SplitFailsHolding(s) ==
  /\ s \in Splits
  /\ Go(s, "wrote", "failed") /\ Event
  /\ Put(s, goal[s], seen[s])
  /\ index' = Over(index, goal[s], head)
  /\ UNCHANGED <<goal, target, todo, seen, head, patch, locks, mutex, blind, back>>

\* The commit throws: the originals are put back and unstaged.
SplitFails(s) ==
  /\ s \in Splits
  /\ Go(s, "wrote", "failed") /\ Event /\ mutex' = Nobody
  /\ Put(s, goal[s], seen[s])
  /\ index' = Over(index, goal[s], head)
  /\ UNCHANGED <<goal, target, todo, seen, head, patch, locks, blind, back>>

\* The originals are put back, but the split stays in the index (to unstage it
\* fails as well) or even at HEAD (git fails to name the commit it has made).
SplitTears(s) ==
  /\ s \in Splits
  /\ Go(s, "wrote", "torn") /\ Event /\ mutex' = Nobody
  /\ Put(s, goal[s], seen[s])
  /\ index' = Over(index, goal[s], text)
  /\ UNCHANGED <<head, patch>> \/ Lands(s, Over(head, goal[s], text))
  /\ UNCHANGED <<goal, target, todo, seen, locks, blind, back>>

-----------------------------------------------------------------------------
(***************************************************************************)
(* The way out.                                                            *)
(***************************************************************************)
AfterCommit(w) == IF w \in Agents THEN "done" ELSE "free"

\* Its pages are staged. A run's commit takes all that is staged along, the
\* others take their own pages.
Commits(w) ==
  /\ w \in Words /\ Go(w, "wrote", AfterCommit(w)) /\ mutex' = Nobody
  /\ index' = Over(index, goal[w], text)
  /\ Lands(w, IF w \in Agents THEN index' ELSE Over(head, goal[w], text))
  /\ UNCHANGED <<goal, target, todo, seen, moved, text, locks, events, fate>>

\* git fails, or commits are off: the words stay in the tree, staged or not.
CommitFails(w) ==
  /\ w \in Words \ Splits /\ Go(w, "wrote", AfterCommit(w)) /\ mutex' = Nobody
  /\ Event
  /\ index' \in {index, Over(index, goal[w], text)}
  /\ UNCHANGED <<goal, target, todo, seen, moved, text, head, patch, locks, fate>>

Releases(w) ==
  /\ \/ Go(w, "free", "done")
     \/ /\ at[w] \in {"failed", "torn"} \/ (at[w] = "await" /\ w \in Agents)
        /\ Mine(w) # {} /\ UNCHANGED at
  /\ owner' = [p \in Pages |-> owner[p] \ {w}]
  /\ UNCHANGED <<goal, target, todo, seen, moved, tree, broken, mutex, events, fate>>

-----------------------------------------------------------------------------
(***************************************************************************)
(* The undo of a commit: a reverse patch of its pages but the index, all   *)
(* of it inside the mutex, with awaits between the steps.                  *)
(***************************************************************************)
Plus(u, p)  == {m \in Words : <<target[u], p, m>> \in adds}
Minus(u, p) == {m \in Words : <<target[u], p, m>> \in drops}

Touched(u) == {p \in Pages \ {Hub} : Plus(u, p) \cup Minus(u, p) # {}}

Reverted(u) == [p \in Pages |-> (text[p] \ Plus(u, p)) \cup Minus(u, p)]

UndoEnters(u) ==
  /\ u \in Undoes
  /\ Call /\ Go(u, "idle", "asks")
  /\ \E l \in adds : target' = [target EXCEPT ![u] = l[1]]
  /\ mutex = Nobody /\ mutex' = u
  /\ UNCHANGED <<goal, todo, seen, moved, tree, locks, events, fate>>

\* Mutant: the tree is not asked for.
UndoTrusts(u) ==
  /\ u \in Undoes
  /\ Go(u, "asks", "checked")
  /\ UNCHANGED <<goal, target, todo, seen, moved, tree, locks, mutex, events, fate>>

\* A clean tree, or git status fails and dirtyPaths answers that nothing is dirty.
UndoChecks(u) ==
  /\ u \in Undoes
  /\ Go(u, "asks", "checked")
  /\ \/ Dirty = {} /\ UNCHANGED <<events, blind>>
     \/ Dirty # {} /\ Event /\ blind' = blind \cup {u}
  /\ UNCHANGED <<goal, target, todo, seen, moved, tree, locks, mutex, lost, back>>

\* A dirty tree, nothing to undo but the index, or git fails before the patch.
Refuses(u) ==
  /\ u \in Undoes
  /\ at[u] \in {"asks", "checked"} /\ Go(u, at[u], "done")
  /\ \/ at[u] = "asks" /\ Dirty # {} /\ UNCHANGED events
     \/ at[u] = "checked" /\ Touched(u) = {} /\ UNCHANGED events
     \/ Event

\* Mutant: a refusal returns past the release of the mutex.
UndoRefusesHolding(u) ==
  /\ Refuses(u)
  /\ UNCHANGED <<goal, target, todo, seen, moved, tree, locks, mutex, fate>>

UndoRefuses(u) ==
  /\ Refuses(u) /\ mutex' = Nobody
  /\ UNCHANGED <<goal, target, todo, seen, moved, tree, locks, fate>>

\* git apply --index takes the patch only into files that are as in the index
\* and hold what it takes out.
UndoApplies(u) ==
  /\ u \in Undoes
  /\ Go(u, "checked", "wrote")
  /\ Touched(u) # {}
  /\ \A p \in Touched(u) :
       text[p] = index[p] /\ Plus(u, p) \subseteq text[p] /\ Minus(u, p) \cap text[p] = {}
  /\ goal' = [goal EXCEPT ![u] = Touched(u)]
  /\ Sets(Touched(u), Reverted(u)) /\ Restores(Touched(u), Reverted(u))
  /\ index' = Over(index, Touched(u), Reverted(u))
  /\ UNCHANGED <<target, todo, seen, head, patch, locks, mutex, events, blind, lost>>

\* git commit takes all that is staged. With nothing staged the tree is reset.
UndoCommits(u) ==
  LET S == IF index = head THEN Dirty ELSE {} IN
  /\ u \in Undoes
  /\ Go(u, "wrote", "done") /\ mutex' = Nobody
  /\ head' = index
  /\ Put(u, S, head) /\ Restores(S, head)
  /\ UNCHANGED <<goal, target, todo, seen, index, patch, locks, events, blind>>

\* git commit fails: the reverse patch stays behind, applied and staged.
UndoCommitFails(u) ==
  /\ u \in Undoes
  /\ Go(u, "wrote", "done") /\ mutex' = Nobody
  /\ Event
  /\ UNCHANGED <<goal, target, todo, seen, moved, tree, locks, fate>>

\* git apply fails: a page was written since, other words are in the way of the
\* patch, or for a reason of its own.
UndoClashes(u) ==
  /\ u \in Undoes
  /\ Go(u, "checked", "clash") /\ Touched(u) # {}
  /\ \/ Event
     \/ /\ \E p \in Touched(u) : text[p] # index[p] \/ text[p] # Plus(u, p)
        /\ UNCHANGED events
  /\ UNCHANGED <<goal, target, todo, seen, moved, tree, locks, mutex, fate>>

\* git reset --hard HEAD. When that fails too, it is let pass.
UndoResets(u) ==
  /\ u \in Undoes
  /\ Go(u, "clash", "done") /\ mutex' = Nobody
  /\ \/ /\ Put(u, Dirty, head) /\ Restores(Dirty, head)
        /\ index' = head /\ UNCHANGED events
     \/ Event /\ UNCHANGED <<text, index, moved, lost, back>>
  /\ UNCHANGED <<goal, target, todo, seen, head, patch, locks, blind>>

-----------------------------------------------------------------------------
Step(w) ==
  \/ \E p \in Pages : Acquires(w, p) \/ Busy(w, p)
  \/ Writes(w) \/ Conflicts(w)
  \/ RepairWrites(w) \/ AgentReads(w) \/ AgentWrites(w) \/ TakesMutex(w)
  \/ SplitRefuses(w) \/ SplitWrites(w) \/ SplitFails(w) \/ SplitTears(w)
  \/ Commits(w) \/ CommitFails(w) \/ Releases(w)
  \/ UndoChecks(w) \/ UndoRefuses(w) \/ UndoApplies(w) \/ UndoCommits(w)
  \/ UndoCommitFails(w) \/ UndoClashes(w) \/ UndoResets(w)

Next ==
  \/ \E w \in Writers : Begins(w) \/ UndoEnters(w) \/ Step(w)
  \/ \E p \in Pages : Breaks(p)

Spec == Init /\ [][Next]_vars

\* Acquires, git calls and writes come to an end: as long as a call can go on,
\* some call does.
LiveSpec == Spec /\ WF_vars(\E w \in Writers : Step(w))

-----------------------------------------------------------------------------
(***************************************************************************)
(* Properties.                                                             *)
(***************************************************************************)
Inside == {w \in Writers : \/ at[w] \in {"wrote", "checked", "clash"}
                           \/ w \in Undoes /\ at[w] = "asks"}

TypeOK ==
  /\ at \in [Writers -> Stages]
  /\ goal \in [Writers -> SUBSET Pages] /\ todo \in [Writers -> SUBSET Pages]
  /\ seen \in [Writers -> [Pages -> SUBSET Words]]
  /\ moved \in SUBSET Edits /\ target \in [Undoes -> Words \cup {Nobody}]
  /\ text \in [Pages -> SUBSET Words] /\ index \in [Pages -> SUBSET Words]
  /\ head \in [Pages -> SUBSET Words]
  /\ adds \in SUBSET (Words \X Pages \X Words) /\ drops \in SUBSET (Words \X Pages \X Words)
  /\ owner \in [Pages -> SUBSET Writers] /\ broken \in SUBSET Pages
  /\ mutex \in Inside \cup {Nobody} /\ events \in Nat
  /\ blind \in SUBSET Undoes
  /\ lost \in SUBSET (Words \X Writers \X Pages) /\ back \in SUBSET (Words \X Pages)

(***************************************************************************)
(* As long as no page lock breaks, an edit with its mtime and a repair     *)
(* drop nobody's words, notes and splits (the restore of a failed one      *)
(* included) none but those on the index they regenerate, and an agent     *)
(* none but those an undo put back under its feet. Who loses words is a    *)
(* writer that reads before it asks for the lock, an edit that says not    *)
(* what it was made of, or an undo.                                        *)
(***************************************************************************)
CarefulKeepAll ==
  \A l \in lost :
    \/ l[2] \in Hasty \cup Undoes
    \/ l[2] \in Notes \cup Splits /\ l[3] = Hub
    \/ l[2] \in Agents /\ <<l[1], l[3]>> \in back

\* m's words came to p with a commit somebody asked to undo.
Undone(m, p) == \E u \in Undoes : m \in Plus(u, p)

(***************************************************************************)
(* When an undo resets the tree, it takes what agents and repairs wrote    *)
(* outside the mutex since its check, and what was undone or lost before   *)
(* and an agent wrote again, but no edit, list, note or split is lost to   *)
(* it, unless git failed it at the check.                                  *)
(***************************************************************************)
UndoSparesService ==
  \A l \in lost : l[2] \in Undoes =>
    \/ l[1] \in Agents \cup Repairs
    \/ Undone(l[1], l[3])
    \/ \E b \in blind : <<l[1], b, l[3]>> \in lost

(***************************************************************************)
(* A split is all or nothing, unless git fails twice or fails to name the  *)
(* commit it made. One that failed has left its mark on no page, unless a  *)
(* hasty writer took it along from its snapshot; one that landed is at     *)
(* HEAD on every page, unless it was undone or overwritten there.          *)
(***************************************************************************)
Overwritten(s, p) == \E c \in Writers : <<s, c, p>> \in lost

SplitAllOrNothing ==
  \A s \in Splits, p \in Pages \ broken :
    /\ at[s] = "failed" /\ s \in text[p] => \E h \in Hasty : s \in seen[h][p]
    /\ at[s] \in {"free", "done"} /\ p \in goal[s] =>
         s \in head[p] \/ Overwritten(s, p) \/ Undone(s, p)

(***************************************************************************)
(* Page locks are taken outside the mutex and never inside it, and every   *)
(* way out, by an exception too, gives back what it took: whatever waits   *)
(* for a lock or the mutex, some call can go on until all have ended.      *)
(***************************************************************************)
Rests(w) == at[w] \in {"idle", "done", "failed", "torn"} /\ Mine(w) = {}

\* What w waits for, if anything, is there.
Goes(w) ==
  \/ /\ w \in Words /\ at[w] = "asks"
     /\ \/ todo[w] # {} \/ w \in Repairs \cup Agents \/ mutex = Nobody
        \/ w \in Splits /\ (Hub \notin Mine(w) \/ Mine(w) = {Hub})
  \/ w \in Undoes /\ at[w] = "asks"
  \/ at[w] \in {"read", "wrote", "checked", "clash", "free"}
  \/ at[w] = "await" /\ (mutex = Nobody \/ (w \in Agents /\ Mine(w) # {}))
  \/ at[w] \in {"failed", "torn"} /\ Mine(w) # {}

NobodyStuck == (\A w \in Writers : Rests(w)) \/ \E w \in Writers : Goes(w)

(***************************************************************************)
(* So no call waits for ever: whatever locks break and commits fail, each  *)
(* ends and leaves no lock behind.                                         *)
(***************************************************************************)
EveryWriterEnds == <>[] \A w \in Writers : Rests(w)
=============================================================================
