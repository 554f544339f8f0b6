------------------------------ MODULE WikiLock ------------------------------
(***************************************************************************)
(* The vault's per-file lock as the service uses it (wiki-lock.ts):        *)
(* withWikiLock() for one page, withWikiLocks() for a batch with its       *)
(* refresh, and agents that take the same lock from their skill. The lock  *)
(* is the vault's script, a file with an age: an acquire takes the lock    *)
(* when there is none or when it is as old as the window the acquirer      *)
(* passes, and a release removes it, whoever made it.                      *)
(*                                                                         *)
(* Time is counted in ticks. What is written under a lock, and the order   *)
(* in which a batch walks its pages, are left out.                         *)
(***************************************************************************)
EXTENDS Integers, FiniteSets

CONSTANTS Singles,   \* callers of withWikiLock
          Batches,   \* callers of withWikiLocks
          Agents,    \* the skills of agent runs, processes of their own
          Pages,
          WindowOf,  \* per writer: the age from which it reaps a lock
          Attempts,  \* acquires of a single caller, the first included
          MaxTime,   \* bound: ticks
          MaxEvents  \* bound: failures of the script and crashes

Service == Singles \cup Batches
Writers == Service \cup Agents

ASSUME KindsDiffer ==
  /\ Singles \cap Batches = {} /\ Agents \cap Service = {}
ASSUME Windows ==
  /\ WindowOf \in [Writers -> Nat \ {0}]
  /\ Attempts \in Nat \ {0} /\ MaxTime \in Nat /\ MaxEvents \in Nat

VARIABLES
  at,       \* per writer: how far its call is
  todo,     \* per writer: pages it has yet to ask for
  tries,    \* per writer: acquires of its page so far
  lockPath, \* per writer: the locks it will release
  refresh,  \* per batch: pages the refresh under way has yet to re-acquire
  locked,   \* pages with a lock file
  since,    \* per page: when its lock file was made
  now,
  events,
  \* History, for the properties only.
  holds,    \* per writer: pages it goes by the lock of
  taken,    \* per writer and page: when it last acquired it
  late,     \* pages on which a holder's lock reached a window
  left,     \* per page: when a writer last let go of it
  stray     \* pages a refresh had yet to re-acquire when its batch was over

call    == <<at, todo, tries>>
script  == <<locked, since>>
history == <<taken, late, left, stray>>
vars    == <<call, lockPath, refresh, script, now, events, holds, history>>

Stages == {"idle", "try", "write", "free", "done"}

-----------------------------------------------------------------------------
Event == events < MaxEvents /\ events' = events + 1

Go(w, from, to) == at[w] = from /\ at' = [at EXCEPT ![w] = to]

\* Mutant: a lock is stale one tick early.
TakesEarly(p, window) == p \notin locked \/ now - since[p] + 1 >= window

\* The script: would an acquire with this window take the lock?
Takes(p, window) == p \notin locked \/ now - since[p] >= window

Lock(p) == /\ locked' = locked \cup {p}
           /\ since' = [since EXCEPT ![p] = now]

\* The pages S go out of w's hands.
Drop(w, S) ==
  /\ holds' = [holds EXCEPT ![w] = @ \ S]
  /\ taken' = [taken EXCEPT ![w] = [p \in Pages |-> IF p \in S THEN 0 ELSE @[p]]]
  /\ left' = [p \in Pages |-> IF p \in S THEN now ELSE left[p]]

Init ==
  /\ at = [w \in Writers |-> "idle"] /\ todo = [w \in Writers |-> {}]
  /\ tries = [w \in Writers |-> 0]
  /\ lockPath = [w \in Writers |-> {}] /\ refresh = [b \in Batches |-> {}]
  /\ locked = {} /\ since = [p \in Pages |-> 0]
  /\ now = 0 /\ events = 0
  /\ holds = [w \in Writers |-> {}]
  /\ taken = [w \in Writers |-> [p \in Pages |-> 0]]
  /\ late = {} /\ left = [p \in Pages |-> 0] /\ stray = {}

-----------------------------------------------------------------------------
(***************************************************************************)
(* Acquiring.                                                              *)
(***************************************************************************)
Begins(w) ==
  /\ Go(w, "idle", "try")
  /\ \E S \in SUBSET Pages :
       /\ IF w \in Batches THEN S # {} ELSE Cardinality(S) = 1
       /\ todo' = [todo EXCEPT ![w] = S]
  /\ UNCHANGED <<tries, lockPath, refresh, script, now, events, holds, history>>

\* The page is off the list. A single caller goes on to `to`.
Answered(w, p, to) ==
  /\ todo' = [todo EXCEPT ![w] = @ \ {p}]
  /\ IF w \in Batches THEN UNCHANGED at ELSE Go(w, "try", to)

Asks(w, p) == at[w] = "try" /\ p \in todo[w]

\* Exit 0.
Acquires(w, p) ==
  /\ Asks(w, p)
  /\ Takes(p, WindowOf[w])
  /\ Lock(p)
  /\ lockPath' = [lockPath EXCEPT ![w] = @ \cup {p}]
  /\ holds' = [holds EXCEPT ![w] = @ \cup {p}]
  /\ taken' = [taken EXCEPT ![w][p] = now]
  /\ Answered(w, p, "write")
  /\ UNCHANGED <<tries, refresh, now, events, late, left, stray>>

\* Mutant: the answer 75 is taken for any other failure.
BusyWrites(w, p) ==
  /\ Asks(w, p)
  /\ ~Takes(p, WindowOf[w])
  /\ holds' = [holds EXCEPT ![w] = @ \cup {p}]
  /\ taken' = [taken EXCEPT ![w][p] = now]
  /\ Answered(w, p, "write")
  /\ UNCHANGED <<tries, lockPath, refresh, script, now, events, late, left, stray>>

\* Mutant: the release is in a finally around the acquire.
BusyReleases(w, p) ==
  /\ Asks(w, p)
  /\ ~Takes(p, WindowOf[w])
  /\ Answered(w, p, "done")
  /\ locked' = locked \ {p}
  /\ UNCHANGED <<tries, lockPath, refresh, since, now, events, holds, history>>

\* Mutant: the attempts are not counted.
BusyForEver(w, p) ==
  /\ Asks(w, p)
  /\ ~Takes(p, WindowOf[w])
  /\ IF w \in Batches THEN Answered(w, p, "done") /\ UNCHANGED tries
       ELSE /\ tries' = [tries EXCEPT ![w] = (@ + 1) % (Attempts + 1)]
            /\ UNCHANGED <<at, todo>>
  /\ UNCHANGED <<lockPath, refresh, script, now, events, holds, history>>

\* Exit 75: a batch leaves the page out, a single caller tries again or gives up.
Busy(w, p) ==
  /\ Asks(w, p)
  /\ ~Takes(p, WindowOf[w])
  /\ IF w \in Batches \/ tries[w] + 1 = Attempts
       THEN Answered(w, p, "done") /\ UNCHANGED tries
       ELSE /\ tries' = [tries EXCEPT ![w] = @ + 1]
            /\ UNCHANGED <<at, todo>>
  /\ UNCHANGED <<lockPath, refresh, script, now, events, holds, history>>

\* Any other exit: the page is written without a lock and not released. The
\* script may have made the file before it was stopped by its timeout.
Refused(w, p) ==
  /\ Asks(w, p)
  /\ Event
  /\ \/ /\ Takes(p, WindowOf[w])
        /\ Lock(p)
        /\ left' = [left EXCEPT ![p] = now]
     \/ UNCHANGED <<script, left>>
  /\ Answered(w, p, "write")
  /\ UNCHANGED <<tries, lockPath, refresh, now, holds, taken, late, stray>>

\* A batch has asked for every page: fn is called with what it holds.
Starts(b) ==
  /\ todo[b] = {}
  /\ Go(b, "try", "write")
  /\ UNCHANGED <<todo, tries, lockPath, refresh, script, now, events, holds, history>>

-----------------------------------------------------------------------------
(***************************************************************************)
(* The refresh of a batch's locks: a timer starts it, over a snapshot of   *)
(* lockPath, and one that is under way is not started again.               *)
(***************************************************************************)
\* Mutant: the timer is not cleared when fn is over.
RefreshesForEver(b) ==
  /\ at[b] \in {"write", "done"} /\ refresh[b] = {}
  /\ refresh' = [refresh EXCEPT ![b] = IF at[b] = "write" THEN lockPath[b] ELSE Pages]
  /\ UNCHANGED <<call, lockPath, script, now, events, holds, history>>

RefreshBegins(b) ==
  /\ at[b] = "write" /\ refresh[b] = {}
  /\ refresh' = [refresh EXCEPT ![b] = lockPath[b]]
  /\ UNCHANGED <<call, lockPath, script, now, events, holds, history>>

\* acquire --stale-after-sec 0, which takes the lock in every case. When fn has
\* ended meanwhile, the loop still goes through its snapshot.
Refreshes(b, p) ==
  /\ p \in refresh[b]
  /\ refresh' = [refresh EXCEPT ![b] = @ \ {p}]
  /\ Takes(p, 0)
  /\ Lock(p)
  /\ taken' = [taken EXCEPT ![b][p] = IF p \in holds[b] THEN now ELSE 0]
  /\ UNCHANGED <<call, lockPath, now, events, holds, late, left, stray>>

\* The script fails: the page is dropped from lockPath, and fn writes on.
RefreshFails(b, p) ==
  /\ p \in refresh[b]
  /\ refresh' = [refresh EXCEPT ![b] = @ \ {p}]
  /\ lockPath' = [lockPath EXCEPT ![b] = @ \ {p}]
  /\ Event
  /\ UNCHANGED <<call, script, now, holds, history>>

-----------------------------------------------------------------------------
(***************************************************************************)
(* Releasing.                                                              *)
(***************************************************************************)
\* fn returns or throws. A batch clears its timer.
Ends(w) ==
  /\ Go(w, "write", "free")
  /\ Drop(w, holds[w] \ lockPath[w])
  /\ stray' = IF w \in Batches THEN stray \cup refresh[w] ELSE stray
  /\ UNCHANGED <<todo, tries, lockPath, refresh, script, now, events, late>>

Forgets(w, p) ==
  /\ at[w] = "free" /\ p \in lockPath[w]
  /\ lockPath' = [lockPath EXCEPT ![w] = @ \ {p}]
  /\ Drop(w, {p})

\* rm -f, whoever made the file.
Releases(w, p) ==
  /\ Forgets(w, p)
  /\ locked' = locked \ {p}
  /\ UNCHANGED <<call, refresh, since, now, events, late, stray>>

\* The exit code of a release is not looked at.
ReleaseFails(w, p) ==
  /\ Forgets(w, p)
  /\ Event
  /\ UNCHANGED <<call, refresh, script, now, late, stray>>

\* (A refresh that outruns its batch may have dropped the last page.)
IsOver(w) ==
  /\ lockPath[w] = {}
  /\ Go(w, "free", "done")
  /\ Drop(w, holds[w])
  /\ UNCHANGED <<todo, tries, lockPath, refresh, script, now, events, late, stray>>

-----------------------------------------------------------------------------
\* The process goes: every caller in it, or one agent.
Crash(K) ==
  /\ \E w \in K : at[w] \notin {"idle", "done"}
  /\ at' = [w \in Writers |-> IF w \in K THEN "done" ELSE at[w]]
  /\ lockPath' = [w \in Writers |-> IF w \in K THEN {} ELSE lockPath[w]]
  /\ refresh' = [b \in Batches |-> IF b \in K THEN {} ELSE refresh[b]]
  /\ holds' = [w \in Writers |-> IF w \in K THEN {} ELSE holds[w]]
  /\ taken' = [w \in Writers |-> IF w \in K THEN [p \in Pages |-> 0] ELSE taken[w]]
  /\ left' = [p \in Pages |-> IF \E w \in K : p \in holds[w] THEN now ELSE left[p]]
  /\ Event
  /\ UNCHANGED <<todo, tries, script, now, late, stray>>

Outlived(p) == \E w, v \in Writers : p \in holds[w] /\ now + 1 - taken[w][p] >= WindowOf[v]

Tick ==
  /\ now < MaxTime
  /\ now' = now + 1
  /\ late' = late \cup {p \in Pages : Outlived(p)}
  /\ UNCHANGED <<call, lockPath, refresh, script, events, holds, taken, left, stray>>

-----------------------------------------------------------------------------
\* The steps of a call that the program takes of itself.
Step(w) ==
  \/ \E p \in Pages : Acquires(w, p) \/ Busy(w, p) \/ Releases(w, p) \/ ReleaseFails(w, p)
  \/ Ends(w) \/ IsOver(w)
  \/ w \in Batches /\ Starts(w)

Refresh(b) == RefreshBegins(b) \/ \E p \in Pages : Refreshes(b, p) \/ RefreshFails(b, p)

Next ==
  \/ \E w \in Writers : Begins(w) \/ Step(w) \/ \E p \in Pages : Refused(w, p)
  \/ \E b \in Batches : Refresh(b)
  \/ \E K \in {Service} \cup {{a} : a \in Agents} : Crash(K)
  \/ Tick

Spec == Init /\ [][Next]_vars

\* A script call ends (its timeout is 10 s) and so does fn.
LiveSpec == Spec /\ \A w \in Writers : WF_vars(Step(w))

-----------------------------------------------------------------------------
(***************************************************************************)
(* Properties.                                                             *)
(***************************************************************************)
TypeOK ==
  /\ at \in [Writers -> Stages] /\ todo \in [Writers -> SUBSET Pages]
  /\ tries \in [Writers -> 0..(Attempts - 1)]
  /\ lockPath \in [Writers -> SUBSET Pages] /\ refresh \in [Batches -> SUBSET Pages]
  /\ locked \in SUBSET Pages /\ since \in [Pages -> Nat]
  /\ now \in Nat /\ events \in 0..MaxEvents
  /\ holds \in [Writers -> SUBSET Pages] /\ taken \in [Writers -> [Pages -> Nat]]
  /\ late \in SUBSET Pages /\ left \in [Pages -> Nat] /\ stray \in SUBSET Pages

Owners(p) == {w \in Writers : p \in holds[w]}

(***************************************************************************)
(* The lock does what PageLock promises: a page has one writer, until the  *)
(* lock of a holder has reached the window of somebody (wiki-lock.ts says  *)
(* "a lock that outlives its own threshold is not a lock"). Failures of    *)
(* the script, crashes and refreshes that outrun their batch do not        *)
(* endanger it.                                                            *)
(***************************************************************************)
Promise == INSTANCE PageLock WITH owner <- [p \in Pages |-> Owners(p)], broken <- late
OneWriter == Promise!Exclusive
Implements == Promise!Spec

(***************************************************************************)
(* A release never leaves another writer without the lock it goes by: as   *)
(* long as no lock was outlived, a page that is held has its file.         *)
(***************************************************************************)
HeldIsLocked ==
  \A w \in Writers : \A p \in holds[w] \ late : p \in locked

(***************************************************************************)
(* A crashed holder cannot wedge a page for longer than the window: a lock *)
(* nobody holds is no younger than the moment it was let go, or the last   *)
(* re-acquire of a refresh that outran its batch.                          *)
(***************************************************************************)
WedgedForOneWindow ==
  \A p \in locked \ stray : Owners(p) = {} => since[p] <= left[p]

(***************************************************************************)
(* Every call comes to its end, locked pages or not.                       *)
(***************************************************************************)
EveryCallEnds == \A w \in Writers : at[w] = "try" ~> at[w] = "done"
=============================================================================
