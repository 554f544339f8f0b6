--------------------------- MODULE WikiLockProofs ---------------------------
(***************************************************************************)
(* What holds of WikiLock for every set of writers and pages, every window *)
(* and any length of time.                                                 *)
(***************************************************************************)
EXTENDS WikiLock, TLAPS

USE DEF call, script, history

\* What a writer will release, it goes by.
PathInv == \A w \in Writers : lockPath[w] \subseteq holds[w]

\* A lock that is held is there, not older than its holder's acquire, and
\* younger than every window.
Young(w, p) == /\ p \in locked
               /\ since[p] >= taken[w][p]
               /\ \A v \in Writers : now - taken[w][p] < WindowOf[v]
YoungInv ==
  \A w \in Writers : \A p \in holds[w] :
    /\ taken[w][p] <= now
    /\ p \notin late => Young(w, p)

OneInv == \A p \in Pages \ late : \A v, w \in Owners(p) : v = w

Inv == TypeOK /\ PathInv /\ YoungInv /\ OneInv

-----------------------------------------------------------------------------
(***************************************************************************)
(* Types.                                                                  *)
(***************************************************************************)
LEMMA TriesStep ==
  ASSUME tries \in [Writers -> 0..(Attempts - 1)], NEW w \in Writers,
         \/ tries' = tries
         \/ (tries[w] + 1 # Attempts) /\ tries' = [tries EXCEPT ![w] = @ + 1]
  PROVE  tries' \in [Writers -> 0..(Attempts - 1)]
<1>1. Attempts \in Nat /\ tries[w] \in 0..(Attempts - 1)
  BY Windows
<1>2. CASE (tries[w] + 1 # Attempts) /\ tries' = [tries EXCEPT ![w] = @ + 1]
  <2>1. tries[w] + 1 \in 0..(Attempts - 1)
    BY <1>1, <1>2
  <2> QED BY <1>2, <2>1
<1> QED BY <1>2

LEMMA TypeStep ==
  ASSUME TypeOK, [Next]_vars
  PROVE  TypeOK'
<1> USE KindsDiffer, Windows DEF TypeOK, Stages, Go, Event, Service, Writers
<1>1. ASSUME NEW w \in Writers, Begins(w) PROVE TypeOK'
  BY <1>1 DEF Begins
<1>2. ASSUME NEW w \in Writers, NEW p \in Pages, Acquires(w, p) PROVE TypeOK'
  BY <1>2 DEF Acquires, Asks, Answered, Lock
<1>3. ASSUME NEW w \in Writers, NEW p \in Pages, Busy(w, p) PROVE TypeOK'
  <2>1. at' \in [Writers -> Stages] /\ todo' \in [Writers -> SUBSET Pages]
    <3>1. \/ UNCHANGED <<at, todo>>
          \/ Answered(w, p, "done")
      BY <1>3 DEF Busy
    <3>2. CASE Answered(w, p, "done")
      <4>1. todo' \in [Writers -> SUBSET Pages]
        BY <3>2 DEF Answered
      <4>2. at' = at \/ at' = [at EXCEPT ![w] = "done"]
        BY <3>2 DEF Answered
      <4> QED BY <4>1, <4>2
    <3> QED BY <3>1, <3>2
  <2>2. tries' \in [Writers -> 0..(Attempts - 1)]
    BY <1>3, TriesStep DEF Busy
  <2> QED BY <1>3, <2>1, <2>2 DEF Busy
<1>4. ASSUME NEW w \in Writers, NEW p \in Pages, Refused(w, p) PROVE TypeOK'
  BY <1>4 DEF Refused, Asks, Answered, Lock
<1>5. ASSUME NEW w \in Writers, NEW p \in Pages, Releases(w, p) PROVE TypeOK'
  BY <1>5 DEF Releases, Forgets, Drop
<1>6. ASSUME NEW w \in Writers, NEW p \in Pages, ReleaseFails(w, p) PROVE TypeOK'
  BY <1>6 DEF ReleaseFails, Forgets, Drop
<1>7. ASSUME NEW w \in Writers, Ends(w) PROVE TypeOK'
  BY <1>7 DEF Ends, Drop
<1>8. ASSUME NEW w \in Writers, IsOver(w) PROVE TypeOK'
  BY <1>8 DEF IsOver, Drop
<1>9. ASSUME NEW b \in Batches, Starts(b) PROVE TypeOK'
  BY <1>9 DEF Starts
<1>10. ASSUME NEW b \in Batches, RefreshBegins(b) PROVE TypeOK'
  BY <1>10 DEF RefreshBegins
<1>11. ASSUME NEW b \in Batches, NEW p \in Pages, Refreshes(b, p) PROVE TypeOK'
  BY <1>11 DEF Refreshes, Lock
<1>12. ASSUME NEW b \in Batches, NEW p \in Pages, RefreshFails(b, p) PROVE TypeOK'
  BY <1>12 DEF RefreshFails
<1>13. ASSUME NEW K, Crash(K) PROVE TypeOK'
  BY <1>13 DEF Crash
<1>14. CASE Tick
  BY <1>14 DEF Tick
<1>15. CASE UNCHANGED vars
  BY <1>15 DEF vars
<1> QED
  BY <1>1, <1>2, <1>3, <1>4, <1>5, <1>6, <1>7, <1>8, <1>9, <1>10, <1>11, <1>12, <1>13,
     <1>14, <1>15 DEF Next, Step, Refresh

LEMMA TypeInit == Init => TypeOK
BY Windows DEF Init, TypeOK, Stages

\* Every variable keeps its type.
THEOREM TypeCorrect == Spec => []TypeOK
<1>1. TypeOK /\ [Next]_vars => TypeOK'
  BY TypeStep
<1> QED BY TypeInit, <1>1, PTL DEF Spec

-----------------------------------------------------------------------------
(***************************************************************************)
(* One writer.                                                             *)
(***************************************************************************)
LEMMA InvInit == Init => Inv
<1> SUFFICES ASSUME Init PROVE PathInv /\ YoungInv /\ OneInv
  BY TypeInit DEF Inv
<1> QED BY DEF Init, PathInv, YoungInv, OneInv, Owners

\* A step that takes pages out of hands, leaves the files of the pages that
\* are still held, and neither clock nor acquires of held pages, is harmless.
LEMMA LettingGo ==
  ASSUME Inv, TypeOK', PathInv',
         \A w \in Writers : holds'[w] \subseteq holds[w],
         \A w \in Writers : \A p \in holds'[w] : taken'[w][p] = taken[w][p],
         UNCHANGED <<since, now, late>>,
         \A w \in Writers : \A p \in holds'[w] \ late : p \in locked => p \in locked'
  PROVE  Inv'
<1>1. YoungInv'
  BY DEF Inv, TypeOK, YoungInv, Young
<1>2. OneInv'
  BY DEF Inv, TypeOK, OneInv, Owners
<1> QED BY <1>1, <1>2 DEF Inv

\* Nobody goes by the lock of a page an acquire takes, unless the page is late.
LEMMA TakenFromNobody ==
  ASSUME Inv, NEW w \in Writers, NEW p \in Pages \ late, Takes(p, WindowOf[w])
  PROVE  Owners(p) = {}
<1> SUFFICES ASSUME NEW v \in Owners(p) PROVE FALSE
  OBVIOUS
<1>1. v \in Writers /\ p \in holds[v]
  BY DEF Owners
<1>2. Young(v, p) /\ taken[v][p] <= now
  BY <1>1 DEF Inv, YoungInv
<1>3. now - since[p] >= WindowOf[w]
  BY <1>2 DEF Young, Takes
<1>4. now - taken[v][p] < WindowOf[w] /\ since[p] >= taken[v][p]
  BY <1>2 DEF Young
<1>5. now \in Nat /\ since[p] \in Nat /\ taken[v][p] \in Nat /\ WindowOf[w] \in Nat
  BY <1>1, Windows DEF Inv, TypeOK
<1> QED BY <1>3, <1>4, <1>5

LEMMA AcquireStep ==
  ASSUME Inv, TypeOK', NEW w \in Writers, NEW p \in Pages, Acquires(w, p)
  PROVE  Inv'
<1> USE DEF Inv, TypeOK
<1>1. PathInv'
  BY DEF Acquires, PathInv
<1>2. YoungInv'
  <2> SUFFICES ASSUME NEW v \in Writers, NEW q \in holds'[v]
               PROVE  taken'[v][q] <= now' /\ (q \notin late' => Young(v, q)')
    BY DEF YoungInv
  <2>1. CASE v = w /\ q = p
    <3>1. taken'[w][p] = now /\ since'[p] = now /\ p \in locked' /\ now' = now /\ now \in Nat
      BY DEF Acquires, Lock
    <3>2. \A u \in Writers : WindowOf[u] \in Nat \ {0}
      BY Windows
    <3> QED BY <2>1, <3>1, <3>2 DEF Young
  <2>2. CASE ~(v = w /\ q = p)
    <3>1. q \in holds[v] /\ taken'[v][q] = taken[v][q] /\ now' = now /\ late' = late
      BY <2>2 DEF Acquires
    <3>2. taken[v][q] <= now /\ (q \notin late => Young(v, q))
      BY <3>1 DEF YoungInv
    <3>3. since'[q] >= since[q] \/ q = p
      BY <3>1 DEF Acquires, Lock
    <3>4. q = p => since'[q] = now
      BY DEF Acquires, Lock
    <3>5. q \in Pages
      BY <3>1
    <3> QED BY <3>1, <3>2, <3>3, <3>4, <3>5 DEF Acquires, Lock, Young
  <2> QED BY <2>1, <2>2
<1>3. OneInv'
  <2> SUFFICES ASSUME NEW q \in Pages \ late, NEW u \in Owners(q)', NEW v \in Owners(q)'
               PROVE  u = v
    BY DEF Acquires, OneInv
  <2>1. CASE q = p
    <3>1. Owners(p) = {}
      BY <2>1, TakenFromNobody DEF Acquires
    <3> QED BY <2>1, <3>1 DEF Acquires, Owners
  <2>2. CASE q # p
    BY <2>2 DEF Acquires, Owners, OneInv
  <2> QED BY <2>1, <2>2
<1> QED BY <1>1, <1>2, <1>3

LEMMA RefreshStep ==
  ASSUME Inv, TypeOK', NEW b \in Batches, NEW p \in Pages, Refreshes(b, p)
  PROVE  Inv'
<1> USE DEF Inv, TypeOK, Writers, Service
<1>1. PathInv' /\ OneInv'
  BY DEF Refreshes, PathInv, OneInv, Owners
<1>2. YoungInv'
  <2> SUFFICES ASSUME NEW v \in Writers, NEW q \in holds[v]
               PROVE  taken'[v][q] <= now /\ (q \notin late => Young(v, q)')
    BY DEF Refreshes, YoungInv
  <2>0. q \in Pages /\ taken[v][q] <= now /\ (q \notin late => Young(v, q)) /\ now' = now
    BY DEF YoungInv, Refreshes
  <2>1. CASE q = p
    <3>1. since'[q] = now /\ q \in locked'
      BY <2>1 DEF Refreshes, Lock
    <3>2. taken'[v][q] \in {now, taken[v][q]}
      BY <2>0, <2>1 DEF Refreshes
    <3> QED BY <2>0, <3>1, <3>2, Windows DEF Young
  <2>2. CASE q # p
    BY <2>0, <2>2 DEF Refreshes, Lock, Young
  <2> QED BY <2>1, <2>2
<1> QED BY <1>1, <1>2

\* The files of a refused acquire: a page that is held and not late keeps its
\* lock, since the acquire could not have taken it.
LEMMA RefusedStep ==
  ASSUME Inv, TypeOK', NEW w \in Writers, NEW p \in Pages, Refused(w, p)
  PROVE  Inv'
<1> USE DEF Inv, TypeOK
<1>1. PathInv' /\ OneInv'
  BY DEF Refused, PathInv, OneInv, Owners
<1>2. YoungInv'
  <2> SUFFICES ASSUME NEW v \in Writers, NEW q \in holds[v]
               PROVE  taken[v][q] <= now /\ (q \notin late => Young(v, q)')
    BY DEF Refused, YoungInv
  <2>0. q \in Pages /\ taken[v][q] <= now /\ (q \notin late => Young(v, q))
    BY DEF YoungInv
  <2>1. CASE q = p
    <3>1. \/ since'[q] = now /\ q \in locked'
          \/ since' = since /\ locked' = locked
      BY <2>1 DEF Refused, Lock
    <3> QED BY <2>0, <3>1 DEF Refused, Young
  <2>2. CASE q # p
    <3>1. since'[q] = since[q] /\ (q \in locked => q \in locked')
      BY <2>0, <2>2 DEF Refused, Lock
    <3> QED BY <2>0, <3>1 DEF Refused, Young
  <2> QED BY <2>1, <2>2
<1> QED BY <1>1, <1>2

\* The one who releases is the one who holds.
LEMMA ReleaseStep ==
  ASSUME Inv, TypeOK', NEW w \in Writers, NEW p \in Pages, Releases(w, p)
  PROVE  Inv'
<1> USE DEF Inv, TypeOK
<1>1. PathInv'
  BY DEF Releases, Forgets, Drop, PathInv
<1>2. \A v \in Writers : holds'[v] \subseteq holds[v]
  BY DEF Releases, Forgets, Drop
<1>3. \A v \in Writers : \A q \in holds'[v] : taken'[v][q] = taken[v][q]
  BY DEF Releases, Forgets, Drop
<1>4. \A v \in Writers : \A q \in holds'[v] \ late : q \in locked => q \in locked'
  <2> SUFFICES ASSUME NEW v \in Writers, p \in holds'[v], p \notin late PROVE FALSE
    BY DEF Releases
  <2>1. v \in Owners(p) /\ w \in Owners(p)
    BY <1>2 DEF Releases, Forgets, PathInv, Owners
  <2>2. v = w
    BY <2>1 DEF OneInv
  <2> QED BY <2>2 DEF Releases, Forgets, Drop
<1> QED BY <1>1, <1>2, <1>3, <1>4, LettingGo DEF Releases

LEMMA TickStep ==
  ASSUME Inv, TypeOK', Tick
  PROVE  Inv'
<1> USE DEF Inv, TypeOK
<1>1. PathInv' /\ OneInv'
  BY DEF Tick, PathInv, OneInv, Owners
<1>2. YoungInv'
  <2> SUFFICES ASSUME NEW v \in Writers, NEW q \in holds[v]
               PROVE  taken[v][q] <= now' /\ (q \notin late' => Young(v, q)')
    BY DEF Tick, YoungInv
  <2>1. q \in Pages /\ taken[v][q] <= now /\ (q \notin late => Young(v, q))
    BY DEF YoungInv
  <2>2. taken[v][q] \in Nat /\ now \in Nat /\ now' = now + 1
    BY <2>1 DEF Tick
  <2>3. ASSUME q \notin late', NEW u \in Writers PROVE now' - taken[v][q] < WindowOf[u]
    <3>1. ~Outlived(q)
      BY <2>1, <2>3 DEF Tick
    <3> QED BY <2>2, <3>1, Windows DEF Outlived
  <2> QED BY <2>1, <2>2, <2>3 DEF Tick, Young
<1> QED BY <1>1, <1>2

LEMMA InvStep == Inv /\ [Next]_vars => Inv'
<1> SUFFICES ASSUME Inv, [Next]_vars PROVE Inv'
  OBVIOUS
<1>0. TypeOK'
  BY TypeStep DEF Inv
<1> USE DEF Inv
<1>1. ASSUME NEW w \in Writers, Begins(w) PROVE Inv'
  BY <1>0, <1>1, LettingGo DEF Begins, PathInv, TypeOK
<1>2. ASSUME NEW w \in Writers, NEW p \in Pages, Acquires(w, p) PROVE Inv'
  BY <1>0, <1>2, AcquireStep
<1>3. ASSUME NEW w \in Writers, NEW p \in Pages, Busy(w, p) PROVE Inv'
  BY <1>0, <1>3, LettingGo DEF Busy, PathInv, TypeOK
<1>4. ASSUME NEW w \in Writers, NEW p \in Pages, Refused(w, p) PROVE Inv'
  BY <1>0, <1>4, RefusedStep
<1>5. ASSUME NEW w \in Writers, NEW p \in Pages, Releases(w, p) PROVE Inv'
  BY <1>0, <1>5, ReleaseStep
<1>6. ASSUME NEW w \in Writers, NEW p \in Pages, ReleaseFails(w, p) PROVE Inv'
  BY <1>0, <1>6, LettingGo DEF ReleaseFails, Forgets, Drop, PathInv, TypeOK
<1>7. ASSUME NEW w \in Writers, Ends(w) PROVE Inv'
  BY <1>0, <1>7, LettingGo DEF Ends, Drop, PathInv, TypeOK
<1>8. ASSUME NEW w \in Writers, IsOver(w) PROVE Inv'
  BY <1>0, <1>8, LettingGo DEF IsOver, Drop, PathInv, TypeOK
<1>9. ASSUME NEW b \in Batches, Starts(b) PROVE Inv'
  BY <1>0, <1>9, LettingGo DEF Starts, PathInv, TypeOK
<1>10. ASSUME NEW b \in Batches, RefreshBegins(b) PROVE Inv'
  BY <1>0, <1>10, LettingGo DEF RefreshBegins, PathInv, TypeOK
<1>11. ASSUME NEW b \in Batches, NEW p \in Pages, Refreshes(b, p) PROVE Inv'
  BY <1>0, <1>11, RefreshStep
<1>12. ASSUME NEW b \in Batches, NEW p \in Pages, RefreshFails(b, p) PROVE Inv'
  BY <1>0, <1>12, LettingGo DEF RefreshFails, PathInv, TypeOK, Writers, Service
<1>13. ASSUME NEW K, Crash(K) PROVE Inv'
  BY <1>0, <1>13, LettingGo DEF Crash, PathInv, TypeOK
<1>14. CASE Tick
  BY <1>0, <1>14, TickStep
<1>15. CASE UNCHANGED vars
  BY <1>0, <1>15, LettingGo DEF vars, PathInv, TypeOK
<1> QED
  BY <1>1, <1>2, <1>3, <1>4, <1>5, <1>6, <1>7, <1>8, <1>9, <1>10, <1>11, <1>12, <1>13,
     <1>14, <1>15 DEF Next, Step, Refresh

LEMMA InvAlways == Spec => []Inv
BY InvInit, InvStep, PTL DEF Spec

\* A page has one writer until a lock on it was outlived.
THEOREM OneWriterAlways == Spec => []OneWriter
<1>1. Inv => OneWriter
  BY DEF Inv, TypeOK, OneInv, Owners, OneWriter, Promise!Exclusive
<1> QED BY InvAlways, <1>1, PTL

\* A page that is held, and was never outlived, has its lock file.
THEOREM HeldIsLockedAlways == Spec => []HeldIsLocked
<1>1. Inv => HeldIsLocked
  BY DEF Inv, YoungInv, Young, HeldIsLocked
<1> QED BY InvAlways, <1>1, PTL

-----------------------------------------------------------------------------
(***************************************************************************)
(* The lock implements PageLock.                                           *)
(***************************************************************************)
owned == [p \in Pages |-> Owners(p)]

LEMMA Releasing ==
  ASSUME TypeOK, TypeOK', late' = late, \A w \in Writers : holds'[w] \subseteq holds[w]
  PROVE  Promise!Next
<1>1. \A p \in Pages : owned'[p] \subseteq owned[p]
  BY DEF owned, Owners
<1>2. owned' \in [Pages -> SUBSET Writers]
  BY DEF owned, Owners
<1>3. Promise!LetGo
  BY <1>1, <1>2 DEF Promise!LetGo, owned
<1> QED BY <1>3 DEF Promise!Next

LEMMA Taking ==
  ASSUME Inv, TypeOK', NEW w \in Writers, NEW p \in Pages, Acquires(w, p)
  PROVE  Promise!Next
<1>1. Owners(p) \subseteq {w} \/ p \in late
  BY TakenFromNobody DEF Acquires
<1>2. owned' = [owned EXCEPT ![p] = @ \cup {w}]
  <2>1. \A q \in Pages : owned'[q] = IF q = p THEN owned[q] \cup {w} ELSE owned[q]
    BY DEF owned, Owners, Acquires, Inv, TypeOK
  <2> QED BY <2>1 DEF owned
<1>3. Promise!Take(w, p)
  BY <1>1, <1>2 DEF Promise!Take, owned, Acquires
<1> QED BY <1>3 DEF Promise!Next

LEMMA PromiseStep == Inv /\ Inv' /\ [Next]_vars => [Promise!Next]_(Promise!vars)
<1> SUFFICES ASSUME Inv, Inv', [Next]_vars PROVE [Promise!Next]_(Promise!vars)
  OBVIOUS
<1>0. TypeOK /\ TypeOK'
  BY DEF Inv
<1>1. ASSUME NEW w \in Writers, NEW p \in Pages, Acquires(w, p) PROVE Promise!Next
  BY <1>0, <1>1, Taking
<1>2. ASSUME NEW w \in Writers, NEW p \in Pages, Releases(w, p) \/ ReleaseFails(w, p)
      PROVE  Promise!Next
  <2>1. late' = late /\ \A v \in Writers : holds'[v] \subseteq holds[v]
    <3>1. late' = late /\ Forgets(w, p)
      BY <1>2 DEF Releases, ReleaseFails
    <3> QED BY <1>0, <3>1 DEF Forgets, Drop, TypeOK
  <2> QED BY <1>0, <2>1, Releasing
<1>3. ASSUME NEW w \in Writers, Ends(w) \/ IsOver(w) PROVE Promise!Next
  <2>1. late' = late /\ \A v \in Writers : holds'[v] \subseteq holds[v]
    BY <1>0, <1>3 DEF Ends, IsOver, Drop, TypeOK
  <2> QED BY <1>0, <2>1, Releasing
<1>4. ASSUME NEW K, Crash(K) PROVE Promise!Next
  BY <1>0, <1>4, Releasing DEF Crash, TypeOK
<1>5. CASE Tick
  <2>1. Promise!Break
    BY <1>0, <1>5 DEF Tick, Promise!Break, Owners, TypeOK
  <2> QED BY <2>1 DEF Promise!Next
<1>6. CASE UNCHANGED <<holds, late>>
  BY <1>6 DEF Promise!vars, Owners
<1>7. ASSUME NEW w \in Writers, NEW p \in Pages, Begins(w) \/ Busy(w, p) \/ Refused(w, p)
      PROVE  UNCHANGED <<holds, late>>
  BY <1>7 DEF Begins, Busy, Refused
<1>8. ASSUME NEW b \in Batches, NEW p \in Pages,
             Starts(b) \/ RefreshBegins(b) \/ Refreshes(b, p) \/ RefreshFails(b, p)
      PROVE  UNCHANGED <<holds, late>>
  BY <1>8 DEF Starts, RefreshBegins, Refreshes, RefreshFails
<1>9. CASE UNCHANGED vars
  BY <1>6, <1>9 DEF vars
<1>10. ASSUME NEW w \in Writers, Begins(w) PROVE UNCHANGED <<holds, late>>
  BY <1>10 DEF Begins
<1>11. ASSUME NEW b \in Batches, Starts(b) \/ RefreshBegins(b) PROVE UNCHANGED <<holds, late>>
  BY <1>11 DEF Starts, RefreshBegins
<1> QED
  BY <1>1, <1>2, <1>3, <1>4, <1>5, <1>6, <1>7, <1>8, <1>9, <1>10, <1>11
  DEF Next, Step, Refresh

\* The vault's lock, as the service uses it, is the lock PageLock describes.
THEOREM ImplementsPromise == Spec => Implements
<1>1. Init => Promise!Init
  BY DEF Init, Promise!Init, Owners
<1> QED BY InvAlways, <1>1, PromiseStep, PTL DEF Spec, Promise!Spec, Implements

-----------------------------------------------------------------------------
(***************************************************************************)
(* How long a page nobody holds may stay locked.                           *)
(***************************************************************************)
\* No lock file is from the future, and a refresh that is under way goes over
\* pages of a batch that has not ended, or over strays.
PastInv ==
  /\ \A p \in locked : since[p] <= now
  /\ \A b \in Batches : \A p \in refresh[b] \ stray :
       at[b] = "write" /\ p \in holds[b]
  /\ WedgedForOneWindow

LEMMA PastInit == Init => PastInv
BY DEF Init, PastInv, WedgedForOneWindow

\* The two halves about ages, page by page.
LEMMA Ages ==
  ASSUME TypeOK, TypeOK', PastInv, now' = now, stray \subseteq stray',
         \A q \in locked' : since'[q] = now \/ (q \in locked /\ since'[q] = since[q]),
         \A q \in locked' : Owners(q)' = {} =>
           left'[q] = now \/ (q \in locked /\ since'[q] = since[q] /\ Owners(q) = {} /\ left'[q] = left[q])
  PROVE  /\ \A q \in locked' : since'[q] <= now'
         /\ WedgedForOneWindow'
<1>1. ASSUME NEW q \in locked' PROVE since'[q] <= now'
  <2>1. now \in Nat /\ now' = now
    BY DEF TypeOK
  <2>2. CASE since'[q] = now
    BY <2>1, <2>2
  <2>3. CASE q \in locked /\ since'[q] = since[q]
    BY <2>1, <2>3 DEF PastInv
  <2> QED BY <2>2, <2>3
<1>2. ASSUME NEW q \in locked' \ stray', Owners(q)' = {} PROVE since'[q] <= left'[q]
  <2>1. CASE left'[q] = now
    BY <1>1, <1>2, <2>1
  <2>2. CASE q \in locked /\ since'[q] = since[q] /\ Owners(q) = {} /\ left'[q] = left[q]
    BY <1>2, <2>2 DEF PastInv, WedgedForOneWindow
  <2> QED BY <1>2, <2>1, <2>2
<1> QED BY <1>1, <1>2 DEF WedgedForOneWindow

LEMMA PastStep ==
  ASSUME TypeOK, TypeOK', PathInv, PastInv, [Next]_vars
  PROVE  PastInv'
<1>0. locked' \subseteq Pages /\ \A q \in Pages : Owners(q) = {} \/ Owners(q) # {}
  BY DEF TypeOK
<1> USE KindsDiffer DEF TypeOK, PastInv, WedgedForOneWindow, Owners, Go, Writers, Service
<1>1. ASSUME NEW w \in Writers, Begins(w) PROVE PastInv'
  BY <1>1 DEF Begins
<1>2. ASSUME NEW w \in Writers, NEW p \in Pages, Acquires(w, p) PROVE PastInv'
  <2>1. \A q \in locked' : since'[q] <= now'
    BY <1>2 DEF Acquires, Lock
  <2>2. \A b \in Batches : at[b] = "write" => at'[b] = "write"
    BY <1>2 DEF Acquires, Asks, Answered
  <2>3. p \in holds'[w] /\ \A v \in Writers : holds[v] \subseteq holds'[v]
    BY <1>2 DEF Acquires
  <2>4. \A q \in locked' : q # p => q \in locked /\ since'[q] = since[q]
    BY <1>2 DEF Acquires, Lock
  <2> QED BY <1>2, <2>1, <2>2, <2>3, <2>4 DEF Acquires
<1>3. ASSUME NEW w \in Writers, NEW p \in Pages, Busy(w, p) PROVE PastInv'
  <2>1. \A b \in Batches : at[b] = "write" => at'[b] = "write"
    BY <1>3 DEF Busy, Asks, Answered
  <2> QED BY <1>3, <2>1 DEF Busy
<1>4. ASSUME NEW w \in Writers, NEW p \in Pages, Refused(w, p) PROVE PastInv'
  <2>1. \A b \in Batches : at[b] = "write" => at'[b] = "write"
    BY <1>4 DEF Refused, Asks, Answered
  <2>2. \/ UNCHANGED <<script, left>>
        \/ Lock(p) /\ left' = [left EXCEPT ![p] = now]
    BY <1>4 DEF Refused
  <2>3. UNCHANGED <<refresh, now, holds, stray>>
    BY <1>4 DEF Refused
  <2>4. CASE UNCHANGED <<script, left>>
    BY <2>1, <2>3, <2>4
  <2>5. CASE Lock(p) /\ left' = [left EXCEPT ![p] = now]
    <3>1. since'[p] = now /\ left'[p] = now
      BY <2>5 DEF Lock
    <3>2. \A q \in Pages \ {p} : since'[q] = since[q] /\ left'[q] = left[q] /\ (q \in locked' => q \in locked)
      BY <2>5 DEF Lock
    <3>3. \A q \in Pages : Owners(q)' = Owners(q)
      BY <2>3
    <3>4. \A b \in Batches : \A q \in refresh'[b] \ stray' : at'[b] = "write" /\ q \in holds'[b]
      BY <2>1, <2>3
    <3>5. (\A q \in locked' : since'[q] <= now') /\ WedgedForOneWindow'
      <4>a. \A q \in locked' : since'[q] = now \/ (q \in locked /\ since'[q] = since[q])
        BY <1>0, <2>3, <3>1, <3>2, <3>3
      <4>b. \A q \in locked' : Owners(q)' = {} =>
              left'[q] = now \/ (q \in locked /\ since'[q] = since[q] /\ Owners(q) = {} /\ left'[q] = left[q])
        BY <1>0, <2>3, <3>1, <3>2, <3>3
      <4> QED BY <2>3, <4>a, <4>b, Ages
    <3> QED BY <3>4, <3>5
  <2> QED BY <2>2, <2>4, <2>5
<1>5. ASSUME NEW w \in Writers, NEW p \in Pages, Forgets(w, p),
             locked' \subseteq locked, UNCHANGED <<call, refresh, since, now, stray>>
      PROVE  PastInv'
  <2>1. \A q \in Pages : q # p => left'[q] = left[q] /\ Owners(q)' = Owners(q)
    BY <1>5 DEF Forgets, Drop
  <2>2. left'[p] = now
    BY <1>5 DEF Forgets, Drop
  <2>3. at' = at /\ \A v \in Writers : v # w => holds'[v] = holds[v]
    BY <1>5 DEF Forgets, Drop
  <2> QED BY <1>5, <2>1, <2>2, <2>3 DEF Forgets
<1>6. ASSUME NEW w \in Writers, NEW p \in Pages, Releases(w, p) \/ ReleaseFails(w, p)
      PROVE  PastInv'
  BY <1>5, <1>6 DEF Releases, ReleaseFails
<1>7. ASSUME NEW w \in Writers, Ends(w) PROVE PastInv'
  <2>1. \A q \in Pages : left'[q] = left[q] \/ left'[q] = now
    BY <1>7 DEF Ends, Drop
  <2>2. \A q \in Pages : left'[q] = left[q] => Owners(q)' = Owners(q) \/ left'[q] = now
    BY <1>7 DEF Ends, Drop
  <2>3. \A v \in Writers : v # w => holds'[v] = holds[v] /\ at'[v] = at[v]
    BY <1>7 DEF Ends, Drop
  <2>4. w \in Batches => refresh[w] \subseteq stray'
    BY <1>7 DEF Ends
  <2>5. UNCHANGED <<script, now, refresh>> /\ stray \subseteq stray'
    BY <1>7 DEF Ends
  <2>6. (\A q \in locked' : since'[q] <= now') /\ WedgedForOneWindow'
    <3>a. \A q \in locked' : since'[q] = now \/ (q \in locked /\ since'[q] = since[q])
      BY <1>0, <2>1, <2>2, <2>5
    <3>b. \A q \in locked' : Owners(q)' = {} =>
            left'[q] = now \/ (q \in locked /\ since'[q] = since[q] /\ Owners(q) = {} /\ left'[q] = left[q])
      BY <1>0, <2>1, <2>2, <2>5
    <3> QED BY <2>5, <3>a, <3>b, Ages
  <2>7. \A b \in Batches : \A q \in refresh'[b] \ stray' : at'[b] = "write" /\ q \in holds'[b]
    BY <2>3, <2>4, <2>5
  <2> QED BY <2>6, <2>7
<1>8. ASSUME NEW w \in Writers, IsOver(w) PROVE PastInv'
  <2>1. \A q \in Pages : left'[q] = left[q] \/ left'[q] = now
    BY <1>8 DEF IsOver, Drop
  <2>2. \A q \in Pages : left'[q] = left[q] => Owners(q)' = Owners(q) \/ left'[q] = now
    BY <1>8 DEF IsOver, Drop
  <2>3. \A v \in Writers : v # w => holds'[v] = holds[v] /\ at'[v] = at[v]
    BY <1>8 DEF IsOver, Drop
  <2>4. UNCHANGED <<script, now, refresh, stray>> /\ at[w] # "write"
    BY <1>8 DEF IsOver
  <2>5. (\A q \in locked' : since'[q] <= now') /\ WedgedForOneWindow'
    BY <2>1, <2>2, <2>4, Ages
  <2>6. \A b \in Batches : \A q \in refresh'[b] \ stray' : at'[b] = "write" /\ q \in holds'[b]
    BY <2>3, <2>4
  <2> QED BY <2>5, <2>6
<1>9. ASSUME NEW b \in Batches, Starts(b) PROVE PastInv'
  BY <1>9 DEF Starts
<1>10. ASSUME NEW b \in Batches, RefreshBegins(b) PROVE PastInv'
  BY <1>10 DEF RefreshBegins, PathInv
<1>11. ASSUME NEW b \in Batches, NEW p \in Pages, Refreshes(b, p) PROVE PastInv'
  <2>1. p \in stray \/ Owners(p) # {}
    BY <1>11 DEF Refreshes
  <2> QED BY <1>11, <2>1 DEF Refreshes, Lock
<1>12. ASSUME NEW b \in Batches, NEW p \in Pages, RefreshFails(b, p) PROVE PastInv'
  BY <1>12 DEF RefreshFails
<1>13. ASSUME NEW K, Crash(K) PROVE PastInv'
  <2>1. ASSUME NEW q \in Pages, \A v \in K : q \notin holds[v]
        PROVE  left'[q] = left[q] /\ Owners(q)' = Owners(q)
    <3>1. \A v \in Writers : q \in holds'[v] <=> q \in holds[v]
      BY <1>13, <2>1 DEF Crash
    <3> QED BY <1>13, <2>1, <3>1 DEF Crash
  <2>2. \A q \in Pages : (\E v \in K : q \in holds[v]) => left'[q] = now
    BY <1>13 DEF Crash
  <2>3. \A b \in Batches : refresh'[b] # {} =>
           at'[b] = at[b] /\ holds'[b] = holds[b] /\ refresh'[b] = refresh[b]
    BY <1>13 DEF Crash
  <2>4. UNCHANGED <<script, now, stray>>
    BY <1>13 DEF Crash
  <2>5. (\A q \in locked' : since'[q] <= now') /\ WedgedForOneWindow'
    <3>a. \A q \in locked' : since'[q] = now \/ (q \in locked /\ since'[q] = since[q])
      BY <1>0, <2>1, <2>2, <2>4
    <3>b. \A q \in locked' : Owners(q)' = {} =>
            left'[q] = now \/ (q \in locked /\ since'[q] = since[q] /\ Owners(q) = {} /\ left'[q] = left[q])
      BY <1>0, <2>1, <2>2, <2>4
    <3> QED BY <2>4, <3>a, <3>b, Ages
  <2>6. \A b \in Batches : \A q \in refresh'[b] \ stray' : at'[b] = "write" /\ q \in holds'[b]
    BY <2>3, <2>4
  <2> QED BY <2>5, <2>6
<1>14. CASE Tick
  BY <1>14 DEF Tick
<1>15. CASE UNCHANGED vars
  BY <1>15 DEF vars
<1> QED
  BY <1>1, <1>2, <1>3, <1>4, <1>6, <1>7, <1>8, <1>9, <1>10, <1>11, <1>12, <1>13,
     <1>14, <1>15 DEF Next, Step, Refresh

\* A crashed holder wedges a page no longer than its lock takes to get stale.
THEOREM WedgedForOneWindowAlways == Spec => []WedgedForOneWindow
<1>1. Inv /\ Inv' /\ PastInv /\ [Next]_vars => PastInv'
  BY PastStep DEF Inv
<1>2. PastInv => WedgedForOneWindow
  BY DEF PastInv
<1> QED BY InvAlways, PastInit, <1>1, <1>2, PTL DEF Spec
=============================================================================
