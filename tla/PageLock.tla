------------------------------ MODULE PageLock ------------------------------
(***************************************************************************)
(* What the vault's lock on a page promises its writers: one of them at a  *)
(* time, for as long as no lock on the page outlives the age at which it   *)
(* is taken for stale. WikiLock implements it; PageWrites relies on it.    *)
(***************************************************************************)
CONSTANTS Writers, Pages

VARIABLES owner,  \* per page: the writers that go by its lock
          broken  \* pages on which a lock has outlived its window

vars == <<owner, broken>>

Init == /\ owner = [p \in Pages |-> {}]
        /\ broken = {}

\* Only a free page, or one whose lock is no lock any more.
Take(w, p) ==
  /\ owner[p] \subseteq {w} \/ p \in broken
  /\ owner' = [owner EXCEPT ![p] = @ \cup {w}]
  /\ UNCHANGED broken

\* Some writers let go of some pages: a batch drops what it lost all at once,
\* and a crash takes every writer of the process with it.
LetGo ==
  /\ \A p \in Pages : owner'[p] \subseteq owner[p]
  /\ owner' \in [Pages -> SUBSET Writers]
  /\ UNCHANGED broken

Break ==
  /\ broken \subseteq broken' /\ broken' \subseteq Pages
  /\ UNCHANGED owner

Next == (\E w \in Writers, p \in Pages : Take(w, p)) \/ LetGo \/ Break

Spec == Init /\ [][Next]_vars

Exclusive ==
  \A p \in Pages \ broken : \A v, w \in owner[p] : v = w
=============================================================================
