----------------------------- MODULE MCWikiLock -----------------------------
(***************************************************************************)
(* Instances of WikiLock for TLC.                                          *)
(***************************************************************************)
EXTENDS WikiLock, TLC

\* Everybody passes the service's window.
OneWindow == [w \in Writers |-> 2]
\* A session outside the service reaps after its own, shorter default.
ShortAgent == [w \in Writers |-> IF w \in Agents THEN 1 ELSE 2]
Symmetry == Permutations(Pages)
=============================================================================
