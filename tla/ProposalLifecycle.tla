------------------------- MODULE ProposalLifecycle -------------------------
(***************************************************************************)
(* What a proposal of a Fellow may live through (db/proposals.ts, the      *)
(* decisions of fellows.ts), whoever decides, merges, runs or retires: a   *)
(* veto can only be taken back by a decision, a topic the user approved is *)
(* never merged away, and a topic runs once.                               *)
(*                                                                         *)
(* Fellows and NightShift together implement this (ImplementsLifecycle).   *)
(***************************************************************************)
CONSTANTS Proposals,
          Standing    \* proposals made before

VARIABLE proposal   \* the status column; "none" before the row exists

Pending   == {"proposed", "approved"}
Decidable == Pending \cup {"vetoed"}
Closed    == {"executed", "expired", "superseded"}

Successors(s) ==
  CASE s = "none"     -> {"proposed"}
    [] s = "proposed" -> Decidable \cup Closed
    [] s = "approved" -> Decidable \cup {"executed", "expired"}
    [] s = "vetoed"   -> Decidable
    [] OTHER          -> {}

Init == proposal = [p \in Proposals |-> IF p \in Standing THEN "proposed" ELSE "none"]

\* A plan, a merge and a retirement move several at once.
Next == /\ proposal' \in [Proposals -> {"none"} \cup Decidable \cup Closed]
        /\ \A p \in Proposals : \/ proposal'[p] = proposal[p]
                                \/ proposal'[p] \in Successors(proposal[p])

Spec == Init /\ [][Next]_proposal
=============================================================================
