---------------------------- MODULE MCNightShift ----------------------------
(***************************************************************************)
(* Instances of NightShift for TLC: Ada is asked, Ben acts by himself.     *)
(***************************************************************************)
EXTENDS NightShift, TLC

CONSTANTS ada, ben, a1, a2, b1

TwoAuthors == (a1 :> ada) @@ (b1 :> ben)
OneAuthor == (a1 :> ada) @@ (a2 :> ada)
SoleAuthor == (a1 :> ada)
BothAsked == [f \in Crew |-> "veto"]
OneAuto   == [f \in Crew |-> IF f = ben THEN "auto" ELSE "veto"]
OneEach   == [f \in Crew |-> 1]
=============================================================================
