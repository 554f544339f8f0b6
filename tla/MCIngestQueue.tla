--------------------------- MODULE MCIngestQueue ---------------------------
(***************************************************************************)
(* Instances of IngestQueue for TLC.                                       *)
(***************************************************************************)
EXTENDS IngestQueue, TLC

CONSTANTS b1   \* the one batch of these instances

\* Job 1 standalone, job 2 a member of the batch.
OneAndMember == <<NoBatch, b1>>
BatchOfTwo  == <<b1, b1>>
AllSingle   == [j \in Jobs |-> NoBatch]
Symmetry    == Permutations(Slots)
=============================================================================
