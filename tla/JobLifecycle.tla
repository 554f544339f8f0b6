---------------------------- MODULE JobLifecycle ----------------------------
(***************************************************************************)
(* What the job store promises about one row of the jobs table, whatever   *)
(* the queue, the API routes and the recovery after a crash do to it: the  *)
(* transition table of db/jobs.ts, rows that appear once and are removed   *)
(* only at rest, and nothing that ever brings a finished job back.         *)
(*                                                                         *)
(* IngestQueue implements this specification (its property Lifecycle).     *)
(***************************************************************************)
CONSTANT Jobs

VARIABLE status    \* the status column; "none" before the row exists, "removed" after

Status == {"none", "queued", "preprocessing", "ingesting", "done", "failed",
           "deferred", "duplicate", "cancelled", "removed"}

Active == {"preprocessing", "ingesting"}

\* CLEARABLE_STATUSES: what is at rest, and may be removed from the history.
Settled == {"done", "failed", "deferred", "duplicate", "cancelled"}

\* ALLOWED_TRANSITIONS, the statuses store.transition accepts from each status.
Allowed == [s \in Status |->
  CASE s = "queued"        -> {"preprocessing", "cancelled", "failed"}
    [] s = "preprocessing" -> {"ingesting", "deferred", "failed", "cancelled", "duplicate"}
    [] s = "ingesting"     -> {"done", "failed", "cancelled"}
    [] s \in {"failed", "deferred"} -> {"queued", "cancelled"}
    [] OTHER -> {}]

(***************************************************************************)
(* One turn of the event loop may ask for two transitions of a row: a      *)
(* failed run is requeued before anyone can look at it, and a row is       *)
(* created and failed when its file cannot be staged.                      *)
(***************************************************************************)
Created == {"queued", "duplicate", "failed"}

Successors(s) ==
  CASE s = "none"    -> Created
    [] s \in Settled -> Allowed[s] \cup {"removed"}
    [] s \in Active  -> Allowed[s] \cup {"queued"}
    [] OTHER         -> Allowed[s]

Init == status = [j \in Jobs |-> "none"]

\* A batch moves together, so several rows may move in one step.
Next == /\ status' \in [Jobs -> Status]
        /\ \A j \in Jobs : \/ status'[j] = status[j]
                           \/ status'[j] \in Successors(status[j])

Spec == Init /\ [][Next]_status
=============================================================================
