-------------------------- MODULE MaintenanceRuns --------------------------
(***************************************************************************)
(* The register of runs (maintenance.ts): every agent run that is not an   *)
(* ingest waits here for its turn, is on record while it runs and after,   *)
(* and tells one listener how it ended. The register keeps RunCap records  *)
(* and drops the oldest, running or not; a run whose record is gone ends   *)
(* without a word. What a run does to the vault is in VaultCommit.         *)
(*                                                                         *)
(* Runs are numbered in the order they are started.                        *)
(***************************************************************************)
EXTENDS Integers, FiniteSets

CONSTANTS MaxRuns,  \* bound: runs in a behaviour
          RunCap    \* RUN_HISTORY_CAP

ASSUME RunBounds == MaxRuns \in Nat /\ RunCap \in Nat \ {0}

Runs  == 1..MaxRuns
NoRun == 0

Stages == {"none", "queued", "works", "done", "error", "lost"}
Kinds  == {"none", "plan", "step", "deepen", "hot", "other", "index"}

VARIABLES
  count,     \* runs started
  stage,     \* per run: how far it is, whether or not its record is kept
  kind,      \* per run
  board,     \* the runs on record (this.runs)
  listener,  \* runs somebody waits for (settledCallbacks)
  ledger,    \* runs written to agent_runs and maintenance_state: survives a crash
  hotToday   \* the hot cache was refreshed today (autoHotCacheDate)

register == <<count, stage, kind, board, listener, ledger, hotToday>>

RunsInit ==
  /\ count = 0
  /\ stage = [r \in Runs |-> "none"] /\ kind = [r \in Runs |-> "none"]
  /\ board = {} /\ listener = {} /\ ledger = {} /\ hotToday = FALSE

RunsTypeOK ==
  /\ count \in 0..MaxRuns
  /\ stage \in [Runs -> Stages] /\ kind \in [Runs -> Kinds]
  /\ board \subseteq Runs /\ listener \subseteq Runs /\ ledger \subseteq Runs
  /\ hotToday \in BOOLEAN

-----------------------------------------------------------------------------
Running(r) == stage[r] \in {"queued", "works"}
Over(r)    == stage[r] \in {"done", "error"}

Verdict(ok) == IF ok THEN "done" ELSE "error"

\* evictOldRuns: the youngest RunCap records stay.
Kept(b) == {r \in b : Cardinality({q \in b : q > r}) < RunCap}

Next1 == count + 1

\* The registration of run Next1; `heard`: its starter listens for its end.
Starts(k, heard) ==
  /\ count < MaxRuns
  /\ count' = Next1
  /\ stage' = [stage EXCEPT ![Next1] = "queued"]
  /\ kind' = [kind EXCEPT ![Next1] = k]
  /\ board' = Kept(board \cup {Next1})
  /\ listener' = (listener \cap board') \cup (IF heard THEN {Next1} ELSE {})
  /\ UNCHANGED <<ledger, hotToday>>

\* One mutex for the retrieval index and one for everything else, both fair.
Lane(r) == {q \in Runs : (kind[q] = "index") = (kind[r] = "index")}

Admit(r) ==
  /\ stage[r] = "queued"
  /\ \A q \in Lane(r) : stage[q] # "works" /\ (q < r => stage[q] # "queued")
  /\ stage' = [stage EXCEPT ![r] = "works"]
  /\ UNCHANGED <<count, kind, board, listener, ledger, hotToday>>

\* settle: the record and the ledger get the outcome and the listener is told.
Ends(r, ok) ==
  /\ stage[r] = "works"
  /\ stage' = [stage EXCEPT ![r] = Verdict(ok)]
  /\ ledger' = ledger \cup ({r} \cap board)
  /\ listener' = listener \ {r}
  /\ UNCHANGED <<count, kind, board, hotToday>>

\* A run that wrote and left the hot cache too large queues a refresh, before
\* it is settled: the refresh may push the run's own record out.
Oversized(r) ==
  /\ kind[r] \in {"step", "deepen", "other"} /\ ~hotToday
  /\ \A q \in board : kind[q] = "hot" => ~Running(q)

EndsOversized(r, ok) ==
  /\ stage[r] = "works" /\ Oversized(r)
  /\ count < MaxRuns
  /\ count' = Next1 /\ hotToday' = TRUE
  /\ stage' = [stage EXCEPT ![r] = Verdict(ok), ![Next1] = "queued"]
  /\ kind' = [kind EXCEPT ![Next1] = "hot"]
  /\ board' = Kept(board \cup {Next1})
  /\ ledger' = ledger \cup ({r} \cap board')
  /\ listener' = (listener \cap board') \ {r}

\* The listener, told of the end, starts another run at once and listens to it.
EndsAndStarts(r, ok, k) ==
  /\ stage[r] = "works"
  /\ count < MaxRuns
  /\ count' = Next1
  /\ stage' = [stage EXCEPT ![r] = Verdict(ok), ![Next1] = "queued"]
  /\ kind' = [kind EXCEPT ![Next1] = k]
  /\ board' = Kept(board \cup {Next1})
  /\ ledger' = ledger \cup ({r} \cap board)
  /\ listener' = ((listener \ {r}) \cap board') \cup {Next1}
  /\ UNCHANGED hotToday

\* settle finds the record and a callback.
Told(r) == r \in board \cap listener

\* The process dies: what was under way is lost, and so is the register.
RunsLost ==
  /\ stage' = [r \in Runs |-> IF Running(r) THEN "lost" ELSE stage[r]]
  /\ board' = {} /\ listener' = {} /\ hotToday' = FALSE
  /\ UNCHANGED <<count, kind, ledger>>
=============================================================================
