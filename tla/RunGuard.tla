------------------------------ MODULE RunGuard ------------------------------
(***************************************************************************)
(* The overlap guard that starts foundry_aircraft_reconcile,               *)
(* foundry_flight_reconcile, foundry_flight_enrichment,                    *)
(* foundry_flight_archive and foundry_cases_reconcile: a run asks the run  *)
(* storage of Dagster for the runs of its job that are queued, starting,   *)
(* started or being canceled, and skips if there is one beside itself.     *)
(*                                                                         *)
(* Run monitoring is off (pipelines/dagster.yaml): a run whose process     *)
(* dies stays started until an operator ends it.                           *)
(***************************************************************************)
CONSTANTS
    Slots,          \* runs of one job there can be at once
    Prompt          \* whether a run has decided before the next is launched

ASSUME GuardAssumption == Prompt \in BOOLEAN

VARIABLE status     \* of each run, in the run storage and in its process

Statuses == {"none", "launched", "working", "skipping", "dead"}

GuardInit == status = [r \in Slots |-> "none"]

\* Queued, starting, started or canceling to the run storage.
Active(r) == status[r] # "none"

\* The schedule of the job fires.
Launch(r) ==
    /\ status[r] = "none"
    /\ Prompt => \A q \in Slots : status[q] \in {"none", "working", "dead"}
    /\ status' = [status EXCEPT ![r] = "launched"]

\* Mutant: only the runs that have not started are asked for.
BugCheck(r) ==
    /\ status[r] = "launched"
    /\ status' = [status EXCEPT ![r] =
                    IF \E q \in Slots \ {r} : status[q] = "launched" THEN "skipping" ELSE "working"]

\* Mutant: the run is not told from the others.
BugAlone(r) ==
    /\ status[r] = "launched"
    /\ status' = [status EXCEPT ![r] =
                    IF \E q \in Slots : Active(q) THEN "skipping" ELSE "working"]

\* get_run_records, and the comparison of the run ids.
Check(r) ==
    /\ status[r] = "launched"
    /\ status' = [status EXCEPT ![r] =
                    IF \E q \in Slots \ {r} : Active(q) THEN "skipping" ELSE "working"]

\* The run ends, its work done, failed or skipped.
Leave(r) ==
    /\ status[r] \in {"working", "skipping"}
    /\ status' = [status EXCEPT ![r] = "none"]

Die(r) ==
    /\ status[r] \in {"launched", "working", "skipping"}
    /\ status' = [status EXCEPT ![r] = "dead"]

\* An operator deletes or terminates the run.
Clear(r) ==
    /\ status[r] = "dead"
    /\ status' = [status EXCEPT ![r] = "none"]

GuardNext ==
    \E r \in Slots : Launch(r) \/ Check(r) \/ Leave(r) \/ Die(r) \/ Clear(r)

-----------------------------------------------------------------------------

\* At most one run of the job works, however they are launched and die.
OneWorks == \A q, r \in Slots : status[q] = "working" /\ status[r] = "working" => q = r
=============================================================================
