---------------------------- MODULE MCMachineApi ----------------------------
EXTENDS MachineApi, TLC
Symmetry == Permutations(Machine) \cup Permutations(Worker)
            \cup Permutations(Mac)
(* The columns that the migration and both run models define. *)
MigratedColumns == {"id", "machine_id", "blueprint_id", "status", "started_at",
                    "finished_at", "logs"}
(* With the column that the query of fetchRecentRuns expects. *)
QueriedColumns == MigratedColumns \cup {"created_at"}
=============================================================================
