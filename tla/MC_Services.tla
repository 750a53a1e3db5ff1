---------------------------- MODULE MC_Services ----------------------------
(***************************************************************************)
(* Small instances of what the containers around the Handler share: the    *)
(* review server's registry of jobs and memory of aggregations, and the    *)
(* directory of a run. They have no state in common, so that one run       *)
(* explores them beside each other: part says which one moves.             *)
(***************************************************************************)
EXTENDS JobRegistry, AggregateCache, StoredRun

VARIABLE part   \* never changes

allVars == <<part, jobVars, cacheVars, runVars>>

MC_Init ==
  /\ part \in {"jobs", "cache", "run"}
  /\ JobsInit /\ CacheInit /\ RunInit
  /\ part # "cache" => grows
  /\ part # "run" => ~batch

MC_Next ==
  \/ part = "jobs" /\ JobsNext /\ UNCHANGED <<part, cacheVars, runVars>>
  \/ part = "cache" /\ CacheNext /\ UNCHANGED <<part, jobVars, runVars>>
  \/ part = "run" /\ RunNext /\ UNCHANGED <<part, jobVars, cacheVars>>

MC_Spec == MC_Init /\ [][MC_Next]_allVars /\ JobsFairness
=============================================================================
