------------------------------ MODULE MC_Files ------------------------------
(***************************************************************************)
(* Small instances of what processes share as files: the lock of the       *)
(* verification runner when passes overlap, the locks and the session file *)
(* of the Handler, and the weights it copies. They have no state in        *)
(* common, so that one run explores them beside each other: part says      *)
(* which one moves.                                                        *)
(***************************************************************************)
EXTENDS MC_Verification, Lifecycle, Resources

VARIABLE part   \* never changes

MC_Init ==
  /\ part \in {"passes", "lifecycle", "resources"}
  /\ Init /\ LifecycleInit /\ ResourcesInit
  /\ part # "resources" =>
       /\ docker /\ \A i \in DOMAIN image : image[i] = "ready"
       /\ \A m \in Copied : source[m] = "pinned" /\ placed[m] = "pinned"

MC_Next ==
  /\ UNCHANGED part
  /\ \/ part = "passes" /\ Next /\ UNCHANGED <<lifecycleVars, resourceVars>>
     \/ part = "lifecycle" /\ LifecycleNext /\ UNCHANGED <<vars, resourceVars>>
     \/ part = "resources" /\ ResourcesNext /\ UNCHANGED <<vars, lifecycleVars>>

MC_Spec == MC_Init /\ [][MC_Next]_<<part, vars, lifecycleVars, resourceVars>>

\* Commands are alike.
MC_Symmetry == Permutations(Invocation)
=============================================================================
