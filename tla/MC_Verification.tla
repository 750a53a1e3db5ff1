-------------------------- MODULE MC_Verification ---------------------------
(* Small instances of Verification: a server with two threads and a command. *)
EXTENDS Verification, TLC

CONSTANTS thread1, thread2, command, server, terminal, pid1, pid2

MC_Home == [c \in Pass |-> IF c = command THEN terminal ELSE server]
MC_PidOf == [p \in Process |-> IF p = server THEN pid1 ELSE pid2]

\* Tasks are taken in any order.
TaskSymmetry == Permutations(Task)
=============================================================================
