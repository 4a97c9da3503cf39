--------------------------- MODULE MCCoordinator ---------------------------
(* Small instances of Coordinator for TLC.                                 *)
EXTENDS Coordinator, TLC

CONSTANTS t1, t2, linux, windows

\* One task for any system, one for Windows only.
MCTaskOS == [t \in Task |-> IF t = t2 THEN windows ELSE AnyOS]

MCSymmetry == Permutations(WorkerId) \cup Permutations(JobId)
                \cup Permutations(Attempt) \cup Permutations(Code)
=============================================================================
