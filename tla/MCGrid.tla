------------------------------- MODULE MCGrid -------------------------------
(* Small instances of Grid for TLC.                                        *)
EXTENDS Grid, TLC

CONSTANTS t1, t2, linux, windows

\* One task for any system, one for Windows only.
MCTaskOS == [t \in Task |-> IF t = t2 THEN windows ELSE AnyOS]
=============================================================================
