------------------------------ MODULE MCEnlist ------------------------------
(* Small instances of Enlist for TLC.                                      *)
EXTENDS Enlist, TLC

CONSTANTS h1, linux

MCTaskOS == [t \in Task |-> AnyOS]
\* Every process on the one machine, or each on a machine of its own.
MCHomeOf == [p \in Proc |-> h1]
MCOwnHome == [p \in Proc |-> p]

MCSymmetry == Permutations(WorkerId) \cup Permutations(Proc) \cup Permutations(Code)
=============================================================================
