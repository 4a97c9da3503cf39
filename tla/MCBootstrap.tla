---------------------------- MODULE MCBootstrap ----------------------------
(* Small instances of Bootstrap for TLC.                                   *)
EXTENDS Bootstrap, TLC

MCSymmetry == Permutations(Process) \cup Permutations(Bundle)
=============================================================================
