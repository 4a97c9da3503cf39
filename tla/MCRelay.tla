------------------------------ MODULE MCRelay ------------------------------
(* Small instances of Relay for TLC.                                       *)
EXTENDS Relay, TLC

MCSymmetry == Permutations(Agent) \cup Permutations(MsgId)
=============================================================================
