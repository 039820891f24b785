---------------------------- MODULE MCManualSend -----------------------------
(* Instances of ManualSend for TLC. *)
EXTENDS ManualSend, TLC

ServerSymmetry == Permutations(Server)
==============================================================================
