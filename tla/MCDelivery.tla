----------------------------- MODULE MCDelivery ------------------------------
(* Instances of Delivery for TLC. *)
EXTENDS Delivery, TLC

\* Servers, keys and texts are interchangeable.
AllSymmetry == Permutations(Server) \cup Permutations(Key) \cup Permutations(Text)
==============================================================================
