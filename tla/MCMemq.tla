------------------------------- MODULE MCMemq -------------------------------
(* Instances of the broker, its observer and its refinement for TLC. *)
EXTENDS MemqBrokerInv, MemqRefinement, MemqLinearizability, TLC

Symmetry == Permutations(Requests) \cup Permutations(Names)
=============================================================================
