----------------------------- MODULE MCReactor ------------------------------
(* Instances of Reactor for TLC. *)
EXTENDS Reactor, TLC

Symmetry == Permutations(Workers) \cup Permutations(Conns)
=============================================================================
