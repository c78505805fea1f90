------------------------------ MODULE MCShmPool ------------------------------
(* ShmPool with pools as model values, which are interchangeable.            *)
EXTENDS ShmPool, TLC

Symmetry == Permutations(Pool)
=============================================================================
