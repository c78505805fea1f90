-------------------------- MODULE MCObjectLifecycle --------------------------
(* ObjectLifecycle with goroutines and proxies as model values.             *)
EXTENDS LeaseInvariant, TLC

\* The goroutines are interchangeable, and so are the proxies of each kind.
Symmetry == Permutations(Thread) \cup Permutations(Ordinary) \cup Permutations(Callback)
=============================================================================
