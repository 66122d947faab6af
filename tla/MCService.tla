------------------------------ MODULE MCService ------------------------------
(* Service on small instances.  Lifecycles and endpoints are interchangeable *)
(* model values; the runs of liveness properties do not use the symmetry.    *)
EXTENDS Service, TLC

Symmetry == Permutations(Lifecycle) \union Permutations(Target)

=============================================================================
