--------------------------- MODULE MCCatalogCache ---------------------------
(* TLC: admin processes and the slots of the tasks are interchangeable.    *)
EXTENDS CatalogCache, TLC

Symmetry == Permutations(Admins) \cup Permutations(Slots \ {Warm})
=============================================================================
