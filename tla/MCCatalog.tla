----------------------------- MODULE MCCatalog -----------------------------
(* Small instances of the catalog for TLC. *)
EXTENDS Catalog, TLC

Symmetry == Permutations(Sessions) \cup Permutations(Names)
=============================================================================
