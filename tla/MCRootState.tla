---------------------------- MODULE MCRootState -----------------------------
(* Three readers on one root: two queries in flight at once and a third    *)
(* read served from the cache; TTL 2 and a query of up to 2 seconds.       *)
EXTENDS RootState, TLC

ReaderSymmetry == Permutations(Readers)
=============================================================================
