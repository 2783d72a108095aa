--------------------------- MODULE MCParamsCache ----------------------------
(* Three calls and two changes of the params.                              *)
EXTENDS ParamsCache, TLC

MCVersions == 0 .. 2
CallSymmetry == Permutations(Calls)
=============================================================================
