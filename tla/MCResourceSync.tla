--------------------------- MODULE MCResourceSync ---------------------------
(* ResourceSync for TLC.                                                     *)
EXTENDS ResourceSync, TLC

AnyUid == Permutations(Uids)
=============================================================================
