-------------------------- MODULE MCStorageLanding --------------------------
(* Two keys and three contents, one of them refused by the parsers where the *)
(* configuration says so.                                                    *)
EXTENDS StorageLanding, TLC

CONSTANTS k1, k2, good, better, bad

KeySymmetry == Permutations(Key)
=============================================================================
