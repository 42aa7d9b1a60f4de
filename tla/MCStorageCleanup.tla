--------------------------- MODULE MCStorageCleanup ---------------------------
(* Values TLC needs for StorageCleanup: one row has an upload and a         *)
(* thumbnail, another an upload, and one file may belong to no row.         *)
EXTENDS StorageCleanup, TLC

CONSTANTS a1, a2, w1, w2, r1, r2, f1, f2, f3

OneRow == r1 :> {f1, f2}
TwoRows == r1 :> {f1} @@ r2 :> {f2}
=============================================================================
