----------------------------- MODULE MCClassifier -----------------------------
(* Three lists for TLC, with hashes that make them share buckets.          *)
EXTENDS Classifier, TLC

CONSTANTS l1, l2, l3, p1, p2, lag

(* All three are in one bucket at first; when the table grows, the first   *)
(* two still are.                                                          *)
MCHash == (l1 :> 0) @@ (l2 :> 4) @@ (l3 :> 1)

(* The interfaces of the LAG are interchangeable.                          *)
MCSymmetry == Permutations(ClsPorts)
=============================================================================
