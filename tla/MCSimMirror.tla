----------------------------- MODULE MCSimMirror ------------------------------
(* SimMirror on two bundles, as many addresses, so that freed ones are     *)
(* used again, and two mirrors for one place.                              *)
EXTENDS SimMirror, TLC

MirrorSymmetry ==
    Permutations(MPorts) \cup Permutations(Mbundles) \cup Permutations(Mirrors)
=============================================================================
