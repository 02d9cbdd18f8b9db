---------------------------- MODULE MCStatusReads ----------------------------
(* StatusReads for TLC: version identifiers are interchangeable.           *)
EXTENDS StatusReads, TLC

VersionSymmetry == Permutations(Versions)
=============================================================================
