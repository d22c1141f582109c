--------------------------- MODULE MCVersionPages ---------------------------
(* Instances of VersionPages for TLC: limits below, in and above the range. *)
EXTENDS VersionPages

SomeLimits == {NoNumber, -1, 0, 1, 2, 3, 4}
=============================================================================
