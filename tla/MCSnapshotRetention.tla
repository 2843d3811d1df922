------------------------ MODULE MCSnapshotRetention ------------------------
(* Instances of SnapshotRetention for TLC.                                 *)
EXTENDS SnapshotRetention, TLC

CONSTANTS a, b, j1, j2

\* Jobs differ only in their identity.
Symmetry == Permutations(Job)
=============================================================================
