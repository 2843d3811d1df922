----------------------------- MODULE MCCameraPeer -----------------------------
(* Instances of CameraPeer for TLC.                                        *)
EXTENDS CameraPeer, TLC

CONSTANTS c1, c2

\* Callers differ only in their identity.  (Safety runs only.)
Symmetry == Permutations(Caller)
=============================================================================
