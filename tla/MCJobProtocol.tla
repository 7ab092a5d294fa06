---------------------------- MODULE MCJobProtocol ----------------------------
(* The worker names are interchangeable in every safety run.               *)
EXTENDS JobProtocol, TLC

Symmetry == Permutations(Workers)
=============================================================================
