------------------------------ MODULE MCDomains ------------------------------
(***************************************************************************)
(* Instances of domains and claims for TLC.                                *)
(***************************************************************************)
EXTENDS Domains, TLC

CONSTANTS A, B, C

Symmetry == Permutations(Teams)
=============================================================================
