------------------------------- MODULE MCDfs -------------------------------
(***************************************************************************)
(* Instances of Dfs for TLC.  Names and servers are model values; what      *)
(* tells one file from the other is only its place in the directory, so     *)
(* the names are symmetric.                                                 *)
(***************************************************************************)
EXTENDS Dfs

MCSymmetry == Permutations(Name)
=============================================================================
