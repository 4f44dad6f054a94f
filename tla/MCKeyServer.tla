----------------------------- MODULE MCKeyServer -----------------------------
(* Symmetry of the key server's constants, for runs without a liveness      *)
(* property and without a configured boot key.                              *)
EXTENDS KeyServer, TLC

Symmetry == Permutations(Admins) \cup Permutations(Keys) \cup Permutations(Repos)
=============================================================================
