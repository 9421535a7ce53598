------------------------------ MODULE MCLogins ------------------------------
(* Values of the constants of Logins for model checking.                     *)
EXTENDS Logins, TLC

LoginSymmetry == Permutations(Requests \ {Boot}) \union Permutations(AccountIds)
=============================================================================
