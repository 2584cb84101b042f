------------------------------ MODULE MCAccess ------------------------------
(***************************************************************************)
(* Instances of Access for model checking: two browsers that compete for   *)
(* one address, with a right and a wrong password.                         *)
(***************************************************************************)
EXTENDS Access, TLC

BrowserSymmetry == Permutations(Clients) \cup Permutations(Passwords)
=============================================================================
