-------------------------- MODULE MCAdminAccounts ---------------------------
(***************************************************************************)
(* AdminAccounts for TLC: ADMIN_USERNAME is a1 or a2, so that there may be *)
(* two administrators; o1 is a name left for an operator.                  *)
(***************************************************************************)
EXTENDS AdminAccounts, TLC

AccountSymmetry == Permutations(Request)
=============================================================================
