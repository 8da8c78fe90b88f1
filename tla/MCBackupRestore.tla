--------------------------- MODULE MCBackupRestore --------------------------
(***************************************************************************)
(* BackupRestore for TLC: api_tokens sorts before users and one operator's *)
(* log after it; a second user has a token and a QSO.                      *)
(***************************************************************************)
EXTENDS BackupRestore, TLC

CONSTANTS u1, u2, t2, q2

MCColl == {"api_tokens", "users", "zoe_qsos"}
MCRank == ("api_tokens" :> 1) @@ ("users" :> 2) @@ ("zoe_qsos" :> 3)
MCPermanent == {"api_tokens", "users"}
MCLogs == {"zoe_qsos"}
MCHome == (u1 :> "users") @@ (u2 :> "users") @@ (t2 :> "api_tokens") @@ (q2 :> "zoe_qsos")
MCNeeds == (u1 :> NoDoc) @@ (u2 :> NoDoc) @@ (t2 :> u2) @@ (q2 :> u2)
JobSymmetry == Permutations(Job)
=============================================================================
