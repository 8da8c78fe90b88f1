----------------------------- MODULE MCAclogSync -----------------------------
(***************************************************************************)
(* AclogSync for TLC: the second contact is the first one again two        *)
(* minutes later, with the OPERATOR field of another.                      *)
(***************************************************************************)
EXTENDS AclogSync, TLC

MCMyCall == <<"none", "none">>
MCOp == <<"own", "other">>
MCMinute == <<0, 2>>
SyncSymmetry == Permutations(Sync)
=============================================================================
