--------------------------- MODULE MCUdpRouting -----------------------------
(***************************************************************************)
(* UdpRouting for TLC: two users, one with a token, and two datagrams in   *)
(* flight, so that two reloads may overlap.                                *)
(***************************************************************************)
EXTENDS UdpRouting, TLC

CONSTANTS u1, u2, t1

MCOwner == t1 :> u1
TaskSymmetry == Permutations(Task)
=============================================================================
