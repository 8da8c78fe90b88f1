-------------------------- MODULE MCSharedMigration --------------------------
EXTENDS SharedMigration, TLC
CONSTANTS d1, d2, u1, u2, c1, c2, x, y

Old(b) == [callsign |-> c1, body |-> b, padded |-> FALSE, deleted |-> FALSE,
           stamped |-> FALSE, rowHash |-> None]
Newer(r) == Padded(Stamped(r))

(* As the first version left it, as one before rowHash did, and with rowHash,
   with a TIME_ON of six digits and of four. *)
MCLegacy == {Old(x), Newer(Old(x)), Hashed(Newer(Old(y))), Hashed(Stamped(Old(x)))}

MCSymmetry == Permutations({d1, d2}) \cup Permutations({u1, u2})
=============================================================================
