---------------------------- MODULE MCAclogBridge ----------------------------
EXTENDS AclogBridge

(* A shared computer: contacts with the OPERATOR field of the operator or of
   somebody else, and one with a MYCALL of its own. *)
MCIdentity == {
  [mycall |-> "none", operator |-> "own"],
  [mycall |-> "none", operator |-> "other"],
  [mycall |-> "club", operator |-> "other"]}
=============================================================================
