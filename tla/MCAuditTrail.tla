---------------------------- MODULE MCAuditTrail ----------------------------
(* An instance of AuditTrail for TLC: two events of the workspace that is     *)
(* read and one of its neighbour's.                                           *)
EXTENDS AuditTrail

=============================================================================
