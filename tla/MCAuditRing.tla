----------------------------- MODULE MCAuditRing -----------------------------
(* A small instance of AuditRing: one subscriber that may leave and one that stays. *)
EXTENDS AuditRing

CONSTANTS early, late

=============================================================================
