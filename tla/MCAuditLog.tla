----------------------------- MODULE MCAuditLog -----------------------------
(* Instance of AuditLog. *)
EXTENDS AuditLog
=============================================================================
