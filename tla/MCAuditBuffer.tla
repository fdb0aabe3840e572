---------------------------- MODULE MCAuditBuffer ----------------------------
(* AuditBuffer on a small instance.                                         *)
EXTENDS AuditBuffer
==============================================================================
