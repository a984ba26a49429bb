---------------------------- MODULE MCAuditTrail ----------------------------
(***************************************************************************)
(* An instance of AuditTrail for TLC.  Both channels of the pipeline and    *)
(* their workers are the same code; the event is of one of them.            *)
(***************************************************************************)
EXTENDS AuditTrail

CONSTANT s1

=============================================================================
