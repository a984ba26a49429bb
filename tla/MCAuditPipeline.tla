-------------------------- MODULE MCAuditPipeline --------------------------
(***************************************************************************)
(* An instance of AuditPipeline for TLC.  Both channels and their workers   *)
(* are the same code; the events are all of one of them.                    *)
(***************************************************************************)
EXTENDS AuditPipeline

CONSTANTS s1, s2, s3

=============================================================================
