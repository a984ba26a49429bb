------------------------------ MODULE MCOutbox ------------------------------
(***************************************************************************)
(* An instance of Outbox for TLC.                                           *)
(***************************************************************************)
EXTENDS Outbox

CONSTANT w1

=============================================================================
