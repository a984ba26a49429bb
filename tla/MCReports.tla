----------------------------- MODULE MCReports -----------------------------
(***************************************************************************)
(* An instance of Reports for TLC.                                          *)
(***************************************************************************)
EXTENDS Reports

CONSTANTS o1, o2, u1

=============================================================================
