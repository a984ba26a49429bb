----------------------------- MODULE MCGateway -----------------------------
(***************************************************************************)
(* An instance of Gateway for TLC.  A short password gets in over gRPC only, *)
(* which makes two passwords an account can have.                           *)
(***************************************************************************)
EXTENDS Gateway

CONSTANTS c1, c2, e1, short, fair, long

=============================================================================
