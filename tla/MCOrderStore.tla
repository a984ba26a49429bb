---------------------------- MODULE MCOrderStore ----------------------------
(***************************************************************************)
(* Instances of OrderStore for TLC.                                         *)
(***************************************************************************)
EXTENDS OrderStore, Packaging, TLC

CONSTANTS o1, o2, r1, r2, u1, u2

\* Two batches that lock in opposite orders, and one with an id named twice.
CrossingBatches == {<<o1, o2>>, <<o2, o1>>}
SingleBatch     == {<<o1>>, <<o1, o1>>}

\* Inputs of up to three parts, in any order, with weights around the limits.
PackagingInputs  == UNION {[1..n -> Parts] : n \in 1..3}
PackagingWeights == {0, 9, 10, 29, 30}

AllAgree ==
    \A input \in PackagingInputs, weight \in PackagingWeights : Agrees(input, weight)

\* When an order reaches AcceptPrepare, ParsePackaging and the strategies of the
\* packaging decide and price it as their reference does, whatever the input.
PackagingAgrees == (\E r \in Requests : pc[r] = "accept_prepare") => AllAgree

RequestSymmetry == Permutations(Requests)

=============================================================================
