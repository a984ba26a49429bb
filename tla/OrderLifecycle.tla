--------------------------- MODULE OrderLifecycle ---------------------------
(***************************************************************************)
(* What the store promises its clients about an order, and all of it: an    *)
(* order is stored, then issued, then refunded, one stage at a time and     *)
(* never back, and it may be removed at any stage.                          *)
(*                                                                         *)
(* Removal is possible at every stage because the checks of ReturnOrder and *)
(* the DELETE that follows them are separate transactions; see OrderStore.  *)
(***************************************************************************)
CONSTANT OrderIDs

VARIABLE stage    \* order_id -> the status the reports give it

Stages == {"absent", "stored", "issued", "refunded"}

LifecycleTypeOK == stage \in [OrderIDs -> Stages]

LifecycleInit == stage = [id \in OrderIDs |-> "absent"]

\* All orders of ids pass from one stage to the next, in one step.
Advance(ids, from, to) ==
    /\ \A id \in ids : stage[id] = from
    /\ stage' = [id \in OrderIDs |-> IF id \in ids THEN to ELSE stage[id]]

Accept(id)  == Advance({id}, "absent", "stored")
Issue(ids)  == Advance(ids, "stored", "issued")
Refund(ids) == Advance(ids, "issued", "refunded")
Remove(id)  == stage' = [stage EXCEPT ![id] = "absent"]

LifecycleNext ==
    \/ \E id \in OrderIDs : Accept(id) \/ Remove(id)
    \/ \E ids \in SUBSET OrderIDs : Issue(ids) \/ Refund(ids)

LifecycleSpec == LifecycleInit /\ [][LifecycleNext]_stage

=============================================================================
