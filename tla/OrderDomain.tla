---------------------------- MODULE OrderDomain ----------------------------
(***************************************************************************)
(* The domain type of the pick-up point: an order and the rules that read   *)
(* its dates (internal/domain/order.go).                                    *)
(*                                                                         *)
(* A date is a natural number of clock ticks.  A nil *time.Time, a NULL     *)
(* column and Go's zero time are all 0: Order.Status treats nil like the    *)
(* zero time, and the SQL of the reports coalesces NULL to year one.        *)
(* Prices, weight and packaging play no part after acceptance and are left  *)
(* out of the row.                                                          *)
(***************************************************************************)
EXTENDS Naturals

CONSTANT
    Users    \* the recipients orders are addressed to

NoTime == 0

\* A row of the table "orders", as ScanOrder reads it back.
Order == [recipient   : Users,
          expiry      : Nat,
          stored_at   : Nat,
          issued_at   : Nat,
          refunded_at : Nat]

OrderStatus == {"stored", "issued", "refunded", ""}

(***************************************************************************)
(* Order.Status: the stage with the latest date.  The code compares with    *)
(* After, from refunded to stored, so that on equal dates the later stage   *)
(* wins; an order with no date at all has the empty status.                 *)
(***************************************************************************)
Status(o) ==
    IF o.stored_at > o.issued_at /\ o.stored_at > o.refunded_at
    THEN "stored"
    ELSE IF o.issued_at > o.refunded_at
         THEN "issued"
         ELSE IF o.refunded_at > NoTime THEN "refunded" ELSE ""

(***************************************************************************)
(* Order.LastUpdated, and GREATEST of the coalesced dates in the SQL of the *)
(* history: the latest date there is.                                       *)
(***************************************************************************)
LastUpdated(o) ==
    LET later == IF o.issued_at > o.stored_at THEN o.issued_at ELSE o.stored_at
    IN IF o.refunded_at > later THEN o.refunded_at ELSE later

=============================================================================
