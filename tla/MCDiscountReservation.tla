------------------------ MODULE MCDiscountReservation ------------------------
EXTENDS DiscountReservation, TLC

CONSTANTS r1, r2, r3, o1, o2, o3, ann, bob

(* Ann has two of the three orders. *)
MCCustomerOf == (o1 :> ann) @@ (o2 :> ann) @@ (o3 :> bob)
=============================================================================
