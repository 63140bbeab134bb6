--------------------------- MODULE DiscountLimits ---------------------------
(***************************************************************************)
(* What one discount code promises its store: an order takes a redemption  *)
(* in one step, and only while the code's terms allow one more; it keeps   *)
(* the redemption until it is paid for (REDEEMED) or given back (RELEASED),*)
(* and neither is undone.                                                  *)
(***************************************************************************)
EXTENDS DiscountTerms

Move(o, from, to) ==
    /\ redemption[o] = from
    /\ redemption' = [redemption EXCEPT ![o] = to]
    /\ UNCHANGED <<limit, once>>

Reserve(o) ==
    /\ HasRoom
    /\ FreeFor(CustomerOf[o])
    /\ Move(o, "none", "RESERVED")

ChangeTerms ==
    /\ limit' \in Limits \cup {NoLimit}
    /\ once' \in BOOLEAN
    /\ UNCHANGED redemption

Next ==
    \/ ChangeTerms
    \/ \E o \in Orders :
          Reserve(o) \/ Move(o, "RESERVED", "REDEEMED") \/ Move(o, "RESERVED", "RELEASED")

Spec == TermsInit /\ [][Next]_<<redemption, limit, once>>
=============================================================================
