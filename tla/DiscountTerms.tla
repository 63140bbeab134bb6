---------------------------- MODULE DiscountTerms ----------------------------
(***************************************************************************)
(* The rows of one discount code: its terms in discount_codes and the      *)
(* redemptions that count against them in discount_code_redemptions, one   *)
(* row per order at most (UNIQUE (order_id)).                              *)
(***************************************************************************)
EXTENDS Naturals, FiniteSets

CONSTANTS
    Orders,      \* orders and checkout drafts that apply the code
    Customers,
    CustomerOf,  \* who placed an order
    Limits,      \* values max_total_redemptions may be given
    NoLimit      \* max_total_redemptions IS NULL

ASSUME CodeOK ==
    /\ IsFiniteSet(Orders)
    /\ CustomerOf \in [Orders -> Customers]
    /\ Limits \subseteq Nat
    /\ NoLimit \notin Nat

VARIABLES
    redemption,  \* status of the order's discount_code_redemptions row
    limit,       \* discount_codes.max_total_redemptions
    once         \* discount_codes.once_per_customer

RedemptionStatuses == {"none", "RESERVED", "REDEEMED", "RELEASED"}

IsActive(status) == status \in {"RESERVED", "REDEEMED"}

(* The redemptions that count against the code. *)
Active == {o \in Orders : IsActive(redemption[o])}

HasRoom == limit # NoLimit => Cardinality(Active) < limit

FreeFor(customer) == once => \A o \in Active : CustomerOf[o] # customer

TermsOK ==
    /\ redemption \in [Orders -> RedemptionStatuses]
    /\ limit \in Limits \cup {NoLimit}
    /\ once \in BOOLEAN

TermsInit ==
    /\ redemption = [o \in Orders |-> "none"]
    /\ limit \in Limits \cup {NoLimit}
    /\ once \in BOOLEAN
=============================================================================
