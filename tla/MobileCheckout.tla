---------------------------- MODULE MobileCheckout ----------------------------
(***************************************************************************)
(* Paying in the mobile app (apps/mobile: app/checkout.tsx, app/cart.tsx,  *)
(* src/orders/checkout.ts, src/orders/flow.tsx): quote and draft, Stripe   *)
(* session, payment sheet, finalize, and the checkout that is kept to be   *)
(* retried. The checkout screen can be swiped away and opened again while  *)
(* handleStripeCheckout still runs, so attempts overlap; there is one      *)
(* payment sheet.                                                          *)
(*                                                                         *)
(* The services are taken as CheckoutLife promises them: a draft is OPEN,  *)
(* EXPIRED or CONVERTED, one intent each, one order at a time. Discount    *)
(* codes are not modelled.                                                 *)
(***************************************************************************)
EXTENDS Naturals, FiniteSets, Sequences

CONSTANTS
    Attempts,        \* handleStripeCheckout calls in flight
    Contents,        \* what a bag may hold, besides nothing
    MaxBaskets,      \* bound: times she fills an empty bag
    MaxCheckouts,    \* bound: drafts
    MaxPhoneFaults,  \* bound: calls that fail or lose their answer
    Empty

ASSUME PhoneOK ==
    /\ {MaxBaskets, MaxCheckouts, MaxPhoneFaults} \subseteq Nat
    /\ Empty \notin Contents

VARIABLES
    bag,         \* the cart's items
    basket,      \* how often she has filled an empty bag
    retry,       \* retryOrder: the checkout kept, or 0
    failure,     \* whether the failure screen is due
    attempt,     \* per call: the next effect, its bag, its checkout, its sheet
    mounted,     \* attempts of the checkout screen that is open
    sheet,       \* the checkout initPaymentSheet was last called for
    checkouts,   \* the services' drafts: basket, bag, status, payment
    active,      \* drafts whose orders are under way
    phoneFaults, \* faults so far
    wandered     \* history: she left a pending attempt, or changed the bag

cartVars   == <<bag, basket>>
serverVars == <<checkouts, active>>
phoneVars  == <<cartVars, retry, failure, attempt, mounted, sheet, serverVars,
                phoneFaults, wandered>>

Idle == [pc |-> "idle", bag |-> Empty, checkout |-> 0, sheet |-> 0]
Known == 0..MaxCheckouts

PhoneAttempts ==
    [pc : {"idle", "create", "session", "init", "present", "pay", "finalize"},
     bag : Contents \cup {Empty}, checkout : Known, sheet : Known]
PhoneCheckouts ==
    [basket : 1..MaxBaskets, bag : Contents, status : {"OPEN", "EXPIRED", "CONVERTED"},
     paid : BOOLEAN]

PhoneTypeOK ==
    /\ bag \in Contents \cup {Empty} /\ basket \in 0..MaxBaskets
    /\ retry \in Known /\ sheet \in Known /\ failure \in BOOLEAN
    /\ attempt \in [Attempts -> PhoneAttempts]
    /\ mounted \subseteq Attempts
    /\ checkouts \in Seq(PhoneCheckouts)
    /\ Len(checkouts) <= MaxCheckouts /\ active \subseteq DOMAIN checkouts
    /\ phoneFaults \in 0..MaxPhoneFaults /\ wandered \in BOOLEAN

PhoneInit ==
    /\ bag = Empty /\ basket = 0 /\ retry = 0 /\ sheet = 0 /\ failure = FALSE
    /\ attempt = [a \in Attempts |-> Idle] /\ mounted = {}
    /\ checkouts = <<>> /\ active = {}
    /\ phoneFaults = 0 /\ wandered = FALSE

PhoneFault ==
    /\ phoneFaults < MaxPhoneFaults
    /\ phoneFaults' = phoneFaults + 1

AtStep(a, pc) == attempt[a].pc = pc

(* The attempt goes on, with what it has learnt. *)
Continue(a, state) ==
    /\ attempt' = [attempt EXCEPT ![a] = state]
    /\ UNCHANGED <<cartVars, retry, failure, mounted, wandered>>

GoTo(a, pc) == Continue(a, [attempt[a] EXCEPT !.pc = pc])

Over(a) ==
    /\ attempt' = [attempt EXCEPT ![a] = Idle]
    /\ mounted' = mounted \ {a}
    /\ UNCHANGED wandered

(* Mutant: nothing is kept. *)
KeepForRetryNever(a) ==
    /\ retry' = 0
    /\ Over(a)
    /\ UNCHANGED <<cartVars, failure>>

(* setRetryOrder: the sheet did not open, was declined or canceled. *)
KeepForRetry(a) ==
    /\ retry' = attempt[a].checkout
    /\ Over(a)
    /\ UNCHANGED <<cartVars, failure>>

(* setFailure keeps the checkout the failure names, and drops any other.    *)
Fail(a, checkout) ==
    /\ failure' = TRUE
    /\ retry' = checkout
    /\ Over(a)
    /\ UNCHANGED cartVars

-----------------------------------------------------------------------------
(* The cart and the screens.                                                *)

(* The kept checkout is dropped when the cart shows other items; items that *)
(* are added from the menu are only compared later.                         *)
ChangeBag(b) ==
    /\ b # bag
    /\ bag = Empty => basket < MaxBaskets
    /\ bag' = b
    /\ basket' = IF bag = Empty THEN basket + 1 ELSE basket
    /\ \/ retry' = retry /\ bag # Empty
       \/ retry' = IF retry # 0 /\ checkouts[retry].bag # b THEN 0 ELSE retry
    /\ wandered' = (wandered \/ bag # Empty
                             \/ \E a \in Attempts : ~AtStep(a, "idle"))
    /\ UNCHANGED <<failure, attempt, mounted, sheet, serverVars, phoneFaults>>

ClearBag ==
    /\ bag # Empty
    /\ bag' = Empty /\ failure' = FALSE /\ retry' = 0
    /\ wandered' = TRUE
    /\ UNCHANGED <<basket, attempt, mounted, sheet, serverVars, phoneFaults>>

(* Back from the failure screen. *)
ReturnToCart ==
    /\ failure
    /\ failure' = FALSE
    /\ UNCHANGED <<cartVars, retry, attempt, mounted, sheet, serverVars,
                   phoneFaults, wandered>>

(* The checkout screen is swiped away; its attempt goes on. *)
DismissCheckout ==
    /\ mounted # {}
    /\ mounted' = {} /\ wandered' = TRUE
    /\ UNCHANGED <<cartVars, retry, failure, attempt, sheet, serverVars,
                   phoneFaults>>

-----------------------------------------------------------------------------
(* handleStripeCheckout and prepareStripeCheckout.                          *)

Retryable == retry # 0 /\ checkouts[retry].bag = bag

PressPay(a) ==
    /\ bag # Empty /\ ~failure /\ mounted = {}
    /\ AtStep(a, "idle")
    /\ attempt' = [attempt EXCEPT ![a] =
                     [pc |-> IF Retryable THEN "session" ELSE "create",
                      bag |-> bag, sheet |-> 0,
                      checkout |-> IF Retryable THEN retry ELSE 0]]
    /\ mounted' = {a}
    /\ UNCHANGED <<cartVars, retry, failure, sheet, serverVars, phoneFaults,
                   wandered>>

(* createCheckoutDraft refuses while an order is active (and when no draft  *)
(* is left to the model); it expires the customer's other open drafts.      *)
WithDraft(b) ==
    Append([c \in DOMAIN checkouts |->
              [checkouts[c] EXCEPT !.status = IF @ = "OPEN" THEN "EXPIRED" ELSE @]],
           [basket |-> basket, bag |-> b, status |-> "OPEN", paid |-> FALSE])

QuoteAndCreate(a) ==
    /\ AtStep(a, "create")
    /\ \/ /\ active # {} \/ Len(checkouts) = MaxCheckouts
          /\ Fail(a, 0) /\ UNCHANGED <<checkouts, phoneFaults>>
       \/ /\ active = {} /\ Len(checkouts) < MaxCheckouts
          /\ checkouts' = WithDraft(attempt[a].bag)
          /\ \/ /\ Continue(a, [attempt[a] EXCEPT !.pc = "session",
                                                  !.checkout = Len(checkouts')])
                /\ UNCHANGED phoneFaults
             \/ PhoneFault /\ Fail(a, 0)
       \/ PhoneFault /\ Fail(a, 0) /\ UNCHANGED checkouts
    /\ UNCHANGED <<sheet, active>>

(* "Only open checkouts can be retried" looks at the copy that was kept,    *)
(* which says OPEN; the service says what the draft is now.                 *)
OpenPaymentSession(a) ==
    /\ AtStep(a, "session")
    /\ \/ /\ checkouts[attempt[a].checkout].status = "OPEN"
          /\ GoTo(a, "init") /\ UNCHANGED phoneFaults
       \/ /\ checkouts[attempt[a].checkout].status # "OPEN"
          /\ Fail(a, attempt[a].checkout) /\ UNCHANGED phoneFaults
       \/ PhoneFault /\ Fail(a, attempt[a].checkout)
    /\ UNCHANGED <<sheet, serverVars>>

(* initPaymentSheet refuses an intent that has succeeded. *)
InitSheet(a) ==
    /\ AtStep(a, "init")
    /\ \/ /\ ~checkouts[attempt[a].checkout].paid
          /\ sheet' = attempt[a].checkout
          /\ GoTo(a, "present") /\ UNCHANGED phoneFaults
       \/ /\ checkouts[attempt[a].checkout].paid
          /\ KeepForRetry(a) /\ UNCHANGED <<sheet, phoneFaults>>
       \/ PhoneFault /\ KeepForRetry(a) /\ UNCHANGED sheet
    /\ UNCHANGED serverVars

(* initStripe throws: nothing is kept. *)
InitStripeFails(a) ==
    /\ AtStep(a, "init")
    /\ PhoneFault /\ Over(a)
    /\ UNCHANGED <<cartVars, retry, failure, sheet, serverVars>>

(* What is presented is what was last initialized. *)
PresentSheet(a) ==
    /\ AtStep(a, "present")
    /\ \/ /\ \A other \in Attempts : ~AtStep(other, "pay")
          /\ ~checkouts[sheet].paid
          /\ Continue(a, [attempt[a] EXCEPT !.pc = "pay", !.sheet = sheet])
       \/ /\ \/ \E other \in Attempts : AtStep(other, "pay")
             \/ checkouts[sheet].paid
          /\ KeepForRetry(a)
    /\ UNCHANGED <<sheet, serverVars, phoneFaults>>

(* Canceled clears the failure, which is clear; declined keeps as much.     *)
LeaveSheet(a) ==
    /\ AtStep(a, "pay")
    /\ KeepForRetry(a)
    /\ UNCHANGED <<sheet, serverVars, phoneFaults>>

(* The payment succeeds at Stripe, draft expired or not. The sheet may      *)
(* report an error all the same.                                            *)
PaySheet(a) ==
    /\ AtStep(a, "pay")
    /\ checkouts' = [checkouts EXCEPT ![attempt[a].sheet].paid = TRUE]
    /\ \/ GoTo(a, "finalize") /\ UNCHANGED phoneFaults
       \/ PhoneFault /\ KeepForRetry(a)
    /\ UNCHANGED <<sheet, active>>

Promoted(c) == [checkouts EXCEPT ![c].status = "CONVERTED"]
Promote(c) ==
    /\ checkouts' = Promoted(c)
    /\ active' = IF checkouts[c].status = "CONVERTED" THEN active
                 ELSE active \cup {c}

(* Whatever finalize answers, the bag is emptied and nothing is kept. *)
FinalizePaid(a) ==
    /\ AtStep(a, "finalize")
    /\ LET c == attempt[a].checkout
       IN  \/ /\ checkouts[c].paid /\ Promote(c)
              /\ failure' = FALSE /\ UNCHANGED phoneFaults
           \/ /\ ~checkouts[c].paid
              /\ UNCHANGED <<serverVars, failure, phoneFaults>>
           \/ /\ PhoneFault
              /\ UNCHANGED <<serverVars, failure>>
    /\ bag' = Empty /\ retry' = 0
    /\ Over(a)
    /\ UNCHANGED <<basket, sheet>>

-----------------------------------------------------------------------------
(* The services.                                                            *)

phoneOnly == <<cartVars, retry, failure, attempt, mounted, sheet, phoneFaults,
               wandered>>

PromotedByWebhook(c) ==
    /\ checkouts[c].paid /\ checkouts[c].status # "CONVERTED"
    /\ Promote(c)
    /\ UNCHANGED phoneOnly

DraftLapses(c) ==
    /\ checkouts[c].status = "OPEN"
    /\ checkouts' = [checkouts EXCEPT ![c].status = "EXPIRED"]
    /\ UNCHANGED <<active, phoneOnly>>

OrderEnds(c) ==
    /\ c \in active
    /\ active' = active \ {c}
    /\ UNCHANGED <<checkouts, phoneOnly>>

-----------------------------------------------------------------------------
AttemptStep(a) ==
    \/ QuoteAndCreate(a) \/ OpenPaymentSession(a) \/ InitSheet(a)
    \/ InitStripeFails(a) \/ PresentSheet(a) \/ FinalizePaid(a)

PhoneNext ==
    \/ \E b \in Contents : ChangeBag(b)
    \/ ClearBag \/ ReturnToCart \/ DismissCheckout
    \/ \E a \in Attempts :
          PressPay(a) \/ AttemptStep(a) \/ LeaveSheet(a) \/ PaySheet(a)
    \/ \E c \in DOMAIN checkouts :
          PromotedByWebhook(c) \/ DraftLapses(c) \/ OrderEnds(c)

PhoneSpec == PhoneInit /\ [][PhoneNext]_phoneVars

(* She keeps trying, and the services answer. *)
PersistentSpec ==
    /\ PhoneSpec
    /\ WF_phoneVars(ReturnToCart)
    /\ WF_phoneVars(\E a \in Attempts : PressPay(a))
    /\ \A a \in Attempts : WF_phoneVars(AttemptStep(a) \/ LeaveSheet(a))
    /\ WF_phoneVars(\E c \in DOMAIN checkouts : OrderEnds(c) \/ PromotedByWebhook(c))
-----------------------------------------------------------------------------
(* "Reuses an existing open checkout when retrying" (checkout.test.ts:337): *)
(* a customer who stays with her bag and on the screen is charged once for  *)
(* it, whatever is lost on the way and however often she tries again.       *)
PaidOncePerBag ==
    ~wandered =>
        \A c, d \in DOMAIN checkouts :
            /\ checkouts[c].paid /\ checkouts[d].paid
            /\ checkouts[c].basket = checkouts[d].basket
            => c = d

(* "Checkout expired. Please try again." (services/orders/src/service.ts):  *)
(* who tries again gets to a payment sheet, an order, or another bag.       *)
SheetOpen == \E a \in Attempts : AtStep(a, "pay")

TryAgainWorks ==
    \A c \in 1..MaxCheckouts :
        failure /\ retry = c
            ~> SheetOpen \/ bag = Empty \/ retry # c
=============================================================================
