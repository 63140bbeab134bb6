--------------------------- MODULE ServicesProofs ---------------------------
(***************************************************************************)
(* What MCServices checks of its parts side by side, proved: each part      *)
(* behaves there as in a module of its own, and what is proved of it alone  *)
(* holds. One checkouts' request at a time is all there is, so a discount   *)
(* code is held for open drafts only.                                       *)
(***************************************************************************)
EXTENDS MCServices, AccountProofs, PurchaseProofs, StoreProofs

(* The proofs about checkouts, for those of MCServices. *)
Q == INSTANCE CheckoutProofs WITH
         Checkouts <- {c1, c2}, Quotes <- {latte, mocha},
         QuoteOf <- [c \in {c1, c2} |-> IF c = c1 THEN latte ELSE mocha],
         Handlers <- {h1}, RedeemsPoints <- TRUE, Discounted <- TRUE,
         MaxFailures <- 0

(* The two instances of Checkout are one: the first states and the steps.   *)
LEMMA CheckoutsAgree ==
    /\ C!Init => Q!Init
    /\ [C!Next]_checkoutVars => [Q!Next]_(Q!vars)
  <1>1. C!Init => Q!Init
    BY Zenon DEF C!Init, Q!Init, C!NoJob, Q!NoJob
  <1>2. C!Next => Q!Next
    BY Zenon DEF C!Idle, Q!Idle, C!Target, Q!Target, C!Serve, Q!Serve, C!Goto, Q!Goto,
         C!Done, Q!Done, C!FailRequest, Q!FailRequest, C!Lapse, Q!Lapse,
         C!PaymentSucceeds, Q!PaymentSucceeds, C!EndOrder, Q!EndOrder,
         C!CreateCheckout, Q!CreateCheckout, C!CheckActiveOrder, Q!CheckActiveOrder,
         C!ListOpenDrafts, Q!ListOpenDrafts, C!NextStale, Q!NextStale,
         C!InsertDraft, Q!InsertDraft, C!OutOfIds, Q!OutOfIds, C!FindReservation,
         Q!FindReservation, C!ReserveDiscount, Q!ReserveDiscount, C!RefuseDiscount,
         Q!RefuseDiscount, C!Expired, Q!Expired, C!ExpireRefused, Q!ExpireRefused,
         C!ExpireDraft, Q!ExpireDraft, C!ReleaseDiscount, Q!ReleaseDiscount,
         C!HasLapsed, Q!HasLapsed, C!OpenSession, Q!OpenSession, C!CreateIntent,
         Q!CreateIntent, C!SaveIntent, Q!SaveIntent, C!FinalizeCheckout,
         Q!FinalizeCheckout, C!ChargeWebhook, Q!ChargeWebhook, C!ReconcilerRecovers,
         Q!ReconcilerRecovers, C!ReconcilerGivesUp, Q!ReconcilerGivesUp,
         C!ExpireCall, Q!ExpireCall, C!FindOrder, Q!FindOrder, C!RedeemPoints,
         Q!RedeemPoints, C!EarnPoints, Q!EarnPoints, C!RedeemDiscount,
         Q!RedeemDiscount, C!PromoteDraft, Q!PromoteDraft, C!RecordPayment,
         Q!RecordPayment, C!Respond, Q!Respond, C!Step, Q!Step, C!Request,
         Q!Request, C!Next, Q!Next, C!tables, Q!tables, C!others, Q!others, C!slots,
         Q!slots, C!NoJob, Q!NoJob
  <1>3. UNCHANGED checkoutVars => UNCHANGED Q!vars
    BY DEF checkoutVars, Q!vars, Q!tables, Q!others, Q!slots
  <1> QED
    BY <1>1, <1>2, <1>3

(* A step of one part is none of the others. *)
LEMMA OnePartSteps ==
    ASSUME [Next]_servicesVars
    PROVE  /\ UNCHANGED part
           /\ [LoyaltyNext]_loyaltyVars
           /\ [CreationNext]_creationVars
           /\ [AccountsNext]_accountVars
           /\ [TeamNext]_teamVars
           /\ [PricingNext]_pricingVars
           /\ [HoursNext]_hoursVars
           /\ [AppNext]_appVars
           /\ [PhoneNext]_phoneVars
           /\ [ConnectNext]_connectVars
           /\ [LaunchNext]_launchVars
           /\ [C!Next]_checkoutVars
  <1>1. CASE UNCHANGED servicesVars
    BY <1>1 DEF servicesVars
  <1>2. CASE part = "loyalty" /\ LoyaltyNext /\ OthersStay("loyalty")
    BY <1>2 DEF OthersStay
  <1>3. CASE part = "creation" /\ CreationNext /\ OthersStay("creation")
    BY <1>3 DEF OthersStay
  <1>4. CASE part = "accounts" /\ AccountsNext /\ OthersStay("accounts")
    BY <1>4 DEF OthersStay
  <1>5. CASE part = "team" /\ TeamNext /\ OthersStay("team")
    BY <1>5 DEF OthersStay
  <1>6. CASE part = "pricing" /\ PricingNext /\ OthersStay("pricing")
    BY <1>6 DEF OthersStay
  <1>7. CASE part = "hours" /\ HoursNext /\ OthersStay("hours")
    BY <1>7 DEF OthersStay
  <1>8. CASE part = "app" /\ AppNext /\ OthersStay("app")
    BY <1>8 DEF OthersStay
  <1>9. CASE part = "phone" /\ PhoneNext /\ OthersStay("phone")
    BY <1>9 DEF OthersStay
  <1>10. CASE part = "connect" /\ ConnectNext /\ OthersStay("connect")
    BY <1>10 DEF OthersStay
  <1>11. CASE part = "launch" /\ LaunchNext /\ OthersStay("launch")
    BY <1>11 DEF OthersStay
  <1>12. CASE part = "checkouts" /\ C!Next /\ OthersStay("checkouts")
    BY <1>12 DEF OthersStay
  <1> QED
    BY <1>1, <1>2, <1>3, <1>4, <1>5, <1>6, <1>7, <1>8, <1>9, <1>10, <1>11, <1>12 DEF Next

(* Side by side, each part is what it is alone. *)
THEOREM EachServiceAlone ==
    Spec => /\ LoyaltySpec /\ CreationSpec /\ AccountsSpec /\ TeamSpec /\ PricingSpec
            /\ HoursSpec /\ AppSpec /\ PhoneSpec /\ ConnectSpec /\ LaunchSpec /\ Q!Spec
  <1>1. Init => /\ LoyaltyInit /\ CreationInit /\ AccountsInit /\ TeamInit /\ PricingInit
                /\ HoursInit /\ AppInit /\ PhoneInit /\ ConnectInit /\ LaunchInit /\ Q!Init
    BY CheckoutsAgree DEF Init
  <1>2. [Next]_servicesVars =>
            /\ [LoyaltyNext]_loyaltyVars
            /\ [CreationNext]_creationVars
            /\ [AccountsNext]_accountVars
            /\ [TeamNext]_teamVars
            /\ [PricingNext]_pricingVars
            /\ [HoursNext]_hoursVars
            /\ [AppNext]_appVars
            /\ [PhoneNext]_phoneVars
            /\ [ConnectNext]_connectVars
            /\ [LaunchNext]_launchVars
            /\ [Q!Next]_(Q!vars)
    BY OnePartSteps, CheckoutsAgree
  <1> QED
    BY <1>1, <1>2, PTL DEF Spec, LoyaltySpec, CreationSpec, AccountsSpec, TeamSpec,
       PricingSpec, HoursSpec, AppSpec, PhoneSpec, ConnectSpec, LaunchSpec, Q!Spec

(* What the proofs about checkouts ask of their constants. *)
LEMMA OneRequestAtOnce == Q!OneByOne
  BY DEF Q!OneByOne

LEMMA CheckoutsTypeCorrect == Q!Spec => []C!TypeOK
  <1>1. [c \in {c1, c2} |-> IF c = c1 THEN latte ELSE mocha] \in [{c1, c2} -> {latte, mocha}]
    OBVIOUS
  <1>2. Q!Spec => []Q!TypeOK
    BY <1>1, ServicesOK, Q!TypeCorrect
  <1>3. Q!TypeOK => C!TypeOK
    BY DEF C!TypeOK, Q!TypeOK, C!Steps, Q!Steps, C!Jobs, Q!Jobs, C!Kinds, Q!Kinds
  <1> QED
    BY <1>2, <1>3, PTL

(* Side by side too, the state of the part that acts is of its types. *)
THEOREM ServicesTypeCorrect == Spec => []TypesOK
  <1>1. Spec => [](part \in Parts)
    <2>1. Init => part \in Parts
      BY DEF Init
    <2>2. part \in Parts /\ [Next]_servicesVars => (part \in Parts)'
      BY OnePartSteps
    <2> QED
      BY <2>1, <2>2, PTL DEF Spec
  <1>2. /\ part \in Parts
        /\ LoyaltyTypeOK /\ CreationTypeOK /\ AccountsTypeOK /\ TeamTypeOK /\ PricingTypeOK
        /\ HoursTypeOK /\ AppTypeOK /\ PhoneTypeOK /\ ConnectTypeOK /\ LaunchTypeOK /\ C!TypeOK
        => TypesOK
    BY Zenon, ServicesOK DEF TypesOK
  <1> QED
    BY <1>1, <1>2, EachServiceAlone, LedgerTypeCorrect, CreationTypeCorrect,
       AccountsTypeCorrect, TeamTypeCorrect, PricingTypeCorrect, HoursTypeCorrect,
       AppTypeCorrect, PhoneTypeCorrect, ConnectTypeCorrect, LaunchTypeCorrect,
       CheckoutsTypeCorrect, PTL

(* With one checkout request at a time, and none that dies, a discount code *)
(* is held for open drafts only (expireCheckoutDraft and its release).      *)
THEOREM ReservedAlwaysOpen == Spec => []ReservedOnlyOpen
  <1>1. [c \in {c1, c2} |-> IF c = c1 THEN latte ELSE mocha] \in [{c1, c2} -> {latte, mocha}]
    OBVIOUS
  <1>2. Q!Spec => []Q!ReservedOnlyOpen
    BY <1>1, ServicesOK, OneRequestAtOnce, Q!HeldForOpenOnly
  <1>3. Q!ReservedOnlyOpen => ReservedOnlyOpen
    BY DEF ReservedOnlyOpen, C!ReservedOnlyOpen, Q!ReservedOnlyOpen, C!Idle, Q!Idle
  <1> QED
    BY <1>2, <1>3, EachServiceAlone, PTL
=============================================================================
