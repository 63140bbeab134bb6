--------------------------- MODULE CheckoutProofs ---------------------------
(***************************************************************************)
(* The checkouts keep their promise for every number of carts, drafts and   *)
(* overlapping requests, and any number of deaths. The argument: what a     *)
(* confirming request relies on never goes away. A captured payment stays   *)
(* captured, a ledger entry stays, a draft is never deleted, and only       *)
(* promotion makes a draft CONVERTED, together with its order.              *)
(***************************************************************************)
EXTENDS Checkout, TLAPS

Unaimed == {"idle", "active", "list", "sweep"}
Confirming == {"findOrder", "redeem", "earn", "redeemDiscount", "promote",
               "record", "ack"}

(* What a request at each of its steps counts on: its checkout, a captured  *)
(* payment once it confirms, the points on the ledger before it promotes.   *)
Trusts(h) ==
    pc[h] \notin Unaimed =>
        /\ Target(h) \in Checkouts
        /\ pc[h] = "intent" => draft[Target(h)] # "none"
        /\ pc[h] \in Confirming => intent[Target(h)] = "succeeded"
        /\ pc[h] \in {"earn", "redeemDiscount", "promote"} =>
              (RedeemsPoints => <<Target(h), "redeem">> \in ledger)
        /\ pc[h] \in {"redeemDiscount", "promote"} => <<Target(h), "earn">> \in ledger

Grounded == \A h \in Handlers : Trusts(h)

(* Money comes after a draft, and events after the money. *)
MoneyFirst ==
    /\ \A c \in Checkouts : intent[c] # "none" => draft[c] # "none"
    /\ \A c \in events : intent[c] = "succeeded"

IInv == TypeOK /\ Grounded /\ MoneyFirst /\ OrderIsSettled /\ ConvertedHasOrder

USE CheckoutOK DEF Kinds, Steps, Jobs

-----------------------------------------------------------------------------
(* A slot that goes on or is done keeps the slots' types. *)
LEMMA SlotTypes ==
    ASSUME TypeOK, NEW h \in Handlers, Done(h) \/ \E s \in Steps : Goto(h, s)
    PROVE  pc' \in [Handlers -> Steps] /\ job' \in [Handlers -> Jobs]
  BY DEF TypeOK, Goto, Done, NoJob

(* So does one that turns to another checkout. *)
LEMMA AimTypes ==
    ASSUME TypeOK, NEW h \in Handlers, NEW j \in Jobs, NEW s \in Steps,
           pc' = [pc EXCEPT ![h] = s], job' = [job EXCEPT ![h] = j]
    PROVE  pc' \in [Handlers -> Steps] /\ job' \in [Handlers -> Jobs]
  BY DEF TypeOK

(* Every step keeps the types. *)
LEMMA TypeStep == TypeOK /\ Grounded /\ [Next]_vars => TypeOK'
  <1> SUFFICES ASSUME TypeOK, Grounded, [Next]_vars PROVE TypeOK'
    OBVIOUS
  <1> USE DEF TypeOK, tables, others, slots
  <1>1. CASE UNCHANGED vars
    BY <1>1 DEF vars
  <1>2. ASSUME NEW c \in Checkouts, Lapse(c) \/ PaymentSucceeds(c) \/ EndOrder(c)
        PROVE  TypeOK'
    BY <1>2 DEF Lapse, PaymentSucceeds, EndOrder
  <1>3. ASSUME NEW h \in Handlers, Request(h) PROVE TypeOK'
    <2>1. ASSUME NEW q \in Quotes, CreateCheckout(h, q) PROVE TypeOK'
      BY <2>1 DEF CreateCheckout, Serve
    <2>2. ASSUME NEW c \in Checkouts,
                 OpenSession(h, c) \/ FinalizeCheckout(h, c) \/ ChargeWebhook(h, c)
                 \/ ReconcilerRecovers(h, c) \/ ReconcilerGivesUp(h, c)
          PROVE  TypeOK'
      BY <2>2 DEF OpenSession, FinalizeCheckout, ChargeWebhook, ReconcilerRecovers,
                  ReconcilerGivesUp, Serve
    <2> QED
      BY <1>3, <2>1, <2>2 DEF Request
  <1>4. ASSUME NEW h \in Handlers, FailRequest(h) PROVE TypeOK'
    BY <1>4 DEF FailRequest, Done, NoJob
  <1>5. ASSUME NEW h \in Handlers, Step(h) PROVE TypeOK'
    <2> USE DEF Unaimed, Target, Goto, Done, NoJob, Expired
    <2> pc[h] \notin Unaimed => Target(h) \in Checkouts
      BY DEF Grounded, Trusts
    <2>1. CASE CheckActiveOrder(h)
      BY <2>1 DEF CheckActiveOrder
    <2>2. CASE ListOpenDrafts(h)
      BY <2>2 DEF ListOpenDrafts
    <2>3. CASE NextStale(h)
      <3>1. PICK c \in job[h].stale :
               job' = [job EXCEPT ![h].stale = @ \ {c}, ![h].checkout = c]
        BY <2>3 DEF NextStale
      <3>2. c \in Checkouts /\ job[h].stale \ {c} \in SUBSET Checkouts
        OBVIOUS
      <3> DEFINE rest == [job[h] EXCEPT !.stale = @ \ {c}]
      <3> DEFINE j == [rest EXCEPT !.checkout = c]
      <3>3. job' = [job EXCEPT ![h] = j]
        BY <3>1
      <3>4. j \in Jobs
        <4>1. rest \in Jobs
          BY <3>2
        <4> HIDE DEF rest
        <4> QED
          BY <3>2, <4>1
      <3> HIDE DEF j
      <3>5. pc' \in [Handlers -> Steps] /\ job' \in [Handlers -> Jobs]
        BY <2>3, <3>3, <3>4, AimTypes DEF NextStale
      <3> QED
        BY <2>3, <3>5 DEF NextStale
    <2>4. CASE InsertDraft(h)
      <3>1. PICK c \in Checkouts :
               /\ draft' = [draft EXCEPT ![c] = "OPEN"]
               /\ IF Discounted
                  THEN /\ pc' = [pc EXCEPT ![h] = "reserve"]
                       /\ job' = [job EXCEPT ![h].checkout = c]
                  ELSE Done(h)
        BY <2>4 DEF InsertDraft
      <3>2. pc' \in [Handlers -> Steps] /\ job' \in [Handlers -> Jobs]
        <4>1. CASE Discounted
          <5>1. job' = [job EXCEPT ![h] = [job[h] EXCEPT !.checkout = c]]
            BY <3>1, <4>1
          <5>2. [job[h] EXCEPT !.checkout = c] \in Jobs
            OBVIOUS
          <5> QED
            BY <3>1, <4>1, <5>1, <5>2, AimTypes
        <4>2. CASE ~Discounted
          BY <3>1, <4>2, SlotTypes
        <4> QED
          BY <4>1, <4>2
      <3> QED
        BY <2>4, <3>1, <3>2 DEF InsertDraft
    <2>5. CASE OutOfIds(h)
      BY <2>5 DEF OutOfIds
    <2>6. CASE FindReservation(h) \/ ReserveDiscount(h) \/ RefuseDiscount(h)
      <3>1. CASE FindReservation(h)
        <4>1. pc' \in [Handlers -> Steps] /\ job' \in [Handlers -> Jobs]
          BY <3>1, SlotTypes DEF FindReservation
        <4> QED
          BY <3>1, <4>1 DEF FindReservation
      <3>2. CASE ReserveDiscount(h)
        BY <3>2 DEF ReserveDiscount
      <3>3. CASE RefuseDiscount(h)
        BY <3>3 DEF RefuseDiscount
      <3> QED
        BY <2>6, <3>1, <3>2, <3>3
    <2>7. CASE ExpireRefused(h) \/ ExpireDraft(h)
      <3>1. draft' \in [Checkouts -> {"none", "OPEN", "EXPIRED", "CONVERTED"}]
        BY <2>7 DEF ExpireRefused, ExpireDraft
      <3>2. pc' \in [Handlers -> Steps] /\ job' \in [Handlers -> Jobs]
        BY <2>7, SlotTypes DEF ExpireRefused, ExpireDraft
      <3> QED
        BY <2>7, <3>1, <3>2 DEF ExpireRefused, ExpireDraft
    <2>8. CASE ReleaseDiscount(h) \/ RedeemDiscount(h)
      <3>1. CASE ReleaseDiscount(h)
        BY <3>1, SlotTypes DEF ReleaseDiscount
      <3>2. CASE RedeemDiscount(h)
        BY <3>2, SlotTypes DEF RedeemDiscount
      <3> QED
        BY <2>8, <3>1, <3>2
    <2>9. CASE CreateIntent(h) \/ SaveIntent(h) \/ ExpireCall(h)
      BY <2>9 DEF CreateIntent, SaveIntent, ExpireCall
    <2>10. CASE FindOrder(h) \/ RedeemPoints(h) \/ EarnPoints(h)
      BY <2>10 DEF FindOrder, RedeemPoints, EarnPoints
    <2>11. CASE PromoteDraft(h) \/ RecordPayment(h) \/ Respond(h)
      <3>1. CASE PromoteDraft(h)
        <4>1. order' \in [Checkouts -> {"none", "active", "over"}]
          BY <3>1 DEF PromoteDraft
        <4>2. draft' \in [Checkouts -> {"none", "OPEN", "EXPIRED", "CONVERTED"}]
          BY <3>1 DEF PromoteDraft
        <4>3. pc' \in [Handlers -> Steps] /\ job' \in [Handlers -> Jobs]
          BY <3>1, SlotTypes DEF PromoteDraft
        <4> QED
          BY <3>1, <4>1, <4>2, <4>3 DEF PromoteDraft
      <3>2. CASE RecordPayment(h)
        BY <3>2, SlotTypes DEF RecordPayment
      <3>3. CASE Respond(h)
        BY <3>3, SlotTypes DEF Respond
      <3> QED
        BY <2>11, <3>1, <3>2, <3>3
    <2> QED
      BY <1>5, <2>1, <2>2, <2>3, <2>4, <2>5, <2>6, <2>7, <2>8, <2>9, <2>10, <2>11
         DEF Step
  <1> QED
    BY <1>1, <1>2, <1>3, <1>4, <1>5 DEF Next

-----------------------------------------------------------------------------
(* What only grows: captured payments, drafts, ledger entries and orders.   *)
Grows ==
    /\ \A c \in Checkouts :
          /\ intent[c] = "succeeded" => intent'[c] = "succeeded"
          /\ draft[c] # "none" => draft'[c] # "none"
          /\ order[c] # "none" => order'[c] # "none"
    /\ ledger \subseteq ledger'

(* A request that did not move still trusts what it trusted. *)
LEMMA OthersTrust ==
    ASSUME TypeOK, Grounded, Grows, NEW h \in Handlers, Trusts(h)',
           \A g \in Handlers \ {h} : pc'[g] = pc[g] /\ job'[g] = job[g]
    PROVE  Grounded'
  <1> SUFFICES ASSUME NEW g \in Handlers, g # h PROVE Trusts(g)'
    BY DEF Grounded
  <1>1. pc'[g] = pc[g] /\ Target(g)' = Target(g) /\ Trusts(g)
    BY DEF Grounded, Target
  <1> QED
    BY <1>1 DEF Trusts, Grows

LEMMA IInit == Init => IInv
  BY DEF Init, IInv, TypeOK, Grounded, Trusts, MoneyFirst, OrderIsSettled,
         ConvertedHasOrder, NoJob, Unaimed, Confirming

(* The world's steps. *)
LEMMA WorldStep ==
    ASSUME IInv, TypeOK', NEW c \in Checkouts,
           Lapse(c) \/ PaymentSucceeds(c) \/ EndOrder(c)
    PROVE  IInv'
  <1> USE DEF IInv, TypeOK, tables, others, slots
  <1>1. Grows
    BY DEF Lapse, PaymentSucceeds, EndOrder, Grows
  <1>2. UNCHANGED <<pc, job>>
    BY DEF Lapse, PaymentSucceeds, EndOrder
  <1>3. Grounded'
    BY <1>1, <1>2 DEF Grounded, Trusts, Target, Grows
  <1>4. MoneyFirst'
    <2>1. CASE PaymentSucceeds(c)
      BY <2>1 DEF PaymentSucceeds, MoneyFirst
    <2>2. CASE Lapse(c) \/ EndOrder(c)
      BY <2>2 DEF Lapse, EndOrder, MoneyFirst
    <2> QED
      BY <2>1, <2>2
  <1>5. OrderIsSettled' /\ ConvertedHasOrder'
    BY DEF Lapse, PaymentSucceeds, EndOrder, OrderIsSettled, ConvertedHasOrder
  <1> QED
    BY <1>3, <1>4, <1>5

(* A request that arrives brings nothing but itself. *)
LEMMA RequestStep ==
    ASSUME IInv, TypeOK', NEW h \in Handlers, Request(h)
    PROVE  IInv'
  <1> USE DEF IInv, TypeOK, tables, others
  <1>1. UNCHANGED <<tables, others>>
    BY DEF Request, CreateCheckout, OpenSession, FinalizeCheckout, ChargeWebhook,
           ReconcilerRecovers, ReconcilerGivesUp
  <1>2. Grows
    BY <1>1 DEF Grows
  <1>3. \A g \in Handlers \ {h} : pc'[g] = pc[g] /\ job'[g] = job[g]
    BY DEF Request, CreateCheckout, OpenSession, FinalizeCheckout, ChargeWebhook,
           ReconcilerRecovers, ReconcilerGivesUp, Serve
  <1>4. Trusts(h)'
    <2> USE DEF Serve, Trusts, Target, Unaimed, Confirming
    <2>1. ASSUME NEW q \in Quotes, CreateCheckout(h, q) PROVE Trusts(h)'
      BY <2>1 DEF CreateCheckout
    <2>2. ASSUME NEW c \in Checkouts, OpenSession(h, c) PROVE Trusts(h)'
      BY <2>2 DEF OpenSession
    <2>3. ASSUME NEW c \in Checkouts, FinalizeCheckout(h, c) PROVE Trusts(h)'
      BY <2>3 DEF FinalizeCheckout
    <2>4. ASSUME NEW c \in Checkouts, ChargeWebhook(h, c) PROVE Trusts(h)'
      BY <2>4 DEF ChargeWebhook, MoneyFirst
    <2>5. ASSUME NEW c \in Checkouts, ReconcilerRecovers(h, c) PROVE Trusts(h)'
      BY <2>5 DEF ReconcilerRecovers
    <2>6. ASSUME NEW c \in Checkouts, ReconcilerGivesUp(h, c) PROVE Trusts(h)'
      BY <2>6 DEF ReconcilerGivesUp
    <2> QED
      BY <2>1, <2>2, <2>3, <2>4, <2>5, <2>6 DEF Request
  <1>5. Grounded'
    BY <1>2, <1>3, <1>4, OthersTrust
  <1>6. MoneyFirst' /\ OrderIsSettled' /\ ConvertedHasOrder'
    BY <1>1 DEF MoneyFirst, OrderIsSettled, ConvertedHasOrder
  <1> QED
    BY <1>5, <1>6

-----------------------------------------------------------------------------
(* The steps of a request, of which only its own slot tells. *)
LEMMA OneSlot ==
    ASSUME TypeOK, NEW h \in Handlers, Step(h) \/ FailRequest(h)
    PROVE  \A g \in Handlers \ {h} : pc'[g] = pc[g] /\ job'[g] = job[g]
  <1> SUFFICES ASSUME NEW g \in Handlers, g # h PROVE pc'[g] = pc[g] /\ job'[g] = job[g]
    OBVIOUS
  <1> USE DEF TypeOK, Goto, Done
  <1>1. CASE FailRequest(h) \/ CheckActiveOrder(h) \/ ListOpenDrafts(h) \/ OutOfIds(h)
    BY <1>1 DEF FailRequest, CheckActiveOrder, ListOpenDrafts, OutOfIds
  <1>2. CASE NextStale(h)
    BY <1>2 DEF NextStale
  <1>3. CASE InsertDraft(h)
    BY <1>3 DEF InsertDraft
  <1>4. CASE FindReservation(h) \/ ReserveDiscount(h) \/ RefuseDiscount(h)
    BY <1>4 DEF FindReservation, ReserveDiscount, RefuseDiscount
  <1>5. CASE ExpireRefused(h) \/ ExpireDraft(h) \/ ReleaseDiscount(h)
    BY <1>5 DEF ExpireRefused, ExpireDraft, ReleaseDiscount
  <1>6. CASE CreateIntent(h) \/ SaveIntent(h) \/ ExpireCall(h)
    BY <1>6 DEF CreateIntent, SaveIntent, ExpireCall
  <1>7. CASE FindOrder(h) \/ RedeemPoints(h) \/ EarnPoints(h) \/ RedeemDiscount(h)
    BY <1>7 DEF FindOrder, RedeemPoints, EarnPoints, RedeemDiscount
  <1>8. CASE PromoteDraft(h) \/ RecordPayment(h) \/ Respond(h)
    BY <1>8 DEF PromoteDraft, RecordPayment, Respond
  <1> QED
    BY <1>1, <1>2, <1>3, <1>4, <1>5, <1>6, <1>7, <1>8 DEF Step

(* Nothing a request relies on is ever taken back. *)
LEMMA StepGrows ==
    ASSUME TypeOK, Grounded, NEW h \in Handlers, Step(h) \/ FailRequest(h)
    PROVE  Grows
  <1> USE DEF TypeOK, Grows, tables, others
  <1>1. CASE FailRequest(h) \/ CheckActiveOrder(h) \/ ListOpenDrafts(h) \/ NextStale(h)
             \/ OutOfIds(h) \/ FindReservation(h) \/ RefuseDiscount(h) \/ ExpireCall(h)
             \/ FindOrder(h)
    BY <1>1 DEF FailRequest, CheckActiveOrder, ListOpenDrafts, NextStale, OutOfIds,
                FindReservation, RefuseDiscount, ExpireCall, FindOrder
  <1>2. CASE InsertDraft(h)
    BY <1>2 DEF InsertDraft
  <1>3. CASE ExpireRefused(h) \/ ExpireDraft(h)
    BY <1>3 DEF ExpireRefused, ExpireDraft, Expired
  <1>4. CASE ReserveDiscount(h) \/ ReleaseDiscount(h) \/ RedeemDiscount(h)
    BY <1>4 DEF ReserveDiscount, ReleaseDiscount, RedeemDiscount
  <1>5. CASE CreateIntent(h) \/ SaveIntent(h)
    BY <1>5 DEF CreateIntent, SaveIntent
  <1>6. CASE RedeemPoints(h) \/ EarnPoints(h)
    BY <1>6 DEF RedeemPoints, EarnPoints
  <1>7. CASE PromoteDraft(h) \/ RecordPayment(h) \/ Respond(h)
    BY <1>7 DEF PromoteDraft, RecordPayment, Respond
  <1> QED
    BY <1>1, <1>2, <1>3, <1>4, <1>5, <1>6, <1>7 DEF Step

(* A request that moved on has what its next step counts on. *)
LEMMA StepTrusts ==
    ASSUME IInv, TypeOK', NEW h \in Handlers, Step(h) \/ FailRequest(h)
    PROVE  Trusts(h)'
  <1>1. Trusts(h) /\ TypeOK
    BY DEF IInv, Grounded
  <1> USE <1>1 DEF TypeOK, Trusts, Target, Unaimed, Confirming, Goto, Done, tables, others
  <1>2. CASE FailRequest(h) \/ CheckActiveOrder(h) \/ ListOpenDrafts(h) \/ OutOfIds(h)
    BY <1>2 DEF FailRequest, CheckActiveOrder, ListOpenDrafts, OutOfIds
  <1>3. CASE NextStale(h)
    <2>1. PICK c \in job[h].stale :
             job' = [job EXCEPT ![h].stale = @ \ {c}, ![h].checkout = c]
      BY <1>3 DEF NextStale
    <2>2. c \in Checkouts /\ job'[h].checkout = c
      BY <2>1
    <2> QED
      BY <1>3, <2>2 DEF NextStale
  <1>4. CASE InsertDraft(h)
    BY <1>4 DEF InsertDraft
  <1>5. CASE FindReservation(h) \/ ReserveDiscount(h) \/ RefuseDiscount(h)
    BY <1>5 DEF FindReservation, ReserveDiscount, RefuseDiscount
  <1>6. CASE ExpireRefused(h) \/ ExpireDraft(h) \/ ReleaseDiscount(h)
    BY <1>6 DEF ExpireRefused, ExpireDraft, ReleaseDiscount
  <1>7. CASE CreateIntent(h) \/ SaveIntent(h) \/ ExpireCall(h)
    BY <1>7 DEF CreateIntent, SaveIntent, ExpireCall
  <1>8. CASE FindOrder(h)
    BY <1>8 DEF FindOrder
  <1>9. CASE RedeemPoints(h)
    BY <1>9 DEF RedeemPoints
  <1>10. CASE EarnPoints(h)
    BY <1>10 DEF EarnPoints
  <1>11. CASE RedeemDiscount(h)
    BY <1>11 DEF RedeemDiscount
  <1>12. CASE PromoteDraft(h)
    BY <1>12 DEF PromoteDraft
  <1>13. CASE RecordPayment(h) \/ Respond(h)
    BY <1>13 DEF RecordPayment, Respond
  <1> QED
    BY <1>2, <1>3, <1>4, <1>5, <1>6, <1>7, <1>8, <1>9, <1>10, <1>11, <1>12, <1>13 DEF Step

(* Money comes after the draft; orders come after the money and the points. *)
LEMMA StepSettles ==
    ASSUME IInv, TypeOK', NEW h \in Handlers, Step(h) \/ FailRequest(h)
    PROVE  MoneyFirst' /\ OrderIsSettled' /\ ConvertedHasOrder'
  <1>1. Trusts(h) /\ TypeOK /\ MoneyFirst /\ OrderIsSettled /\ ConvertedHasOrder
    BY DEF IInv, Grounded
  <1> USE <1>1 DEF TypeOK, MoneyFirst, OrderIsSettled, ConvertedHasOrder, tables, others
  <1>2. CASE FailRequest(h) \/ CheckActiveOrder(h) \/ ListOpenDrafts(h) \/ NextStale(h)
             \/ OutOfIds(h) \/ FindReservation(h) \/ RefuseDiscount(h) \/ ExpireCall(h)
             \/ FindOrder(h)
    BY <1>2 DEF FailRequest, CheckActiveOrder, ListOpenDrafts, NextStale, OutOfIds,
                FindReservation, RefuseDiscount, ExpireCall, FindOrder
  <1>3. CASE InsertDraft(h)
    BY <1>3 DEF InsertDraft
  <1>4. CASE ExpireRefused(h) \/ ExpireDraft(h)
    BY <1>4 DEF ExpireRefused, ExpireDraft, Expired
  <1>5. CASE ReserveDiscount(h) \/ ReleaseDiscount(h) \/ RedeemDiscount(h)
    BY <1>5 DEF ReserveDiscount, ReleaseDiscount, RedeemDiscount
  <1>6. CASE CreateIntent(h)
    BY <1>6 DEF CreateIntent, Trusts, Unaimed
  <1>7. CASE SaveIntent(h) \/ RecordPayment(h) \/ Respond(h)
    BY <1>7 DEF SaveIntent, RecordPayment, Respond
  <1>8. CASE RedeemPoints(h) \/ EarnPoints(h)
    BY <1>8 DEF RedeemPoints, EarnPoints
  <1>9. CASE PromoteDraft(h)
    <2> DEFINE t == Target(h)
    <2>1. t \in Checkouts /\ intent[t] = "succeeded" /\ <<t, "earn">> \in ledger
      BY <1>9 DEF PromoteDraft, Trusts, Unaimed, Confirming
    <2>2. RedeemsPoints => <<t, "redeem">> \in ledger
      BY <1>9 DEF PromoteDraft, Trusts, Unaimed
    <2>3. UNCHANGED <<intent, ledger, events>>
      BY <1>9 DEF PromoteDraft
    <2>4. \/ UNCHANGED <<order, draft>>
          \/ /\ order' = [order EXCEPT ![t] = "active"]
             /\ draft' = [draft EXCEPT ![t] = "CONVERTED"]
      BY <1>9 DEF PromoteDraft
    <2> HIDE DEF t
    <2>5. MoneyFirst'
      BY <2>1, <2>3, <2>4
    <2>6. OrderIsSettled'
      <3>1. ASSUME NEW c \in Checkouts, order'[c] # "none"
            PROVE  c = t \/ order[c] # "none"
        BY <2>4, <3>1
      <3>2. \A c \in Checkouts : order'[c] # "none" => intent[c] = "succeeded"
        BY <2>1, <3>1
      <3>3. \A c \in Checkouts : order'[c] # "none" => <<c, "earn">> \in ledger
        BY <2>1, <3>1
      <3>4. \A c \in Checkouts :
               order'[c] # "none" /\ RedeemsPoints => <<c, "redeem">> \in ledger
        BY <2>2, <3>1
      <3> QED
        BY <2>3, <3>2, <3>3, <3>4
    <2>7. ConvertedHasOrder'
      BY <2>1, <2>4
    <2> QED
      BY <2>5, <2>6, <2>7
  <1> QED
    BY <1>2, <1>3, <1>4, <1>5, <1>6, <1>7, <1>8, <1>9 DEF Step

(* The inductive invariant of the checkouts: what each request counts on is *)
(* there, and the tables, Stripe and the ledger agree.                      *)
THEOREM Inductive == Spec => []IInv
  <1>1. IInv /\ [Next]_vars => IInv'
    <2> SUFFICES ASSUME IInv, [Next]_vars PROVE IInv'
      OBVIOUS
    <2>1. TypeOK /\ Grounded /\ TypeOK'
      BY TypeStep DEF IInv
    <2>2. CASE UNCHANGED vars
      BY <2>1, <2>2 DEF IInv, Grounded, Trusts, Target, MoneyFirst, OrderIsSettled,
                        ConvertedHasOrder, vars, tables, others, slots
    <2>3. ASSUME NEW c \in Checkouts, Lapse(c) \/ PaymentSucceeds(c) \/ EndOrder(c)
          PROVE  IInv'
      BY <2>1, <2>3, WorldStep
    <2>4. ASSUME NEW h \in Handlers, Request(h) PROVE IInv'
      BY <2>1, <2>4, RequestStep
    <2>5. ASSUME NEW h \in Handlers, Step(h) \/ FailRequest(h) PROVE IInv'
      <3>1. Grounded'
        BY <2>1, <2>5, OneSlot, StepGrows, StepTrusts, OthersTrust
      <3> QED
        BY <2>1, <2>5, <3>1, StepSettles DEF IInv
    <2> QED
      BY <2>2, <2>3, <2>4, <2>5 DEF Next
  <1> QED
    BY <1>1, IInit, PTL DEF Spec

(* Type correctness, for any number of checkouts and requests. *)
THEOREM TypeCorrect == Spec => []TypeOK
  <1>1. IInv => TypeOK
    BY DEF IInv
  <1> QED
    BY <1>1, Inductive, PTL

(* No order without a captured payment and its points. *)
THEOREM OrderIsAlwaysSettled == Spec => []OrderIsSettled
  <1>1. IInv => OrderIsSettled
    BY DEF IInv
  <1> QED
    BY <1>1, Inductive, PTL

(* A draft is CONVERTED exactly when its order exists. *)
THEOREM ConvertedAlwaysHasOrder == Spec => []ConvertedHasOrder
  <1>1. IInv => ConvertedHasOrder
    BY DEF IInv
  <1> QED
    BY <1>1, Inductive, PTL

-----------------------------------------------------------------------------
(* A step of a request moves at most one checkout to another stage, and     *)
(* only as CheckoutLife allows.                                             *)
LifeVars == <<[c \in Checkouts |-> Stage(c)],
              {c \in Checkouts : intent[c] = "succeeded"}>>

(* One checkout changes, and none has been paid meanwhile. *)
LEMMA OneBecomes ==
    ASSUME TypeOK, NEW c \in Checkouts, NEW stage,
           Stage(c)' = stage,
           \A d \in Checkouts \ {c} : Stage(d)' = Stage(d),
           \A d \in Checkouts : intent'[d] = "succeeded" <=> intent[d] = "succeeded"
    PROVE  Life!Become(c, stage)
  <1>1. [d \in Checkouts |-> Stage(d)]'
           = [[d \in Checkouts |-> Stage(d)] EXCEPT ![c] = stage]
    OBVIOUS
  <1>2. UNCHANGED {d \in Checkouts : intent[d] = "succeeded"}
    OBVIOUS
  <1> QED
    BY <1>1, <1>2 DEF Life!Become

(* Nothing changes for the customer. *)
LEMMA NoneBecomes ==
    ASSUME \A d \in Checkouts : Stage(d)' = Stage(d),
           \A d \in Checkouts : intent'[d] = "succeeded" <=> intent[d] = "succeeded"
    PROVE  UNCHANGED LifeVars
  BY DEF LifeVars

LEMMA WorldRefines ==
    ASSUME IInv, NEW c \in Checkouts,
           Lapse(c) \/ PaymentSucceeds(c) \/ EndOrder(c)
    PROVE  Life!Next \/ UNCHANGED LifeVars
  <1> USE DEF IInv, TypeOK, tables, others, slots
  <1>1. CASE Lapse(c)
    BY <1>1, NoneBecomes DEF Lapse, Stage
  <1>2. CASE PaymentSucceeds(c)
    <2>1. Stage(c) \in {"OPEN", "EXPIRED"}
      <3>1. order[c] = "none"
        BY <1>2 DEF PaymentSucceeds, OrderIsSettled
      <3>2. draft[c] \in {"OPEN", "EXPIRED"}
        BY <1>2, <3>1 DEF PaymentSucceeds, MoneyFirst, ConvertedHasOrder
      <3> QED
        BY <3>1, <3>2 DEF Stage
    <2>2. UNCHANGED [d \in Checkouts |-> Stage(d)]
      BY <1>2 DEF PaymentSucceeds, Stage
    <2>3. {d \in Checkouts : intent[d] = "succeeded"}'
            = {d \in Checkouts : intent[d] = "succeeded"} \cup {c}
      BY <1>2 DEF PaymentSucceeds
    <2> QED
      BY <2>1, <2>2, <2>3 DEF Life!Pay, Life!Next
  <1>3. CASE EndOrder(c)
    <2>1. Stage(c) = "active" /\ Stage(c)' = "over"
      BY <1>3 DEF EndOrder, Stage
    <2>2. Life!Become(c, "over")
      BY <1>3, <2>1, OneBecomes DEF EndOrder, Stage
    <2> QED
      BY <2>1, <2>2 DEF Life!End, Life!Next
  <1> QED
    BY <1>1, <1>2, <1>3

LEMMA StepRefines ==
    ASSUME IInv, NEW h \in Handlers, Step(h) \/ FailRequest(h) \/ Request(h)
    PROVE  Life!Next \/ UNCHANGED LifeVars
  <1> USE DEF IInv, TypeOK, tables, others
  <1>0. Trusts(h)
    BY DEF Grounded
  <1>1. CASE UNCHANGED <<draft, order>>
    <2>1. \A d \in Checkouts : intent'[d] = "succeeded" <=> intent[d] = "succeeded"
      <3>1. CASE UNCHANGED intent
        BY <3>1
      <3>2. CASE CreateIntent(h)
        BY <3>2, <1>0 DEF CreateIntent, Trusts, Unaimed
      <3> QED
        BY <3>1, <3>2 DEF Step, Request, FailRequest, CheckActiveOrder, ListOpenDrafts,
             NextStale, InsertDraft, OutOfIds, FindReservation, ReserveDiscount,
             RefuseDiscount, ExpireRefused, ExpireDraft, ReleaseDiscount, SaveIntent,
             ExpireCall, FindOrder, RedeemPoints, EarnPoints, RedeemDiscount,
             PromoteDraft, RecordPayment, Respond, CreateCheckout, OpenSession,
             FinalizeCheckout, ChargeWebhook, ReconcilerRecovers, ReconcilerGivesUp
    <2> QED
      BY <1>1, <2>1, NoneBecomes DEF Stage
  <1>2. CASE InsertDraft(h)
    <2>1. PICK c \in Checkouts :
             /\ QuoteOf[c] = job[h].quote
             /\ IF \E d \in Checkouts : QuoteOf[d] = job[h].quote /\ draft[d] = "OPEN"
                THEN draft[c] = "OPEN" ELSE draft[c] = "none"
             /\ draft' = [draft EXCEPT ![c] = "OPEN"]
      BY <1>2 DEF InsertDraft
    <2>2. UNCHANGED <<order, intent>>
      BY <1>2 DEF InsertDraft
    <2>3. CASE draft[c] = "OPEN"
      BY <2>1, <2>2, <2>3, NoneBecomes DEF Stage
    <2>4. CASE draft[c] = "none"
      <3>1. order[c] = "none"
        BY <2>4 DEF OrderIsSettled, MoneyFirst
      <3>2. Life!Become(c, "OPEN")
        BY <2>1, <2>2, <3>1, OneBecomes DEF Stage
      <3>3. Stage(c) = "none"
        BY <2>4, <3>1 DEF Stage
      <3>4. \A d \in Checkouts : QuoteOf[d] = QuoteOf[c] => Stage(d) # "OPEN"
        BY <2>1, <2>4 DEF Stage
      <3>5. Life!Open(c)
        BY <3>2, <3>3, <3>4 DEF Life!Open
      <3> QED
        BY <3>5 DEF Life!Next
    <2> QED
      BY <2>1, <2>3, <2>4
  <1>3. CASE ExpireRefused(h) \/ ExpireDraft(h)
    <2> DEFINE c == Target(h)
    <2>1. /\ c \in Checkouts
          /\ draft' = [draft EXCEPT ![c] = Expired(c)]
          /\ UNCHANGED <<order, intent>>
      BY <1>0, <1>3 DEF ExpireRefused, ExpireDraft, Trusts, Unaimed
    <2> HIDE DEF c
    <2>2. CASE draft[c] = "OPEN"
      <3>1. order[c] = "none"
        BY <2>1, <2>2 DEF ConvertedHasOrder
      <3>2. Life!Become(c, "EXPIRED")
        BY <2>1, <2>2, <3>1, OneBecomes DEF Stage, Expired
      <3>3. Stage(c) = "OPEN"
        BY <2>2, <3>1 DEF Stage
      <3> QED
        BY <2>1, <3>2, <3>3 DEF Life!Expire, Life!Next
    <2>3. CASE draft[c] # "OPEN"
      BY <2>1, <2>3, NoneBecomes DEF Stage, Expired
    <2> QED
      BY <2>2, <2>3
  <1>4. CASE PromoteDraft(h) /\ order[Target(h)] = "none"
    <2> DEFINE c == Target(h)
    <2>1. /\ c \in Checkouts
          /\ order[c] = "none"
          /\ intent[c] = "succeeded"
          /\ order' = [order EXCEPT ![c] = "active"]
          /\ draft' = [draft EXCEPT ![c] = "CONVERTED"]
          /\ UNCHANGED intent
      BY <1>0, <1>4 DEF PromoteDraft, Trusts, Unaimed, Confirming
    <2> HIDE DEF c
    <2>2. Life!Become(c, "active")
      BY <2>1, OneBecomes DEF Stage
    <2>3. Stage(c) \in {"OPEN", "EXPIRED"}
      BY <2>1 DEF Stage, MoneyFirst, ConvertedHasOrder
    <2> QED
      BY <2>1, <2>2, <2>3 DEF Life!Promote, Life!Next
  <1> QED
    BY <1>1, <1>2, <1>3, <1>4 DEF Step, Request, FailRequest, CheckActiveOrder,
         ListOpenDrafts, NextStale, OutOfIds, FindReservation, ReserveDiscount,
         RefuseDiscount, ReleaseDiscount, CreateIntent, SaveIntent, ExpireCall,
         FindOrder, RedeemPoints, EarnPoints, RedeemDiscount, PromoteDraft,
         RecordPayment, Respond, CreateCheckout, OpenSession, FinalizeCheckout,
         ChargeWebhook, ReconcilerRecovers, ReconcilerGivesUp

(* Drafts, intents and orders implement the checkout a customer may rely on.*)
THEOREM KeepsPromiseAlways == Spec => KeepsPromise
  <1>1. Init => Life!Init
    BY DEF Init, Life!Init, Stage
  <1>2. IInv /\ [Next]_vars => [Life!Next]_LifeVars
    <2> SUFFICES ASSUME IInv, [Next]_vars PROVE Life!Next \/ UNCHANGED LifeVars
      OBVIOUS
    <2>1. CASE UNCHANGED vars
      BY <2>1 DEF vars, tables, others, LifeVars, Stage
    <2> QED
      BY <2>1, WorldRefines, StepRefines DEF Next
  <1> QED
    BY <1>1, <1>2, Inductive, PTL DEF Spec, KeepsPromise, Life!Spec, LifeVars

(* An order that is over stays over. *)
THEOREM OrderAlwaysStaysOver == Spec => OrderStaysOver
  <1>1. IInv /\ [Next]_vars => [\A c \in Checkouts : order[c] = "over" => order'[c] = "over"]_vars
    <2> SUFFICES ASSUME IInv, Next, NEW c \in Checkouts, order[c] = "over"
                 PROVE  order'[c] = "over"
      OBVIOUS
    <2> USE DEF IInv, TypeOK, tables, others
    <2>1. ASSUME NEW d \in Checkouts, Lapse(d) \/ PaymentSucceeds(d) \/ EndOrder(d)
          PROVE  order'[c] = "over"
      BY <2>1 DEF Lapse, PaymentSucceeds, EndOrder
    <2>2. ASSUME NEW h \in Handlers, PromoteDraft(h) PROVE order'[c] = "over"
      BY <2>2 DEF PromoteDraft
    <2>3. ASSUME NEW h \in Handlers, Step(h) \/ FailRequest(h) \/ Request(h),
                 ~PromoteDraft(h)
          PROVE  order' = order
      BY <2>3 DEF Step, Request, FailRequest, CheckActiveOrder, ListOpenDrafts,
           NextStale, InsertDraft, OutOfIds, FindReservation, ReserveDiscount,
           RefuseDiscount, ExpireRefused, ExpireDraft, ReleaseDiscount, CreateIntent,
           SaveIntent, ExpireCall, FindOrder, RedeemPoints, EarnPoints,
           RedeemDiscount, RecordPayment, Respond, CreateCheckout, OpenSession,
           FinalizeCheckout, ChargeWebhook, ReconcilerRecovers, ReconcilerGivesUp
    <2> QED
      BY <2>1, <2>2, <2>3 DEF Next
  <1> QED
    BY <1>1, Inductive, PTL DEF Spec, OrderStaysOver
-----------------------------------------------------------------------------
(* A request that records a payment has the order to record it on, and one  *)
(* that answers has recorded it.                                            *)
Recorded(h) ==
    /\ pc[h] = "record" => order[Target(h)] # "none"
    /\ pc[h] = "ack" => order[Target(h)] # "none" /\ Target(h) \in paymentId

PaymentIInv == PaymentIsRemembered /\ \A h \in Handlers : Recorded(h)

LEMMA PaymentStep ==
    ASSUME IInv, PaymentIInv, [Next]_vars
    PROVE  PaymentIInv'
  <1> USE DEF PaymentIInv, PaymentIsRemembered, Recorded, TypeOK, Target, Goto, Done,
              tables, others, slots
  <1>0. TypeOK /\ Grounded
    BY DEF IInv
  <1> USE <1>0
  <1>1. CASE UNCHANGED vars
    BY <1>1 DEF vars
  <1>2. ASSUME NEW c \in Checkouts, Lapse(c) \/ PaymentSucceeds(c) \/ EndOrder(c)
        PROVE  PaymentIInv'
    <2>1. pc' = pc /\ job' = job /\ paymentId' = paymentId
      BY <1>2 DEF Lapse, PaymentSucceeds, EndOrder
    <2>2. \A d \in Checkouts : order[d] # "none" => order'[d] # "none"
      BY <1>2 DEF Lapse, PaymentSucceeds, EndOrder
    <2>3. \A d \in Checkouts : intent'[d] = "succeeded" =>
             intent[d] = "succeeded" \/ d \in events'
      BY <1>2 DEF Lapse, PaymentSucceeds, EndOrder
    <2>4. events \subseteq events'
      BY <1>2 DEF Lapse, PaymentSucceeds, EndOrder
    <2>5. \A h \in Handlers : pc[h] \in {"record", "ack"} => Target(h) \in Checkouts
      BY DEF Grounded, Trusts, Unaimed
    <2> QED
      BY <2>1, <2>2, <2>3, <2>4, <2>5
  <1>3. ASSUME NEW h \in Handlers, Request(h) PROVE PaymentIInv'
    BY <1>3 DEF Request, CreateCheckout, OpenSession, FinalizeCheckout, ChargeWebhook,
                ReconcilerRecovers, ReconcilerGivesUp, Serve
  <1>4. ASSUME NEW h \in Handlers, Step(h) \/ FailRequest(h) PROVE PaymentIInv'
    <2>1. Target(h) \in Checkouts \/ pc[h] \in Unaimed
      BY DEF Grounded, Trusts
    <2>2. \A g \in Handlers : pc[g] \in {"record", "ack"} => Target(g) \in Checkouts
      BY DEF Grounded, Trusts, Unaimed
    <2>3. \A g \in Handlers \ {h} : pc'[g] = pc[g] /\ job'[g] = job[g]
      BY <1>4, OneSlot
    <2>4. Grows
      BY <1>4, StepGrows
    <2>5. paymentId \subseteq paymentId'
      BY <1>4 DEF Step, FailRequest, CheckActiveOrder, ListOpenDrafts, NextStale,
                  InsertDraft, OutOfIds, FindReservation, ReserveDiscount, RefuseDiscount,
                  ExpireRefused, ExpireDraft, ReleaseDiscount, CreateIntent, SaveIntent,
                  ExpireCall, FindOrder, RedeemPoints, EarnPoints, RedeemDiscount,
                  PromoteDraft, RecordPayment, Respond
    <2>6. \A g \in Handlers \ {h} : Recorded(g)'
      BY <2>2, <2>3, <2>4, <2>5 DEF Grows
    <2>7. Recorded(h)'
      <3>1. CASE FindOrder(h)
        BY <3>1 DEF FindOrder
      <3>2. CASE PromoteDraft(h)
        BY <2>1, <3>2 DEF PromoteDraft, Unaimed
      <3>3. CASE RecordPayment(h)
        BY <3>3 DEF RecordPayment
      <3>4. CASE Respond(h) \/ FailRequest(h) \/ CheckActiveOrder(h) \/ ListOpenDrafts(h)
                 \/ NextStale(h) \/ OutOfIds(h)
        BY <3>4 DEF Respond, FailRequest, CheckActiveOrder, ListOpenDrafts, NextStale,
                    OutOfIds
      <3>5. CASE InsertDraft(h)
        BY <3>5 DEF InsertDraft
      <3>6. CASE FindReservation(h) \/ ReserveDiscount(h) \/ RefuseDiscount(h)
                 \/ ExpireRefused(h) \/ ExpireDraft(h) \/ ReleaseDiscount(h)
        BY <3>6 DEF FindReservation, ReserveDiscount, RefuseDiscount, ExpireRefused,
                    ExpireDraft, ReleaseDiscount
      <3>7. CASE CreateIntent(h) \/ SaveIntent(h) \/ ExpireCall(h) \/ RedeemPoints(h)
                 \/ EarnPoints(h) \/ RedeemDiscount(h)
        BY <3>7 DEF CreateIntent, SaveIntent, ExpireCall, RedeemPoints, EarnPoints,
                    RedeemDiscount
      <3> QED
        BY <1>4, <3>1, <3>2, <3>3, <3>4, <3>5, <3>6, <3>7 DEF Step
    <2>8. PaymentIsRemembered'
      <3>1. CASE Respond(h)
        BY <3>1 DEF Respond
      <3>2. CASE ~Respond(h)
        <4>1. UNCHANGED events
          BY <1>4, <3>2
             DEF Step, FailRequest, CheckActiveOrder, ListOpenDrafts, NextStale,
                 InsertDraft, OutOfIds, FindReservation, ReserveDiscount, RefuseDiscount,
                 ExpireRefused, ExpireDraft, ReleaseDiscount, CreateIntent, SaveIntent,
                 ExpireCall, FindOrder, RedeemPoints, EarnPoints, RedeemDiscount,
                 PromoteDraft, RecordPayment
        <4>2. \A c \in Checkouts : intent'[c] = "succeeded" => intent[c] = "succeeded"
          BY <1>4, <3>2
             DEF Step, FailRequest, CheckActiveOrder, ListOpenDrafts, NextStale,
                 InsertDraft, OutOfIds, FindReservation, ReserveDiscount, RefuseDiscount,
                 ExpireRefused, ExpireDraft, ReleaseDiscount, CreateIntent, SaveIntent,
                 ExpireCall, FindOrder, RedeemPoints, EarnPoints, RedeemDiscount,
                 PromoteDraft, RecordPayment
        <4> QED
          BY <2>4, <2>5, <4>1, <4>2 DEF Grows
      <3> QED
        BY <3>1, <3>2
    <2> QED
      BY <2>6, <2>7, <2>8
  <1> QED
    BY <1>1, <1>2, <1>3, <1>4 DEF Next

(* However requests overlap and die, a captured payment is in an order or   *)
(* still announced by Stripe.                                               *)
THEOREM PaymentIsAlwaysRemembered == Spec => []PaymentIsRemembered
  <1>1. Init => PaymentIInv
    BY DEF Init, PaymentIInv, PaymentIsRemembered, Recorded
  <1>2. IInv /\ PaymentIInv /\ [Next]_vars => PaymentIInv'
    BY PaymentStep
  <1> QED
    BY <1>1, <1>2, Inductive, PTL DEF Spec, PaymentIInv

-----------------------------------------------------------------------------
(* A discount code is held for open drafts only: not when requests overlap   *)
(* or die, so what follows is about one request at a time. Then the draft it *)
(* reserves for stays open, what it expires it also releases, and what it    *)
(* promotes has been redeemed.                                               *)

(* One request at a time, and none that dies. *)
OneByOne == MaxFailures = 0 /\ \A g, h \in Handlers : g = h

(* What the request that is served knows of the redemption of its checkout. *)
Redeems(h) ==
    /\ pc[h] \in {"reserve", "insert", "refused"} => draft[Target(h)] = "OPEN"
    /\ pc[h] \in {"insert", "refused"} => redemption[Target(h)] = "none"
    /\ pc[h] = "promote" => redemption[Target(h)] # "RESERVED"

(* A code is held for an open draft, or for the one being released. *)
HeldOrReleased ==
    \A c \in Checkouts : redemption[c] = "RESERVED" =>
        draft[c] = "OPEN" \/ \E h \in Handlers : pc[h] = "release" /\ Target(h) = c

HeldIInv == (\A h \in Handlers : Redeems(h)) /\ HeldOrReleased

LEMMA OneByOneStep ==
    ASSUME OneByOne, IInv, IInv', HeldIInv, [Next]_vars
    PROVE  HeldIInv'
  <1> USE DEF TypeOK, tables, others, slots
  <1>0. TypeOK /\ Grounded
    BY DEF IInv
  <1> USE <1>0
  <1>1. CASE UNCHANGED vars
    BY <1>1 DEF vars, HeldIInv, Redeems, HeldOrReleased, Target
  <1>2. ASSUME NEW c \in Checkouts, Lapse(c) \/ PaymentSucceeds(c) \/ EndOrder(c)
        PROVE  HeldIInv'
    <2>1. UNCHANGED <<draft, redemption, pc, job>>
      BY <1>2 DEF Lapse, PaymentSucceeds, EndOrder
    <2> QED
      BY <2>1 DEF HeldIInv, Redeems, HeldOrReleased, Target
  <1>3. ASSUME NEW h \in Handlers, FailRequest(h)
        PROVE  FALSE
    BY <1>3 DEF FailRequest, OneByOne
  <1>4. ASSUME NEW h \in Handlers, Request(h)
        PROVE  HeldIInv'
    <2>1. UNCHANGED <<draft, redemption>> /\ pc[h] = "idle"
      BY <1>4 DEF Request, CreateCheckout, OpenSession, FinalizeCheckout, ChargeWebhook,
         ReconcilerRecovers, ReconcilerGivesUp, Serve, Idle
    <2>2. pc'[h] \in {"active", "expire", "intent", "findOrder", "expireCall"}
      BY <1>4 DEF Request, CreateCheckout, OpenSession, FinalizeCheckout, ChargeWebhook,
         ReconcilerRecovers, ReconcilerGivesUp, Serve
    <2>3. \A g \in Handlers : g = h
      BY DEF OneByOne
    <2>4. \A c \in Checkouts : redemption[c] = "RESERVED" => draft[c] = "OPEN"
      BY <2>1, <2>3 DEF HeldIInv, HeldOrReleased
    <2> QED
      BY <2>1, <2>2, <2>3, <2>4 DEF HeldIInv, HeldOrReleased, Redeems
  <1>5. ASSUME NEW h \in Handlers, Step(h)
        PROVE  HeldIInv'
    <2>1. /\ \A g \in Handlers : g = h
          /\ Redeems(h) /\ Trusts(h)
      BY DEF OneByOne, HeldIInv, Grounded
    <2>2. \A c \in Checkouts : redemption[c] = "RESERVED" =>
             draft[c] = "OPEN" \/ (pc[h] = "release" /\ Target(h) = c)
      BY <2>1 DEF HeldIInv, HeldOrReleased
    <2>3. SUFFICES
             /\ Redeems(h)'
             /\ \A c \in Checkouts : redemption'[c] = "RESERVED" =>
                   draft'[c] = "OPEN" \/ (pc'[h] = "release" /\ Target(h)' = c)
      BY <2>1 DEF HeldIInv, HeldOrReleased
    <2>4. pc[h] \notin Unaimed => Target(h) \in Checkouts
      BY <2>1 DEF Trusts
    <2> USE DEF Redeems, Unaimed
    <2>5. CASE CheckActiveOrder(h) \/ ListOpenDrafts(h) \/ NextStale(h) \/ OutOfIds(h)
      <3>1. UNCHANGED <<draft, redemption>> /\ pc[h] \in Unaimed
        BY <2>5 DEF CheckActiveOrder, ListOpenDrafts, NextStale, OutOfIds
      <3>2. pc'[h] \in {"idle", "list", "sweep", "expire"}
        BY <2>5 DEF CheckActiveOrder, ListOpenDrafts, NextStale, OutOfIds, Goto, Done
      <3> QED
        BY <2>2, <3>1, <3>2
    <2>6. CASE InsertDraft(h)
      <3>1. PICK c \in Checkouts :
               /\ draft' = [draft EXCEPT ![c] = "OPEN"]
               /\ IF Discounted
                  THEN /\ pc' = [pc EXCEPT ![h] = "reserve"]
                       /\ job' = [job EXCEPT ![h].checkout = c]
                  ELSE Done(h)
        BY <2>6 DEF InsertDraft
      <3>2. UNCHANGED redemption /\ pc[h] = "sweep"
        BY <2>6 DEF InsertDraft
      <3>3. (pc'[h] = "reserve" /\ job'[h].checkout = c) \/ pc'[h] = "idle"
        BY <3>1 DEF Done
      <3> QED
        BY <2>2, <3>1, <3>2, <3>3 DEF Target
    <2>7. CASE FindReservation(h) \/ RefuseDiscount(h)
      <3>1. UNCHANGED <<draft, redemption>> /\ pc[h] \in {"reserve", "insert"}
        BY <2>7 DEF FindReservation, RefuseDiscount
      <3>2. \/ pc'[h] = "idle"
            \/ /\ pc'[h] \in {"insert", "refused"} /\ UNCHANGED job
               /\ redemption[Target(h)] = "none"
        BY <2>1, <2>7 DEF FindReservation, RefuseDiscount, Goto, Done
      <3> QED
        BY <2>1, <2>2, <3>1, <3>2 DEF Target
    <2>8. CASE ReserveDiscount(h)
      <3>1. /\ redemption' = [redemption EXCEPT ![Target(h)] = "RESERVED"]
            /\ UNCHANGED draft /\ pc[h] = "insert" /\ pc'[h] = "idle"
        BY <2>8 DEF ReserveDiscount, Done
      <3>2. draft[Target(h)] = "OPEN"
        BY <2>1, <3>1
      <3> QED
        BY <2>2, <2>4, <3>1, <3>2
    <2>9. CASE ExpireRefused(h)
      <3>1. /\ draft' = [draft EXCEPT ![Target(h)] = Expired(Target(h))]
            /\ UNCHANGED redemption /\ pc[h] = "refused" /\ pc'[h] = "idle"
        BY <2>9 DEF ExpireRefused, Done
      <3>2. redemption[Target(h)] = "none"
        BY <2>1, <3>1
      <3> QED
        BY <2>2, <2>4, <3>1, <3>2
    <2>10. CASE ExpireDraft(h)
      <3>1. /\ draft' = [draft EXCEPT ![Target(h)] = Expired(Target(h))]
            /\ UNCHANGED <<redemption, job>> /\ pc[h] = "expire" /\ pc'[h] = "release"
        BY <2>10 DEF ExpireDraft, Goto
      <3> QED
        BY <2>2, <2>4, <3>1 DEF Target
    <2>11. CASE ReleaseDiscount(h)
      <3>1. /\ redemption' = IF redemption[Target(h)] = "RESERVED"
                             THEN [redemption EXCEPT ![Target(h)] = "RELEASED"]
                             ELSE redemption
            /\ UNCHANGED draft /\ pc[h] = "release" /\ pc'[h] \in {"sweep", "idle"}
        BY <2>11 DEF ReleaseDiscount, Goto, Done
      <3>2. redemption'[Target(h)] # "RESERVED"
        BY <2>4, <3>1
      <3>3. \A c \in Checkouts : redemption'[c] = "RESERVED" =>
               redemption[c] = "RESERVED" /\ c # Target(h)
        BY <3>1, <3>2
      <3> QED
        BY <2>2, <3>1, <3>3
    <2>12. CASE \/ CreateIntent(h) \/ SaveIntent(h) \/ ExpireCall(h) \/ FindOrder(h)
                \/ RedeemPoints(h) \/ EarnPoints(h) \/ RecordPayment(h) \/ Respond(h)
      <3>1. UNCHANGED <<draft, redemption>> /\ pc[h] # "release"
        BY <2>12 DEF CreateIntent, SaveIntent, ExpireCall, FindOrder, RedeemPoints,
           EarnPoints, RecordPayment, Respond
      <3>2. pc'[h] \in {"idle", "saveIntent", "expire", "record", "redeem", "earn",
                        "redeemDiscount", "ack"}
        BY <2>12 DEF CreateIntent, SaveIntent, ExpireCall, FindOrder, RedeemPoints,
           EarnPoints, RecordPayment, Respond, Goto, Done
      <3> QED
        BY <2>2, <3>1, <3>2
    <2>13. CASE RedeemDiscount(h)
      <3>1. /\ redemption' = IF redemption[Target(h)] = "RESERVED"
                             THEN [redemption EXCEPT ![Target(h)] = "REDEEMED"]
                             ELSE redemption
            /\ UNCHANGED <<draft, job>> /\ pc[h] = "redeemDiscount" /\ pc'[h] = "promote"
        BY <2>13 DEF RedeemDiscount, Goto
      <3>2. redemption'[Target(h)] # "RESERVED"
        BY <2>4, <3>1
      <3>3. \A c \in Checkouts : redemption'[c] = "RESERVED" => redemption[c] = "RESERVED"
        BY <3>1
      <3> QED
        BY <2>2, <3>1, <3>2, <3>3 DEF Target
    <2>14. CASE PromoteDraft(h)
      <3>1. /\ draft' \in {draft, [draft EXCEPT ![Target(h)] = "CONVERTED"]}
            /\ UNCHANGED redemption /\ pc[h] = "promote" /\ pc'[h] = "record"
        BY <2>14 DEF PromoteDraft, Goto
      <3>2. redemption[Target(h)] # "RESERVED"
        BY <2>1, <3>1
      <3> QED
        BY <2>2, <3>1, <3>2
    <2> QED
      BY <1>5, <2>5, <2>6, <2>7, <2>8, <2>9, <2>10, <2>11, <2>12, <2>13, <2>14 DEF Step
  <1> QED
    BY <1>1, <1>2, <1>3, <1>4, <1>5 DEF Next

(* While requests come one by one and none dies, a discount code is held for *)
(* open drafts only: what has expired has given its redemption back.         *)
THEOREM HeldForOpenOnly ==
    ASSUME OneByOne
    PROVE  Spec => []ReservedOnlyOpen
  <1>1. Init => HeldIInv
    BY DEF Init, HeldIInv, Redeems, HeldOrReleased, Target, NoJob
  <1>2. IInv /\ IInv' /\ HeldIInv /\ [Next]_vars => HeldIInv'
    BY OneByOneStep
  <1>3. HeldIInv => ReservedOnlyOpen
    BY DEF HeldIInv, HeldOrReleased, ReservedOnlyOpen, Idle
  <1> QED
    BY <1>1, <1>2, <1>3, Inductive, PTL DEF Spec
=============================================================================
