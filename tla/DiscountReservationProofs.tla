---------------------- MODULE DiscountReservationProofs ----------------------
(***************************************************************************)
(* The discount reservation keeps the code's promise for every number of    *)
(* orders, customers and requests, and all limits. The argument is the lock:*)
(* between the count and the insert no other request adds a redemption and  *)
(* nobody changes the terms, and what payments and cancellations do         *)
(* meanwhile only makes room.                                               *)
(***************************************************************************)
EXTENDS DiscountReservation, FiniteSetTheorems, TLAPS

(* Whoever is between lock and commit holds the lock, and nobody else is.   *)
LockHeld == \A r \in Requests : InTransaction(r) <=> lock = r

(* What a request has checked still holds when it inserts. *)
ChecksHold ==
    \A r \in Requests :
       /\ pc[r] \in {"customer", "insert"} => HasRoom
       /\ pc[r] = "insert" => FreeFor(CustomerOf[for[r]])

IInv == TypeOK /\ LockHeld /\ ChecksHold

USE CodeOK, RequestsOK DEF TermsOK, RedemptionStatuses

-----------------------------------------------------------------------------
(* Fewer active redemptions leave the room and the freedom there was.       *)
LEMMA ActiveFinite ==
    /\ IsFiniteSet(Active)
    /\ Cardinality(Active) \in Nat
  <1>1. Active \subseteq Orders
    BY DEF Active
  <1> QED
    BY <1>1, FS_Subset, FS_CardinalityType

LEMMA FewerActive ==
    ASSUME TypeOK, Active' \subseteq Active, UNCHANGED <<limit, once>>
    PROVE  /\ HasRoom => HasRoom'
           /\ \A c \in Customers : FreeFor(c) => FreeFor(c)'
  <1>1. /\ Cardinality(Active') \in Nat
        /\ Cardinality(Active) \in Nat
        /\ Cardinality(Active') <= Cardinality(Active)
    BY ActiveFinite, FS_Subset, FS_CardinalityType
  <1>2. limit \in Nat \/ limit = NoLimit
    BY DEF TypeOK
  <1>3. HasRoom => HasRoom'
    BY <1>1, <1>2 DEF HasRoom
  <1>4. \A c \in Customers : FreeFor(c) => FreeFor(c)'
    BY DEF FreeFor
  <1> QED
    BY <1>3, <1>4

(* A status moved on from RESERVED makes no redemption active. *)
LEMMA MoveOn ==
    ASSUME TypeOK, NEW o \in Orders, NEW status \in {"REDEEMED", "RELEASED"},
           redemption[o] = "RESERVED",
           redemption' = [redemption EXCEPT ![o] = status]
    PROVE  Active' \subseteq Active
  BY DEF TypeOK, Active, IsActive

-----------------------------------------------------------------------------
THEOREM TypeInit == Init => TypeOK
  BY DEF Init, TypeOK, TermsInit, Statements

LEMMA TypeStep == TypeOK /\ [Next]_vars => TypeOK'
  <1> SUFFICES ASSUME TypeOK, [Next]_vars PROVE TypeOK'
    OBVIOUS
  <1> USE DEF TypeOK, Statements, Goto, Close
  <1>1. CASE UNCHANGED vars
    BY <1>1 DEF vars, code
  <1>2. CASE UpdateDiscountCode
    BY <1>2 DEF UpdateDiscountCode
  <1>3. ASSUME NEW o \in Orders, RedeemDiscount(o) \/ ReleaseDiscount(o) PROVE TypeOK'
    BY <1>3 DEF RedeemDiscount, ReleaseDiscount
  <1>4. ASSUME NEW r \in Requests PROVE Reserving(r) => TypeOK'
    <2>1. CASE FindExisting(r)
      BY <2>1 DEF FindExisting, code
    <2>2. CASE LockCode(r)
      BY <2>2 DEF LockCode, code
    <2>3. CASE CountRedemptions(r)
      BY <2>3 DEF CountRedemptions, code
    <2>4. CASE CheckCustomer(r)
      BY <2>4 DEF CheckCustomer, code
    <2>5. CASE InsertAndCommit(r)
      BY <2>5 DEF InsertAndCommit
    <2> QED
      BY <2>1, <2>2, <2>3, <2>4, <2>5 DEF Reserving
  <1>5. ASSUME NEW r \in Requests, Die(r) PROVE TypeOK'
    BY <1>5 DEF Die, code
  <1>6. ASSUME NEW r \in Requests, NEW o \in Orders, Validate(r, o) PROVE TypeOK'
    BY <1>6 DEF Validate, code
  <1> QED
    BY <1>1, <1>2, <1>3, <1>4, <1>5, <1>6 DEF Next

(* The lock goes with the transaction.                                      *)
LEMMA LockStep == TypeOK /\ LockHeld /\ [Next]_vars => LockHeld'
  <1> SUFFICES ASSUME TypeOK, LockHeld, [Next]_vars PROVE LockHeld'
    OBVIOUS
  <1> USE DEF TypeOK, LockHeld, InTransaction, Statements, Goto, Close
  <1>1. CASE UNCHANGED vars
    BY <1>1 DEF vars
  <1>2. CASE UpdateDiscountCode
    BY <1>2 DEF UpdateDiscountCode
  <1>3. ASSUME NEW o \in Orders, RedeemDiscount(o) \/ ReleaseDiscount(o) PROVE LockHeld'
    BY <1>3 DEF RedeemDiscount, ReleaseDiscount
  <1>4. ASSUME NEW r \in Requests PROVE Reserving(r) => LockHeld'
    <2>1. CASE FindExisting(r)
      BY <2>1 DEF FindExisting
    <2>2. CASE LockCode(r)
      BY <2>2 DEF LockCode
    <2>3. CASE CountRedemptions(r)
      BY <2>3 DEF CountRedemptions
    <2>4. CASE CheckCustomer(r)
      BY <2>4 DEF CheckCustomer
    <2>5. CASE InsertAndCommit(r)
      BY <2>5 DEF InsertAndCommit
    <2> QED
      BY <2>1, <2>2, <2>3, <2>4, <2>5 DEF Reserving
  <1>5. ASSUME NEW r \in Requests, Die(r) PROVE LockHeld'
    BY <1>5 DEF Die
  <1>6. ASSUME NEW r \in Requests, NEW o \in Orders, Validate(r, o) PROVE LockHeld'
    BY <1>6 DEF Validate
  <1> QED
    BY <1>1, <1>2, <1>3, <1>4, <1>5, <1>6 DEF Next

(* Steps that leave the code as it is disturb nobody's checks, provided the *)
(* request that moved comes out of them with its own checks.                *)
LEMMA CodeUnchanged ==
    ASSUME TypeOK, ChecksHold, UNCHANGED code, NEW r \in Requests,
           \A q \in Requests \ {r} : pc'[q] = pc[q] /\ for'[q] = for[q],
           pc'[r] \in {"customer", "insert"} => HasRoom,
           pc'[r] = "insert" => FreeFor(CustomerOf[for'[r]])
    PROVE  ChecksHold'
  <1>1. (HasRoom' <=> HasRoom) /\ \A c : FreeFor(c)' <=> FreeFor(c)
    BY DEF code, HasRoom, FreeFor, Active, IsActive
  <1> QED
    BY <1>1 DEF ChecksHold

(* The two updates without the lock only take redemptions out of RESERVED.  *)
LEMMA UnlockedUpdates ==
    ASSUME TypeOK, ChecksHold, NEW o \in Orders,
           RedeemDiscount(o) \/ ReleaseDiscount(o)
    PROVE  ChecksHold'
  <1>1. Active' \subseteq Active
    BY MoveOn DEF RedeemDiscount, ReleaseDiscount
  <1>2. UNCHANGED <<limit, once, pc, for>>
    BY DEF RedeemDiscount, ReleaseDiscount
  <1>3. /\ HasRoom => HasRoom'
        /\ \A c \in Customers : FreeFor(c) => FreeFor(c)'
    BY <1>1, <1>2, FewerActive
  <1>4. \A q \in Requests : CustomerOf[for[q]] \in Customers
    BY DEF TypeOK
  <1>5. ASSUME NEW q \in Requests, pc[q] = "insert"
        PROVE  FreeFor(CustomerOf[for[q]])'
    <2>1. FreeFor(CustomerOf[for[q]])
      BY <1>5 DEF ChecksHold
    <2>2. \A c \in Customers : c = CustomerOf[for[q]] => FreeFor(c)'
      BY <1>3, <2>1
    <2>3. CustomerOf'[for'[q]] = CustomerOf[for[q]]
      BY <1>2
    <2> QED
      BY <1>4, <2>2, <2>3, <1>2 DEF FreeFor
  <1> QED
    BY <1>2, <1>3, <1>5 DEF ChecksHold

LEMMA ChecksStep == IInv /\ [Next]_vars => ChecksHold'
  <1> SUFFICES ASSUME IInv, [Next]_vars PROVE ChecksHold'
    OBVIOUS
  <1> USE DEF IInv, TypeOK
  <1>1. CASE UNCHANGED vars
    BY <1>1 DEF vars, ChecksHold, HasRoom, FreeFor, Active, IsActive
  <1>2. CASE UpdateDiscountCode
    (* Nobody is between lock and commit, so there are no checks to keep. *)
    BY <1>2 DEF UpdateDiscountCode, ChecksHold, LockHeld, InTransaction
  <1>3. ASSUME NEW o \in Orders, RedeemDiscount(o) \/ ReleaseDiscount(o) PROVE ChecksHold'
    BY <1>3, UnlockedUpdates
  <1>4. ASSUME NEW r \in Requests PROVE Reserving(r) => ChecksHold'
    <2>1. CASE FindExisting(r)
      BY <2>1, CodeUnchanged DEF FindExisting, Goto, code
    <2>2. CASE LockCode(r)
      BY <2>2, CodeUnchanged DEF LockCode, code
    <2>3. CASE CountRedemptions(r)
      BY <2>3, CodeUnchanged DEF CountRedemptions, Goto, Close, code
    <2>4. CASE CheckCustomer(r)
      <3>1. HasRoom
        BY <2>4 DEF CheckCustomer, ChecksHold
      <3> QED
        BY <2>4, <3>1, CodeUnchanged DEF CheckCustomer, Goto, Close, code
    <2>5. CASE InsertAndCommit(r)
      (* The one request in the transaction has left it. *)
      BY <2>5 DEF InsertAndCommit, Close, ChecksHold, LockHeld, InTransaction, Statements
    <2> QED
      BY <2>1, <2>2, <2>3, <2>4, <2>5 DEF Reserving
  <1>5. ASSUME NEW r \in Requests, Die(r) PROVE ChecksHold'
    BY <1>5, CodeUnchanged DEF Die, Goto, Close, code
  <1>6. ASSUME NEW r \in Requests, NEW o \in Orders, Validate(r, o) PROVE ChecksHold'
    BY <1>6, CodeUnchanged DEF Validate, code
  <1> QED
    BY <1>1, <1>2, <1>3, <1>4, <1>5, <1>6 DEF Next

THEOREM Inductive == Spec => []IInv
  <1>1. Init => IInv
    BY TypeInit DEF Init, IInv, LockHeld, ChecksHold, InTransaction
  <1>2. IInv /\ [Next]_vars => IInv'
    BY TypeStep, LockStep, ChecksStep DEF IInv
  <1> QED
    BY <1>1, <1>2, PTL DEF Spec

(* Every variable keeps its type. *)
THEOREM TypeCorrect == Spec => []TypeOK
  BY Inductive, PTL DEF IInv

(* The holder of the row a request waits for is between lock and commit.    *)
THEOREM SomeoneAlwaysGoesOn == Spec => []SomeoneGoesOn
  <1>1. IInv => SomeoneGoesOn
    <2> SUFFICES ASSUME IInv, NEW r \in Requests, pc[r] # "idle"
                 PROVE  \E q \in Requests :
                           pc[q] # "idle" /\ (pc[q] = "lock" => lock = NoOne)
      BY DEF SomeoneGoesOn
    <2>1. CASE lock = NoOne
      BY <2>1
    <2>2. CASE lock # NoOne
      <3>1. lock \in Requests
        BY <2>2 DEF IInv, TypeOK
      <3>2. InTransaction(lock)
        BY <3>1 DEF IInv, LockHeld
      <3> QED
        BY <3>1, <3>2 DEF InTransaction
    <2> QED
      BY <2>1, <2>2
  <1> QED
    BY <1>1, Inductive, PTL

-----------------------------------------------------------------------------
(* Reservations come one at a time: the only step that adds an active       *)
(* redemption adds one, with room and freedom still there.                  *)
LEMMA OneReservation ==
    ASSUME IInv, [Next]_vars, ~(Active' \subseteq Active)
    PROVE  \E o \in Orders :
              /\ redemption[o] = "none"
              /\ redemption' = [redemption EXCEPT ![o] = "RESERVED"]
              /\ HasRoom
              /\ FreeFor(CustomerOf[o])
              /\ UNCHANGED <<limit, once>>
  <1>1. redemption' # redemption
    BY DEF Active, IsActive
  <1>2. PICK r \in Requests : InsertAndCommit(r)
    <2>1. ~\E o \in Orders : RedeemDiscount(o) \/ ReleaseDiscount(o)
      BY MoveOn DEF IInv, RedeemDiscount, ReleaseDiscount
    <2>2. ASSUME NEW r \in Requests,
                 Die(r) \/ FindExisting(r) \/ LockCode(r) \/ CountRedemptions(r)
                 \/ CheckCustomer(r) \/ \E o \in Orders : Validate(r, o)
          PROVE  FALSE
      BY <1>1, <2>2 DEF Die, FindExisting, LockCode, CountRedemptions,
                        CheckCustomer, Validate, code
    <2> QED
      BY <1>1, <2>1, <2>2 DEF Next, Reserving, UpdateDiscountCode, vars
  <1>3. for[r] \in Orders
    BY DEF IInv, TypeOK
  <1> WITNESS for[r] \in Orders
  <1> QED
    BY <1>1, <1>2 DEF InsertAndCommit, IInv, TypeOK, ChecksHold

(* A redemption is never added beyond the limit in force. *)
THEOREM LimitIsHonoured == Spec => LimitHonoured
  <1> DEFINE Step == limit # NoLimit /\ ~(Active' \subseteq Active)
                        => Cardinality(Active') <= limit
  <1>1. IInv /\ [Next]_vars => [Step]_vars
    <2> SUFFICES ASSUME IInv, [Next]_vars, limit # NoLimit, ~(Active' \subseteq Active)
                 PROVE  Cardinality(Active') <= limit
      OBVIOUS
    <2>1. PICK o \in Orders : /\ redemption' = [redemption EXCEPT ![o] = "RESERVED"]
                              /\ redemption[o] = "none"
                              /\ HasRoom
      BY OneReservation
    <2>2. Active' = Active \cup {o}
      BY <2>1 DEF IInv, TypeOK, Active, IsActive
    <2>3. Cardinality(Active') = Cardinality(Active) + 1
      BY <2>1, <2>2, ActiveFinite, FS_AddElement DEF Active, IsActive
    <2>4. limit \in Nat /\ Cardinality(Active) < limit
      BY <2>1 DEF IInv, TypeOK, HasRoom
    <2> QED
      BY <2>3, <2>4, ActiveFinite
  <1> QED
    BY <1>1, Inductive, PTL DEF Spec, LimitHonoured

(* No customer gets a second active redemption of a once-per-customer code. *)
THEOREM OncePerCustomerIsHonoured == Spec => OncePerCustomerHonoured
  <1> DEFINE Step == \A o, p \in Active' :
                        once /\ o # p /\ CustomerOf[o] = CustomerOf[p]
                           => {o, p} \subseteq Active
  <1>1. IInv /\ [Next]_vars => [Step]_vars
    <2> SUFFICES ASSUME IInv, [Next]_vars, once, NEW o \in Active', NEW p \in Active',
                        o # p, CustomerOf[o] = CustomerOf[p], ~({o, p} \subseteq Active)
                 PROVE  FALSE
      OBVIOUS
    <2>1. PICK n \in Orders : /\ redemption' = [redemption EXCEPT ![n] = "RESERVED"]
                              /\ FreeFor(CustomerOf[n])
      BY OneReservation
    <2>2. Active' \subseteq Active \cup {n}
      BY <2>1 DEF IInv, TypeOK, Active, IsActive
    <2> QED
      BY <2>1, <2>2 DEF FreeFor
  <1> QED
    BY <1>1, Inductive, PTL DEF Spec, OncePerCustomerHonoured

(* For any number of requests and whatever becomes of the terms meanwhile,  *)
(* they hold when a redemption is added (reserveDiscountForOrder).          *)
THEOREM TermsAlwaysHonoured == Spec => TermsHonoured
  BY LimitIsHonoured, OncePerCustomerIsHonoured DEF TermsHonoured

(* The locked transaction implements one atomic reservation. *)
THEOREM KeepsPromiseAlways == Spec => KeepsPromise
  <1>1. Init => Promise!TermsInit
    BY DEF Init, TermsInit, Promise!TermsInit
  <1>2. IInv /\ [Next]_vars => [Promise!Next]_<<redemption, limit, once>>
    <2> SUFFICES ASSUME IInv, [Next]_vars
                 PROVE  Promise!Next \/ UNCHANGED <<redemption, limit, once>>
      OBVIOUS
    <2>1. CASE ~(Active' \subseteq Active)
      <3>1. PICK o \in Orders : /\ redemption[o] = "none"
                                /\ redemption' = [redemption EXCEPT ![o] = "RESERVED"]
                                /\ HasRoom
                                /\ FreeFor(CustomerOf[o])
                                /\ UNCHANGED <<limit, once>>
        BY <2>1, OneReservation
      <3>2. Promise!Active = Active
        BY DEF Promise!Active, Promise!IsActive, Active, IsActive
      <3>3. Promise!Cardinality(Active) = Cardinality(Active)
        BY DEF Promise!Cardinality, Cardinality
      <3>4. Promise!HasRoom
        BY <3>1, <3>2, <3>3 DEF Promise!HasRoom, HasRoom
      <3>5. Promise!FreeFor(CustomerOf[o])
        BY <3>1, <3>2 DEF Promise!FreeFor, FreeFor
      <3>6. Promise!Reserve(o)
        BY <3>1, <3>4, <3>5 DEF Promise!Reserve, Promise!Move
      <3> QED
        BY <3>6 DEF Promise!Next
    <2>2. CASE UpdateDiscountCode
      BY <2>2 DEF UpdateDiscountCode, Promise!ChangeTerms, Promise!Next
    <2>3. ASSUME NEW o \in Orders, RedeemDiscount(o) \/ ReleaseDiscount(o)
          PROVE  Promise!Next
      BY <2>3 DEF RedeemDiscount, ReleaseDiscount, Promise!Move, Promise!Next
    <2>4. ASSUME Active' \subseteq Active, NEW r \in Requests, InsertAndCommit(r)
          PROVE  UNCHANGED <<redemption, limit, once>>
      BY <2>4 DEF InsertAndCommit, Active, IsActive, IInv, TypeOK
    <2>5. ASSUME NEW r \in Requests,
                 Die(r) \/ FindExisting(r) \/ LockCode(r) \/ CountRedemptions(r)
                 \/ CheckCustomer(r) \/ \E o \in Orders : Validate(r, o)
          PROVE  UNCHANGED <<redemption, limit, once>>
      BY <2>5 DEF Die, FindExisting, LockCode, CountRedemptions, CheckCustomer,
                  Validate, code
    <2> QED
      BY <2>1, <2>2, <2>3, <2>4, <2>5 DEF Next, Reserving, vars
  <1> QED
    BY <1>1, <1>2, Inductive, PTL DEF Spec, KeepsPromise, Promise!Spec
=============================================================================
