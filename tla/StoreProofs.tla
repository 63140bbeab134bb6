---------------------------- MODULE StoreProofs -----------------------------
(***************************************************************************)
(* Proofs about opening a store: the Stripe account it is paid on, the     *)
(* approval it is launched with, and when it says it opens. No theorem of  *)
(* one is used in another.                                                 *)
(* For each: what is true of every state besides the types, the invariant  *)
(* they make up, its steps, and the theorems.                              *)
(***************************************************************************)
EXTENDS StripeConnect, LaunchApproval, StoreHours, SequenceTheorems,
        NaturalsInduction, WellFoundedInduction, TLAPS

-----------------------------------------------------------------------------
(***************************************************************************)
(* Connecting a Stripe account: StripeConnect.                             *)
(***************************************************************************)

(* Whatever names an account names one that Stripe has made, and a request  *)
(* has one wherever it asks Stripe or the catalog about it.                 *)
AccountsExist ==
    /\ profile.account \in {0} \cup Accounts
    /\ \A s \in ConnectSlots :
          /\ connecting[s].account \in {0} \cup Accounts
          /\ connecting[s].step \in {"retrieve", "write", "link"} => connecting[s].account # 0
    /\ \A p \in Sales : asked[p] \in {0} \cup Accounts
    /\ \A c \in charges : c.account \in Accounts

(* Stripe's idempotency keys: one charge for a checkout and an account. *)
OneChargePerKey ==
    \A c, d \in charges : c.sale = d.sale /\ c.account = d.account => c = d

(* The account that the profile names may be replaced. *)
Replaceable == profile.account = 0 \/ Gone(profile.account)

(* One Connect request at a time, and while it is served nothing else       *)
(* writes the profile: it works on the account the profile names, or on one *)
(* that may be replaced.                                                    *)
OneConnects ==
    \A s, t \in ConnectSlots : ~ConnectAt(s, "idle") /\ ~ConnectAt(t, "idle") => s = t

WorksOnProfile(s) ==
    /\ connecting[s].step \in {"retrieve", "link"} => connecting[s].account = profile.account
    /\ ConnectAt(s, "create") => Replaceable
    /\ ConnectAt(s, "write") => connecting[s].account = profile.account \/ Replaceable

(* No account but the profile's was ever onboarded and is still there, so   *)
(* none but it was charged on and is still there.                           *)
OneInUse ==
    /\ \A a \in Accounts : a # profile.account => expressAccounts[a] \in {"new", "gone"}
    /\ \A c \in charges : c.account = profile.account \/ Gone(c.account)

ConnectIInv ==
    /\ ConnectTypeOK /\ AccountsExist /\ OneChargePerKey
    /\ entwined \/ (OneConnects /\ (\A s \in ConnectSlots : WorksOnProfile(s)) /\ OneInUse)

LEMMA ConnectRows ==
    ASSUME ConnectTypeOK
    PROVE  /\ Len(expressAccounts) \in Nat /\ Accounts = 1..Len(expressAccounts)
           /\ Accounts \subseteq 1..MaxAccounts
           /\ \A a \in Accounts : expressAccounts[a] \in Standings
           /\ \A s \in ConnectSlots : connecting[s] \in ConnectRequests
           /\ \A c \in charges : c \in Charges
  BY ConnectOK, LenProperties, ElementOfSeq DEF ConnectTypeOK, Accounts

LEMMA NextAccount ==
    ASSUME ConnectTypeOK, Len(expressAccounts) < MaxAccounts
    PROVE  Len(expressAccounts) + 1 \in 0..MaxAccounts
  BY ConnectOK, LenProperties DEF ConnectTypeOK

(* The history only ever becomes true. *)
LEMMA EntwiningIsNoted ==
    ASSUME ConnectTypeOK, ConnectNext
    PROVE  entwined' \in BOOLEAN /\ (~entwined' => ~entwined)
  <1>1. \/ UNCHANGED entwined
        \/ entwined' = (entwined \/ \E t \in ConnectSlots : ~ConnectAt(t, "idle"))
    BY DEF ConnectNext, BeginConnect, RetrieveAccount, CreateAccount, WriteProfile, MakeLink,
           ConnectDies, CloseAccount, SetEnabled, AskSession, OpenSession, Pay, RefundCharge,
           ChargeBecomes
  <1> QED
    BY <1>1 DEF ConnectTypeOK

(* A step that a request is passed on to, and the request's fields. *)
LEMMA ConnectShapes ==
    /\ Unconnected \in ConnectRequests
    /\ \A r \in ConnectRequests, step \in {"retrieve", "create", "write", "link"} :
          [r EXCEPT !.step = step] \in ConnectRequests
    /\ \A r \in ConnectRequests, a \in 0..MaxAccounts :
          [r EXCEPT !.step = "write", !.account = a] \in ConnectRequests
    /\ \A r \in ConnectRequests, b \in BOOLEAN :
          [r EXCEPT !.step = "write", !.enabled = b] \in ConnectRequests
  <1>1. Unconnected \in ConnectRequests
    BY ConnectOK DEF ConnectRequests, Unconnected
  <1>2. ASSUME NEW r \in ConnectRequests, NEW step \in {"retrieve", "create", "write", "link"}
        PROVE  [r EXCEPT !.step = step] \in ConnectRequests
    BY DEF ConnectRequests
  <1>3. ASSUME NEW r \in ConnectRequests, NEW a \in 0..MaxAccounts
        PROVE  [r EXCEPT !.step = "write", !.account = a] \in ConnectRequests
    BY DEF ConnectRequests
  <1>4. ASSUME NEW r \in ConnectRequests, NEW b \in BOOLEAN
        PROVE  [r EXCEPT !.step = "write", !.enabled = b] \in ConnectRequests
    BY DEF ConnectRequests
  <1> QED
    BY <1>1, <1>2, <1>3, <1>4

(* What a Connect request's step does to its slot: the others' stay. *)
LEMMA ConnectSteps ==
    ASSUME ConnectTypeOK, AccountsExist, NEW s \in ConnectSlots,
           \/ \E link \in BOOLEAN : BeginConnect(s, link)
           \/ RetrieveAccount(s) \/ CreateAccount(s) \/ WriteProfile(s) \/ MakeLink(s)
           \/ ConnectDies(s)
    PROVE  \E r \in ConnectRequests :
               connecting' = [connecting EXCEPT ![s] = r]
  <1> USE ConnectRows, ConnectShapes
  <1>1. ASSUME NEW link \in BOOLEAN, BeginConnect(s, link)
        PROVE  \E r \in ConnectRequests : connecting' = [connecting EXCEPT ![s] = r]
    <2> DEFINE r == [step |-> IF profile.account = 0 THEN "create" ELSE "retrieve",
                     link |-> link, account |-> profile.account, enabled |-> FALSE]
    <2>1. r \in ConnectRequests
      BY DEF ConnectTypeOK, ConnectRequests
    <2> QED
      BY <1>1, <2>1 DEF BeginConnect
  <1>2. CASE RetrieveAccount(s)
    <2>1. CASE Retrieved(s)
      <3> DEFINE b == expressAccounts[connecting[s].account] = "enabled"
      <3>1. b \in BOOLEAN
        OBVIOUS
      <3>2. connecting' = [connecting EXCEPT
                ![s] = [connecting[s] EXCEPT !.step = "write", !.enabled = b]]
        BY <2>1 DEF Retrieved, ConnectTypeOK
      <3> HIDE DEF b
      <3> QED
        BY <3>1, <3>2
    <2>2. CASE ConnectOn(s, "create")
      <3>1. connecting' = [connecting EXCEPT ![s] = [connecting[s] EXCEPT !.step = "create"]]
        BY <2>2 DEF ConnectOn
      <3> QED
        BY <3>1
    <2>3. CASE ConnectDone(s)
      BY <2>3 DEF ConnectDone
    <2> QED
      BY <1>2, <2>1, <2>2, <2>3 DEF RetrieveAccount
  <1>3. CASE CreateAccount(s)
    <2> DEFINE a == Len(expressAccounts) + 1
    <2>1. a \in 0..MaxAccounts
      BY <1>3, NextAccount DEF CreateAccount
    <2>2. connecting' = [connecting EXCEPT
              ![s] = [connecting[s] EXCEPT !.step = "write", !.account = a]]
      BY <1>3 DEF CreateAccount, ConnectTypeOK
    <2> HIDE DEF a
    <2> QED
      BY <2>1, <2>2
  <1>4. CASE WriteProfile(s)
    <2>1. CASE ConnectOn(s, "link")
      <3>1. connecting' = [connecting EXCEPT ![s] = [connecting[s] EXCEPT !.step = "link"]]
        BY <2>1 DEF ConnectOn
      <3> QED
        BY <3>1
    <2> QED
      BY <1>4, <2>1 DEF WriteProfile, ConnectDone
  <1>5. CASE MakeLink(s) \/ ConnectDies(s)
    BY <1>5 DEF MakeLink, ConnectDies, ConnectDone
  <1> QED
    BY <1>1, <1>2, <1>3, <1>4, <1>5

LEMMA ConnectTypeStep ==
    ASSUME ConnectTypeOK, AccountsExist, ConnectNext
    PROVE  ConnectTypeOK'
  <1> USE ConnectRows, ConnectOK
  <1>1. connecting' \in [ConnectSlots -> ConnectRequests]
    <2>1. \/ UNCHANGED connecting
          \/ \E s \in ConnectSlots : \E r \in ConnectRequests :
                 connecting' = [connecting EXCEPT ![s] = r]
      BY ConnectSteps
         DEF ConnectNext, CloseAccount, SetEnabled, AskSession, OpenSession, Pay, RefundCharge,
             ChargeBecomes
    <2> QED
      BY <2>1 DEF ConnectTypeOK
  <1>2. expressAccounts' \in Seq(Standings) /\ Len(expressAccounts') <= MaxAccounts
    <2>1. ASSUME NEW a \in Accounts, NEW standing \in Standings,
                 expressAccounts' = [expressAccounts EXCEPT ![a] = standing]
          PROVE  expressAccounts' \in Seq(Standings) /\ Len(expressAccounts') <= MaxAccounts
      BY <2>1, ExceptSeq DEF ConnectTypeOK, Accounts
    <2>2. ASSUME NEW s \in ConnectSlots, CreateAccount(s)
          PROVE  expressAccounts' \in Seq(Standings) /\ Len(expressAccounts') <= MaxAccounts
      <3>1. "new" \in Standings
        BY DEF Standings
      <3> QED
        BY <2>2, <3>1, AppendProperties DEF CreateAccount, ConnectTypeOK
    <2>3. ASSUME NEW s \in ConnectSlots, MakeLink(s)
          PROVE  expressAccounts' \in Seq(Standings) /\ Len(expressAccounts') <= MaxAccounts
      <3> DEFINE a == connecting[s].account
      <3>1. a \in Accounts
        BY <2>3 DEF MakeLink, AccountsExist, ConnectAt
      <3>2. (IF expressAccounts[a] = "new" THEN "linked" ELSE expressAccounts[a]) \in Standings
        BY <3>1 DEF Standings
      <3> QED
        BY <2>1, <2>3, <3>1, <3>2 DEF MakeLink
    <2>4. ASSUME NEW a \in Accounts, CloseAccount(a) \/ SetEnabled(a)
          PROVE  expressAccounts' \in Seq(Standings) /\ Len(expressAccounts') <= MaxAccounts
      <3>1. \E standing \in Standings :
                expressAccounts' = [expressAccounts EXCEPT ![a] = standing]
        BY <2>4 DEF CloseAccount, SetEnabled, Standings
      <3> QED
        BY <2>1, <3>1
    <2> QED
      BY <2>2, <2>3, <2>4
         DEF ConnectNext, ConnectTypeOK, BeginConnect, RetrieveAccount, WriteProfile,
             ConnectDies, AskSession, OpenSession, Pay, RefundCharge, ChargeBecomes
  <1>3. profile' \in [account : 0..MaxAccounts, ready : BOOLEAN]
    <2>1. ASSUME NEW s \in ConnectSlots, WriteProfile(s)
          PROVE  profile' \in [account : 0..MaxAccounts, ready : BOOLEAN]
      BY <2>1 DEF WriteProfile, ConnectRequests
    <2>2. UNCHANGED profile \/ \E s \in ConnectSlots : WriteProfile(s)
      BY DEF ConnectNext, BeginConnect, RetrieveAccount, CreateAccount, MakeLink, ConnectDies,
             CloseAccount, SetEnabled, AskSession, OpenSession, Pay, RefundCharge,
             ChargeBecomes
    <2> QED
      BY <2>1, <2>2 DEF ConnectTypeOK
  <1>4. asked' \in [Sales -> 0..MaxAccounts]
    <2>1. \/ UNCHANGED asked
          \/ \E p \in Sales : \E a \in {0, profile.account} : asked' = [asked EXCEPT ![p] = a]
      BY DEF ConnectNext, BeginConnect, RetrieveAccount, CreateAccount, WriteProfile, MakeLink,
             ConnectDies, CloseAccount, SetEnabled, AskSession, OpenSession, Pay, RefundCharge,
             ChargeBecomes
    <2>2. {0, profile.account} \subseteq 0..MaxAccounts
      BY DEF ConnectTypeOK
    <2> QED
      BY <2>1, <2>2 DEF ConnectTypeOK
  <1>5. charges' \subseteq Charges
    <2>1. ASSUME NEW p \in Sales, OpenSession(p)
          PROVE  charges' \subseteq Charges
      <3>1. [sale |-> p, account |-> asked[p], state |-> "open"] \in Charges
        BY <2>1 DEF Charges, OpenSession, AccountsExist
      <3> QED
        BY <2>1, <3>1 DEF OpenSession, ConnectTypeOK
    <2>2. ASSUME NEW c \in charges, NEW state \in {"paid", "refunded"}, ChargeBecomes(c, state)
          PROVE  charges' \subseteq Charges
      <3>1. [c EXCEPT !.state = state] \in Charges
        BY DEF Charges
      <3> QED
        BY <2>2, <3>1 DEF ChargeBecomes, ConnectTypeOK
    <2> QED
      BY <2>1, <2>2
         DEF ConnectNext, ConnectTypeOK, BeginConnect, RetrieveAccount, CreateAccount,
             WriteProfile, MakeLink, ConnectDies, CloseAccount, SetEnabled, AskSession, Pay,
             RefundCharge
  <1> QED
    BY <1>1, <1>2, <1>3, <1>4, <1>5, EntwiningIsNoted DEF ConnectTypeOK

(* Accounts are only added, new, and an account that is gone stays gone.    *)
(* Only the account of a request that makes a link, or one that was linked, *)
(* becomes or stops being enabled.                                          *)
LEMMA AccountsMove ==
    ASSUME ConnectTypeOK, AccountsExist, ConnectNext
    PROVE  /\ Accounts \subseteq Accounts'
           /\ \A a \in Accounts : Gone(a) => Gone(a)'
           /\ \A a \in Accounts' :
                 \/ a \notin Accounts /\ expressAccounts'[a] = "new"
                 \/ a \in Accounts /\ expressAccounts'[a] \in {expressAccounts[a], "gone"}
                 \/ a \in Accounts /\ expressAccounts[a] \in {"linked", "enabled"}
                 \/ \E s \in ConnectSlots : MakeLink(s) /\ a = connecting[s].account
  <1> USE ConnectRows, ConnectOK
  <1>1. ASSUME NEW s \in ConnectSlots, CreateAccount(s)
        PROVE  /\ Accounts' = Accounts \cup {Len(expressAccounts) + 1}
               /\ Len(expressAccounts) + 1 \notin Accounts
               /\ expressAccounts'[Len(expressAccounts) + 1] = "new"
               /\ \A a \in Accounts : expressAccounts'[a] = expressAccounts[a]
    <2>1. "new" \in Standings
      BY DEF Standings
    <2> QED
      BY <1>1, <2>1, AppendProperties DEF CreateAccount, ConnectTypeOK, Accounts
  <1>2. ASSUME NEW s \in ConnectSlots, MakeLink(s)
        PROVE  /\ Accounts' = Accounts /\ connecting[s].account \in Accounts
               /\ \A a \in Accounts :
                     \/ expressAccounts'[a] = expressAccounts[a]
                     \/ a = connecting[s].account /\ ~Gone(a)
    <2>1. connecting[s].account \in Accounts
      BY <1>2 DEF MakeLink, AccountsExist, ConnectAt
    <2> QED
      BY <1>2, <2>1 DEF MakeLink, Accounts, ConnectTypeOK
  <1>3. ASSUME NEW b \in Accounts, CloseAccount(b) \/ SetEnabled(b)
        PROVE  /\ Accounts' = Accounts
               /\ \A a \in Accounts :
                     \/ expressAccounts'[a] \in {expressAccounts[a], "gone"}
                     \/ expressAccounts[a] \in {"linked", "enabled"}
    BY <1>3 DEF CloseAccount, SetEnabled, Accounts, ConnectTypeOK
  <1>4. \/ UNCHANGED expressAccounts
        \/ \E s \in ConnectSlots : CreateAccount(s) \/ MakeLink(s)
        \/ \E b \in Accounts : CloseAccount(b) \/ SetEnabled(b)
    BY DEF ConnectNext, BeginConnect, RetrieveAccount, WriteProfile, ConnectDies, AskSession,
           OpenSession, Pay, RefundCharge, ChargeBecomes
  <1>5. CASE UNCHANGED expressAccounts
    BY <1>5 DEF Accounts, Gone
  <1>6. ASSUME NEW s \in ConnectSlots, CreateAccount(s)
        PROVE  /\ Accounts \subseteq Accounts'
               /\ \A a \in Accounts : Gone(a) => Gone(a)'
               /\ \A a \in Accounts' :
                     \/ a \notin Accounts /\ expressAccounts'[a] = "new"
                     \/ a \in Accounts /\ expressAccounts'[a] \in {expressAccounts[a], "gone"}
    BY <1>1, <1>6 DEF Gone
  <1>7. ASSUME NEW s \in ConnectSlots, MakeLink(s)
        PROVE  /\ Accounts \subseteq Accounts'
               /\ \A a \in Accounts : Gone(a) => Gone(a)'
               /\ \A a \in Accounts' :
                     \/ a \in Accounts /\ expressAccounts'[a] \in {expressAccounts[a], "gone"}
                     \/ MakeLink(s) /\ a = connecting[s].account
    BY <1>2, <1>7 DEF Gone
  <1>8. ASSUME NEW b \in Accounts, CloseAccount(b) \/ SetEnabled(b)
        PROVE  /\ Accounts \subseteq Accounts'
               /\ \A a \in Accounts : Gone(a) => Gone(a)'
               /\ \A a \in Accounts' :
                     \/ a \in Accounts /\ expressAccounts'[a] \in {expressAccounts[a], "gone"}
                     \/ a \in Accounts /\ expressAccounts[a] \in {"linked", "enabled"}
    BY <1>3, <1>8 DEF Gone
  <1> QED
    BY <1>4, <1>5, <1>6, <1>7, <1>8

LEMMA AccountsExistStep ==
    ASSUME ConnectTypeOK, AccountsExist, ConnectNext
    PROVE  AccountsExist'
  <1> USE ConnectRows, ConnectOK
  <1>1. Accounts \subseteq Accounts'
    BY AccountsMove
  <1>2. profile'.account \in {0} \cup Accounts
    <2>1. UNCHANGED profile \/ \E s \in ConnectSlots : WriteProfile(s)
      BY DEF ConnectNext, BeginConnect, RetrieveAccount, CreateAccount, MakeLink, ConnectDies,
             CloseAccount, SetEnabled, AskSession, OpenSession, Pay, RefundCharge, ChargeBecomes
    <2>2. ASSUME NEW s \in ConnectSlots, WriteProfile(s)
          PROVE  profile'.account = connecting[s].account
      BY <2>2 DEF WriteProfile
    <2> QED
      BY <2>1, <2>2 DEF AccountsExist
  <1>3. ASSUME NEW s \in ConnectSlots
        PROVE  /\ connecting'[s].account \in {0} \cup Accounts'
               /\ connecting'[s].step \in {"retrieve", "write", "link"} =>
                     connecting'[s].account # 0
    <2> USE DEF AccountsExist
    <2>1. ASSUME NEW t \in ConnectSlots, NEW link \in BOOLEAN, BeginConnect(t, link)
          PROVE  /\ connecting'[s].account \in {0} \cup Accounts'
                 /\ connecting'[s].step \in {"retrieve", "write", "link"} =>
                       connecting'[s].account # 0
      BY <1>1, <2>1 DEF BeginConnect, ConnectTypeOK
    <2>2. ASSUME NEW t \in ConnectSlots, RetrieveAccount(t)
          PROVE  /\ connecting'[s].account \in {0} \cup Accounts'
                 /\ connecting'[s].step \in {"retrieve", "write", "link"} =>
                       connecting'[s].account # 0
      <3>1. CASE Retrieved(t)
        BY <1>1, <2>2, <3>1
           DEF RetrieveAccount, Retrieved, ConnectTypeOK, ConnectAt, ConnectRequests
      <3>2. CASE ConnectOn(t, "create") \/ ConnectDone(t)
        BY <1>1, <3>2
           DEF ConnectOn, ConnectDone, Unconnected, ConnectTypeOK, ConnectRequests
      <3> QED
        BY <2>2, <3>1, <3>2 DEF RetrieveAccount
    <2>3. ASSUME NEW t \in ConnectSlots, CreateAccount(t)
          PROVE  /\ connecting'[s].account \in {0} \cup Accounts'
                 /\ connecting'[s].step \in {"retrieve", "write", "link"} =>
                       connecting'[s].account # 0
      <3>1. Len(expressAccounts) + 1 \in Accounts'
        BY <2>3, AppendProperties DEF CreateAccount, ConnectTypeOK, Accounts, Standings
      <3> QED
        BY <1>1, <2>3, <3>1 DEF CreateAccount, ConnectTypeOK, ConnectRequests
    <2>4. ASSUME NEW t \in ConnectSlots, WriteProfile(t) \/ MakeLink(t) \/ ConnectDies(t)
          PROVE  /\ connecting'[s].account \in {0} \cup Accounts'
                 /\ connecting'[s].step \in {"retrieve", "write", "link"} =>
                       connecting'[s].account # 0
      BY <1>1, <2>4
         DEF WriteProfile, MakeLink, ConnectDies, ConnectOn, ConnectDone, Unconnected,
             ConnectTypeOK, ConnectAt, ConnectRequests
    <2>5. UNCHANGED connecting =>
              /\ connecting'[s].account \in {0} \cup Accounts'
              /\ connecting'[s].step \in {"retrieve", "write", "link"} =>
                    connecting'[s].account # 0
      BY <1>1
    <2> QED
      BY <2>1, <2>2, <2>3, <2>4, <2>5
         DEF ConnectNext, CloseAccount, SetEnabled, AskSession, OpenSession, Pay, RefundCharge,
             ChargeBecomes
  <1>4. ASSUME NEW p \in Sales
        PROVE  asked'[p] \in {0} \cup Accounts
    <2>1. \/ UNCHANGED asked
          \/ \E q \in Sales : \E a \in {0, profile.account} : asked' = [asked EXCEPT ![q] = a]
      BY DEF ConnectNext, BeginConnect, RetrieveAccount, CreateAccount, WriteProfile, MakeLink,
             ConnectDies, CloseAccount, SetEnabled, AskSession, OpenSession, Pay, RefundCharge,
             ChargeBecomes
    <2> QED
      BY <2>1 DEF ConnectTypeOK, AccountsExist
  <1>5. ASSUME NEW c \in charges'
        PROVE  c.account \in Accounts
    <2>1. ASSUME NEW p \in Sales, OpenSession(p)
          PROVE  c.account \in Accounts
      BY <2>1 DEF OpenSession, AccountsExist
    <2>2. ASSUME NEW d \in charges, NEW state \in {"paid", "refunded"}, ChargeBecomes(d, state)
          PROVE  c.account \in Accounts
      BY <2>2 DEF ChargeBecomes, AccountsExist, Charges
    <2> QED
      BY <2>1, <2>2
         DEF AccountsExist, ConnectNext, BeginConnect, RetrieveAccount, CreateAccount,
             WriteProfile, MakeLink, ConnectDies, CloseAccount, SetEnabled, AskSession, Pay,
             RefundCharge
  <1> QED
    BY <1>1, <1>2, <1>3, <1>4, <1>5 DEF AccountsExist

(* Charges move on, keeping their account, and a new one is made on an      *)
(* enabled account that the checkout has none on.                           *)
LEMMA ChargesMove ==
    ASSUME ConnectTypeOK, AccountsExist, ConnectNext
    PROVE  \/ UNCHANGED charges
           \/ \E c \in charges, d \in Charges :
                 /\ d.sale = c.sale /\ d.account = c.account
                 /\ charges' = (charges \ {c}) \cup {d}
           \/ /\ UNCHANGED <<expressAccounts, profile>>
              /\ \E d \in Charges :
                    /\ charges' = charges \cup {d}
                    /\ d.account \in Accounts /\ expressAccounts[d.account] = "enabled"
                    /\ \A c \in charges : c.sale = d.sale => c.account # d.account
  <1> USE ConnectRows
  <1>1. ASSUME NEW p \in Sales, OpenSession(p), charges' # charges
        PROVE  /\ UNCHANGED <<expressAccounts, profile>>
               /\ \E d \in Charges :
                     /\ charges' = charges \cup {d}
                     /\ d.account \in Accounts /\ expressAccounts[d.account] = "enabled"
                     /\ \A c \in charges : c.sale = d.sale => c.account # d.account
    <2> DEFINE d == [sale |-> p, account |-> asked[p], state |-> "open"]
    <2>1. d \in Charges /\ d.account \in Accounts
      BY <1>1 DEF Charges, OpenSession, AccountsExist
    <2>2. /\ charges' = charges \cup {d} /\ expressAccounts[asked[p]] = "enabled"
          /\ \A c \in ChargesOf(p) : c.account # asked[p]
          /\ UNCHANGED <<expressAccounts, profile>>
      BY <1>1 DEF OpenSession
    <2> QED
      BY <2>1, <2>2 DEF ChargesOf
  <1>2. ASSUME NEW c \in charges, NEW state \in {"paid", "refunded"}, ChargeBecomes(c, state)
        PROVE  \E d \in Charges :
                   /\ d.sale = c.sale /\ d.account = c.account
                   /\ charges' = (charges \ {c}) \cup {d}
    BY <1>2 DEF ChargeBecomes, Charges
  <1> QED
    BY <1>1, <1>2
       DEF ConnectNext, BeginConnect, RetrieveAccount, CreateAccount, WriteProfile, MakeLink,
           ConnectDies, CloseAccount, SetEnabled, AskSession, Pay, RefundCharge

LEMMA OneChargePerKeyStep ==
    ASSUME ConnectTypeOK, AccountsExist, OneChargePerKey, ConnectNext
    PROVE  OneChargePerKey'
  BY ChargesMove DEF OneChargePerKey

(* Whose step it is: while nothing is entwined, the other requests are idle *)
(* and stay so.                                                             *)
ConnectStep(s) ==
    \/ \E link \in BOOLEAN : BeginConnect(s, link)
    \/ RetrieveAccount(s) \/ CreateAccount(s) \/ WriteProfile(s) \/ MakeLink(s)
    \/ ConnectDies(s)

LEMMA OthersIdle ==
    ASSUME ConnectTypeOK, AccountsExist, OneConnects, ~entwined', NEW s \in ConnectSlots,
           ConnectStep(s)
    PROVE  \A t \in ConnectSlots \ {s} :
               connecting'[t] = connecting[t] /\ ConnectAt(t, "idle")
  <1>1. \A t \in ConnectSlots \ {s} : connecting'[t] = connecting[t]
    BY ConnectSteps DEF ConnectStep, ConnectTypeOK
  <1>2. ASSUME NEW link \in BOOLEAN, BeginConnect(s, link)
        PROVE  \A t \in ConnectSlots : ConnectAt(t, "idle")
    BY <1>2 DEF BeginConnect
  <1>3. (\A link \in BOOLEAN : ~BeginConnect(s, link)) => ~ConnectAt(s, "idle")
    BY DEF ConnectStep, RetrieveAccount, CreateAccount, WriteProfile, MakeLink, ConnectDies,
           ConnectAt
  <1> QED
    BY <1>1, <1>2, <1>3 DEF OneConnects

LEMMA OneConnectsStep ==
    ASSUME ConnectTypeOK, AccountsExist, OneConnects, ~entwined', ConnectNext
    PROVE  OneConnects'
  <1>1. UNCHANGED connecting \/ \E s \in ConnectSlots : ConnectStep(s)
    BY DEF ConnectNext, ConnectStep, CloseAccount, SetEnabled, AskSession, OpenSession, Pay,
           RefundCharge, ChargeBecomes
  <1>2. CASE UNCHANGED connecting
    BY <1>2 DEF OneConnects, ConnectAt
  <1>3. ASSUME NEW s \in ConnectSlots, ConnectStep(s)
        PROVE  OneConnects'
    BY <1>3, OthersIdle DEF OneConnects, ConnectAt
  <1> QED
    BY <1>1, <1>2, <1>3

(* A request overwrites no account that is in reach. *)
LEMMA ProfileMoves ==
    ASSUME ConnectTypeOK, AccountsExist, ConnectNext,
           \A s \in ConnectSlots : WorksOnProfile(s)
    PROVE  profile'.account = profile.account \/ Replaceable
  <1>1. UNCHANGED profile \/ \E s \in ConnectSlots : WriteProfile(s)
    BY DEF ConnectNext, BeginConnect, RetrieveAccount, CreateAccount, MakeLink, ConnectDies,
           CloseAccount, SetEnabled, AskSession, OpenSession, Pay, RefundCharge, ChargeBecomes
  <1>2. ASSUME NEW s \in ConnectSlots, WriteProfile(s)
        PROVE  profile'.account = profile.account \/ Replaceable
    BY <1>2 DEF WriteProfile, WorksOnProfile
  <1> QED
    BY <1>1, <1>2

LEMMA OneInUseStep ==
    ASSUME ConnectTypeOK, AccountsExist, ConnectNext, OneInUse,
           \A s \in ConnectSlots : WorksOnProfile(s)
    PROVE  OneInUse'
  <1>1. /\ profile.account \in {0} \cup Accounts
        /\ \A a \in Accounts : Gone(a) => Gone(a)'
    BY AccountsMove DEF AccountsExist
  <1>2. ASSUME NEW a \in Accounts, a = profile.account, a # profile'.account
        PROVE  Gone(a) /\ Gone(a)'
    BY <1>1, <1>2, ProfileMoves, ConnectRows DEF Replaceable
  <1>3. ASSUME NEW a \in Accounts', a # profile'.account
        PROVE  expressAccounts'[a] \in {"new", "gone"}
    <2>1. ASSUME NEW s \in ConnectSlots, MakeLink(s), a = connecting[s].account
          PROVE  a \in Accounts /\ a = profile.account /\ ~Gone(a)
      BY <2>1 DEF MakeLink, WorksOnProfile, ConnectAt, AccountsExist
    <2>2. CASE a \in Accounts /\ expressAccounts'[a] \in {expressAccounts[a], "gone"}
      BY <1>2, <1>3, <2>2 DEF OneInUse, Gone
    <2>3. CASE a \in Accounts /\ expressAccounts[a] \in {"linked", "enabled"}
      BY <1>2, <1>3, <2>3 DEF OneInUse, Gone
    <2> QED
      BY <1>2, <1>3, <2>1, <2>2, <2>3, AccountsMove
  <1>4. ASSUME NEW c \in charges'
        PROVE  c.account = profile'.account \/ Gone(c.account)'
    <2>1. ASSUME NEW d \in charges, d.account = c.account
          PROVE  c.account = profile'.account \/ Gone(c.account)'
      <3>1. c.account \in Accounts /\ (c.account = profile.account \/ Gone(c.account))
        BY <2>1 DEF AccountsExist, OneInUse
      <3> QED
        BY <1>1, <1>2, <3>1
    <2>2. ASSUME c.account \in Accounts, expressAccounts[c.account] = "enabled",
                 UNCHANGED profile
          PROVE  c.account = profile'.account
      BY <2>2 DEF OneInUse
    <2> QED
      BY <2>1, <2>2, ChargesMove
  <1> QED
    BY <1>3, <1>4 DEF OneInUse

LEMMA WorksOnProfileStep ==
    ASSUME ConnectTypeOK, AccountsExist, OneConnects, ~entwined', ConnectNext,
           \A s \in ConnectSlots : WorksOnProfile(s),
           NEW t \in ConnectSlots
    PROVE  WorksOnProfile(t)'
  <1>1. ASSUME UNCHANGED profile, Replaceable
        PROVE  Replaceable'
    BY <1>1, AccountsMove DEF AccountsExist, Replaceable
  <1>2. CASE UNCHANGED <<profile, connecting>>
    BY <1>1, <1>2 DEF WorksOnProfile, ConnectAt
  <1>3. ASSUME NEW s \in ConnectSlots, ConnectStep(s), s # t
        PROVE  WorksOnProfile(t)'
    BY <1>3, OthersIdle DEF WorksOnProfile, ConnectAt
  <1>4. CASE ConnectStep(t)
    <2> USE DEF ConnectTypeOK, WorksOnProfile, ConnectAt
    <2>1. ASSUME NEW link \in BOOLEAN, BeginConnect(t, link)
          PROVE  WorksOnProfile(t)'
      BY <2>1 DEF BeginConnect, Replaceable
    <2>2. CASE RetrieveAccount(t)
      <3>1. UNCHANGED <<expressAccounts, profile>>
        BY <2>2 DEF RetrieveAccount
      <3>2. CASE Retrieved(t)
        BY <2>2, <3>1, <3>2 DEF RetrieveAccount, Retrieved, ConnectRequests
      <3>3. CASE Gone(connecting[t].account) /\ ConnectOn(t, "create")
        BY <2>2, <3>1, <3>3 DEF RetrieveAccount, ConnectOn, Replaceable, Gone
      <3>4. CASE ConnectDone(t)
        BY <3>4 DEF ConnectDone, Unconnected
      <3> QED
        BY <2>2, <3>2, <3>3, <3>4 DEF RetrieveAccount
    <2>3. CASE CreateAccount(t)
      <3>1. Replaceable'
        BY <1>1, <2>3 DEF CreateAccount
      <3> QED
        BY <2>3, <3>1 DEF CreateAccount, ConnectRequests
    <2>4. CASE WriteProfile(t)
      BY <2>4 DEF WriteProfile, ConnectOn, ConnectDone, Unconnected, ConnectRequests
    <2>5. CASE MakeLink(t) \/ ConnectDies(t)
      BY <2>5 DEF MakeLink, ConnectDies, ConnectDone, Unconnected
    <2> QED
      BY <1>4, <2>1, <2>2, <2>3, <2>4, <2>5 DEF ConnectStep
  <1> QED
    BY <1>2, <1>3, <1>4
       DEF ConnectNext, ConnectStep, CloseAccount, SetEnabled, AskSession, OpenSession, Pay,
           RefundCharge, ChargeBecomes

LEMMA ConnectIInit == ConnectInit => ConnectIInv
  <1> SUFFICES ASSUME ConnectInit PROVE ConnectIInv
    OBVIOUS
  <1> USE ConnectOK DEF ConnectInit
  <1>1. ConnectTypeOK
    <2>1. connecting \in [ConnectSlots -> ConnectRequests]
      BY ConnectShapes
    <2>2. profile \in [account : 0..MaxAccounts, ready : BOOLEAN]
      BY DEF NoAccountYet
    <2>3. entwined \in BOOLEAN
      OBVIOUS
    <2> QED
      BY <2>1, <2>2, <2>3 DEF ConnectTypeOK
  <1>2. AccountsExist /\ OneChargePerKey
    BY DEF AccountsExist, OneChargePerKey, NoAccountYet, Unconnected
  <1>3. OneConnects /\ OneInUse /\ \A s \in ConnectSlots : WorksOnProfile(s)
    BY DEF OneConnects, OneInUse, WorksOnProfile, ConnectAt, Unconnected, Accounts
  <1> QED
    BY <1>1, <1>2, <1>3 DEF ConnectIInv

LEMMA ConnectIStep == ConnectIInv /\ [ConnectNext]_connectVars => ConnectIInv'
  <1> SUFFICES ASSUME ConnectIInv, [ConnectNext]_connectVars PROVE ConnectIInv'
    OBVIOUS
  <1> USE DEF ConnectIInv
  <1>1. CASE ConnectNext
    BY <1>1, ConnectTypeStep, AccountsExistStep, OneChargePerKeyStep, EntwiningIsNoted,
       OneConnectsStep, OneInUseStep, WorksOnProfileStep
  <1>2. CASE UNCHANGED connectVars
    BY <1>2
       DEF connectVars, ConnectTypeOK, AccountsExist, OneChargePerKey, OneConnects,
           WorksOnProfile, OneInUse, Accounts, Gone, ConnectAt, Replaceable
  <1> QED
    BY <1>1, <1>2

(* The invariant of an account's life: what names an account names one that *)
(* was made and, until requests overlap, only the profile's is in use.      *)
THEOREM ConnectInductive == ConnectSpec => []ConnectIInv
  BY ConnectIInit, ConnectIStep, PTL DEF ConnectSpec

(* Type correctness of the profile, the requests and the charges. *)
THEOREM ConnectTypeCorrect == ConnectSpec => []ConnectTypeOK
  <1>1. ConnectIInv => ConnectTypeOK
    BY DEF ConnectIInv
  <1> QED
    BY <1>1, ConnectInductive, PTL

(* While one Connect request at a time is served, a checkout is charged on  *)
(* one account that is still there, and what was paid can be refunded: the  *)
(* profile names the account it was paid on (routes.ts:2307, 3420).         *)
THEOREM ChargesAlwaysReachable == ConnectSpec => []ChargesStayReachable
  <1>1. ConnectIInv => ChargesStayReachable
    BY DEF ConnectIInv, ConnectTypeOK, OneInUse, OneChargePerKey, ChargesStayReachable,
           OneChargePerSale, RefundReachesCharge, ChargesOf
  <1> QED
    BY <1>1, ConnectInductive, PTL

-----------------------------------------------------------------------------
(***************************************************************************)
(* The launch of a location: LaunchApproval.                               *)
(***************************************************************************)

(* Nobody but the one admin approves or withdraws. *)
OneAdmin == \A a, b \in AdminSlots : a = b

(* Only what is approved is live, and only who approves makes it live. *)
LiveIsApproved ==
    /\ progress.live => progress.approved
    /\ \A a \in AdminSlots :
          /\ approving[a].live => approving[a].approved
          /\ approving[a].step = "check" => approving[a].approved

(* What an approval in flight has read of an earlier one is still so: an    *)
(* app about to go live is approved, and one that was shown as launched is, *)
(* or staff have not ticked off what the check asks for.                    *)
ApprovalStands ==
    \A a \in AdminSlots :
        /\ approving[a].step = "check" /\ approving[a].launched =>
              \/ progress.approved
              \/ approving[a].claims \cap {"business", "operations"} = {}
        /\ approving[a].step = "progress" /\ approving[a].live => progress.approved

OneLaunchRequest ==
    /\ \A s, t \in StaffSlots : updating[s].step # "idle" /\ updating[t].step # "idle" => s = t
    /\ \A a, b \in AdminSlots : approving[a].step # "idle" /\ approving[b].step # "idle" => a = b
    /\ \A s \in StaffSlots, a \in AdminSlots :
          updating[s].step = "idle" \/ approving[a].step = "idle"

(* The status that is stored, or that the one request in flight is about to *)
(* write, is of an approved launch only if the launch is approved.          *)
StatusIsEarned ==
    /\ progress.status \in {"approved", "live"} => progress.approved
    /\ \A s \in StaffSlots :
          updating[s].step = "progress" /\ updating[s].row.status \in {"approved", "live"} =>
              progress.approved

(* The client's status lags behind the progress only while one request is   *)
(* between its two statements.                                              *)
ClientFollows ==
    /\ \A s \in StaffSlots :
          updating[s].step = "client" => updating[s].row.status = progress.status
    /\ \A a \in AdminSlots : approving[a].step = "client" => StatusAfter(a) = progress.status
    /\ \/ clientStatus = progress.status
       \/ \E s \in StaffSlots : updating[s].step = "client"
       \/ \E a \in AdminSlots : approving[a].step = "client"

LaunchIInv ==
    /\ LaunchTypeOK /\ LiveIsApproved
    /\ OneAdmin \/ ~upset => ApprovalStands
    /\ ~upset => OneLaunchRequest /\ StatusIsEarned /\ ClientFollows

(* The same of any number of admins, while requests neither overlap nor die *)
LiveOnceApproved == [][upset' \/ LiveFollowsApproval]_launchVars

(* The history only ever becomes true. *)
LEMMA UpsetIsNoted ==
    ASSUME LaunchTypeOK, LaunchNext
    PROVE  upset' \in BOOLEAN /\ (~upset' => ~upset)
  <1>1. UNCHANGED upset \/ upset' = (upset \/ Busy) \/ upset' = TRUE
    BY DEF LaunchNext, CreateClient, BeginUpdate, WriteProgress, WriteClient, BeginApproval,
           CheckReadiness, SaveApproval, SaveClient, LaunchRequestDies, FactChanges
  <1> QED
    BY <1>1 DEF LaunchTypeOK

(* What a staff's update has in its row, and what an approval begins with. *)
LEMMA BegunUpdate ==
    ASSUME LaunchTypeOK, NEW s \in StaffSlots, BeginUpdate(s)
    PROVE  \E row \in Rows :
              /\ row.status \in {"blocked", "ready_for_review", progress.status}
              /\ updating' = [updating EXCEPT ![s] = [step |-> "progress", row |-> row]]
  <1>1. ASSUME NEW claims \in SUBSET Claims, NEW submit \in BOOLEAN, NEW blocked \in BOOLEAN
        PROVE  /\ Updated(claims, submit, blocked) \in Rows
               /\ Updated(claims, submit, blocked).status
                     \in {"blocked", "ready_for_review", progress.status}
    BY DEF Updated, Untouched, Rows, LaunchTypeOK, Statuses
  <1>2. PICK row \in {Updated(progress.claims \cup {c}, FALSE, progress.blocked) : c \in Claims}
             \cup {Updated(progress.claims \ {c}, FALSE, progress.blocked) : c \in Claims}
             \cup {Updated(progress.claims, TRUE, progress.blocked)}
             \cup {Updated(progress.claims, FALSE, blocked) : blocked \in BOOLEAN} :
          updating' = [updating EXCEPT ![s] = [step |-> "progress", row |-> row]]
    BY DEF BeginUpdate
  <1>3. /\ progress.claims \in SUBSET Claims /\ progress.blocked \in BOOLEAN
        /\ \A c \in Claims : progress.claims \cup {c} \in SUBSET Claims
        /\ \A c \in Claims : progress.claims \ {c} \in SUBSET Claims
    BY DEF LaunchTypeOK, Rows
  <1>4. row \in Rows /\ row.status \in {"blocked", "ready_for_review", progress.status}
    BY <1>1, <1>2, <1>3
  <1> QED
    BY <1>2, <1>4

LEMMA BegunApproval ==
    ASSUME LaunchTypeOK, NEW a \in AdminSlots, NEW approved \in BOOLEAN, NEW live \in BOOLEAN,
           BeginApproval(a, approved, live)
    PROVE  \E r \in Approvals :
              /\ approving' = [approving EXCEPT ![a] = r]
              /\ r.approved = approved /\ (r.live => approved)
              /\ r.step = (IF approved THEN "check" ELSE "progress")
              /\ r.launched => Launched(progress)
              /\ r.launched => r.claims = progress.claims
  <1> DEFINE r == [step |-> IF approved THEN "check" ELSE "progress",
                   approved |-> approved, live |-> live /\ approved,
                   claims |-> IF approved THEN progress.claims ELSE {},
                   launched |-> approved /\ Launched(progress)]
  <1>1. r \in Approvals
    <2>1. (approved /\ Launched(progress)) \in BOOLEAN /\ (live /\ approved) \in BOOLEAN
      OBVIOUS
    <2>2. (IF approved THEN progress.claims ELSE {}) \in SUBSET Claims
      BY DEF LaunchTypeOK, Rows
    <2>3. (IF approved THEN "check" ELSE "progress") \in {"idle", "check", "progress", "client"}
      OBVIOUS
    <2> QED
      BY <2>1, <2>2, <2>3 DEF Approvals
  <1>2. approving' = [approving EXCEPT ![a] = r]
    BY DEF BeginApproval
  <1> QED
    BY <1>1, <1>2

LEMMA LaunchTypeStep ==
    ASSUME LaunchTypeOK, LaunchNext
    PROVE  LaunchTypeOK'
  <1> USE DEF LaunchTypeOK
  <1>1. shell' \in BOOLEAN
    BY DEF LaunchNext, CreateClient, BeginUpdate, WriteProgress, WriteClient, BeginApproval,
           CheckReadiness, SaveApproval, SaveClient, LaunchRequestDies, FactChanges
  <1>2. facts' \subseteq Facts
    BY DEF LaunchNext, CreateClient, BeginUpdate, WriteProgress, WriteClient, BeginApproval,
           CheckReadiness, SaveApproval, SaveClient, LaunchRequestDies, FactChanges
  <1>3. progress' \in Rows
    <2>1. ASSUME NEW s \in StaffSlots, WriteProgress(s)
          PROVE  progress' \in Rows
      BY <2>1 DEF WriteProgress, Updates, Rows
    <2>2. ASSUME NEW a \in AdminSlots, SaveApproval(a)
          PROVE  progress' \in Rows
      BY <2>2 DEF SaveApproval, StatusAfter, Statuses, Approvals, Rows
    <2>3. \/ UNCHANGED progress
          \/ \E s \in StaffSlots : WriteProgress(s)
          \/ \E a \in AdminSlots : SaveApproval(a)
      BY DEF LaunchNext, CreateClient, BeginUpdate, WriteClient, BeginApproval,
             CheckReadiness, SaveClient, LaunchRequestDies, FactChanges
    <2> QED
      BY <2>1, <2>2, <2>3
  <1>4. clientStatus' \in Statuses
    <2>1. ASSUME NEW s \in StaffSlots, WriteClient(s)
          PROVE  clientStatus' \in Statuses
      BY <2>1 DEF WriteClient, Updates, Rows
    <2>2. ASSUME NEW a \in AdminSlots, SaveClient(a)
          PROVE  clientStatus' \in Statuses
      BY <2>2 DEF SaveClient, StatusAfter, Statuses
    <2> QED
      BY <2>1, <2>2
         DEF LaunchNext, CreateClient, BeginUpdate, WriteProgress, BeginApproval,
             CheckReadiness, SaveApproval, LaunchRequestDies, FactChanges
  <1>5. updating' \in [StaffSlots -> Updates]
    <2>1. \A row \in Rows : [step |-> "progress", row |-> row] \in Updates
      BY DEF Updates
    <2>2. NoUpdate \in Updates
      BY DEF NoUpdate, Untouched, Updates, Rows, Statuses
    <2>3. \A s \in StaffSlots : [updating[s] EXCEPT !.step = "client"] \in Updates
      BY DEF Updates
    <2>4. \/ UNCHANGED updating
          \/ \E s \in StaffSlots : BeginUpdate(s)
          \/ \E s \in StaffSlots :
                 updating' = [updating EXCEPT ![s] = [updating[s] EXCEPT !.step = "client"]]
          \/ \E s \in StaffSlots : updating' = [updating EXCEPT ![s] = NoUpdate]
      BY DEF LaunchNext, CreateClient, WriteProgress, WriteClient, BeginApproval,
             CheckReadiness, SaveApproval, SaveClient, LaunchRequestDies, FactChanges
    <2> QED
      BY <2>1, <2>2, <2>3, <2>4, BegunUpdate
  <1>6. approving' \in [AdminSlots -> Approvals]
    <2>1. NoApproval \in Approvals
      BY DEF NoApproval, Approvals
    <2>2. \A a \in AdminSlots :
              /\ [approving[a] EXCEPT !.step = "client"] \in Approvals
              /\ [approving[a] EXCEPT !.step = "progress", !.claims = {}, !.launched = FALSE]
                    \in Approvals
      BY DEF Approvals
    <2>3. \/ UNCHANGED approving
          \/ \E a \in AdminSlots : \E approved, live \in BOOLEAN : BeginApproval(a, approved, live)
          \/ \E a \in AdminSlots :
                 approving' = [approving EXCEPT ![a] = [approving[a] EXCEPT !.step = "client"]]
          \/ \E a \in AdminSlots : approving' = [approving EXCEPT ![a] = NoApproval]
          \/ \E a \in AdminSlots : approving' = [approving EXCEPT ![a] =
                 [approving[a] EXCEPT !.step = "progress", !.claims = {}, !.launched = FALSE]]
      BY DEF LaunchNext, CreateClient, BeginUpdate, WriteProgress, WriteClient,
             CheckReadiness, SaveApproval, SaveClient, LaunchRequestDies, FactChanges
    <2> QED
      BY <2>1, <2>2, <2>3, BegunApproval
  <1> QED
    BY <1>1, <1>2, <1>3, <1>4, <1>5, <1>6, UpsetIsNoted

LEMMA LiveIsApprovedStep ==
    ASSUME LaunchTypeOK, LiveIsApproved, LaunchNext
    PROVE  LiveIsApproved'
  <1> USE DEF LaunchTypeOK, LiveIsApproved
  <1>1. progress'.live => progress'.approved
    <2>1. ASSUME NEW s \in StaffSlots, WriteProgress(s)
          PROVE  progress'.live = progress.live /\ progress'.approved = progress.approved
      BY <2>1 DEF WriteProgress, Updates, Rows
    <2>2. ASSUME NEW a \in AdminSlots, SaveApproval(a)
          PROVE  /\ progress'.live = approving[a].live
                 /\ progress'.approved = approving[a].approved
      BY <2>2 DEF SaveApproval, Rows
    <2>3. \/ UNCHANGED progress
          \/ \E s \in StaffSlots : WriteProgress(s)
          \/ \E a \in AdminSlots : SaveApproval(a)
      BY DEF LaunchNext, CreateClient, BeginUpdate, WriteClient, BeginApproval,
             CheckReadiness, SaveClient, LaunchRequestDies, FactChanges
    <2> QED
      BY <2>1, <2>2, <2>3
  <1>2. ASSUME NEW a \in AdminSlots
        PROVE  /\ approving'[a].live => approving'[a].approved
               /\ approving'[a].step = "check" => approving'[a].approved
    <2>1. ASSUME NEW b \in AdminSlots, NEW approved \in BOOLEAN, NEW live \in BOOLEAN,
                 BeginApproval(b, approved, live)
          PROVE  /\ approving'[a].live => approving'[a].approved
                 /\ approving'[a].step = "check" => approving'[a].approved
      BY <2>1, BegunApproval
    <2>2. \/ UNCHANGED approving
          \/ \E b \in AdminSlots : \E approved, live \in BOOLEAN : BeginApproval(b, approved, live)
          \/ \E b \in AdminSlots :
                 approving' = [approving EXCEPT ![b] = [approving[b] EXCEPT !.step = "client"]]
          \/ \E b \in AdminSlots : approving' = [approving EXCEPT ![b] = NoApproval]
          \/ \E b \in AdminSlots : approving' = [approving EXCEPT ![b] =
                 [approving[b] EXCEPT !.step = "progress", !.claims = {}, !.launched = FALSE]]
      BY DEF LaunchNext, CreateClient, BeginUpdate, WriteProgress, WriteClient,
             CheckReadiness, SaveApproval, SaveClient, LaunchRequestDies, FactChanges
    <2>3. ASSUME NEW b \in AdminSlots,
                 approving' = [approving EXCEPT ![b] = [approving[b] EXCEPT !.step = "client"]]
          PROVE  /\ approving'[a].live => approving'[a].approved
                 /\ approving'[a].step = "check" => approving'[a].approved
      BY <2>3 DEF Approvals
    <2>4. ASSUME NEW b \in AdminSlots, approving' = [approving EXCEPT ![b] = NoApproval]
          PROVE  /\ approving'[a].live => approving'[a].approved
                 /\ approving'[a].step = "check" => approving'[a].approved
      BY <2>4 DEF NoApproval
    <2>5. ASSUME NEW b \in AdminSlots, approving' = [approving EXCEPT ![b] =
                     [approving[b] EXCEPT !.step = "progress", !.claims = {}, !.launched = FALSE]]
          PROVE  /\ approving'[a].live => approving'[a].approved
                 /\ approving'[a].step = "check" => approving'[a].approved
      BY <2>5 DEF Approvals
    <2> QED
      BY <2>1, <2>2, <2>3, <2>4, <2>5
  <1> QED
    BY <1>1, <1>2

-----------------------------------------------------------------------------
(* The steps of the requests. *)
StaffStep(s) == BeginUpdate(s) \/ WriteProgress(s) \/ WriteClient(s)

AdminStep(a) ==
    \/ \E approved, live \in BOOLEAN : BeginApproval(a, approved, live)
    \/ CheckReadiness(a) \/ SaveApproval(a) \/ SaveClient(a)

(* A step leaves the other requests alone, and while nothing is upset they  *)
(* are idle.                                                                *)
LEMMA OthersAside ==
    ASSUME LaunchTypeOK, LaunchNext
    PROVE  /\ \A s \in StaffSlots : StaffStep(s) =>
                 /\ UNCHANGED approving
                 /\ \A t \in StaffSlots \ {s} : updating'[t] = updating[t]
                 /\ ~upset' /\ OneLaunchRequest =>
                       /\ \A t \in StaffSlots \ {s} : updating[t].step = "idle"
                       /\ \A a \in AdminSlots : approving[a].step = "idle"
           /\ \A a \in AdminSlots : AdminStep(a) =>
                 /\ UNCHANGED updating
                 /\ \A b \in AdminSlots \ {a} : approving'[b] = approving[b]
                 /\ ~upset' /\ OneLaunchRequest =>
                       /\ \A b \in AdminSlots \ {a} : approving[b].step = "idle"
                       /\ \A s \in StaffSlots : updating[s].step = "idle"
  <1> USE DEF LaunchTypeOK
  <1>1. ASSUME NEW s \in StaffSlots, StaffStep(s)
        PROVE  /\ UNCHANGED approving
               /\ \A t \in StaffSlots \ {s} : updating'[t] = updating[t]
               /\ ~upset' /\ OneLaunchRequest =>
                     /\ \A t \in StaffSlots \ {s} : updating[t].step = "idle"
                     /\ \A a \in AdminSlots : approving[a].step = "idle"
    <2>1. CASE BeginUpdate(s)
      <3>1. ~upset' => ~Busy
        BY <2>1 DEF BeginUpdate
      <3> QED
        BY <2>1, <3>1, BegunUpdate DEF BeginUpdate, Busy
    <2>2. CASE WriteProgress(s) \/ WriteClient(s)
      <3>1. updating[s].step # "idle"
        BY <2>2 DEF WriteProgress, WriteClient
      <3> QED
        BY <2>2, <3>1 DEF WriteProgress, WriteClient, OneLaunchRequest
    <2> QED
      BY <1>1, <2>1, <2>2 DEF StaffStep
  <1>2. ASSUME NEW a \in AdminSlots, AdminStep(a)
        PROVE  /\ UNCHANGED updating
               /\ \A b \in AdminSlots \ {a} : approving'[b] = approving[b]
               /\ ~upset' /\ OneLaunchRequest =>
                     /\ \A b \in AdminSlots \ {a} : approving[b].step = "idle"
                     /\ \A s \in StaffSlots : updating[s].step = "idle"
    <2>1. ASSUME NEW approved \in BOOLEAN, NEW live \in BOOLEAN, BeginApproval(a, approved, live)
          PROVE  /\ UNCHANGED updating
                 /\ \A b \in AdminSlots \ {a} : approving'[b] = approving[b]
                 /\ ~upset' =>
                       /\ \A b \in AdminSlots \ {a} : approving[b].step = "idle"
                       /\ \A s \in StaffSlots : updating[s].step = "idle"
      <3>1. ~upset' => ~Busy
        BY <2>1 DEF BeginApproval
      <3> QED
        BY <2>1, <3>1, BegunApproval DEF BeginApproval, Busy
    <2>2. CASE CheckReadiness(a) \/ SaveApproval(a) \/ SaveClient(a)
      <3>1. approving[a].step # "idle"
        BY <2>2 DEF CheckReadiness, SaveApproval, SaveClient
      <3> QED
        BY <2>2, <3>1 DEF CheckReadiness, SaveApproval, SaveClient, OneLaunchRequest
    <2> QED
      BY <1>2, <2>1, <2>2 DEF AdminStep
  <1> QED
    BY <1>1, <1>2

LEMMA ApprovalStandsStep ==
    ASSUME LaunchTypeOK, LiveIsApproved, ApprovalStands, LaunchNext,
           OneAdmin \/ (~upset' /\ OneLaunchRequest)
    PROVE  ApprovalStands'
  <1> USE DEF LaunchTypeOK, ApprovalStands
  <1> DEFINE Stands(r) ==
          /\ r.step = "check" /\ r.launched =>
                progress'.approved \/ r.claims \cap {"business", "operations"} = {}
          /\ r.step = "progress" /\ r.live => progress'.approved
  <1>1. ASSUME NEW a \in AdminSlots, AdminStep(a), NEW b \in AdminSlots, b # a
        PROVE  Stands(approving'[b])
    BY <1>1, OthersAside DEF OneAdmin
  <1>2. ASSUME NEW a \in AdminSlots, AdminStep(a)
        PROVE  Stands(approving'[a])
    <2>1. ASSUME NEW approved \in BOOLEAN, NEW live \in BOOLEAN, BeginApproval(a, approved, live)
          PROVE  Stands(approving'[a])
      <3>1. UNCHANGED progress
        BY <2>1 DEF BeginApproval
      <3>2. Launched(progress) =>
                progress.approved \/ progress.claims \cap {"business", "operations"} = {}
        BY DEF Launched, ShownStatus, LiveIsApproved
      <3> QED
        BY <2>1, <3>1, <3>2, BegunApproval
    <2>2. CASE CheckReadiness(a)
      <3>1. UNCHANGED progress
        BY <2>2 DEF CheckReadiness
      <3>2. Unblocked(approving[a].claims) =>
                approving[a].claims \cap {"business", "operations"} # {}
        BY LaunchOK DEF Unblocked, ReadyForReview
      <3>3. CASE approving'[a] = NoApproval
        BY <3>3 DEF NoApproval
      <3>4. CASE /\ Unblocked(approving[a].claims)
                 /\ approving[a].live => approving[a].launched
                 /\ approving'[a] = [approving[a] EXCEPT !.step = "progress", !.claims = {},
                                                         !.launched = FALSE]
        <4>1. approving'[a].live = approving[a].live /\ approving'[a].step = "progress"
          BY <3>4 DEF Approvals
        <4>2. approving[a].live => progress.approved
          BY <2>2, <3>2, <3>4 DEF CheckReadiness
        <4> QED
          BY <3>1, <4>1, <4>2
      <3> QED
        BY <2>2, <3>3, <3>4 DEF CheckReadiness
    <2>3. CASE SaveApproval(a)
      <3>1. approving'[a].step = "client"
        BY <2>3 DEF SaveApproval, Approvals
      <3> QED
        BY <3>1
    <2>4. CASE SaveClient(a)
      BY <2>4 DEF SaveClient, NoApproval
    <2> QED
      BY <1>2, <2>1, <2>2, <2>3, <2>4 DEF AdminStep
  <1>3. ASSUME NEW a \in AdminSlots, ~\E b \in AdminSlots : AdminStep(b)
        PROVE  Stands(approving'[a])
    <2>1. progress'.approved = progress.approved
      BY <1>3 DEF LaunchNext, AdminStep, CreateClient, BeginUpdate, WriteProgress, WriteClient,
                  LaunchRequestDies, FactChanges, Updates, Rows
    <2>2. approving'[a] = approving[a] \/ approving'[a] = NoApproval
      BY <1>3 DEF LaunchNext, AdminStep, CreateClient, BeginUpdate, WriteProgress, WriteClient,
                  LaunchRequestDies, FactChanges
    <2> QED
      BY <2>1, <2>2 DEF NoApproval
  <1> QED
    BY <1>1, <1>2, <1>3

LEMMA OneLaunchRequestStep ==
    ASSUME LaunchTypeOK, LaunchNext, OneLaunchRequest, ~upset'
    PROVE  OneLaunchRequest'
  <1> USE DEF OneLaunchRequest
  <1>1. ASSUME NEW s \in StaffSlots, StaffStep(s)
        PROVE  OneLaunchRequest'
    BY <1>1, OthersAside
  <1>2. ASSUME NEW a \in AdminSlots, AdminStep(a)
        PROVE  OneLaunchRequest'
    BY <1>2, OthersAside
  <1>3. CASE UNCHANGED <<updating, approving>>
    BY <1>3
  <1> QED
    BY <1>1, <1>2, <1>3
       DEF LaunchNext, StaffStep, AdminStep, CreateClient, LaunchRequestDies, FactChanges

LEMMA StatusIsEarnedStep ==
    ASSUME LaunchTypeOK, LaunchNext, OneLaunchRequest, StatusIsEarned, ~upset'
    PROVE  StatusIsEarned'
  <1> USE DEF StatusIsEarned, LaunchTypeOK
  <1>1. ASSUME NEW s \in StaffSlots, BeginUpdate(s)
        PROVE  StatusIsEarned'
    <2>1. UNCHANGED progress
      BY <1>1 DEF BeginUpdate
    <2>2. PICK row \in Rows :
              /\ row.status \in {"blocked", "ready_for_review", progress.status}
              /\ updating' = [updating EXCEPT ![s] = [step |-> "progress", row |-> row]]
      BY <1>1, BegunUpdate
    <2> QED
      BY <2>1, <2>2
  <1>2. ASSUME NEW s \in StaffSlots, WriteProgress(s)
        PROVE  StatusIsEarned'
    <2>1. /\ progress'.approved = progress.approved
          /\ progress'.status = updating[s].row.status
          /\ \A t \in StaffSlots : updating'[t].step # "progress" \/ updating'[t] = updating[t]
      BY <1>2 DEF WriteProgress, Updates, Rows
    <2> QED
      BY <1>2, <2>1 DEF WriteProgress
  <1>3. ASSUME NEW s \in StaffSlots, WriteClient(s)
        PROVE  StatusIsEarned'
    BY <1>3 DEF WriteClient, NoUpdate
  <1>4. ASSUME NEW a \in AdminSlots, SaveApproval(a)
        PROVE  StatusIsEarned'
    <2>1. /\ progress'.approved = approving[a].approved
          /\ progress'.status = StatusAfter(a)
      BY <1>4 DEF SaveApproval, Rows
    <2>2. \A s \in StaffSlots : updating'[s].step = "idle"
      BY <1>4, OthersAside DEF AdminStep
    <2> QED
      BY <2>1, <2>2 DEF StatusAfter
  <1>5. CASE UNCHANGED <<progress, updating>>
    BY <1>5
  <1> QED
    BY <1>1, <1>2, <1>3, <1>4, <1>5
       DEF LaunchNext, CreateClient, BeginApproval, CheckReadiness, SaveClient,
           LaunchRequestDies, FactChanges

LEMMA ClientFollowsStep ==
    ASSUME LaunchTypeOK, LaunchNext, OneLaunchRequest, ClientFollows, ~upset'
    PROVE  ClientFollows'
  <1> USE DEF ClientFollows, LaunchTypeOK
  <1>1. ASSUME NEW s \in StaffSlots, StaffStep(s)
        PROVE  ClientFollows'
    <2>1. /\ \A t \in StaffSlots \ {s} : updating'[t].step = "idle" /\ updating[t].step = "idle"
          /\ \A a \in AdminSlots : approving'[a].step = "idle" /\ approving[a].step = "idle"
      BY <1>1, OthersAside
    <2>2. CASE BeginUpdate(s)
      <3>1. /\ UNCHANGED <<progress, clientStatus>> /\ updating[s].step = "idle"
            /\ updating'[s].step = "progress"
        BY <2>2, BegunUpdate DEF BeginUpdate
      <3> QED
        BY <2>1, <3>1
    <2>3. CASE WriteProgress(s)
      <3>1. /\ updating'[s].step = "client" /\ updating'[s].row = updating[s].row
            /\ progress'.status = updating[s].row.status
        BY <2>3 DEF WriteProgress, Updates, Rows
      <3> QED
        BY <2>1, <3>1
    <2>4. CASE WriteClient(s)
      <3>1. /\ updating'[s].step = "idle" /\ UNCHANGED progress
            /\ clientStatus' = updating[s].row.status /\ updating[s].step = "client"
        BY <2>4 DEF WriteClient, NoUpdate
      <3> QED
        BY <2>1, <3>1
    <2> QED
      BY <1>1, <2>2, <2>3, <2>4 DEF StaffStep
  <1>2. ASSUME NEW a \in AdminSlots, AdminStep(a)
        PROVE  ClientFollows'
    <2>1. /\ \A b \in AdminSlots \ {a} : approving'[b].step = "idle" /\ approving[b].step = "idle"
          /\ \A s \in StaffSlots : updating'[s].step = "idle" /\ updating[s].step = "idle"
      BY <1>2, OthersAside
    <2>2. ASSUME NEW approved \in BOOLEAN, NEW live \in BOOLEAN, BeginApproval(a, approved, live)
          PROVE  ClientFollows'
      <3>1. /\ UNCHANGED <<progress, clientStatus>> /\ approving[a].step = "idle"
            /\ approving'[a].step # "client"
        BY <2>2, BegunApproval DEF BeginApproval
      <3> QED
        BY <2>1, <3>1
    <2>3. CASE CheckReadiness(a)
      <3>1. /\ UNCHANGED <<progress, clientStatus>> /\ approving[a].step = "check"
            /\ approving'[a].step # "client"
        BY <2>3 DEF CheckReadiness, NoApproval, Approvals
      <3> QED
        BY <2>1, <3>1
    <2>4. CASE SaveApproval(a)
      <3>1. /\ approving'[a].step = "client" /\ approving'[a].live = approving[a].live
            /\ approving'[a].approved = approving[a].approved
            /\ progress'.status = StatusAfter(a)
        BY <2>4 DEF SaveApproval, Rows, Approvals
      <3>2. StatusAfter(a)' = progress'.status
        BY <3>1 DEF StatusAfter
      <3>3. \A b \in AdminSlots :
                approving'[b].step = "client" => StatusAfter(b)' = progress'.status
        <4> SUFFICES ASSUME NEW b \in AdminSlots, approving'[b].step = "client"
                     PROVE  StatusAfter(b)' = progress'.status
          OBVIOUS
        <4>1. b = a
          BY <2>1
        <4> QED
          BY <3>2, <4>1
      <3>4. \E b \in AdminSlots : approving'[b].step = "client"
        BY <3>1
      <3> HIDE DEF LaunchTypeOK
      <3> QED
        BY <2>1, <3>3, <3>4
    <2>5. CASE SaveClient(a)
      <3>1. /\ UNCHANGED progress /\ clientStatus' = StatusAfter(a)
            /\ approving[a].step = "client" /\ approving'[a].step = "idle"
        BY <2>5 DEF SaveClient, NoApproval
      <3> QED
        BY <2>1, <3>1
    <2> QED
      BY <1>2, <2>2, <2>3, <2>4, <2>5 DEF AdminStep
  <1>3. CASE UNCHANGED <<progress, clientStatus, updating, approving>>
    BY <1>3 DEF StatusAfter
  <1> QED
    BY <1>1, <1>2, <1>3
       DEF LaunchNext, StaffStep, AdminStep, CreateClient, LaunchRequestDies, FactChanges

LEMMA LaunchIInit == LaunchInit => LaunchIInv
  <1> SUFFICES ASSUME LaunchInit PROVE LaunchIInv
    OBVIOUS
  <1> USE DEF LaunchInit, Untouched, NoUpdate, NoApproval
  <1>1. LaunchTypeOK
    BY DEF LaunchTypeOK, Rows, Updates, Approvals, Statuses
  <1>2. LiveIsApproved /\ ApprovalStands /\ OneLaunchRequest
    BY DEF LiveIsApproved, ApprovalStands, OneLaunchRequest
  <1>3. StatusIsEarned /\ ClientFollows
    BY DEF StatusIsEarned, ClientFollows
  <1> QED
    BY <1>1, <1>2, <1>3 DEF LaunchIInv

LEMMA LaunchIStep == LaunchIInv /\ [LaunchNext]_launchVars => LaunchIInv'
  <1> SUFFICES ASSUME LaunchIInv, [LaunchNext]_launchVars PROVE LaunchIInv'
    OBVIOUS
  <1> USE DEF LaunchIInv
  <1>1. CASE LaunchNext
    <2>1. OneAdmin \/ ~upset' => ApprovalStands'
      BY <1>1, ApprovalStandsStep, UpsetIsNoted
    <2> QED
      BY <1>1, <2>1, LaunchTypeStep, LiveIsApprovedStep, OneLaunchRequestStep,
         StatusIsEarnedStep, ClientFollowsStep, UpsetIsNoted DEF OneAdmin
  <1>2. CASE UNCHANGED launchVars
    BY <1>2
       DEF launchVars, LaunchTypeOK, LiveIsApproved, OneAdmin, ApprovalStands,
           OneLaunchRequest, StatusIsEarned, ClientFollows, StatusAfter
  <1> QED
    BY <1>1, <1>2

(* What a step may do to the approval, in a state of the invariant. *)
LEMMA LaunchSteps ==
    ASSUME LaunchIInv, LaunchIInv', [LaunchNext]_launchVars
    PROVE  /\ OneAdmin \/ ~upset' => LiveFollowsApproval
           /\ StatusesAgree'
  <1> USE DEF LaunchIInv, LaunchTypeOK
  <1>1. ASSUME OneAdmin \/ ~upset', ~progress.live, progress'.live
        PROVE  progress.approved
    <2>1. ASSUME NEW a \in AdminSlots, SaveApproval(a)
          PROVE  progress'.live = approving[a].live /\ approving[a].step = "progress"
      BY <2>1 DEF SaveApproval, Rows
    <2>2. ASSUME NEW s \in StaffSlots, WriteProgress(s)
          PROVE  progress'.live = progress.live
      BY <2>2 DEF WriteProgress, Updates, Rows
    <2>3. \/ UNCHANGED progress
          \/ \E s \in StaffSlots : WriteProgress(s)
          \/ \E a \in AdminSlots : SaveApproval(a)
      BY DEF LaunchNext, CreateClient, BeginUpdate, WriteClient, BeginApproval,
             CheckReadiness, SaveClient, LaunchRequestDies, FactChanges, launchVars
    <2>4. LaunchNext => (~upset' => ~upset)
      BY UpsetIsNoted
    <2> QED
      BY <1>1, <2>1, <2>2, <2>3, <2>4 DEF ApprovalStands, launchVars
  <1>2. OneAdmin \/ ~upset' => LiveFollowsApproval
    BY <1>1 DEF LiveFollowsApproval, LiveIsApproved
  <1>3. ~upset' => (Launched(progress)' => progress'.approved)
    BY DEF Launched, ShownStatus, LiveIsApproved, StatusIsEarned
  <1>4. ~upset' => (~Busy' => clientStatus' = progress'.status)
    BY DEF Busy, ClientFollows
  <1> QED
    BY <1>2, <1>3, <1>4 DEF StatusesAgree

(* The invariant of a client's way to its launch: what is live is approved, *)
(* and until requests overlap or die the two statuses follow the approval.  *)
THEOREM LaunchInductive == LaunchSpec => []LaunchIInv
  BY LaunchIInit, LaunchIStep, PTL DEF LaunchSpec

(* Type correctness of the progress and the requests. *)
THEOREM LaunchTypeCorrect == LaunchSpec => []LaunchTypeOK
  <1>1. LaunchIInv => LaunchTypeOK
    BY DEF LaunchIInv
  <1> QED
    BY <1>1, LaunchInductive, PTL

(* With one admin, who approves one launch at a time, an app is live only   *)
(* after its launch was approved, whatever staff write meanwhile, and the   *)
(* statuses shown agree with the approval unless requests overlap or die    *)
(* (approveInternalLocationLaunch, updateInternalLocationOnboarding).       *)
THEOREM LaunchOnlyApproved ==
    ASSUME OneAdmin
    PROVE  LaunchSpec => LaunchIsApproved
  <1>1. LaunchIInv /\ LaunchIInv' /\ [LaunchNext]_launchVars =>
            LiveFollowsApproval /\ StatusesAgree'
    BY LaunchSteps
  <1> QED
    BY <1>1, LaunchInductive, PTL DEF LaunchSpec, LaunchIsApproved

(* The same of any number of admins, while requests neither overlap nor     *)
(* die: the gateway's check and the catalog's write are two requests.       *)
THEOREM LaunchApprovedOfAny == LaunchSpec => LiveOnceApproved
  <1>1. LaunchIInv /\ LaunchIInv' /\ [LaunchNext]_launchVars =>
            upset' \/ LiveFollowsApproval
    BY LaunchSteps
  <1> QED
    BY <1>1, LaunchInductive, PTL DEF LaunchSpec, LiveOnceApproved

-----------------------------------------------------------------------------
(***************************************************************************)
(* Store hours: StoreHours.                                                *)
(***************************************************************************)

(* The day of the clock's calendar, counted from the first; and whether it  *)
(* is one of those the hours list.                                          *)
DayNumber(local) == local \div DayLength
Opening(day) == day * DayLength + hours.start
Closing(day) == IF hours.start < hours.end THEN day * DayLength + hours.end
                                           ELSE day * DayLength + DayLength + hours.end
OpenDay(day) == day % 7 \in hours.days

(* The first opening after a time of the clock is that of a day. *)
OpensFirst(day, local) ==
    /\ OpenDay(day) /\ Opening(day) > local
    /\ \A other \in Int : OpenDay(other) /\ Opening(other) > local => day <= other

(* What an answer rests on: a moment, not after now, when the store was     *)
(* closed, and the first opening after what its clock showed then.          *)
Answers(moment, day) ==
    ~IsOpenAt(Clock(moment)) /\ OpensFirst(day, Clock(moment))

HoursIInv ==
    /\ HoursTypeOK
    /\ said.closed => \E moment \in 0..now, day \in Int :
           Answers(moment, day) /\ said.next = ToMoment(Opening(day))

(* Sets of naturals have a least element. *)
LEMMA EarlierIsRelation ==
    \E R : IsWellFoundedOn(R, Nat) /\ \A x, y \in Nat : y < x => <<y, x>> \in R
  <1>1. \A x, y \in Nat : y < x => <<y, x>> \in OpToRel(<, Nat)
    BY DEF OpToRel
  <1> WITNESS OpToRel(<, Nat)
  <1> QED
    BY <1>1, NatLessThanWellFounded

LEMMA FirstOf ==
    ASSUME NEW S \in SUBSET Nat, S # {}
    PROVE  \E x \in S : \A y \in S : x <= y
  <1>1. PICK R : IsWellFoundedOn(R, Nat) /\ \A x, y \in Nat : y < x => <<y, x>> \in R
    BY EarlierIsRelation
  <1>2. PICK x \in S : \A y \in S : ~(<<y, x>> \in R)
    BY <1>1, WFMin
  <1>3. ASSUME NEW y \in S
        PROVE  x <= y
    <2>1. x \in Nat /\ y \in Nat
      OBVIOUS
    <2>2. ~(y < x)
      BY <1>1, <1>2, <2>1, Zenon
    <2> QED
      BY <2>1, <2>2
  <1> QED
    BY <1>3

(* Days and times of the day. *)
LEMMA DayParts ==
    ASSUME NEW local \in Int
    PROVE  /\ DayNumber(local) \in Int /\ Minutes(local) \in 0..DayLength - 1
           /\ local = DayNumber(local) * DayLength + Minutes(local)
           /\ Weekday(local) = DayNumber(local) % 7 /\ Weekday(local) \in 0..6
  <1>1. DayLength \in Nat \ {0}
    BY HoursOK
  <1>2. /\ local \div DayLength \in Int /\ local % DayLength \in 0..DayLength - 1
        /\ local = (local \div DayLength) * DayLength + (local % DayLength)
    BY <1>1
  <1>3. (local \div DayLength) % 7 \in 0..6
    BY <1>2
  <1> QED
    BY <1>2, <1>3 DEF DayNumber, Minutes, Weekday

LEMMA DaysApart ==
    ASSUME NEW day \in Int, NEW other \in Int
    PROVE  /\ day * DayLength \in Int /\ other * DayLength \in Int
           /\ day <= other => day * DayLength <= other * DayLength
           /\ day < other => day * DayLength + DayLength <= other * DayLength
  <1>1. DayLength \in Nat \ {0}
    BY HoursOK
  <1>2. PICK gap \in Int : gap = other - day
    OBVIOUS
  <1>3. other * DayLength = day * DayLength + gap * DayLength
    BY <1>1, <1>2
  <1>4. gap >= 0 => gap * DayLength >= 0
    BY <1>1
  <1>5. gap >= 1 => gap * DayLength >= DayLength
    BY <1>1
  <1> QED
    BY <1>1, <1>2, <1>3, <1>4, <1>5

LEMMA DayIs ==
    ASSUME NEW day \in Int, NEW minutes \in 0..DayLength - 1,
           NEW local, local = day * DayLength + minutes
    PROVE  local \in Int /\ DayNumber(local) = day /\ Minutes(local) = minutes
  <1>1. DayLength \in Nat \ {0}
    BY HoursOK
  <1>2. local \in Int
    BY <1>1, DaysApart
  <1>3. PICK n, m : n = DayNumber(local) /\ m = Minutes(local)
    OBVIOUS
  <1>4. n \in Int /\ m \in 0..DayLength - 1 /\ local = n * DayLength + m
    BY <1>2, <1>3, DayParts
  <1>5. ~(n < day)
    <2>1. n < day => n * DayLength + DayLength <= day * DayLength
      BY <1>4, DaysApart
    <2>2. n * DayLength \in Int /\ day * DayLength \in Int
      BY <1>4, DaysApart
    <2> QED
      BY <1>1, <1>4, <2>1, <2>2
  <1>6. ~(day < n)
    <2>1. day < n => day * DayLength + DayLength <= n * DayLength
      BY <1>4, DaysApart
    <2>2. n * DayLength \in Int /\ day * DayLength \in Int
      BY <1>4, DaysApart
    <2> QED
      BY <1>1, <1>4, <2>1, <2>2
  <1>7. n = day
    BY <1>4, <1>5, <1>6
  <1>8. m = minutes
    <2>1. day * DayLength \in Int
      BY DaysApart
    <2> QED
      BY <1>1, <1>4, <1>7, <2>1
  <1> QED
    BY <1>2, <1>3, <1>7, <1>8

(* The hours a store has: days of the week, some; and two clock times. *)
LEMMA ParsedHoursShape ==
    ASSUME NEW h \in ParsedHours
    PROVE  /\ h.days \subseteq 0..6 /\ h.days # {}
           /\ h.start \in 0..DayLength - 1 /\ h.end \in 0..DayLength - 1
  <1>1. PICK label \in DayLabels : h.days = DaySet(label)
    BY DEF ParsedHours
  <1>2. PICK range \in label : range[1] \in 0..6 /\ range[2] \in 0..6
    BY HoursOK
  <1>3. range[1] \in DaySet(label)
    BY <1>2 DEF DaySet
  <1>4. DaySet(label) \subseteq 0..6
    BY DEF DaySet
  <1>5. h.start \in ClockTimes /\ h.end \in ClockTimes
    BY DEF ParsedHours
  <1> QED
    BY <1>1, <1>3, <1>4, <1>5, HoursOK

(* An opening is on its day; it ends after it began, no later than the next *)
(* day's would begin; at the times the hours say.                           *)
LEMMA OpeningShape ==
    ASSUME hours \in ParsedHours, hours.start # hours.end, NEW day \in Int
    PROVE  /\ Opening(day) \in Int /\ Closing(day) \in Int
           /\ Opening(day) < Closing(day) /\ Closing(day) <= Opening(day) + DayLength
           /\ day * DayLength <= Opening(day) /\ Opening(day) < day * DayLength + DayLength
           /\ Minutes(Opening(day)) = hours.start /\ Minutes(Closing(day)) = hours.end
           /\ DayNumber(Opening(day)) = day
  <1>1. DayLength \in Nat \ {0}
    BY HoursOK
  <1>2. hours.start \in 0..DayLength - 1 /\ hours.end \in 0..DayLength - 1
    BY ParsedHoursShape
  <1>3. PICK begins : begins = day * DayLength
    OBVIOUS
  <1>4. begins \in Int /\ begins + DayLength = (day + 1) * DayLength
    BY <1>1, <1>3, DaysApart
  <1>5. Opening(day) = begins + hours.start
    BY <1>3 DEF Opening
  <1>6. Closing(day) = IF hours.start < hours.end THEN begins + hours.end
                                                  ELSE begins + DayLength + hours.end
    BY <1>3 DEF Closing
  <1>7. /\ Opening(day) \in Int /\ Closing(day) \in Int
        /\ Opening(day) < Closing(day) /\ Closing(day) <= Opening(day) + DayLength
        /\ begins <= Opening(day) /\ Opening(day) < begins + DayLength
    BY <1>1, <1>2, <1>4, <1>5, <1>6
  <1>8. Minutes(Opening(day)) = hours.start /\ DayNumber(Opening(day)) = day
    BY <1>2, <1>3, <1>5, DayIs
  <1>9. Minutes(Closing(day)) = hours.end
    <2>1. CASE hours.start < hours.end
      <3>1. Closing(day) = day * DayLength + hours.end
        BY <1>3, <1>6, <2>1
      <3> QED
        BY <1>2, <3>1, DayIs
    <2>2. CASE ~(hours.start < hours.end)
      <3>1. Closing(day) = (day + 1) * DayLength + hours.end /\ day + 1 \in Int
        BY <1>4, <1>6, <2>2
      <3> QED
        BY <1>2, <3>1, DayIs
    <2> QED
      BY <2>1, <2>2
  <1> QED
    BY <1>3, <1>7, <1>8, <1>9

LEMMA NearbyDay ==
    ASSUME hours \in ParsedHours, hours.start # hours.end, NEW local \in Int,
           NEW day \in Int, Opening(day) <= local, local < Closing(day)
    PROVE  day = DayNumber(local) \/ day = DayNumber(local) - 1
  <1>1. DayLength \in Nat \ {0}
    BY HoursOK
  <1>2. PICK n, m : n = DayNumber(local) /\ m = Minutes(local)
    OBVIOUS
  <1>3. n \in Int /\ m \in 0..DayLength - 1 /\ local = n * DayLength + m
    BY <1>2, DayParts
  <1>4. /\ Opening(day) \in Int /\ Closing(day) \in Int
        /\ Closing(day) <= Opening(day) + DayLength
        /\ day * DayLength <= Opening(day) /\ Opening(day) < day * DayLength + DayLength
    BY OpeningShape
  <1>5. n * DayLength \in Int /\ day * DayLength \in Int
    BY <1>3, DaysApart
  <1>6. ~(n < day)
    <2>1. n < day => n * DayLength + DayLength <= day * DayLength
      BY <1>3, DaysApart
    <2> QED
      BY <1>1, <1>3, <1>4, <1>5, <2>1
  <1>7. ~(day + 1 < n)
    <2>1. day + 1 \in Int /\ (day + 1) * DayLength = day * DayLength + DayLength
      BY <1>1
    <2>2. day + 1 < n => (day + 1) * DayLength + DayLength <= n * DayLength
      BY <1>3, <2>1, DaysApart
    <2> QED
      BY <1>1, <1>3, <1>4, <1>5, <2>1, <2>2
  <1> QED
    BY <1>2, <1>3, <1>6, <1>7

(* What the hours say, by days: a store is open from the opening of a day   *)
(* to its closing, which is on that day or on the next.                     *)
LEMMA InHoursByDay ==
    ASSUME hours \in ParsedHours, hours.start # hours.end, NEW local \in Int
    PROVE  InHours(local) <=>
               \E day \in Int : OpenDay(day) /\ Opening(day) <= local /\ local < Closing(day)
  <1>1. DayLength \in Nat \ {0}
    BY HoursOK
  <1>2. PICK n, m : n = DayNumber(local) /\ m = Minutes(local)
    OBVIOUS
  <1>3. n \in Int /\ m \in 0..DayLength - 1 /\ local = n * DayLength + m
    BY <1>2, DayParts
  <1>4. hours.start \in 0..DayLength - 1 /\ hours.end \in 0..DayLength - 1
    BY ParsedHoursShape
  (* The midnights that are looked at begin this day and the one before. *)
  <1>5. ASSUME NEW back \in {0, 1}
        PROVE  /\ local - m - back * DayLength = (n - back) * DayLength
               /\ Weekday(local - m - back * DayLength) = (n - back) % 7
    <2>1. n * DayLength \in Int
      BY <1>3, DaysApart
    <2>2. (n - back) * DayLength = n * DayLength - back * DayLength
      BY <1>1, <1>3
    <2>3. back * DayLength \in Int
      BY <1>1
    <2>4. local - m - back * DayLength = (n - back) * DayLength
      BY <1>3, <2>1, <2>2, <2>3
    <2>5. PICK midnight : midnight = local - m - back * DayLength
      OBVIOUS
    <2>6. midnight = (n - back) * DayLength + 0 /\ n - back \in Int /\ 0 \in 0..DayLength - 1
      BY <1>1, <1>3, <2>4, <2>5, DaysApart
    <2>7. midnight \in Int /\ DayNumber(midnight) = n - back
      BY <2>6, DayIs
    <2>8. Weekday(midnight) = (n - back) % 7
      BY <2>7, DayParts
    <2> QED
      BY <2>4, <2>5, <2>8
  <1>6. ASSUME NEW back \in {0, 1}
        PROVE  LET midnight == local - Minutes(local) - back * DayLength
                   closing == IF hours.start < hours.end THEN hours.end
                                                         ELSE hours.end + DayLength
               IN  (/\ Weekday(midnight) \in hours.days
                    /\ local \in midnight + hours.start .. midnight + closing - 1) <=>
                   /\ OpenDay(n - back)
                   /\ Opening(n - back) <= local /\ local < Closing(n - back)
    <2>1. PICK midnight : midnight = local - m - back * DayLength
      OBVIOUS
    <2>2. midnight = (n - back) * DayLength /\ Weekday(midnight) = (n - back) % 7
      BY <1>5, <2>1
    <2>3. midnight \in Int
      BY <1>3, <2>2, DaysApart
    <2>4. Opening(n - back) = midnight + hours.start
      BY <2>2 DEF Opening
    <2>5. Closing(n - back) = IF hours.start < hours.end THEN midnight + hours.end
                                 ELSE midnight + DayLength + hours.end
      BY <2>2 DEF Closing
    <2>6. (LET closing == IF hours.start < hours.end THEN hours.end ELSE hours.end + DayLength
           IN  local \in midnight + hours.start .. midnight + closing - 1) <=>
              Opening(n - back) <= local /\ local < Closing(n - back)
      BY <1>1, <1>4, <2>3, <2>4, <2>5
    <2> QED
      BY <1>2, <2>1, <2>2, <2>6 DEF OpenDay
  <1>7. InHours(local) <=>
           \E back \in {0, 1} : /\ OpenDay(n - back)
                                /\ Opening(n - back) <= local /\ local < Closing(n - back)
    BY <1>6 DEF InHours
  <1>8. ASSUME NEW day \in Int, Opening(day) <= local, local < Closing(day)
        PROVE  \E back \in {0, 1} : day = n - back
    <2>1. day = n - 0 \/ day = n - 1
      BY <1>2, <1>3, <1>8, NearbyDay
    <2> QED
      BY <2>1
  <1>9. \A back \in {0, 1} : n - back \in Int
    BY <1>3
  <1> QED
    BY <1>7, <1>8, <1>9

(* isOpenForHours goes by what the hours say. *)
LEMMA OpenIsInHours ==
    ASSUME hours \in ParsedHours, NEW local \in Int
    PROVE  /\ IsOpenAt(local) <=> InHours(local)
           /\ ~IsOpenAt(local) => hours.start # hours.end
  <1>1. CASE hours.start = hours.end
    BY <1>1 DEF IsOpenAt, InHours
  <1>2. CASE hours.start # hours.end
    <2>1. DayLength \in Nat \ {0}
      BY HoursOK
    <2>2. PICK n, m : n = DayNumber(local) /\ m = Minutes(local)
      OBVIOUS
    <2>3. /\ n \in Int /\ m \in 0..DayLength - 1 /\ local = n * DayLength + m
          /\ Weekday(local) = n % 7
      BY <2>2, DayParts
    <2>4. hours.start \in 0..DayLength - 1 /\ hours.end \in 0..DayLength - 1
      BY ParsedHoursShape
    <2>5. PICK begins : begins = n * DayLength
      OBVIOUS
    <2>6. begins \in Int /\ local = begins + m
      BY <2>3, <2>5, DaysApart
    <2>7. ((n % 7) + 6) % 7 = (n - 1) % 7
      BY <2>3
    <2>8. /\ Opening(n) = begins + hours.start
          /\ hours.start < hours.end => Closing(n) = begins + hours.end
          /\ ~(hours.start < hours.end) => Closing(n) = begins + DayLength + hours.end
      BY <2>5 DEF Opening, Closing
    <2>9. (n - 1) * DayLength = begins - DayLength
      BY <2>1, <2>3, <2>5
    <2>10. /\ Opening(n - 1) = begins - DayLength + hours.start
           /\ hours.start < hours.end => Closing(n - 1) = begins - DayLength + hours.end
           /\ ~(hours.start < hours.end) => Closing(n - 1) = begins + hours.end
      BY <2>1, <2>4, <2>6, <2>9 DEF Opening, Closing
    <2>11. OpenDay(n) <=> Weekday(local) \in hours.days
      BY <2>3 DEF OpenDay
    <2>12. OpenDay(n - 1) <=> (Weekday(local) + 6) % 7 \in hours.days
      BY <2>3, <2>7 DEF OpenDay
    (* A day that is neither this one nor the last has no opening now. *)
    <2>13. IsOpenAt(local) <=>
              \/ OpenDay(n) /\ Opening(n) <= local /\ local < Closing(n)
              \/ OpenDay(n - 1) /\ Opening(n - 1) <= local /\ local < Closing(n - 1)
      <3>1. IsOpenAt(local) <=>
               \/ /\ hours.start < hours.end
                  /\ OpenDay(n) /\ hours.start <= m /\ m < hours.end
               \/ /\ hours.start > hours.end
                  /\ \/ OpenDay(n) /\ hours.start <= m
                     \/ OpenDay(n - 1) /\ m < hours.end
        BY <1>2, <2>2, <2>11, <2>12 DEF IsOpenAt
      <3>2. CASE hours.start < hours.end
        <4>1. (Opening(n) <= local /\ local < Closing(n)) <=> (hours.start <= m /\ m < hours.end)
          BY <2>3, <2>4, <2>6, <2>8, <3>2
        <4>2. ~(local < Closing(n - 1))
          BY <2>1, <2>3, <2>4, <2>6, <2>10, <3>2
        <4> QED
          BY <2>4, <3>1, <3>2, <4>1, <4>2
      <3>3. CASE hours.start > hours.end
        <4>1. (Opening(n) <= local /\ local < Closing(n)) <=> hours.start <= m
          BY <2>1, <2>3, <2>4, <2>6, <2>8, <3>3
        <4>2. (Opening(n - 1) <= local /\ local < Closing(n - 1)) <=> m < hours.end
          BY <2>1, <2>3, <2>4, <2>6, <2>10, <3>3
        <4> QED
          BY <2>4, <3>1, <3>3, <4>1, <4>2
      <3> QED
        BY <1>2, <2>4, <3>2, <3>3
    <2>14. ASSUME NEW day \in Int, Opening(day) <= local, local < Closing(day)
           PROVE  day = n \/ day = n - 1
      BY <1>2, <2>2, <2>14, NearbyDay
    <2>15. InHours(local) <=>
              \/ OpenDay(n) /\ Opening(n) <= local /\ local < Closing(n)
              \/ OpenDay(n - 1) /\ Opening(n - 1) <= local /\ local < Closing(n - 1)
      <3>1. n \in Int /\ n - 1 \in Int
        BY <2>3
      <3> QED
        BY <1>2, <2>14, <3>1, InHoursByDay
    <2> QED
      BY <1>2, <2>13, <2>15
  <1> QED
    BY <1>1, <1>2

(* buildNextOpenAt finds the first opening of all that are ahead.           *)
LEMMA NextOpenIsFirst ==
    ASSUME hours \in ParsedHours, hours.start # hours.end, NEW local \in Int
    PROVE  \E day \in Int : OpensFirst(day, local) /\ NextOpen(local) = ToMoment(Opening(day))
  <1>1. DayLength \in Nat \ {0}
    BY HoursOK
  <1>2. PICK n, m : n = DayNumber(local) /\ m = Minutes(local)
    OBVIOUS
  <1>3. /\ n \in Int /\ m \in 0..DayLength - 1 /\ local = n * DayLength + m
        /\ Weekday(local) = n % 7
    BY <1>2, DayParts
  <1>4. /\ hours.days \subseteq 0..6 /\ hours.days # {}
        /\ hours.start \in 0..DayLength - 1
    BY ParsedHoursShape
  <1>5. PICK begins : begins = n * DayLength
    OBVIOUS
  <1>6. begins \in Int /\ local = begins + m
    BY <1>3, <1>5, DaysApart
  <1>7. \A d \in Int : /\ local - m + d * DayLength + hours.start = Opening(n + d)
                       /\ ((Weekday(local) + d) % 7 \in hours.days <=> OpenDay(n + d))
    <2> SUFFICES ASSUME NEW d \in Int
                 PROVE  /\ local - m + d * DayLength + hours.start = Opening(n + d)
                        /\ ((Weekday(local) + d) % 7 \in hours.days <=> OpenDay(n + d))
      OBVIOUS
    <2>1. (n + d) * DayLength = begins + d * DayLength /\ d * DayLength \in Int
      BY <1>1, <1>3, <1>5
    <2>2. local - m + d * DayLength + hours.start = Opening(n + d)
      BY <1>1, <1>3, <1>4, <1>6, <2>1 DEF Opening
    <2>3. ((n % 7) + d) % 7 = (n + d) % 7
      BY <1>3
    <2> QED
      BY <1>3, <2>2, <2>3 DEF OpenDay
  <1>8. PICK ahead : ahead = {d \in 0..14 : OpenDay(n + d) /\ Opening(n + d) > local}
    OBVIOUS
  (* A listed day is one of the next seven. *)
  <1>10. ahead # {}
    <2>1. PICK w \in 0..6 : w \in hours.days
      BY <1>4
    <2>2. n % 7 \in 0..6
      BY <1>3
    <2>3. PICK d \in 1..7 : ((n % 7) + d) % 7 = w
      <3>1. CASE w > n % 7
        <4>1. w - (n % 7) \in 1..7 /\ ((n % 7) + (w - (n % 7))) % 7 = w
          BY <2>2, <3>1
        <4> QED
          BY <4>1
      <3>2. CASE w <= n % 7
        <4>1. w - (n % 7) + 7 \in 1..7 /\ ((n % 7) + (w - (n % 7) + 7)) % 7 = w
          BY <2>2, <3>2
        <4> QED
          BY <4>1
      <3> QED
        BY <2>2, <3>1, <3>2
    <2>4. d \in Int /\ OpenDay(n + d)
      <3>1. d \in Int
        OBVIOUS
      <3>2. (Weekday(local) + d) % 7 \in hours.days
        BY <1>3, <2>1, <2>3
      <3> QED
        BY <1>7, <3>1, <3>2
    <2>5. Opening(n + d) > local
      <3>1. n + d \in Int /\ n < n + d
        BY <1>3, <2>3
      <3>2. n * DayLength + DayLength <= (n + d) * DayLength
        BY <1>3, <3>1, DaysApart
      <3>3. (n + d) * DayLength \in Int
        BY <3>1, DaysApart
      <3> QED
        BY <1>1, <1>3, <1>4, <1>5, <1>6, <3>2, <3>3 DEF Opening
    <2> QED
      BY <1>8, <2>3, <2>4, <2>5
  <1>11. PICK least \in ahead : \A e \in ahead : least <= e
    <2>1. ahead \in SUBSET Nat
      BY <1>8
    <2> QED
      BY <1>10, <2>1, FirstOf
  <1>12. least = CHOOSE d \in ahead : \A e \in ahead : d <= e
    <2>1. PICK chosen : chosen = CHOOSE d \in ahead : \A e \in ahead : d <= e
      OBVIOUS
    <2>2. chosen \in ahead /\ \A e \in ahead : chosen <= e
      BY <1>11, <2>1
    <2>3. chosen = least
      BY <1>8, <1>11, <2>2
    <2> QED
      BY <2>1, <2>3
  <1>9. NextOpen(local) = ToMoment(Opening(n + least))
    <2>1. {d \in 0..14 : /\ (Weekday(local) + d) % 7 \in hours.days
                         /\ local - Minutes(local) + d * DayLength + hours.start > local}
             = ahead
      BY <1>2, <1>7, <1>8
    <2>2. NextOpen(local) = ToMoment(local - Minutes(local) + least * DayLength + hours.start)
      BY <1>12, <2>1 DEF NextOpen
    <2>3. least \in Int
      BY <1>8, <1>11
    <2> QED
      BY <1>2, <1>7, <2>2, <2>3
  <1>13. least \in 0..14 /\ n + least \in Int /\ OpenDay(n + least) /\ Opening(n + least) > local
    BY <1>3, <1>8, <1>11
  <1>14. ASSUME NEW other \in Int, OpenDay(other), Opening(other) > local
         PROVE  n + least <= other
    <2>1. /\ Opening(other) \in Int /\ Opening(other) < other * DayLength + DayLength
      BY OpeningShape
    <2>2. other * DayLength \in Int
      BY DaysApart
    <2>3. ~(other < n)
      <3>1. other < n => other * DayLength + DayLength <= n * DayLength
        BY <1>3, DaysApart
      <3> QED
        BY <1>1, <1>3, <1>5, <1>6, <1>14, <2>1, <2>2, <3>1
    <2>4. CASE other <= n + 14
      <3>1. PICK d \in 0..14 : other = n + d
        <4>1. other - n \in 0..14 /\ other = n + (other - n)
          BY <1>3, <2>3, <2>4
        <4> QED
          BY <4>1
      <3>2. d \in ahead
        BY <1>8, <1>14, <3>1
      <3> QED
        BY <1>3, <1>11, <1>13, <3>1, <3>2
    <2>5. CASE other > n + 14
      BY <1>3, <1>13, <2>5
    <2> QED
      BY <1>3, <2>4, <2>5
  <1> QED
    BY <1>9, <1>13, <1>14 DEF OpensFirst

LEMMA OffsetsShape ==
    ASSUME zone \in [before : Offsets, after : Offsets]
    PROVE  ChangeAt \in Int /\ zone.before \in Int /\ zone.after \in Int
  <1>1. ChangeAt \in Int /\ Offsets \subseteq Int
    BY HoursOK
  <1>2. zone.before \in Offsets /\ zone.after \in Offsets
    OBVIOUS
  <1> QED
    BY <1>1, <1>2

(* The times of the clock that the change neither skips nor repeats. *)
LEMMA NotSkipped ==
    ASSUME zone \in [before : Offsets, after : Offsets], NEW local \in Int,
           ~ClockSkips(Minutes(local))
    PROVE  /\ ~(ChangeAt + zone.before <= local /\ local < ChangeAt + zone.after)
           /\ ~(ChangeAt + zone.after <= local /\ local < ChangeAt + zone.before)
  <1>1. PICK a, b : a = ChangeAt + zone.before /\ b = ChangeAt + zone.after
    OBVIOUS
  <1>2. a \in Int /\ b \in Int
    BY <1>1, OffsetsShape
  <1>3. local \notin (a..b - 1) \cup (b..a - 1)
    BY <1>1 DEF ClockSkips
  <1> QED
    BY <1>1, <1>2, <1>3

(* The moment found is the one at which the clock shows the time asked for; *)
(* when the change of the clocks neither skips nor repeats it there is one. *)
LEMMA ToMomentShows ==
    ASSUME zone \in [before : Offsets, after : Offsets], NEW local \in Int,
           ~ClockSkips(Minutes(local))
    PROVE  ToMoment(local) \in Int /\ Clock(ToMoment(local)) = local
  <1>1. ChangeAt \in Int /\ zone.before \in Int /\ zone.after \in Int
    BY OffsetsShape
  <1>2. PICK u, v : u = local - zone.before /\ v = local - zone.after
    OBVIOUS
  <1>3. u < ChangeAt <=> v < ChangeAt
    <2>1. /\ ~(ChangeAt + zone.before <= local /\ local < ChangeAt + zone.after)
          /\ ~(ChangeAt + zone.after <= local /\ local < ChangeAt + zone.before)
      BY NotSkipped
    <2> QED
      BY <1>1, <1>2, <2>1
  <1>4. PICK moment : moment = IF u < ChangeAt THEN u ELSE v
    OBVIOUS
  <1>5. \A guess \in Int : guess + local - Clock(guess) \in {u, v}
    BY <1>1, <1>2 DEF Clock
  <1>6. /\ u + local - Clock(u) = moment /\ v + local - Clock(v) = moment
        /\ u \in Int /\ v \in Int
    <2>1. u \in Int /\ v \in Int
      BY <1>1, <1>2
    <2>2. CASE u < ChangeAt
      BY <1>1, <1>2, <1>3, <1>4, <2>1, <2>2 DEF Clock
    <2>3. CASE ~(u < ChangeAt)
      BY <1>1, <1>2, <1>3, <1>4, <2>1, <2>3 DEF Clock
    <2> QED
      BY <2>1, <2>2, <2>3
  <1>7. moment \in {u, v} /\ moment \in Int /\ Clock(moment) = local
    BY <1>1, <1>2, <1>3, <1>4 DEF Clock
  <1>8. PICK first : first = local + local - Clock(local)
    OBVIOUS
  <1>9. first \in {u, v}
    BY <1>5, <1>8
  <1>10. first + local - Clock(first) = moment /\ moment + local - Clock(moment) = moment
    BY <1>6, <1>7, <1>9
  <1>11. ToMoment(local) = moment
    BY <1>8, <1>10 DEF ToMoment
  <1> QED
    BY <1>7, <1>11

(* Between the question and the opening that was the answer the store stays *)
(* closed: no opening is passed, and where the clock is set back, none of   *)
(* the times that come twice is one at which it opens or closes.            *)
LEMMA OpensAsSaid ==
    ASSUME HoursTypeOK, NEW moment \in 0..now, NEW day \in Int,
           Answers(moment, day), said.next = ToMoment(Opening(day)),
           ~ClockSkips(hours.start), ~ClockSkips(hours.end)
    PROVE  /\ now < said.next => ~InHours(Clock(now))
           /\ now = said.next => InHours(Clock(now))
  <1>1. /\ hours \in ParsedHours /\ zone \in [before : Offsets, after : Offsets]
        /\ now \in Nat /\ moment \in Nat /\ moment <= now
    BY HoursOK DEF HoursTypeOK
  <1>2. ChangeAt \in Int /\ zone.before \in Int /\ zone.after \in Int
    BY <1>1, OffsetsShape
  <1>3. PICK then, shown : then = Clock(moment) /\ shown = Clock(now)
    OBVIOUS
  <1>4. /\ then \in Int /\ shown \in Int
        /\ moment < ChangeAt => then = moment + zone.before
        /\ ~(moment < ChangeAt) => then = moment + zone.after
        /\ now < ChangeAt => shown = now + zone.before
        /\ ~(now < ChangeAt) => shown = now + zone.after
    BY <1>1, <1>2, <1>3 DEF Clock
  <1>5. hours.start # hours.end /\ ~InHours(then)
    BY <1>1, <1>3, <1>4, OpenIsInHours DEF Answers
  <1>6. OpensFirst(day, then)
    BY <1>3 DEF Answers
  <1>7. PICK opening, next : opening = Opening(day) /\ next = said.next
    OBVIOUS
  <1>8. opening \in Int /\ opening > then /\ Minutes(opening) = hours.start
    BY <1>1, <1>5, <1>6, <1>7, OpeningShape DEF OpensFirst
  <1>9. next \in Int /\ Clock(next) = opening
    BY <1>1, <1>6, <1>7, <1>8, ToMomentShows
  <1>10. /\ next < ChangeAt => opening = next + zone.before
         /\ ~(next < ChangeAt) => opening = next + zone.after
    BY <1>9 DEF Clock
  (* The times that are skipped, or shown twice. *)
  <1>11. \A local \in Int : Minutes(local) \in {hours.start, hours.end} =>
            ~(local >= ChangeAt + zone.after /\ local < ChangeAt + zone.before)
    BY <1>1, NotSkipped
  <1>12. ASSUME now < next
         PROVE  ~InHours(shown)
    <2> SUFFICES ASSUME InHours(shown) PROVE FALSE
      OBVIOUS
    <2>1. PICK other \in Int : /\ OpenDay(other)
                               /\ Opening(other) <= shown /\ shown < Closing(other)
      BY <1>1, <1>4, <1>5, InHoursByDay
    <2>2. PICK begins, ends : begins = Opening(other) /\ ends = Closing(other)
      OBVIOUS
    <2>3. /\ begins \in Int /\ ends \in Int /\ begins <= shown /\ shown < ends
          /\ Minutes(ends) = hours.end
      BY <1>1, <1>5, <2>1, <2>2, OpeningShape
    <2>4. CASE then < begins
      <3>1. day <= other
        BY <1>6, <2>1, <2>2, <2>4 DEF OpensFirst
      <3>2. opening <= begins
        <4>1. day * DayLength <= other * DayLength
          BY <3>1, DaysApart
        <4>2. day * DayLength \in Int /\ other * DayLength \in Int /\ hours.start \in Int
          BY <1>1, DaysApart, ParsedHoursShape
        <4> QED
          BY <1>7, <2>2, <4>1, <4>2 DEF Opening
      <3>3. opening >= ChangeAt + zone.after /\ opening < ChangeAt + zone.before
        BY <1>1, <1>2, <1>4, <1>8, <1>9, <1>10, <1>12, <2>3, <3>2
      <3> QED
        BY <1>8, <1>11, <3>3
    <2>5. CASE ends <= then
      <3>1. ends >= ChangeAt + zone.after /\ ends < ChangeAt + zone.before
        BY <1>1, <1>2, <1>4, <2>3, <2>5
      <3> QED
        BY <1>11, <2>3, <3>1
    <2>6. CASE begins <= then /\ then < ends
      BY <1>1, <1>4, <1>5, <2>1, <2>2, <2>6, InHoursByDay
    <2> QED
      BY <1>4, <2>3, <2>4, <2>5, <2>6
  <1>13. ASSUME now = next
         PROVE  InHours(shown)
    <2>1. shown = opening
      BY <1>3, <1>9, <1>13
    <2>2. OpenDay(day) /\ Opening(day) <= shown /\ shown < Closing(day)
      BY <1>1, <1>5, <1>6, <1>7, <1>8, <2>1, OpeningShape DEF OpensFirst
    <2> QED
      BY <1>1, <1>4, <1>5, <2>2, InHoursByDay
  <1> QED
    BY <1>3, <1>7, <1>12, <1>13

LEMMA HoursIInit == HoursInit => HoursIInv
  <1> SUFFICES ASSUME HoursInit PROVE HoursIInv
    OBVIOUS
  <1>1. said.closed = FALSE /\ said \in [closed : BOOLEAN, next : Int]
    BY DEF HoursInit, Unsaid
  <1>2. now \in 0..LastMoment
    BY HoursOK DEF HoursInit
  <1>3. HoursTypeOK
    BY <1>1, <1>2 DEF HoursInit, HoursTypeOK
  <1> QED
    BY <1>1, <1>3 DEF HoursIInv

(* The answer is a moment. *)
LEMMA ToMomentIsMoment ==
    ASSUME zone \in [before : Offsets, after : Offsets], NEW local \in Int
    PROVE  ToMoment(local) \in Int
  <1>1. \A guess \in Int : guess + local - Clock(guess) \in Int
    BY OffsetsShape DEF Clock
  <1> QED
    BY <1>1 DEF ToMoment

(* Hours and offsets do not change, and so neither does what follows of     *)
(* them alone.                                                              *)
LEMMA StaysSo ==
    ASSUME UNCHANGED <<hours, zone>>, NEW moment, NEW day
    PROVE  /\ (~IsOpenAt(Clock(moment)) /\ OpensFirst(day, Clock(moment)))' <=>
                  ~IsOpenAt(Clock(moment)) /\ OpensFirst(day, Clock(moment))
           /\ ToMoment(Opening(day))' = ToMoment(Opening(day))
  <1>1. ASSUME NEW t PROVE Clock(t)' = Clock(t)
    BY DEF Clock
  <1>2. ASSUME NEW t PROVE IsOpenAt(t)' = IsOpenAt(t)
    BY DEF IsOpenAt, Weekday, Minutes
  <1>3. ASSUME NEW t PROVE Opening(t)' = Opening(t) /\ OpenDay(t)' = OpenDay(t)
    BY DEF Opening, OpenDay
  <1>4. ASSUME NEW t PROVE OpensFirst(day, t)' <=> OpensFirst(day, t)
    BY DEF OpensFirst, Opening, OpenDay
  <1>5. ASSUME NEW t PROVE ToMoment(t)' = ToMoment(t)
    BY DEF ToMoment, Clock
  <1> QED
    BY <1>1, <1>2, <1>3, <1>4, <1>5

LEMMA HoursIStep == HoursIInv /\ [HoursNext]_hoursVars => HoursIInv'
  <1> SUFFICES ASSUME HoursIInv, [HoursNext]_hoursVars PROVE HoursIInv'
    OBVIOUS
  <1>1. HoursTypeOK
    BY DEF HoursIInv
  <1>2. CASE AskStoreHours
    <2>1. now \in Nat /\ now \in 0..now /\ UNCHANGED <<hours, zone, now>>
      BY <1>1, <1>2, HoursOK DEF HoursTypeOK, AskStoreHours
    <2>2. PICK then : then = Clock(now)
      OBVIOUS
    <2>3. then \in Int
      BY <1>1, <2>2, HoursOK DEF HoursTypeOK, Clock
    <2>4. CASE IsOpenAt(then)
      <3>1. said' = Unsaid
        BY <1>2, <2>2, <2>4 DEF AskStoreHours
      <3>2. said'.closed = FALSE /\ said' \in [closed : BOOLEAN, next : Int]
        BY <3>1 DEF Unsaid
      <3> QED
        BY <1>1, <2>1, <3>2 DEF HoursIInv, HoursTypeOK
    <2>5. CASE ~IsOpenAt(then)
      <3>1. /\ hours \in ParsedHours /\ zone \in [before : Offsets, after : Offsets]
            /\ hours.start # hours.end
        BY <1>1, <2>3, <2>5, OpenIsInHours DEF HoursTypeOK
      <3>2. PICK day \in Int : OpensFirst(day, then) /\ NextOpen(then) = ToMoment(Opening(day))
        BY <2>3, <3>1, NextOpenIsFirst
      <3>3. PICK next : next = ToMoment(Opening(day))
        OBVIOUS
      <3>4. next \in Int
        BY <3>1, <3>3, OpeningShape, ToMomentIsMoment
      <3>5. said' = [closed |-> TRUE, next |-> next]
        BY <1>2, <2>2, <2>5, <3>2, <3>3 DEF AskStoreHours
      <3>6. said' \in [closed : BOOLEAN, next : Int] /\ said'.next = next
        BY <3>4, <3>5
      <3>7. HoursTypeOK'
        BY <1>1, <2>1, <3>6 DEF HoursTypeOK
      <3>8. PICK moment : moment = now
        OBVIOUS
      <3>9. ~IsOpenAt(Clock(moment)) /\ OpensFirst(day, Clock(moment))
        BY <2>2, <2>5, <3>2, <3>8
      <3>10. Answers(moment, day)' /\ ToMoment(Opening(day))' = next
        <4>1. UNCHANGED <<hours, zone>>
          BY <2>1
        <4> QED
          BY <3>3, <3>9, <4>1, StaysSo DEF Answers
      <3> QED
        BY <2>1, <3>6, <3>7, <3>8, <3>10 DEF HoursIInv
    <2> QED
      BY <2>4, <2>5
  <1>3. CASE TimePasses \/ UNCHANGED hoursVars
    <2>1. UNCHANGED <<hours, zone, said>> /\ now' \in 0..LastMoment /\ now <= now'
      BY <1>1, <1>3, HoursOK DEF HoursTypeOK, TimePasses, hoursVars
    <2>2. HoursTypeOK'
      BY <1>1, <2>1 DEF HoursTypeOK
    <2>3. ASSUME said'.closed
          PROVE  \E moment \in 0..now', day \in Int :
                     (Answers(moment, day) /\ said.next = ToMoment(Opening(day)))'
      <3>1. PICK moment \in 0..now, day \in Int :
               Answers(moment, day) /\ said.next = ToMoment(Opening(day))
        BY <2>1, <2>3 DEF HoursIInv
      <3>2. moment \in 0..now'
        BY <1>1, <2>1, HoursOK DEF HoursTypeOK
      <3>3. Answers(moment, day)' /\ ToMoment(Opening(day))' = ToMoment(Opening(day))
        BY <2>1, <3>1, StaysSo DEF Answers
      <3> QED
        BY <2>1, <3>1, <3>2, <3>3
    <2> QED
      BY <2>2, <2>3 DEF HoursIInv
  <1> QED
    BY <1>2, <1>3 DEF HoursNext

THEOREM HoursInductive == HoursSpec => []HoursIInv
  BY HoursIInit, HoursIStep, PTL DEF HoursSpec

(* Hours, offsets, the moment and the answer are what the code computes.    *)
THEOREM HoursTypeCorrect == HoursSpec => []HoursTypeOK
  <1>1. HoursIInv => HoursTypeOK
    BY DEF HoursIInv
  <1> QED
    BY <1>1, HoursInductive, PTL

(* A closed store opens when it said it would and not before, for any hours *)
(* and any length of a day, over midnight, the week's end and a change of   *)
(* the clocks of any size, forwards or back; unless it opens or closes at a *)
(* time that the change skips or repeats.                                   *)
THEOREM OpensAlwaysWhenSaid == HoursSpec => []OpensWhenSaid
  <1>1. HoursIInv => OpensWhenSaid
    <2> SUFFICES ASSUME HoursIInv PROVE OpensWhenSaid
      OBVIOUS
    <2>1. HoursTypeOK
      BY DEF HoursIInv
    <2>2. ASSUME said.closed, ~ClockSkips(hours.start), ~ClockSkips(hours.end)
          PROVE  /\ now < said.next => ~InHours(Clock(now))
                 /\ now = said.next => InHours(Clock(now))
      <3>1. PICK moment \in 0..now, day \in Int :
               Answers(moment, day) /\ said.next = ToMoment(Opening(day))
        BY <2>2 DEF HoursIInv
      <3> QED
        BY <2>1, <2>2, <3>1, OpensAsSaid
    <2> QED
      BY <2>2 DEF OpensWhenSaid
  <1> QED
    BY <1>1, HoursInductive, PTL
=============================================================================
