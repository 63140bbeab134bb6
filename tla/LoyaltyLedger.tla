---------------------------- MODULE LoyaltyLedger ----------------------------
(***************************************************************************)
(* The loyalty account of one customer at one location                      *)
(* (services/loyalty/src/routes.ts): its ledger, its balance row, and the   *)
(* idempotency records of POST /v1/loyalty/internal/ledger/apply.           *)
(*                                                                         *)
(* A mutation reads the balance, looks its key up, and then writes three    *)
(* rows one after the other without a transaction; the balance it writes is *)
(* an absolute value. The orders service sends a mutation again until it    *)
(* is answered.                                                             *)
(***************************************************************************)
EXTENDS Integers, FiniteSetsExt

CONSTANTS
    Mutations,      \* [key, type, amount]: what a caller may ask for
    LoyaltySlots,   \* requests in flight on the account
    MaxLoyaltyDeaths \* bound: requests that die before they finish

ASSUME LoyaltyOK ==
    /\ IsFiniteSet(Mutations) /\ Mutations # {}
    /\ \A m \in Mutations : m.amount \in Int
    /\ MaxLoyaltyDeaths \in Nat

VARIABLES
    entries,    \* loyalty_ledger_entries: how often each mutation is in it
    balance,    \* the loyalty_balances row
    records,    \* loyalty_idempotency_keys: the mutations recorded
    applying,   \* per slot: the next write, the mutation, the balance it read
    deaths,     \* requests that died so far
    disturbed   \* history: requests overlapped, or one died between its writes

loyaltyVars == <<entries, balance, records, applying, deaths, disturbed>>

NoPoints == [available |-> 0, lifetime |-> 0]
Unapplied == [step |-> "idle", mutation |-> CHOOSE m \in Mutations : TRUE,
              read |-> NoPoints]

LoyaltyInit ==
    /\ entries = [m \in Mutations |-> 0]
    /\ balance = NoPoints
    /\ records = {}
    /\ applying = [s \in LoyaltySlots |-> Unapplied]
    /\ deaths = 0
    /\ disturbed = FALSE

-----------------------------------------------------------------------------
(* Points.                                                                  *)

(* One point for a whole dollar. *)
EarnPoints(cents) == cents \div 100

DeltaPoints(m) ==
    CASE m.type = "EARN"   -> EarnPoints(m.amount)
      [] m.type = "REDEEM" -> -m.amount
      [] OTHER             -> m.amount

LifetimeDelta(m) == IF m.type = "EARN" THEN EarnPoints(m.amount) ELSE 0

(* The balance a mutation leaves, from the one it found. *)
After(b, m) == [available |-> b.available + DeltaPoints(m),
                lifetime  |-> b.lifetime + LifetimeDelta(m)]

-----------------------------------------------------------------------------
(* The request.                                                             *)

(* getBalance creates the row with zero points when there is none. *)
ReadBalance(s, m) ==
    /\ applying[s].step = "idle"
    /\ applying' = [applying EXCEPT ![s] = [step |-> "look", mutation |-> m,
                                            read |-> balance]]
    /\ disturbed' = (disturbed \/ \E t \in LoyaltySlots : applying[t].step # "idle")
    /\ UNCHANGED <<entries, balance, records, deaths>>

Proceed(s, step) == applying' = [applying EXCEPT ![s].step = step]

Answer(s) == applying' = [applying EXCEPT ![s] = Unapplied]

(* Mutant: the idempotency record is not looked up first. *)
LookUpNothing(s) ==
    /\ applying[s].step = "look"
    /\ IF After(applying[s].read, applying[s].mutation).available < 0
       THEN Answer(s) ELSE Proceed(s, "append")
    /\ UNCHANGED <<entries, balance, records, deaths, disturbed>>

(* A key that was recorded is answered from its record, or 409 when it was  *)
(* recorded for something else; so is a mutation the balance cannot bear.   *)
LookUp(s) ==
    /\ applying[s].step = "look"
    /\ IF \/ \E m \in records : m.key = applying[s].mutation.key
          \/ After(applying[s].read, applying[s].mutation).available < 0
       THEN Answer(s) ELSE Proceed(s, "append")
    /\ UNCHANGED <<entries, balance, records, deaths, disturbed>>

AppendEntry(s) ==
    /\ applying[s].step = "append"
    /\ entries' = [entries EXCEPT ![applying[s].mutation] = @ + 1]
    /\ Proceed(s, "save")
    /\ UNCHANGED <<balance, records, deaths, disturbed>>

SaveBalance(s) ==
    /\ applying[s].step = "save"
    /\ balance' = After(applying[s].read, applying[s].mutation)
    /\ Proceed(s, "record")
    /\ UNCHANGED <<entries, records, deaths, disturbed>>

(* The insert is refused when the key is there by now; either way the       *)
(* answer comes from the row that is stored.                                *)
SaveRecord(s) ==
    /\ applying[s].step = "record"
    /\ records' = IF \E m \in records : m.key = applying[s].mutation.key
                  THEN records ELSE records \cup {applying[s].mutation}
    /\ Answer(s)
    /\ UNCHANGED <<entries, balance, deaths, disturbed>>

(* The process or its database connection dies; what was written stays.     *)
LoyaltyDies(s) ==
    /\ applying[s].step # "idle"
    /\ deaths < MaxLoyaltyDeaths
    /\ deaths' = deaths + 1
    /\ disturbed' = (disturbed \/ applying[s].step \in {"save", "record"})
    /\ Answer(s)
    /\ UNCHANGED <<entries, balance, records>>

LoyaltyStep(s) == LookUp(s) \/ AppendEntry(s) \/ SaveBalance(s) \/ SaveRecord(s)

LoyaltyNext ==
    \E s \in LoyaltySlots :
        \/ LoyaltyStep(s) \/ LoyaltyDies(s)
        \/ \E m \in Mutations : ReadBalance(s, m)

LoyaltySpec == LoyaltyInit /\ [][LoyaltyNext]_loyaltyVars

-----------------------------------------------------------------------------
(* Properties.                                                              *)

Balances == [available : Int, lifetime : Int]
LoyaltyRequests ==
    [step : {"idle", "look", "append", "save", "record"}, mutation : Mutations,
     read : Balances]

LoyaltyTypeOK ==
    /\ entries \in [Mutations -> Nat]
    /\ balance \in Balances
    /\ records \subseteq Mutations
    /\ applying \in [LoyaltySlots -> LoyaltyRequests]
    /\ deaths \in 0..MaxLoyaltyDeaths
    /\ disturbed \in BOOLEAN

(* What a tally of ledger entries is worth. *)
Points(tally, each) == MapThenSumSet(LAMBDA m : tally[m] * each[m], Mutations)
Worth(tally) ==
    [available |-> Points(tally, [m \in Mutations |-> DeltaPoints(m)]),
     lifetime  |-> Points(tally, [m \in Mutations |-> LifetimeDelta(m)])]

(* "replay-safe" (services/loyalty/test/loyalty.test.ts:285): unless two    *)
(* requests of the account overlap or one dies between its writes, every    *)
(* key is in the ledger once, is recorded, and the balance is the ledger's. *)
AppliedOnce ==
    ~disturbed /\ (\A s \in LoyaltySlots : applying[s].step \notin {"save", "record"})
        => /\ balance = Worth(entries)
           /\ entries = [m \in Mutations |-> IF m \in records THEN 1 ELSE 0]

(* Even then no points come from nowhere: what the balance row holds are    *)
(* the points of some of the entries in the ledger, and it is not negative. *)
BalanceFromLedger ==
    /\ balance.available >= 0
    /\ \E part \in [Mutations -> 0..Max({entries[m] : m \in Mutations})] :
          /\ \A m \in Mutations : part[m] <= entries[m]
          /\ balance = Worth(part)

(* The ledger, the records and the balance agree, as far as the routes keep *)
(* them together.                                                           *)
LedgerIsExact == AppliedOnce /\ BalanceFromLedger
=============================================================================
