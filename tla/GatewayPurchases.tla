-------------------------- MODULE GatewayPurchases --------------------------
(***************************************************************************)
(* What a driver buys through PayU: prepaid packages and wallet top-ups.   *)
(* PayU's callbacks, the driver's app and the purchase sweep all run       *)
(* settlePayuTxn, any number of them at once, each over several            *)
(* statements.  A package is claimed first and credited then; a top-up is  *)
(* credited first and stamped then.                                        *)
(***************************************************************************)
EXTENDS Naturals, FiniteSets

CONSTANTS
    Packages,       \* package_purchase_orders that may be created
    Topups,         \* wallet_topup_orders that may be created
    Settlers,       \* bound: calls of settlePayuTxn at once
    MaxCrashes      \* bound: settlers that die

Orders == Packages \cup Topups

ASSUME OrderKindsDiffer == Packages \cap Topups = {}
ASSUME MaxCrashesIsNat == MaxCrashes \in Nat

VARIABLES
    order,      \* the order's row: status and, of a package, gateway_payment_id
    page,       \* what became of its transaction at PayU
    credits,    \* the references under which the driver's ledger was credited for it
    settler,    \* what each call of settlePayuTxn is at
    crashes     \* settlers that died so far

purchaseVars == <<order, page, credits, settler, crashes>>

\* The references of a credit: PayU's id of the payment, which its answer may leave out,
\* and our transaction id.
Refs == {"mihpayid", "txnid"}
NoRef == "none"
OrderRow == [st : {"none", "pending", "completed"}, ref : Refs \cup {NoRef}]
Settling == [at : {"claim", "replay", "credit", "topup", "stamp"}, order : Orders,
             ref : Refs \cup {NoRef}]
Idle == [at |-> "idle"]

SettlerGoes(s, at, ref) == settler' = [settler EXCEPT ![s].at = at, ![s].ref = ref]
SettlerEnds(s) == settler' = [settler EXCEPT ![s] = Idle]

PurchaseInit ==
    /\ order = [o \in Orders |-> [st |-> "none", ref |-> NoRef]]
    /\ page = [o \in Orders |-> "none"]
    /\ credits = [o \in Orders |-> {}]
    /\ settler = [s \in Settlers |-> Idle]
    /\ crashes = 0

\* createPackagePurchaseOrder, createDriverTopupOrder: the row first, then the form.
CreateOrder(o) ==
    /\ order[o].st = "none"
    /\ order' = [order EXCEPT ![o].st = "pending"]
    /\ page' = [page EXCEPT ![o] = "open"]
    /\ UNCHANGED <<credits, settler, crashes>>

\* The driver pays on PayU's page, or fails to.
DriverPays(o) ==
    /\ page[o] = "open"
    /\ \E st \in {"captured", "failed"} : page' = [page EXCEPT ![o] = st]
    /\ UNCHANGED <<order, credits, settler, crashes>>

\* settlePayuTxn up to PayU's answer: the order is resolved whatever its status, and the
\* capture confirmed.  Any other answer changes nothing.
Settle(s, o) ==
    /\ settler[s] = Idle
    /\ page[o] = "captured"
    /\ \E ref \in Refs :
        settler' = [settler EXCEPT ![s] =
            [at |-> IF o \in Packages THEN "claim" ELSE "topup", order |-> o,
             ref |-> IF o \in Packages THEN ref ELSE "txnid"]]
    /\ UNCHANGED <<order, page, credits, crashes>>

\* A callback (return redirect, webhook) or the app's confirmation.
Callback(s, o) == Settle(s, o)

\* Mutant: an order nobody has paid yet is failed.
SweepOrFail(s, o) ==
    /\ order[o].st = "pending"
    /\ \/ Settle(s, o)
       \/ /\ page[o] = "open"
          /\ order' = [order EXCEPT ![o].st = "failed"]
          /\ UNCHANGED <<page, credits, settler, crashes>>

\* reconcilePendingPayuPurchases: pending orders only (of the last three days).
SweepOrder(s, o) == order[o].st = "pending" /\ Settle(s, o)

\* markPurchaseCompletedPayu: pending -> completed, with the payment's id.
ClaimPurchase(s) ==
    /\ settler[s].at = "claim"
    /\ LET o == settler[s].order
       IN  IF order[o].st = "pending"
           THEN /\ order' = [order EXCEPT ![o] = [st |-> "completed", ref |-> settler[s].ref]]
                /\ SettlerGoes(s, "credit", settler[s].ref)
           ELSE SettlerGoes(s, "replay", settler[s].ref) /\ UNCHANGED order
    /\ UNCHANGED <<page, credits, crashes>>

\* Mutant: under the reference of this answer.
ReplayAsAnswered(s) ==
    /\ settler[s].at = "replay"
    /\ SettlerGoes(s, "credit", settler[s].ref)
    /\ UNCHANGED <<order, page, credits, crashes>>

\* The claim was won before: credit again, under the reference that claim stored.
ReplayPurchase(s) ==
    /\ settler[s].at = "replay"
    /\ SettlerGoes(s, "credit", order[settler[s].order].ref)
    /\ UNCHANGED <<order, page, credits, crashes>>

\* creditPackageBalance: once per reference, under the wallet's row lock.
CreditPackage(s) ==
    /\ settler[s].at = "credit"
    /\ credits' = [credits EXCEPT ![settler[s].order] = @ \cup {settler[s].ref}]
    /\ SettlerEnds(s)
    /\ UNCHANGED <<order, page, crashes>>

\* topUpDriverWallet: once per reference, under the wallet's row lock.
TopUp(s) ==
    /\ settler[s].at = "topup"
    /\ credits' = [credits EXCEPT ![settler[s].order] = @ \cup {settler[s].ref}]
    /\ SettlerGoes(s, "stamp", NoRef)
    /\ UNCHANGED <<order, page, crashes>>

\* The completed flag, which only keeps the sweep away.
StampTopup(s) ==
    /\ settler[s].at = "stamp"
    /\ order' = [order EXCEPT ![settler[s].order].st = "completed"]
    /\ SettlerEnds(s)
    /\ UNCHANGED <<page, credits, crashes>>

SettlerStep(s) ==
    ClaimPurchase(s) \/ ReplayPurchase(s) \/ CreditPackage(s) \/ TopUp(s) \/ StampTopup(s)

\* A settler dies, or a statement of it throws.
SettlerDies(s) ==
    /\ settler[s] # Idle
    /\ crashes < MaxCrashes
    /\ crashes' = crashes + 1
    /\ SettlerEnds(s)
    /\ UNCHANGED <<order, page, credits>>

PurchaseNext ==
    \/ \E o \in Orders : CreateOrder(o) \/ DriverPays(o)
    \/ \E s \in Settlers, o \in Orders : Callback(s, o) \/ SweepOrder(s, o)
    \/ \E s \in Settlers : SettlerStep(s) \/ SettlerDies(s)

PurchaseSafety == PurchaseInit /\ [][PurchaseNext]_purchaseVars

-----------------------------------------------------------------------------
(* Properties. *)

PurchaseTypeOK ==
    /\ order \in [Orders -> OrderRow]
    /\ page \in [Orders -> {"none", "open", "captured", "failed"}]
    /\ credits \in [Orders -> SUBSET Refs]
    /\ settler \in [Settlers -> Settling \cup {Idle}]
    /\ crashes \in Nat

\* A purchase is credited at most once, and only when PayU captured its money: whatever
\* callbacks and sweeps race, and whatever PayU called the payment in each answer.
PurchaseCreditedOnce ==
    \A o \in Orders :
        /\ Cardinality(credits[o]) <= 1
        /\ credits[o] # {} => page[o] = "captured"

\* What was paid for and not yet credited is still found by the sweep, or a settler is about
\* to credit it: callbacks may all be lost.  Only a settler that died between the claim of a
\* package and its credit leaves a purchase to another callback.
PaidPurchaseIsFound ==
    \A o \in Orders : page[o] = "captured" /\ credits[o] = {} =>
        \/ order[o].st = "pending"
        \/ \E s \in Settlers : settler[s].at = "credit" /\ settler[s].order = o
        \/ o \in Packages /\ crashes > 0
=============================================================================
