----------------------------- MODULE RideMoney -----------------------------
(***************************************************************************)
(* What a ride costs and who has paid for it: the rows of Postgres that    *)
(* the offers, the settlement and the payments of src/api/src share, the   *)
(* transactions at the PayU gateway, and the requests and jobs between two *)
(* of their statements.  OfferRedemptions and RidePayments model the code  *)
(* that changes them, MoneySystem puts the two together.                   *)
(* Everything here concerns one offer; the rides are those it applies to.  *)
(* Of a ride's life (module RideSystem) only what the money sees is kept.  *)
(***************************************************************************)
EXTENDS Totals

CONSTANTS
    Rides,          \* the rides that may be booked
    Users,          \* the riders
    UserOf,         \* the rider of each ride
    NoRide,         \* a gateway transaction nobody has minted yet
    Mixes,          \* bound: what the rides may be paid with, together
    Estimate,       \* fare_snapshots.total_estimated
    EarlyFare,      \* the fare of a trip its driver ends early
    Percent,        \* the offer's benefit, percent_off
    Budget,         \* offers.budget_total at first
    Budgets,        \* the values an admin may give it
    GlobalLimit,    \* offers.global_limit
    PerUserLimit,   \* offer_versions.per_user_limit
    MaxTxns,        \* bound: gateway transactions minted
    Driven,         \* bound: the rides that start (others are booked and closed beside them)
    MaxTasks,       \* bound: requests and jobs at work at once
    MaxRetries,     \* bound: payment retries of riders
    MaxFailures     \* bound: processes that die, calls that throw

Channel == {"none", "cash", "online", "wallet"}
Txns == 1..MaxTxns
NoTxn == 0

ASSUME UserOfTyped == UserOf \in [Rides -> Users]
ASSUME NoRideIsNoRide == NoRide \notin Rides
ASSUME DrivenAreRides == Driven \subseteq Rides
ASSUME MixesTyped == Mixes \subseteq [Rides -> Channel]
ASSUME FaresAreNat == Estimate \in Nat /\ EarlyFare \in Nat /\ Percent \in Nat
ASSUME BudgetsAreNat == Budgets \subseteq Nat /\ Budget \in Budgets
ASSUME LimitsAreNat == GlobalLimit \in Nat /\ PerUserLimit \in Nat
ASSUME MoneyBoundsAreNat ==
    /\ MaxTxns \in Nat
    /\ MaxTasks \in Nat /\ MaxRetries \in Nat /\ MaxFailures \in Nat

VARIABLES
    ride,       \* rides.status
    channel,    \* rides.payment_channel; "none" for a ride this behaviour does not book
    final,      \* fare_snapshots.total_final, 0 while it is NULL
    discount,   \* fare_snapshots.discount_amount
    offer,      \* the offers row: status, budget_total, budget_spent, redemption_count
    usage,      \* offer_user_usage.count of each rider
    redemption, \* offer_redemptions.status of each ride, "none" without a row
    held,       \* offer_redemptions.discount_amount
    payment,    \* the payments row of each ride
    settled,    \* how often commission, earning and cashback were booked for a ride
    collected,  \* the rides with rides.cash_collected_at
    balance,    \* user_wallets.balance
    debited,    \* what user_wallet_ledger says was debited for each ride (ride_debit)
    txn,        \* the gateway's transactions
    answered,   \* the captured transactions whose notification was answered with 200
    flagged,    \* the captured transactions left for a manual refund
    tasks,      \* requests and jobs between two of their statements
    listed,     \* rides the stale-reservation sweep has listed and not yet released
    retries,    \* payment retries so far
    failures,   \* processes that died so far
    cut         \* releases that the death of their process cut short

tripVars == <<ride, channel, final>>
offerVars == <<offer, usage, redemption, held>>
payVars == <<payment, settled, collected>>
walletVars == <<balance, debited>>
gatewayVars == <<txn, answered, flagged>>
countVars == <<retries, failures, cut>>
moneyVars == <<tripVars, discount, offerVars, payVars, walletVars, gatewayVars,
               tasks, listed, countVars>>

-----------------------------------------------------------------------------
(* Values. *)

\* "waiting" stands for scheduled, requested, accepted and driver_arrived, "underway" for
\* in_progress and returning.
RideStatus == {"unbooked", "waiting", "underway", "no_drivers", "cancelled", "completed"}
OfferState == {"active", "paused", "ended"}
RedemptionStatus == {"none", "reserved", "consumed", "released"}
HoldsBudget == {"reserved", "consumed"}

\* A payments row: its status, amount, discount_amount and gateway_txn_id, what settled it,
\* and the transaction that did (gateway_payment_id).
Payers == {"nobody", "cash", "wallet", "payu"}
PaymentRow == [st : {"none", "pending", "completed", "failed"}, amount : Nat, off : Nat,
               txn : Txns \cup {NoTxn}, payer : Payers, by : Txns \cup {NoTxn}]
NoPayment == [st |-> "none", amount |-> 0, off |-> 0, txn |-> NoTxn, payer |-> "nobody", by |-> NoTxn]

GatewayRow == [st : {"none", "open", "captured", "failed"}, ride : Rides \cup {NoRide}, amount : Nat]

\* A request or job: what it is, the statement it is about to run, its ride, the
\* amount and the transaction it carries from its earlier statements.
Ops == {"end", "early", "stranded", "release", "cash", "retry", "payu", "poll"}
Steps == {"fare", "derive", "shrink", "apply", "close", "quote", "record", "order", "debit",
          "confirm", "undo", "budget", "usage", "gross", "claim", "reset", "flag", "reopen",
          "judge", "fail"}
Task == [op : Ops, at : Steps, ride : Rides, n : Nat, txn : Txns \cup {NoTxn}]
NewTask(op, at, r) == [op |-> op, at |-> at, ride |-> r, n |-> 0, txn |-> NoTxn]

-----------------------------------------------------------------------------
(* Helpers. *)

Less(a, b) == IF a > b THEN a - b ELSE 0        \* GREATEST(a - b, 0)
Least(a, b) == IF a < b THEN a ELSE b

\* COALESCE(total_final, total_estimated).
Fare(r) == IF final[r] = 0 THEN Estimate ELSE final[r]

\* computeBenefit: the discount on a fare; extras above the estimate earn none.
DiscountOn(fare) == (Least(fare, Estimate) * Percent) \div 100

\* payableOf and its SQL twin ocar_payable.
Payable(fare, off) == Less(fare, off)

\* Mutant: not capped by what the redemption holds.
RederivedUncapped(r) == IF redemption[r] \in HoldsBudget THEN DiscountOn(Fare(r)) ELSE discount[r]

\* What finaliseDiscount would make of a ride's discount now: never more than the
\* redemption holds, and nothing is touched without a live redemption.
Rederived(r) == IF redemption[r] \in HoldsBudget
                THEN Least(DiscountOn(Fare(r)), held[r])
                ELSE discount[r]

TaskFree == Cardinality(tasks) < MaxTasks
Start(t) == TaskFree /\ tasks' = tasks \cup {t}
Goes(t, at) == tasks' = (tasks \ {t}) \cup {[t EXCEPT !.at = at]}
Carries(t, at, n, x) == tasks' = (tasks \ {t}) \cup {[t EXCEPT !.at = at, !.n = n, !.txn = x]}
Ends(t) == tasks' = tasks \ {t}
=============================================================================
