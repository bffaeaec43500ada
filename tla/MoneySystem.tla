---------------------------- MODULE MoneySystem ----------------------------
(***************************************************************************)
(* The offer's books and the rides' payments together, and what holds of   *)
(* them.                                                                   *)
(***************************************************************************)
EXTENDS RidePayments

MoneyInit ==
    /\ ride = [r \in Rides |-> "unbooked"]
    /\ channel \in Mixes
    /\ final = [r \in Rides |-> 0]
    /\ discount = [r \in Rides |-> 0]
    /\ offer = [st |-> "active", budget |-> Budget, spent |-> 0, count |-> 0]
    /\ usage = [u \in Users |-> 0]
    /\ redemption = [r \in Rides |-> "none"]
    /\ held = [r \in Rides |-> 0]
    /\ payment = [r \in Rides |-> NoPayment]
    /\ settled = [r \in Rides |-> 0]
    /\ collected = {}
    /\ balance = [u \in Users |-> 0]
    /\ debited = [r \in Rides |-> 0]
    /\ txn = [k \in Txns |-> [st |-> "none", ride |-> NoRide, amount |-> 0]]
    /\ answered = {} /\ flagged = {} /\ tasks = {} /\ listed = {} /\ cut = {}
    /\ retries = 0 /\ failures = 0

MoneyNext == OfferNext \/ PaymentNext

\* The next statement of a request or job.
RunTask(t) ==
    \/ TaskStep(t)
    \/ UndoRedemption(t) \/ ReturnBudget(t) \/ ReturnUsage(t) \/ ZeroDiscount(t)
    \/ Derive(t) \/ Shrink(t) \/ Apply(t)

\* A statement that a request is about to run is run; the sweeps run again and again
\* (payment-reconcile and the offers worker are repeating jobs); PayU delivers the
\* notification of a capture until it is answered.  Riders, drivers and admins owe nothing.
MoneyFairness ==
    /\ WF_moneyVars(\E t \in tasks : t.op # "payu" /\ RunTask(t))
    /\ \A at \in {"reopen", "confirm", "judge", "flag"} :
            WF_moneyVars(\E t \in tasks : t.op = "payu" /\ t.at = at /\ RunTask(t))
    /\ \A r \in Rides : WF_moneyVars(ListStale(r)) /\ WF_moneyVars(ReleaseStale(r))
    /\ \A r \in Rides : WF_moneyVars(StrandedSweep(r))
    /\ \A k \in Txns : WF_moneyVars(Notify(k))

MoneySafety == MoneyInit /\ [][MoneyNext]_moneyVars
MoneySpec == MoneySafety /\ MoneyFairness

-----------------------------------------------------------------------------
(* Properties. *)

\* The types of the variables.
MoneyTypeOK ==
    /\ ride \in [Rides -> RideStatus]
    /\ channel \in [Rides -> Channel]
    /\ final \in [Rides -> Nat]
    /\ discount \in [Rides -> Nat]
    /\ offer \in [st : OfferState, budget : Nat, spent : Nat, count : Nat]
    /\ usage \in [Users -> Nat]
    /\ redemption \in [Rides -> RedemptionStatus]
    /\ held \in [Rides -> Nat]
    /\ payment \in [Rides -> PaymentRow]
    /\ settled \in [Rides -> Nat]
    /\ collected \subseteq Rides
    /\ balance \in [Users -> Nat]
    /\ debited \in [Rides -> Nat]
    /\ txn \in [Txns -> GatewayRow]
    /\ answered \subseteq Txns
    /\ flagged \subseteq Txns
    /\ tasks \subseteq Task
    /\ listed \subseteq Rides
    /\ retries \in Nat /\ failures \in Nat
    /\ cut \subseteq Task

Live == {r \in Rides : redemption[r] \in HoldsBudget}
Unreturned(at) == {t \in tasks \cup cut : t.at \in at}
AmountsOf(ts) == [t \in ts |-> t.n]

\* The books of the offer agree with its redemptions: budget_spent, redemption_count and
\* the riders' uses are those of the reserved and consumed ones, plus what a release under
\* way (or one that a death cut short) has not given back yet.
BooksBalance ==
    /\ offer.spent = Total(held, Live) + Total(AmountsOf(Unreturned({"budget"})), Unreturned({"budget"}))
    /\ offer.count = Cardinality(Live) + Cardinality(Unreturned({"budget"}))
    /\ \A u \in Users : usage[u] = Cardinality({r \in Live : UserOf[r] = u})
                          + Cardinality({t \in Unreturned({"budget", "usage"}) : UserOf[t.ride] = u})

\* The discount a ride was granted, as module OfferBudget sees it.
Grants == [r \in Rides |->
    CASE redemption[r] = "none" -> [st |-> "none", n |-> 0]
      [] redemption[r] = "reserved" -> [st |-> "promised", n |-> held[r]]
      [] redemption[r] = "consumed" -> [st |-> "given", n |-> held[r]]
      [] redemption[r] = "released" -> [st |-> "withdrawn", n |-> 0]]

\* The offer's promise (module OfferBudget): grants within the budget, made once, never
\* grown, never taken back once given.
BudgetOfOffer == INSTANCE OfferBudget WITH grant <- Grants, total <- offer.budget
OfferBudgetSpec == BudgetOfOffer!Spec

\* The discount on a bill is one the ride's redemption holds when the bill is written
\* (createPaymentRecord's amount less discount_amount), unless a death cut its release short.
BilledDiscountIsBacked ==
    [][\A r \in Rides : payment[r].st = "none" /\ payment'[r].st # "none"
                         /\ (\A t \in cut : t.ride # r)
            => payment'[r].off <= (IF redemption'[r] \in HoldsBudget THEN held'[r] ELSE 0)]_moneyVars

\* A ride's bill as module RideCharge sees it, and who may pay it: cash, the wallet, or a
\* transaction of the gateway.
BillOf(row, bookings) ==
    [st |-> CASE row.st = "none" -> "none"
              [] row.st \in {"pending", "failed"} -> "due"
              [] row.st = "completed" -> "settled",
     amount |-> row.amount, payer |-> <<row.payer, row.by>>, booked |-> bookings]
Charges == [r \in Rides |-> BillOf(payment[r], settled[r])]
ChargePayers == Payers \X (Txns \cup {NoTxn})

\* Payments keep RideCharge's promise: one amount, one payer, commission and earning once.
ChargeOfRide == INSTANCE RideCharge WITH charge <- Charges, Payers <- ChargePayers
RideChargeSpec == ChargeOfRide!Spec

\* A settled bill has used its offer up: no sweep can give the reservation back.
PaidOfferIsUsed == \A r \in Rides : payment[r].st = "completed" => redemption[r] # "reserved"

\* A ride closed without service gives its reservation back, whatever process died, unless
\* an admin reopens it first.
ReservationReturns ==
    \A r \in Rides :
        redemption[r] = "reserved" /\ ride[r] \in {"cancelled", "no_drivers"}
            ~> redemption[r] # "reserved" \/ ride[r] \notin {"cancelled", "no_drivers"}

\* Captured money settles its ride or is left for a manual refund.
CaptureIsAccounted ==
    \A k \in Txns : txn[k].st = "captured"
        ~> k \in flagged \/ (txn[k].ride \in Rides /\ payment[txn[k].ride].by = k)

\* A debit of the rider's wallet has settled the ride, or the request that made it is about
\* to, unless a process died: the balance is not taken for nothing.
DebitSettles ==
    \A r \in Rides : debited[r] > 0 =>
        \/ payment[r].st = "completed" /\ payment[r].payer = "wallet"
        \/ payment[r].st = "pending" /\ \E t \in tasks : t.at = "confirm" /\ t.ride = r
        \/ failures > 0

\* A completed online or wallet ride is billed, whatever process died.
StrandedRideIsBilled ==
    \A r \in Rides : ride[r] = "completed" /\ channel[r] \in {"online", "wallet"}
        ~> payment[r].st # "none"
=============================================================================
