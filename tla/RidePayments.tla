---------------------------- MODULE RidePayments ----------------------------
(***************************************************************************)
(* From the end of a ride to its settled payment: the final fare and       *)
(* settleRideCompletionPayment, collectCash and the stranded sweep of      *)
(* modules/rides, and the payments row, wallet debit, rider's retry, PayU  *)
(* callback and reconcile job of modules/payments.                         *)
(* A transaction is one step, and so is a statement outside of one.  A     *)
(* callback of PayU is delivered any number of times and at any moment     *)
(* until it is answered with 200, as a return redirect and a webhook.      *)
(***************************************************************************)
EXTENDS OfferRedemptions

unchangedByPaying == <<usage, cut, retries, failures, listed>>

\* The trip starts (verifyStartOTP).  A driver had to accept, drive and arrive before: the
\* jobs that were giving the ride's reservation back when it was reopened are done by now.
StartTrip(r) ==
    /\ ride[r] = "waiting"
    /\ r \in Driven
    /\ r \notin listed
    /\ \A t \in tasks : ~(t.op = "release" /\ t.ride = r)
    /\ ride' = [ride EXCEPT ![r] = "underway"]
    /\ UNCHANGED <<channel, final, discount, offerVars, payVars, walletVars, gatewayVars,
                   tasks, listed, countVars>>

-----------------------------------------------------------------------------
(* The end of a ride and its final fare. *)

\* verifyEndOTP's compare-and-swap (and forceResolveRide's); the fare comes after it.
EndTrip(r) ==
    /\ ride[r] = "underway"
    /\ ride' = [ride EXCEPT ![r] = "completed"]
    /\ Start(NewTask("end", "fare", r))
    /\ UNCHANGED <<channel, final, discount, offerVars, payVars, walletVars, gatewayVars,
                   listed, countVars>>

\* endRideEarlyAsDriver up to its read: here the fare comes before the compare-and-swap.
\* (No new one once an early end has written its fare: a bound.)
BeginEarlyEnd(r) ==
    /\ ride[r] = "underway"
    /\ final[r] = 0
    /\ Start(NewTask("early", "fare", r))
    /\ UNCHANGED <<tripVars, discount, offerVars, payVars, walletVars, gatewayVars,
                   listed, countVars>>

\* total_final.  A trip whose driver's app reports nothing keeps whatever stands there.
WriteFare(t) ==
    /\ t.at = "fare"
    /\ \/ /\ final' = [final EXCEPT ![t.ride] = IF t.op = "early" THEN EarlyFare ELSE Estimate]
          /\ Goes(t, "derive")
       \/ t.op = "end" /\ Goes(t, "quote") /\ UNCHANGED final
    /\ UNCHANGED <<ride, channel, discount, offerVars, payVars, walletVars, gatewayVars,
                   listed, countVars>>

\* The early end's compare-and-swap; a loser answers 409 and leaves its fare behind.
CloseEarly(t) ==
    /\ t.at = "close"
    /\ IF ride[t.ride] = "underway"
       THEN ride' = [ride EXCEPT ![t.ride] = "completed"] /\ Goes(t, "quote")
       ELSE Ends(t) /\ UNCHANGED ride
    /\ UNCHANGED <<channel, final, discount, offerVars, payVars, walletVars, gatewayVars,
                   listed, countVars>>

-----------------------------------------------------------------------------
(* settleRideCompletionPayment and collectCash. *)

\* Mutant: wallet rides are forgotten.
PaidOnline == {"online"}

\* The channels whose rides the backend charges by itself.
PaidByUs == {"online", "wallet"}

\* settleStrandedRideCompletions: a completed online or wallet ride without a payments
\* row.  Its three minutes' wait is longer than a settlement under way.
StrandedSweep(r) ==
    /\ ride[r] = "completed"
    /\ channel[r] \in PaidByUs
    /\ payment[r].st = "none"
    /\ \A t \in tasks : t.ride # r
    /\ tasks' = tasks \cup {NewTask("stranded", "quote", r)}
    /\ UNCHANGED <<tripVars, discount, offerVars, payVars, walletVars, gatewayVars,
                   listed, countVars>>

\* collectCash up to its reads.
BeginCollect(r) ==
    /\ ride[r] = "completed"
    /\ channel[r] = "cash"
    /\ r \notin collected
    /\ Start(NewTask("cash", "quote", r))
    /\ UNCHANGED <<tripVars, discount, offerVars, payVars, walletVars, gatewayVars,
                   listed, countVars>>

\* payableForRide: what the rider pays.  A cash ride's settlement stops at telling the
\* driver's app.
Quote(t) ==
    /\ t.at = "quote"
    /\ Finalise(t.ride)
    /\ LET due == Payable(Fare(t.ride), discount'[t.ride])
       IN  IF channel[t.ride] # "cash" THEN Carries(t, "record", due, NoTxn)
           ELSE IF t.op = "cash" THEN Goes(t, "claim")
           ELSE Ends(t)
    /\ UNCHANGED <<tripVars, redemption, payVars, walletVars, gatewayVars, unchangedByPaying>>

\* createPaymentRecord's INSERT ... ON CONFLICT (ride_id) DO NOTHING, after a finaliseDiscount.
Recorded(r, st, payer) ==
    IF payment[r].st # "none" THEN payment
    ELSE [payment EXCEPT ![r] = [st |-> st, amount |-> Payable(Fare(r), discount'[r]),
                                 off |-> discount'[r], txn |-> NoTxn, payer |-> payer,
                                 by |-> NoTxn]]

Record(t) ==
    /\ t.at = "record"
    /\ Finalise(t.ride)
    /\ payment' = Recorded(t.ride, "pending", "nobody")
    /\ IF t.n = 0 THEN Ends(t)
       ELSE Goes(t, IF channel[t.ride] = "online" THEN "order" ELSE "debit")
    /\ UNCHANGED <<tripVars, redemption, settled, collected, walletVars, gatewayVars,
                   unchangedByPaying>>

\* createRidePaymentOrder: a new transaction overwrites the row's old one, whatever the
\* row's status is by now.
Order(t) ==
    /\ t.at = "order"
    /\ \E k \in Txns :
        /\ txn[k].st = "none"
        /\ \A j \in 1..(k - 1) : txn[j].st # "none"
        /\ txn' = [txn EXCEPT ![k] = [st |-> "open", ride |-> t.ride, amount |-> t.n]]
        /\ payment' = [payment EXCEPT ![t.ride].txn = k]
    /\ Ends(t)
    /\ UNCHANGED <<tripVars, discount, offerVars, settled, collected, walletVars, answered,
                   flagged, listed, countVars>>

\* Mutant: the debit is not followed by the confirmation.
DebitOnly(t) ==
    /\ t.at = "debit"
    /\ Ends(t)
    /\ LET u == UserOf[t.ride]
       IN  IF debited[t.ride] > 0 \/ balance[u] < t.n THEN UNCHANGED walletVars
           ELSE /\ balance' = [balance EXCEPT ![u] = @ - t.n]
                /\ debited' = [debited EXCEPT ![t.ride] = t.n]
    /\ UNCHANGED <<tripVars, discount, offerVars, payVars, gatewayVars, listed, countVars>>

\* payFromUserWallet: debits once per ride; without the balance the rider is told and the
\* row stays pending.
Debit(t) ==
    /\ t.at = "debit"
    /\ LET u == UserOf[t.ride]
       IN  IF debited[t.ride] > 0 THEN Goes(t, "confirm") /\ UNCHANGED walletVars
           ELSE IF balance[u] < t.n THEN Ends(t) /\ UNCHANGED walletVars
           ELSE /\ balance' = [balance EXCEPT ![u] = @ - t.n]
                /\ debited' = [debited EXCEPT ![t.ride] = t.n]
                /\ Goes(t, "confirm")
    /\ UNCHANGED <<tripVars, discount, offerVars, payVars, gatewayVars, listed, countVars>>

\* Money reaches the rider's wallet from elsewhere (an admin's credit, a cashback).
FundWallet(u) ==
    /\ balance[u] < Estimate
    /\ \E r \in Rides : UserOf[r] = u /\ channel[r] = "wallet"
    /\ balance' = [balance EXCEPT ![u] = Estimate]
    /\ UNCHANGED <<tripVars, discount, offerVars, payVars, debited, gatewayVars, tasks, listed,
                   countVars>>

\* Mutant: a completed row is completed again.
Unsettled(r) == payment[r].st \in {"pending", "completed"}

\* WHERE status = 'pending'.
Confirmable(r) == payment[r].st = "pending"

\* confirmRidePayment: pending -> completed with the commission, the driver's earning, the
\* cashback and the offer, in one transaction; FALSE (unchanged) when it is not pending.
Confirm(t) ==
    /\ t.at = "confirm"
    /\ IF Confirmable(t.ride)
       THEN /\ payment' = [payment EXCEPT ![t.ride] =
                    [@ EXCEPT !.st = "completed", !.by = t.txn,
                              !.payer = IF t.txn = NoTxn THEN "wallet" ELSE "payu"]]
            /\ settled' = [settled EXCEPT ![t.ride] = @ + 1]
            /\ redemption' = Consumed(t.ride)
            /\ answered' = IF t.op = "payu" THEN answered \cup {t.txn} ELSE answered
            /\ Ends(t)
       ELSE /\ IF t.op = "payu" THEN Goes(t, "judge") ELSE Ends(t)
            /\ UNCHANGED <<payment, settled, redemption, answered>>
    /\ UNCHANGED <<tripVars, discount, offer, held, collected, walletVars, txn, flagged,
                   unchangedByPaying>>

\* collectCash's transaction: the claim on cash_collected_at, the completed payments row
\* and the same effects.
Claim(t) ==
    /\ t.at = "claim"
    /\ Ends(t)
    /\ IF t.ride \in collected
       THEN UNCHANGED <<discount, offer, redemption, held, payment, settled, collected>>
       ELSE /\ collected' = collected \cup {t.ride}
            /\ Finalise(t.ride)
            /\ payment' = Recorded(t.ride, "completed", "cash")
            /\ settled' = [settled EXCEPT ![t.ride] = @ + 1]
            /\ redemption' = Consumed(t.ride)
    /\ UNCHANGED <<tripVars, walletVars, gatewayVars, unchangedByPaying>>

-----------------------------------------------------------------------------
(* The gateway, and what the backend does about it. *)

\* The rider pays on the hosted page (of any transaction he was shown), or fails to.
RiderPays(k) ==
    /\ txn[k].st = "open"
    /\ \E st \in {"captured", "failed"} : txn' = [txn EXCEPT ![k].st = st]
    /\ UNCHANGED <<tripVars, discount, offerVars, payVars, walletVars, answered, flagged, tasks,
                   listed, countVars>>

\* settlePayuTxn up to fetchPayuStatus: the row this transaction pays for is resolved, then
\* PayU confirms the capture; what follows depends on what the row was when it was read.
\* (Two deliveries at the same statement are one here; the sweep's Poll is the second.)
Notify(k) ==
    /\ txn[k].st = "captured"
    /\ k \notin answered
    /\ \/ \A t \in tasks : ~(t.op = "payu" /\ t.txn = k)
       \/ TaskFree
    /\ LET rows == {r \in Rides : payment[r].txn = k}
           r == txn[k].ride
           at == IF rows = {} \/ payment[r].amount # txn[k].amount THEN "flag"
                 ELSE IF payment[r].st = "failed" THEN "reopen"
                 ELSE "confirm"
       IN  tasks' = tasks \cup {[op |-> "payu", at |-> at, ride |-> r, n |-> 0, txn |-> k]}
    /\ UNCHANGED <<tripVars, discount, offerVars, payVars, walletVars, gatewayVars, listed,
                   countVars>>

\* Unknown transaction or another amount: never guessed, left for a manual refund.
Flag(t) ==
    /\ t.at = "flag"
    /\ flagged' = flagged \cup {t.txn}
    /\ answered' = answered \cup {t.txn}
    /\ Ends(t)
    /\ UNCHANGED <<tripVars, discount, offerVars, payVars, walletVars, txn, listed, countVars>>

\* The row was failed while the rider was still paying: reopen it for the confirm.
ReopenPayment(t) ==
    /\ t.at = "reopen"
    /\ payment' = [payment EXCEPT ![t.ride].st = IF @ = "failed" THEN "pending" ELSE @]
    /\ Goes(t, "confirm")
    /\ UNCHANGED <<tripVars, discount, offerVars, settled, collected, walletVars, gatewayVars,
                   listed, countVars>>

\* Mutant: any completed row is taken for a replay.
IsReplayAnyhow(k, r) == payment[r].st = "completed"

\* The row was settled by this very capture.
IsReplay(k, r) == payment[r].st = "completed" /\ payment[r].by = k

\* The confirm matched nothing: a replay of the capture that settled the row, or captured
\* money that settled nothing.
Judge(t) ==
    /\ t.at = "judge"
    /\ answered' = answered \cup {t.txn}
    /\ flagged' = IF IsReplay(t.txn, t.ride) THEN flagged ELSE flagged \cup {t.txn}
    /\ Ends(t)
    /\ UNCHANGED <<tripVars, discount, offerVars, payVars, walletVars, txn, listed, countVars>>

\* reconcilePendingRidePayments up to PayU's answer for a pending row: captured for the
\* right amount, failed, or unknown for an hour (the rider never paid, or not yet).
Poll(r) ==
    /\ payment[r].st = "pending"
    /\ payment[r].txn # NoTxn
    /\ \A t \in tasks : ~(t.op = "poll" /\ t.ride = r)
    /\ LET k == payment[r].txn
           Goto(at) == tasks' = tasks \cup {[op |-> "poll", at |-> at, ride |-> r, n |-> 0, txn |-> k]}
       IN  \/ txn[k].st = "captured" /\ txn[k].amount = payment[r].amount /\ Goto("confirm")
           \/ txn[k].st \in {"open", "failed"} /\ Goto("fail")
    /\ UNCHANGED <<tripVars, discount, offerVars, payVars, walletVars, gatewayVars, listed,
                   countVars>>

\* The sweep fails the ride's row, if it is still pending: whichever transaction it has now.
FailPayment(t) ==
    /\ t.at = "fail"
    /\ payment' = [payment EXCEPT ![t.ride].st = IF @ = "pending" THEN "failed" ELSE @]
    /\ Ends(t)
    /\ UNCHANGED <<tripVars, discount, offerVars, settled, collected, walletVars, gatewayVars,
                   listed, countVars>>

\* retryRidePayment up to PayU's answer about the old transaction: refused while that is
\* captured or pending; an untouched one may be "unknown" to PayU, and the retry goes on.
\* (A transaction is left for whoever may mint one: a bound.)
BeginRetry(r) ==
    /\ retries < MaxRetries
    /\ payment[r].st \in {"pending", "failed"}
    /\ payment[r].txn # NoTxn => txn[payment[r].txn].st # "captured"
    /\ Cardinality({k \in Txns : txn[k].st = "none"}) > Cardinality({t \in tasks : t.op # "payu"})
    /\ Start([NewTask("retry", "reset", r) EXCEPT !.n = payment[r].amount])
    /\ retries' = retries + 1
    /\ UNCHANGED <<tripVars, discount, offerVars, payVars, walletVars, gatewayVars, listed,
                   failures, cut>>

\* The guarded reset: a row completed since is left alone, and nothing more is done.
Reset(t) ==
    /\ t.at = "reset"
    /\ IF payment[t.ride].st \in {"pending", "failed"}
       THEN /\ payment' = [payment EXCEPT ![t.ride].st = "pending"]
            /\ Goes(t, IF channel[t.ride] = "online" THEN "order" ELSE "debit")
       ELSE Ends(t) /\ UNCHANGED payment
    /\ UNCHANGED <<tripVars, discount, offerVars, settled, collected, walletVars, gatewayVars,
                   listed, countVars>>

\* A process dies, or a call throws, between two statements: the rest is not done.
Die(t) ==
    /\ failures < MaxFailures
    /\ failures' = failures + 1
    /\ Ends(t)
    /\ cut' = IF t.at \in {"budget", "usage", "gross"} THEN cut \cup {t} ELSE cut
    /\ UNCHANGED <<tripVars, discount, offerVars, payVars, walletVars, gatewayVars, listed, retries>>

TaskStep(t) ==
    \/ WriteFare(t) \/ CloseEarly(t)
    \/ Quote(t) \/ Record(t) \/ Order(t) \/ Debit(t) \/ Confirm(t) \/ Claim(t)
    \/ Flag(t) \/ ReopenPayment(t) \/ Judge(t) \/ FailPayment(t) \/ Reset(t)

PaymentNext ==
    \/ \E r \in Rides :
        \/ StartTrip(r) \/ EndTrip(r) \/ BeginEarlyEnd(r)
        \/ StrandedSweep(r) \/ BeginCollect(r) \/ Poll(r) \/ BeginRetry(r)
    \/ \E u \in Users : FundWallet(u)
    \/ \E k \in Txns : RiderPays(k) \/ Notify(k)
    \/ \E t \in tasks : TaskStep(t) \/ Die(t)
=============================================================================
