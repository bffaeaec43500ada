------------------------- MODULE MoneySystem_proofs -------------------------
(***************************************************************************)
(* Offers and payments, for any number of rides, riders, transactions and  *)
(* requests at work: the types, that a paid ride's offer is used up, that  *)
(* payments keep the promise of module RideCharge, and that a gateway's    *)
(* capture settles the ride it was made for or is left for a refund.       *)
(***************************************************************************)
EXTENDS MoneySystem, TLAPS

\* A ride of a chosen channel is booked before anything is billed, minted or at work for it.
BookedFirst ==
    /\ \A r \in Rides : ride[r] # "unbooked" => channel[r] # "none"
    /\ \A r \in Rides : payment[r].st # "none" => ride[r] # "unbooked"

\* A transaction of the gateway is of a ride paid online, and so is one a payments row names.
MintedOnline ==
    /\ \A k \in Txns : txn[k].st # "none" =>
        txn[k].ride \in Rides /\ ride[txn[k].ride] # "unbooked" /\ channel[txn[k].ride] = "online"
    /\ \A r \in Rides : payment[r].txn # NoTxn => channel[r] = "online"

\* What a request or job may be at, by what it is and how its ride is paid.
TaskIsSound(t) ==
    /\ ride[t.ride] # "unbooked"
    /\ t.op = "payu" => t.at \in {"flag", "reopen", "confirm", "judge"} /\ t.txn \in Txns
    /\ t.op = "poll" => t.at \in {"confirm", "fail"}
    /\ t.op \in {"payu", "poll"} => channel[t.ride] = "online"
    /\ t.op \notin {"payu", "poll"} => t.txn = NoTxn
    /\ t.at \in {"flag", "reopen", "judge"} => t.op = "payu"
    /\ t.at = "fail" => t.op = "poll"
    /\ t.at = "claim" => channel[t.ride] = "cash"
    /\ t.at = "record" => channel[t.ride] # "cash"
    /\ t.at = "order" => channel[t.ride] = "online"
    /\ t.at = "debit" => channel[t.ride] = "wallet"
    /\ t.at \in {"debit", "confirm"} /\ channel[t.ride] = "wallet"
        => payment[t.ride].st \in {"pending", "completed"}
TasksAreSound == \A t \in tasks : TaskIsSound(t)

\* Cash is billed when it is collected, and then settled.
CashIsCollected == \A r \in Rides : channel[r] = "cash" =>
    /\ payment[r].st \in {"none", "completed"}
    /\ payment[r].st = "completed" <=> r \in collected

\* Nobody has paid what is not billed.
UnbilledIsUnpaid == \A r \in Rides :
    payment[r].st = "none" => payment[r].payer = "nobody" /\ payment[r].by = NoTxn

\* A wallet pays for a ride that names it, and nobody else does.
WalletPays == \A r \in Rides :
    /\ debited[r] > 0 => channel[r] = "wallet"
    /\ channel[r] = "wallet" => payment[r].st # "failed"
    /\ channel[r] = "wallet" /\ payment[r].st = "completed" => payment[r].payer = "wallet"

MoneyInv ==
    /\ BookedFirst /\ MintedOnline /\ TasksAreSound /\ CashIsCollected /\ UnbilledIsUnpaid
    /\ WalletPays /\ PaidOfferIsUsed /\ DebitSettles

-----------------------------------------------------------------------------
(* Helpers: amounts and tasks. *)

\* The code's clamps at zero and at an amount keep amounts natural.
LEMMA AmountsAreNat ==
    ASSUME NEW a \in Nat, NEW b \in Nat
    PROVE  Less(a, b) \in Nat /\ Least(a, b) \in Nat /\ Payable(a, b) \in Nat
  BY DEF Less, Least, Payable

\* The fare of a ride is an amount.
LEMMA FareIsNat == ASSUME MoneyTypeOK, NEW r \in Rides PROVE Fare(r) \in Nat
  BY FaresAreNat DEF MoneyTypeOK, Fare

\* A percentage of a fare, rounded down, is an amount.
LEMMA DiscountIsNat == ASSUME NEW fare \in Nat PROVE DiscountOn(fare) \in Nat
<1>1. Least(fare, Estimate) \in Nat /\ Percent \in Nat
  BY FaresAreNat DEF Least
<1>2. ASSUME NEW a \in Nat, NEW b \in Nat PROVE a * b \in Nat
  OBVIOUS
<1>3. Least(fare, Estimate) * Percent \in Nat
  BY <1>1, <1>2
<1>4. ASSUME NEW n \in Nat PROVE n \div 100 \in Nat
  OBVIOUS
<1>. QED  BY <1>3, <1>4 DEF DiscountOn

\* The discount derived anew from the final fare is an amount.
LEMMA RederivedIsNat == ASSUME MoneyTypeOK, NEW r \in Rides PROVE Rederived(r) \in Nat
<1>1. Least(DiscountOn(Fare(r)), held[r]) \in Nat
  BY FareIsNat, DiscountIsNat, AmountsAreNat DEF MoneyTypeOK
<1>. QED  BY <1>1 DEF Rederived, MoneyTypeOK

\* A request that begins is a Task.
LEMMA NewTaskTyped ==
    ASSUME NEW op \in Ops, NEW at \in Steps, NEW r \in Rides PROVE NewTask(op, at, r) \in Task
  BY DEF NewTask, Task

\* The fields of a Task.
LEMMA TaskTyped ==
    ASSUME NEW t \in Task
    PROVE  t.op \in Ops /\ t.at \in Steps /\ t.ride \in Rides /\ t.n \in Nat
           /\ t.txn \in Txns \cup {NoTxn}
  BY DEF Task

\* A Task at another statement is a Task with the same ride, amount and transaction.
LEMMA MovedTask ==
    ASSUME NEW t \in Task, NEW at \in Steps
    PROVE  /\ [t EXCEPT !.at = at] \in Task
           /\ [t EXCEPT !.at = at].at = at /\ [t EXCEPT !.at = at].ride = t.ride
           /\ [t EXCEPT !.at = at].op = t.op /\ [t EXCEPT !.at = at].txn = t.txn
           /\ [t EXCEPT !.at = at].n = t.n
  BY DEF Task

\* What a statement makes of the tasks: the one it ran goes on, or ends.
LEMMA TaskGoes ==
    ASSUME MoneyTypeOK, NEW t \in tasks, NEW at \in Steps, Goes(t, at)
    PROVE  /\ tasks' \subseteq Task /\ tasks \ {t} \subseteq tasks'
           /\ \A u \in tasks' : \/ u \in tasks \ {t}
                                \/ /\ u.at = at /\ u.ride = t.ride /\ u.op = t.op
                                   /\ u.txn = t.txn /\ u.n = t.n
           /\ \E u \in tasks' : u.at = at /\ u.ride = t.ride
<1>. DEFINE v == [t EXCEPT !.at = at]
<1>1. t \in Task
  BY DEF MoneyTypeOK
<1>2. v \in Task /\ v.at = at /\ v.ride = t.ride /\ v.op = t.op /\ v.txn = t.txn /\ v.n = t.n
  BY <1>1, MovedTask
<1>3. tasks' = (tasks \ {t}) \cup {v}
  BY DEF Goes
<1>. HIDE DEF v
<1>. QED  BY <1>2, <1>3 DEF MoneyTypeOK

\* A request that goes on with what it has read is still the only one of its kind that changed.
LEMMA TaskCarries ==
    ASSUME MoneyTypeOK, NEW t \in tasks, NEW at \in Steps, NEW n \in Nat,
           NEW x \in Txns \cup {NoTxn}, Carries(t, at, n, x)
    PROVE  /\ tasks' \subseteq Task /\ tasks \ {t} \subseteq tasks'
           /\ \A u \in tasks' : \/ u \in tasks \ {t}
                                \/ /\ u.at = at /\ u.ride = t.ride /\ u.op = t.op
                                   /\ u.txn = x /\ u.n = n
           /\ \E u \in tasks' : u.at = at /\ u.ride = t.ride
<1>. DEFINE v == [t EXCEPT !.at = at, !.n = n, !.txn = x]
<1>1. t \in Task
  BY DEF MoneyTypeOK
<1>2. v \in Task /\ v.at = at /\ v.ride = t.ride /\ v.op = t.op /\ v.txn = x /\ v.n = n
  BY <1>1 DEF Task
<1>3. tasks' = (tasks \ {t}) \cup {v}
  BY DEF Carries
<1>. HIDE DEF v
<1>. QED  BY <1>2, <1>3 DEF MoneyTypeOK

\* A request that ends leaves the others.
LEMMA TaskEnds ==
    ASSUME MoneyTypeOK, NEW t \in tasks, Ends(t)
    PROVE  tasks' \subseteq Task /\ tasks' = tasks \ {t}
  BY DEF Ends, MoneyTypeOK

\* A request that begins carries neither an amount nor a transaction.
LEMMA TaskStarts ==
    ASSUME MoneyTypeOK, NEW op \in Ops, NEW at \in Steps, NEW r \in Rides,
           NEW u, u = NewTask(op, at, r), tasks' = tasks \cup {u}
    PROVE  /\ tasks' \subseteq Task
           /\ u.op = op /\ u.at = at /\ u.ride = r /\ u.n = 0 /\ u.txn = NoTxn
<1>1. u \in Task
  BY NewTaskTyped
<1>. QED  BY <1>1 DEF MoneyTypeOK, NewTask

-----------------------------------------------------------------------------
(* Types: the offer's side. *)

\* What is given back, and what the settlement makes of the discount, are amounts.
LEMMA ReleaseTyped ==
    ASSUME MoneyTypeOK, NEW r \in Rides, Release(r)
    PROVE  /\ redemption' \in [Rides -> RedemptionStatus] /\ usage' \in [Users -> Nat]
           /\ offer' \in [st : OfferState, budget : Nat, spent : Nat, count : Nat]
           /\ discount' \in [Rides -> Nat] /\ held' \in [Rides -> Nat]
<1>1. CASE redemption[r] = "reserved"
  <2>1. Less(offer.spent, held[r]) \in Nat /\ Less(offer.count, 1) \in Nat
    BY AmountsAreNat DEF MoneyTypeOK
  <2>2. \A u \in Users : Less(usage[u], 1) \in Nat
    BY AmountsAreNat DEF MoneyTypeOK
  <2>3. offer' \in [st : OfferState, budget : Nat, spent : Nat, count : Nat]
    BY <1>1, <2>1 DEF Release, MoneyTypeOK
  <2>4. usage' \in [Users -> Nat]
    BY <1>1, <2>2, UserOfTyped DEF Release, MoneyTypeOK
  <2>. QED  BY <1>1, <2>3, <2>4 DEF Release, MoneyTypeOK, RedemptionStatus
<1>2. CASE redemption[r] # "reserved"
  BY <1>2 DEF Release, MoneyTypeOK, offerVars
<1>. QED  BY <1>1, <1>2

\* finaliseDiscount keeps the discount, the redemption's amount and the offer typed.
LEMMA FinaliseTyped ==
    ASSUME MoneyTypeOK, NEW r \in Rides, Finalise(r)
    PROVE  /\ discount' \in [Rides -> Nat] /\ held' \in [Rides -> Nat]
           /\ offer' \in [st : OfferState, budget : Nat, spent : Nat, count : Nat]
<1>1. Rederived(r) \in Nat
  BY RederivedIsNat
<1>2. discount' = [discount EXCEPT ![r] = Rederived(r)]
  BY DEF Finalise
<1>3. CASE UNCHANGED <<held, offer>>
  BY <1>1, <1>2, <1>3 DEF MoneyTypeOK
<1>4. CASE /\ Rederived(r) < held[r]
           /\ held' = [held EXCEPT ![r] = Rederived(r)]
           /\ offer' = [offer EXCEPT !.spent = Less(@, held[r] - Rederived(r))]
  <2>1. held[r] - Rederived(r) \in Nat
    BY <1>1, <1>4 DEF MoneyTypeOK
  <2>2. Less(offer.spent, held[r] - Rederived(r)) \in Nat
    BY <2>1, AmountsAreNat DEF MoneyTypeOK
  <2>. QED  BY <1>1, <1>2, <1>4, <2>2 DEF MoneyTypeOK
<1>. QED  BY <1>3, <1>4 DEF Finalise

\* A consumed redemption keeps the redemptions typed.
LEMMA ConsumedTyped ==
    ASSUME MoneyTypeOK, NEW r \in Rides PROVE Consumed(r) \in [Rides -> RedemptionStatus]
  BY DEF MoneyTypeOK, Consumed, RedemptionStatus

\* The types outside of tasks are kept by a step that leaves the rest alone.
LEMMA OfferTypeStep ==
    ASSUME MoneyTypeOK, OfferNext PROVE MoneyTypeOK'
<1>. USE DEF offerVars, payVars, walletVars, gatewayVars, countVars, tripVars
<1>1. ASSUME NEW r \in Rides, BookPlain(r) PROVE MoneyTypeOK'
  BY <1>1 DEF BookPlain, MoneyTypeOK, RideStatus
<1>2. ASSUME NEW r \in Rides, BookWithOffer(r) PROVE MoneyTypeOK'
  <2>1. DiscountOn(Estimate) \in Nat /\ UserOf[r] \in Users
    BY DiscountIsNat, FaresAreNat, UserOfTyped
  <2>2. offer' \in [st : OfferState, budget : Nat, spent : Nat, count : Nat]
    <3>1. PICK n \in Nat : offer' = [offer EXCEPT !.spent = @ + n, !.count = @ + 1]
      BY <1>2, <2>1 DEF BookWithOffer
    <3>2. offer.spent + n \in Nat /\ offer.count + 1 \in Nat
      BY DEF MoneyTypeOK
    <3>. QED  BY <3>1, <3>2 DEF MoneyTypeOK
  <2>3. usage' \in [Users -> Nat] /\ redemption' \in [Rides -> RedemptionStatus]
    BY <1>2, <2>1 DEF BookWithOffer, MoneyTypeOK, RedemptionStatus
  <2>4. ride' \in [Rides -> RideStatus] /\ discount' \in [Rides -> Nat] /\ held' \in [Rides -> Nat]
    BY <1>2, <2>1 DEF BookWithOffer, MoneyTypeOK, RideStatus
  <2>. QED  BY <1>2, <2>2, <2>3, <2>4 DEF BookWithOffer, MoneyTypeOK
<1>3. ASSUME NEW r \in Rides, CancelFree(r) PROVE MoneyTypeOK'
  <2>1. ride' \in [Rides -> RideStatus] /\ Release(r)
    BY <1>3 DEF CancelFree, MoneyTypeOK, RideStatus
  <2>. QED  BY <1>3, <2>1, ReleaseTyped DEF CancelFree, MoneyTypeOK
<1>4. ASSUME NEW r \in Rides, CancelWithFee(r) PROVE MoneyTypeOK'
  BY <1>4, ConsumedTyped DEF CancelWithFee, MoneyTypeOK, RideStatus
<1>5. ASSUME NEW r \in Rides, CloseNoDrivers(r) PROVE MoneyTypeOK'
  <2>1. tasks' \subseteq Task
    BY <1>5, TaskStarts DEF CloseNoDrivers, Start, MoneyTypeOK, Ops, Steps
  <2>. QED  BY <1>5, <2>1 DEF CloseNoDrivers, MoneyTypeOK, RideStatus
<1>6. ASSUME NEW r \in Rides, Reopen(r) PROVE MoneyTypeOK'
  BY <1>6 DEF Reopen, MoneyTypeOK, RideStatus
<1>7. ASSUME NEW r \in Rides, ListStale(r) PROVE MoneyTypeOK'
  BY <1>7 DEF ListStale, MoneyTypeOK
<1>8. ASSUME NEW r \in Rides, ReleaseStale(r) PROVE MoneyTypeOK'
  BY <1>8, ReleaseTyped DEF ReleaseStale, MoneyTypeOK
<1>9. CASE PatchOffer
  <2>1. offer' \in [st : OfferState, budget : Nat, spent : Nat, count : Nat]
    BY <1>9, BudgetsAreNat DEF PatchOffer, MoneyTypeOK
  <2>. QED  BY <1>9, <2>1 DEF PatchOffer, MoneyTypeOK
<1>10. ASSUME NEW t \in tasks, UndoRedemption(t) PROVE MoneyTypeOK'
  <2>1. t.ride \in Rides /\ held[t.ride] \in Nat
    BY TaskTyped DEF MoneyTypeOK
  <2>2. tasks' \subseteq Task
    BY <1>10, <2>1, TaskCarries, TaskEnds DEF UndoRedemption, Steps
  <2>. QED  BY <1>10, <2>1, <2>2 DEF UndoRedemption, MoneyTypeOK, RedemptionStatus
<1>11. ASSUME NEW t \in tasks, ReturnBudget(t) PROVE MoneyTypeOK'
  <2>1. tasks' \subseteq Task
    BY <1>11, TaskCarries DEF ReturnBudget, Steps
  <2>2. Less(offer.spent, t.n) \in Nat /\ Less(offer.count, 1) \in Nat
    BY TaskTyped, AmountsAreNat DEF MoneyTypeOK
  <2>3. offer' \in [st : OfferState, budget : Nat, spent : Nat, count : Nat]
    BY <1>11, <2>2 DEF ReturnBudget, MoneyTypeOK
  <2>. QED  BY <1>11, <2>1, <2>3 DEF ReturnBudget, MoneyTypeOK
<1>12. ASSUME NEW t \in tasks, ReturnUsage(t) PROVE MoneyTypeOK'
  <2>1. tasks' \subseteq Task
    BY <1>12, TaskGoes DEF ReturnUsage, Steps
  <2>2. \A u \in Users : Less(usage[u], 1) \in Nat
    BY AmountsAreNat DEF MoneyTypeOK
  <2>3. usage' \in [Users -> Nat]
    BY <1>12, <2>2 DEF ReturnUsage, MoneyTypeOK
  <2>. QED  BY <1>12, <2>1, <2>3 DEF ReturnUsage, MoneyTypeOK
<1>13. ASSUME NEW t \in tasks, ZeroDiscount(t) PROVE MoneyTypeOK'
  <2>1. tasks' \subseteq Task
    BY <1>13, TaskEnds DEF ZeroDiscount
  <2>. QED  BY <1>13, <2>1 DEF ZeroDiscount, MoneyTypeOK
<1>14. ASSUME NEW t \in tasks, Derive(t) PROVE MoneyTypeOK'
  <2>1. Rederived(t.ride) \in Nat
    BY TaskTyped, RederivedIsNat DEF MoneyTypeOK
  <2>2. tasks' \subseteq Task
    BY <1>14, <2>1, TaskGoes, TaskCarries DEF Derive, Steps
  <2>. QED  BY <1>14, <2>2 DEF Derive, MoneyTypeOK
<1>15. ASSUME NEW t \in tasks, Shrink(t) PROVE MoneyTypeOK'
  <2>1. tasks' \subseteq Task
    BY <1>15, TaskGoes DEF Shrink, Steps
  <2>2. t.n \in Nat /\ t.ride \in Rides
    BY TaskTyped DEF MoneyTypeOK
  <2>3. CASE UNCHANGED <<held, offer>>
    BY <1>15, <2>1, <2>3 DEF Shrink, MoneyTypeOK
  <2>4. CASE /\ held[t.ride] > t.n
             /\ held' = [held EXCEPT ![t.ride] = t.n]
             /\ offer' = [offer EXCEPT !.spent = Less(@, held[t.ride] - t.n)]
    <3>1. held[t.ride] - t.n \in Nat
      BY <2>2, <2>4 DEF MoneyTypeOK
    <3>2. Less(offer.spent, held[t.ride] - t.n) \in Nat
      BY <3>1, AmountsAreNat DEF MoneyTypeOK
    <3>3. held' \in [Rides -> Nat]
          /\ offer' \in [st : OfferState, budget : Nat, spent : Nat, count : Nat]
      BY <2>2, <2>4, <3>2 DEF MoneyTypeOK
    <3>. QED  BY <1>15, <2>1, <3>3 DEF Shrink, MoneyTypeOK
  <2>. QED  BY <1>15, <2>3, <2>4 DEF Shrink
<1>16. ASSUME NEW t \in tasks, Apply(t) PROVE MoneyTypeOK'
  <2>1. tasks' \subseteq Task
    BY <1>16, TaskCarries DEF Apply, Steps
  <2>2. t.n \in Nat
    BY TaskTyped DEF MoneyTypeOK
  <2>. QED  BY <1>16, <2>1, <2>2 DEF Apply, MoneyTypeOK
<1>. QED
  BY <1>1, <1>2, <1>3, <1>4, <1>5, <1>6, <1>7, <1>8, <1>9, <1>10, <1>11, <1>12, <1>13, <1>14,
     <1>15, <1>16
  DEF OfferNext

-----------------------------------------------------------------------------
(* Types: the payments' side. *)

\* The payments row that is written is a PaymentRow.
LEMMA RecordedTyped ==
    ASSUME MoneyTypeOK, NEW r \in Rides, discount' \in [Rides -> Nat],
           NEW st \in {"pending", "completed"}, NEW payer \in Payers
    PROVE  Recorded(r, st, payer) \in [Rides -> PaymentRow]
<1>1. Payable(Fare(r), discount'[r]) \in Nat /\ discount'[r] \in Nat
  BY FareIsNat, AmountsAreNat
<1>2. [st |-> st, amount |-> Payable(Fare(r), discount'[r]), off |-> discount'[r], txn |-> NoTxn,
       payer |-> payer, by |-> NoTxn] \in PaymentRow
  BY <1>1 DEF PaymentRow
<1>. QED  BY <1>2 DEF Recorded, MoneyTypeOK

\* Only the state of a payment changes, or only its transaction.
LEMMA RowTyped ==
    ASSUME MoneyTypeOK, NEW r \in Rides
    PROVE  /\ \A st \in {"none", "pending", "completed", "failed"} :
                [payment EXCEPT ![r].st = st] \in [Rides -> PaymentRow]
           /\ \A k \in Txns : [payment EXCEPT ![r].txn = k] \in [Rides -> PaymentRow]
<1>1. payment \in [Rides -> PaymentRow] /\ payment[r] \in PaymentRow
  BY DEF MoneyTypeOK
<1>2. /\ \A st \in {"none", "pending", "completed", "failed"} :
            [payment[r] EXCEPT !.st = st] \in PaymentRow
      /\ \A k \in Txns : [payment[r] EXCEPT !.txn = k] \in PaymentRow
  BY <1>1 DEF PaymentRow
<1>. QED  BY <1>1, <1>2

\* The trip, its ends, the stranded sweep and the driver's collection keep the types.
LEMMA RideStepTyped ==
    ASSUME MoneyTypeOK, NEW r \in Rides,
           StartTrip(r) \/ EndTrip(r) \/ BeginEarlyEnd(r) \/ StrandedSweep(r) \/ BeginCollect(r)
    PROVE  MoneyTypeOK'
<1>. USE DEF offerVars, payVars, walletVars, gatewayVars, countVars, tripVars
<1>1. CASE StartTrip(r)
  BY <1>1 DEF StartTrip, MoneyTypeOK, RideStatus
<1>2. CASE EndTrip(r)
  <2>1. tasks' \subseteq Task
    BY <1>2, TaskStarts DEF EndTrip, Start, Ops, Steps
  <2>. QED  BY <1>2, <2>1 DEF EndTrip, MoneyTypeOK, RideStatus
<1>3. CASE BeginEarlyEnd(r)
  <2>1. tasks' \subseteq Task
    BY <1>3, TaskStarts DEF BeginEarlyEnd, Start, Ops, Steps
  <2>. QED  BY <1>3, <2>1 DEF BeginEarlyEnd, MoneyTypeOK
<1>4. CASE StrandedSweep(r)
  <2>1. tasks' \subseteq Task
    BY <1>4, TaskStarts DEF StrandedSweep, Ops, Steps
  <2>. QED  BY <1>4, <2>1 DEF StrandedSweep, MoneyTypeOK
<1>5. CASE BeginCollect(r)
  <2>1. tasks' \subseteq Task
    BY <1>5, TaskStarts DEF BeginCollect, Start, Ops, Steps
  <2>. QED  BY <1>5, <2>1 DEF BeginCollect, MoneyTypeOK
<1>. QED  BY <1>1, <1>2, <1>3, <1>4, <1>5

\* The rider's and PayU's steps, the reconcile job and the retry keep the types.
LEMMA GatewayStepTyped ==
    ASSUME MoneyTypeOK, MoneyInv,
           \/ \E r \in Rides : Poll(r) \/ BeginRetry(r)
           \/ \E u \in Users : FundWallet(u)
           \/ \E k \in Txns : RiderPays(k) \/ Notify(k)
    PROVE  MoneyTypeOK'
<1>. USE DEF offerVars, payVars, walletVars, gatewayVars, countVars, tripVars
<1>1. ASSUME NEW r \in Rides, Poll(r) PROVE MoneyTypeOK'
  <2>1. payment[r].txn \in Txns
    BY <1>1 DEF Poll, MoneyTypeOK, PaymentRow
  <2>2. \A at \in {"confirm", "fail"} :
          [op |-> "poll", at |-> at, ride |-> r, n |-> 0, txn |-> payment[r].txn] \in Task
    BY <2>1 DEF Task, Ops, Steps
  <2>3. tasks' \subseteq Task
    BY <1>1, <2>2 DEF Poll, MoneyTypeOK
  <2>. QED  BY <1>1, <2>3 DEF Poll, MoneyTypeOK
<1>2. ASSUME NEW r \in Rides, BeginRetry(r) PROVE MoneyTypeOK'
  <2>1. payment[r].amount \in Nat
    BY DEF MoneyTypeOK, PaymentRow
  <2>2. [NewTask("retry", "reset", r) EXCEPT !.n = payment[r].amount] \in Task
    BY <2>1 DEF NewTask, Task, Ops, Steps
  <2>3. tasks' \subseteq Task
    BY <1>2, <2>2 DEF BeginRetry, Start, MoneyTypeOK
  <2>. QED  BY <1>2, <2>3 DEF BeginRetry, MoneyTypeOK
<1>3. ASSUME NEW u \in Users, FundWallet(u) PROVE MoneyTypeOK'
  BY <1>3, FaresAreNat DEF FundWallet, MoneyTypeOK
<1>4. ASSUME NEW k \in Txns, RiderPays(k) PROVE MoneyTypeOK'
  <2>1. txn' \in [Txns -> GatewayRow]
    BY <1>4 DEF RiderPays, MoneyTypeOK, GatewayRow
  <2>. QED  BY <1>4, <2>1 DEF RiderPays, MoneyTypeOK
<1>5. ASSUME NEW k \in Txns, Notify(k) PROVE MoneyTypeOK'
  <2>1. txn[k].ride \in Rides
    BY <1>5 DEF Notify, MoneyInv, MintedOnline
  <2>2. \A at \in {"flag", "reopen", "confirm"} :
          [op |-> "payu", at |-> at, ride |-> txn[k].ride, n |-> 0, txn |-> k] \in Task
    BY <2>1 DEF Task, Ops, Steps
  <2>3. tasks' \subseteq Task
    BY <1>5, <2>2 DEF Notify, MoneyTypeOK
  <2>. QED  BY <1>5, <2>3 DEF Notify, MoneyTypeOK
<1>. QED  BY <1>1, <1>2, <1>3, <1>4, <1>5

\* A statement of a request at work, or its death, keeps the types.
LEMMA TaskStepTyped ==
    ASSUME MoneyTypeOK, MoneyInv, NEW t \in tasks, TaskStep(t) \/ Die(t)
    PROVE  MoneyTypeOK'
<1>. USE DEF offerVars, payVars, walletVars, gatewayVars, countVars, tripVars, unchangedByPaying
<1>1. /\ t \in Task /\ t.op \in Ops /\ t.at \in Steps /\ t.ride \in Rides /\ t.n \in Nat
      /\ t.txn \in Txns \cup {NoTxn} /\ TaskIsSound(t)
  BY TaskTyped DEF MoneyTypeOK, MoneyInv, TasksAreSound
<1>2. CASE WriteFare(t)
  <2>1. tasks' \subseteq Task
    BY <1>2, TaskGoes DEF WriteFare, Steps
  <2>2. final' \in [Rides -> Nat]
    BY <1>1, <1>2, FaresAreNat DEF WriteFare, MoneyTypeOK
  <2>. QED  BY <1>2, <2>1, <2>2 DEF WriteFare, MoneyTypeOK
<1>3. CASE CloseEarly(t)
  <2>1. tasks' \subseteq Task
    BY <1>3, TaskGoes, TaskEnds DEF CloseEarly, Steps
  <2>. QED  BY <1>3, <2>1 DEF CloseEarly, MoneyTypeOK, RideStatus
<1>4. CASE Quote(t)
  <2>1. discount' \in [Rides -> Nat] /\ held' \in [Rides -> Nat]
        /\ offer' \in [st : OfferState, budget : Nat, spent : Nat, count : Nat]
    BY <1>1, <1>4, FinaliseTyped DEF Quote
  <2>2. Payable(Fare(t.ride), discount'[t.ride]) \in Nat
    BY <1>1, <2>1, FareIsNat, AmountsAreNat
  <2>3. tasks' \subseteq Task
    BY <1>4, <2>2, TaskCarries, TaskGoes, TaskEnds DEF Quote, Steps
  <2>. QED  BY <1>4, <2>1, <2>3 DEF Quote, MoneyTypeOK
<1>5. CASE Record(t)
  <2>1. discount' \in [Rides -> Nat] /\ held' \in [Rides -> Nat]
        /\ offer' \in [st : OfferState, budget : Nat, spent : Nat, count : Nat]
    BY <1>1, <1>5, FinaliseTyped DEF Record
  <2>2. payment' \in [Rides -> PaymentRow]
    BY <1>1, <1>5, <2>1, RecordedTyped DEF Record, Payers
  <2>3. tasks' \subseteq Task
    BY <1>5, TaskGoes, TaskEnds DEF Record, Steps
  <2>. QED  BY <1>5, <2>1, <2>2, <2>3 DEF Record, MoneyTypeOK
<1>6. CASE Order(t)
  <2>1. PICK k \in Txns : /\ txn' = [txn EXCEPT ![k] = [st |-> "open", ride |-> t.ride, amount |-> t.n]]
                          /\ payment' = [payment EXCEPT ![t.ride].txn = k]
    BY <1>6 DEF Order
  <2>2. [st |-> "open", ride |-> t.ride, amount |-> t.n] \in GatewayRow
    BY <1>1 DEF GatewayRow
  <2>3. txn' \in [Txns -> GatewayRow]
    BY <2>1, <2>2 DEF MoneyTypeOK
  <2>4. payment' \in [Rides -> PaymentRow]
    BY <1>1, <2>1, RowTyped
  <2>5. tasks' \subseteq Task
    BY <1>6, TaskEnds DEF Order
  <2>. QED  BY <1>6, <2>3, <2>4, <2>5 DEF Order, MoneyTypeOK
<1>7. CASE Debit(t)
  <2>1. tasks' \subseteq Task
    BY <1>7, TaskGoes, TaskEnds DEF Debit, Steps
  <2>2. UserOf[t.ride] \in Users
    BY <1>1, UserOfTyped
  <2>3. balance' \in [Users -> Nat] /\ debited' \in [Rides -> Nat]
    BY <1>1, <1>7, <2>2 DEF Debit, MoneyTypeOK
  <2>. QED  BY <1>7, <2>1, <2>3 DEF Debit, MoneyTypeOK
<1>8. CASE Confirm(t)
  <2>1. tasks' \subseteq Task
    BY <1>8, TaskGoes, TaskEnds DEF Confirm, Steps
  <2>2. redemption' \in [Rides -> RedemptionStatus]
    BY <1>1, <1>8, ConsumedTyped DEF Confirm, MoneyTypeOK
  <2>3. settled' \in [Rides -> Nat] /\ answered' \subseteq Txns
    BY <1>1, <1>8 DEF Confirm, MoneyTypeOK, TaskIsSound
  <2>4. payment' \in [Rides -> PaymentRow]
    <3>. DEFINE paid == [payment[t.ride] EXCEPT !.st = "completed", !.by = t.txn,
                            !.payer = IF t.txn = NoTxn THEN "wallet" ELSE "payu"]
    <3>1. paid \in PaymentRow
      <4>1. payment[t.ride] \in PaymentRow
        BY <1>1 DEF MoneyTypeOK
      <4>2. ASSUME NEW w \in PaymentRow, NEW x \in Txns \cup {NoTxn}, NEW q \in Payers
            PROVE  [w EXCEPT !.st = "completed", !.by = x, !.payer = q] \in PaymentRow
        BY DEF PaymentRow
      <4>3. (IF t.txn = NoTxn THEN "wallet" ELSE "payu") \in Payers
        BY DEF Payers
      <4>. QED  BY <1>1, <4>1, <4>2, <4>3
    <3>2. payment' = payment \/ payment' = [payment EXCEPT ![t.ride] = paid]
      BY <1>8 DEF Confirm
    <3>. HIDE DEF paid
    <3>. QED  BY <3>1, <3>2 DEF MoneyTypeOK
  <2>. QED  BY <1>8, <2>1, <2>2, <2>3, <2>4 DEF Confirm, MoneyTypeOK
<1>9. CASE Claim(t)
  <2>1. tasks' \subseteq Task
    BY <1>9, TaskEnds DEF Claim
  <2>2. CASE t.ride \in collected
    BY <1>9, <2>1, <2>2 DEF Claim, MoneyTypeOK
  <2>3. CASE t.ride \notin collected
    <3>1. discount' \in [Rides -> Nat] /\ held' \in [Rides -> Nat]
          /\ offer' \in [st : OfferState, budget : Nat, spent : Nat, count : Nat]
      BY <1>1, <1>9, <2>3, FinaliseTyped DEF Claim
    <3>2. payment' \in [Rides -> PaymentRow]
      BY <1>1, <1>9, <2>3, <3>1, RecordedTyped DEF Claim, Payers
    <3>3. /\ redemption' \in [Rides -> RedemptionStatus] /\ settled' \in [Rides -> Nat]
          /\ collected' \subseteq Rides
      BY <1>1, <1>9, <2>3, ConsumedTyped DEF Claim, MoneyTypeOK
    <3>. QED  BY <1>9, <2>1, <3>1, <3>2, <3>3 DEF Claim, MoneyTypeOK
  <2>. QED  BY <2>2, <2>3
<1>10. CASE Flag(t) \/ Judge(t)
  <2>1. tasks' \subseteq Task
    BY <1>10, TaskEnds DEF Flag, Judge
  <2>2. answered' \subseteq Txns /\ flagged' \subseteq Txns
    BY <1>1, <1>10 DEF Flag, Judge, TaskIsSound, MoneyTypeOK
  <2>. QED  BY <1>10, <2>1, <2>2 DEF Flag, Judge, MoneyTypeOK
<1>11. CASE ReopenPayment(t) \/ FailPayment(t) \/ Reset(t)
  <2>1. tasks' \subseteq Task
    BY <1>11, TaskGoes, TaskEnds DEF ReopenPayment, FailPayment, Reset, Steps
  <2>2. payment[t.ride].st \in {"none", "pending", "completed", "failed"}
    BY <1>1 DEF MoneyTypeOK, PaymentRow
  <2>3. payment' = payment \/ \E st \in {"none", "pending", "completed", "failed"} :
                                payment' = [payment EXCEPT ![t.ride].st = st]
    <3>1. CASE ReopenPayment(t)
      BY <2>2, <3>1 DEF ReopenPayment
    <3>2. CASE FailPayment(t)
      BY <2>2, <3>2 DEF FailPayment
    <3>3. CASE Reset(t)
      BY <3>3 DEF Reset
    <3>. QED  BY <1>11, <3>1, <3>2, <3>3
  <2>4. payment' \in [Rides -> PaymentRow]
    <3>1. CASE payment' = payment
      BY <3>1 DEF MoneyTypeOK
    <3>2. CASE payment' # payment
      BY <1>1, <2>3, <3>2, RowTyped
    <3>. QED  BY <3>1, <3>2
  <2>. QED  BY <1>11, <2>1, <2>4 DEF ReopenPayment, FailPayment, Reset, MoneyTypeOK
<1>12. CASE Die(t)
  BY <1>1, <1>12, TaskEnds DEF Die, MoneyTypeOK
<1>. QED
  BY <1>2, <1>3, <1>4, <1>5, <1>6, <1>7, <1>8, <1>9, <1>10, <1>11, <1>12 DEF TaskStep

\* A step of the money paths keeps every variable in its type.
LEMMA MoneyTypeStep == ASSUME MoneyTypeOK, MoneyInv, [MoneyNext]_moneyVars PROVE MoneyTypeOK'
<1>1. CASE UNCHANGED moneyVars
  BY <1>1 DEF moneyVars, tripVars, offerVars, payVars, walletVars, gatewayVars, countVars, MoneyTypeOK
<1>2. CASE OfferNext
  BY <1>2, OfferTypeStep
<1>3. CASE PaymentNext
  BY <1>3, RideStepTyped, GatewayStepTyped, TaskStepTyped DEF PaymentNext
<1>. QED  BY <1>1, <1>2, <1>3 DEF MoneyNext

-----------------------------------------------------------------------------
(* The invariant. *)

\* No ride becomes unbooked, and no reservation is made of one that was booked.
BooksOnce ==
    /\ \A r \in Rides : ride'[r] = "unbooked" => ride[r] = "unbooked"
    /\ \A r \in Rides : redemption'[r] = "reserved" => redemption[r] = "reserved" \/ ride[r] = "unbooked"

\* A task about to confirm is still there, unless its process died.
KeepsConfirms ==
    /\ \A t \in tasks : t.at = "confirm" => t \in tasks'
    /\ failures' = failures

\* A step that leaves payments, wallets and the gateway alone.
LEMMA QuietStep ==
    ASSUME MoneyTypeOK, MoneyInv, UNCHANGED <<channel, payment, collected, walletVars>>,
           \A k \in Txns : txn'[k].st # "none" => txn[k].st # "none" /\ txn'[k].ride = txn[k].ride,
           BooksOnce, \A r \in Rides : ride[r] = "unbooked" /\ ride'[r] # "unbooked" => channel[r] # "none",
           \A t \in tasks' : TaskIsSound(t)',
           KeepsConfirms \/ failures' > 0
    PROVE  MoneyInv'
<1>. USE DEF MoneyInv, walletVars
<1>1. BookedFirst' /\ MintedOnline'
  BY DEF BooksOnce, BookedFirst, MintedOnline
<1>2. TasksAreSound' /\ CashIsCollected' /\ UnbilledIsUnpaid' /\ WalletPays'
  BY DEF TasksAreSound, CashIsCollected, UnbilledIsUnpaid, WalletPays
<1>3. PaidOfferIsUsed'
  BY DEF BooksOnce, PaidOfferIsUsed, BookedFirst
<1>4. DebitSettles'
  BY DEF KeepsConfirms, DebitSettles
<1>. QED  BY <1>1, <1>2, <1>3, <1>4

\* A task of earlier is as sound as it was, as long as its payment is not failed or undone.
LEMMA StaysSound ==
    ASSUME MoneyTypeOK, MoneyInv, NEW t \in tasks, UNCHANGED channel, BooksOnce,
           \A r \in Rides : channel[r] = "wallet" /\ payment[r].st \in {"pending", "completed"}
                => payment'[r].st \in {"pending", "completed"}
    PROVE  TaskIsSound(t)'
<1>1. t.ride \in Rides /\ TaskIsSound(t)
  BY TaskTyped DEF MoneyTypeOK, MoneyInv, TasksAreSound
<1>. QED  BY <1>1 DEF TaskIsSound, BooksOnce

\* The offer's side starts and moves tasks that are at none of the payments' statements.
OfferSteps == {"derive", "shrink", "apply", "close", "quote", "undo", "budget", "usage", "gross"}

\* A request that goes on within the offer's statements stays sound and takes no confirmation away.
LEMMA OfferTaskMoves ==
    ASSUME MoneyTypeOK, MoneyInv, NEW t \in tasks, t.at \in OfferSteps, UNCHANGED <<channel, payment>>,
           BooksOnce, NEW at \in OfferSteps,
           \A u \in tasks' : \/ u \in tasks \ {t}
                             \/ u.at = at /\ u.ride = t.ride /\ u.op = t.op /\ u.txn \in {t.txn, NoTxn},
           tasks \ {t} \subseteq tasks'
    PROVE  /\ \A u \in tasks' : TaskIsSound(u)'
           /\ \A u \in tasks : u.at = "confirm" => u \in tasks'
<1>1. t.ride \in Rides /\ TaskIsSound(t)
  BY TaskTyped DEF MoneyTypeOK, MoneyInv, TasksAreSound
<1>2. \A u \in tasks : TaskIsSound(u)'
  BY StaysSound
<1>3. ASSUME NEW u \in tasks', u.at = at, u.ride = t.ride, u.op = t.op, u.txn \in {t.txn, NoTxn}
      PROVE  TaskIsSound(u)'
  BY <1>1, <1>3 DEF TaskIsSound, BooksOnce, OfferSteps
<1>. QED  BY <1>2, <1>3 DEF OfferSteps

\* Reservation, release, sweep and patch of the offer keep the invariant.
LEMMA OfferInvStep == ASSUME MoneyTypeOK, MoneyInv, OfferNext PROVE MoneyInv'
<1>. USE DEF tripVars, offerVars, payVars, walletVars, gatewayVars, countVars
<1>1. ASSUME NEW r \in Rides,
             BookPlain(r) \/ BookWithOffer(r) \/ CancelFree(r) \/ CancelWithFee(r) \/ CloseNoDrivers(r)
             \/ Reopen(r) \/ ListStale(r) \/ ReleaseStale(r) \/ PatchOffer
      PROVE  MoneyInv'
  <2>1. /\ UNCHANGED <<channel, payment, collected, walletVars, txn>>
        /\ failures' = failures
    BY <1>1 DEF BookPlain, BookWithOffer, CancelFree, CancelWithFee, CloseNoDrivers, Reopen,
       ListStale, ReleaseStale, PatchOffer
  <2>2. /\ \A s \in Rides : ride'[s] = "unbooked" => ride[s] = "unbooked"
        /\ \A s \in Rides : ride[s] = "unbooked" /\ ride'[s] # "unbooked" => channel[s] # "none"
    BY <1>1 DEF BookPlain, BookWithOffer, CancelFree, CancelWithFee, CloseNoDrivers, Reopen,
       ListStale, ReleaseStale, PatchOffer, MoneyTypeOK
  <2>3. \A s \in Rides : redemption'[s] = "reserved" => redemption[s] = "reserved" \/ ride[s] = "unbooked"
    BY <1>1 DEF BookPlain, BookWithOffer, CancelFree, CancelWithFee, CloseNoDrivers, Reopen,
       ListStale, ReleaseStale, PatchOffer, Release, Consumed, MoneyTypeOK
  <2>4. tasks' = tasks \/ (ride[r] = "waiting" /\ tasks' = tasks \cup {NewTask("release", "undo", r)})
    BY <1>1 DEF BookPlain, BookWithOffer, CancelFree, CancelWithFee, CloseNoDrivers, Reopen,
       ListStale, ReleaseStale, PatchOffer, Start
  <2>5. \A u \in tasks : TaskIsSound(u)'
    BY <2>1, <2>2, <2>3, StaysSound DEF BooksOnce
  <2>6. \A u \in tasks' : TaskIsSound(u)'
    <3>1. CASE ride[r] = "waiting" /\ tasks' = tasks \cup {NewTask("release", "undo", r)}
      <4>1. ride'[r] # "unbooked"
        BY <2>2, <3>1
      <4>2. TaskIsSound(NewTask("release", "undo", r))'
        BY <4>1 DEF TaskIsSound, NewTask
      <4>. QED  BY <2>5, <3>1, <4>2
    <3>. QED  BY <2>4, <2>5, <3>1
  <2>7. KeepsConfirms
    BY <2>1, <2>4 DEF KeepsConfirms
  <2>. QED  BY <2>1, <2>2, <2>3, <2>6, <2>7, QuietStep DEF BooksOnce
<1>2. ASSUME NEW t \in tasks,
             UndoRedemption(t) \/ ReturnBudget(t) \/ ReturnUsage(t) \/ ZeroDiscount(t)
             \/ Derive(t) \/ Shrink(t) \/ Apply(t)
      PROVE  MoneyInv'
  <2>1. /\ UNCHANGED <<ride, channel, payment, collected, walletVars, txn>>
        /\ failures' = failures
    BY <1>2 DEF UndoRedemption, ReturnBudget, ReturnUsage, ZeroDiscount, Derive, Shrink, Apply
  <2>2. t.ride \in Rides /\ t.n \in Nat /\ held[t.ride] \in Nat /\ Rederived(t.ride) \in Nat
    BY TaskTyped, RederivedIsNat DEF MoneyTypeOK
  <2>3. \A s \in Rides : redemption'[s] = "reserved" => redemption[s] = "reserved"
    BY <1>2, <2>2 DEF UndoRedemption, ReturnBudget, ReturnUsage, ZeroDiscount, Derive, Shrink, Apply,
       MoneyTypeOK
  <2>4. t.at \in OfferSteps
    BY <1>2 DEF UndoRedemption, ReturnBudget, ReturnUsage, ZeroDiscount, Derive, Shrink, Apply,
       OfferSteps
  <2>. DEFINE Moved == \E at \in OfferSteps :
          /\ \A u \in tasks' : \/ u \in tasks \ {t}
                               \/ u.at = at /\ u.ride = t.ride /\ u.op = t.op /\ u.txn \in {t.txn, NoTxn}
          /\ tasks \ {t} \subseteq tasks'
  <2>5. Moved
    <3>. USE DEF OfferSteps, Steps
    <3>1. CASE Ends(t)
      BY <3>1, TaskEnds
    <3>2. ASSUME NEW at \in OfferSteps, Goes(t, at) PROVE Moved
      <4>1. at \in Steps
        OBVIOUS
      <4>. QED  BY <3>2, <4>1, TaskGoes
    <3>3. ASSUME NEW at \in OfferSteps, NEW n \in Nat, Carries(t, at, n, NoTxn) PROVE Moved
      <4>1. at \in Steps /\ NoTxn \in Txns \cup {NoTxn}
        OBVIOUS
      <4>. QED  BY <3>3, <4>1, TaskCarries
    <3>. QED
      BY <1>2, <2>2, <3>1, <3>2, <3>3
      DEF UndoRedemption, ReturnBudget, ReturnUsage, ZeroDiscount, Derive, Shrink, Apply
  <2>6. /\ \A u \in tasks' : TaskIsSound(u)'
        /\ \A u \in tasks : u.at = "confirm" => u \in tasks'
    BY <2>1, <2>3, <2>4, <2>5, OfferTaskMoves DEF BooksOnce
  <2>. QED  BY <2>1, <2>3, <2>6, QuietStep DEF BooksOnce, KeepsConfirms
<1>3. CASE PatchOffer
  <2>1. PICK r \in Rides : TRUE
    BY <1>3 DEF PatchOffer
  <2>. QED  BY <1>1, <1>3
<1>. QED  BY <1>1, <1>2, <1>3 DEF OfferNext

\* The payments' side: what leaves payments and wallets alone.
LEMMA StartedSound ==
    ASSUME MoneyTypeOK, MoneyInv, NEW v, tasks' = tasks \cup {v}, TaskIsSound(v)',
           UNCHANGED <<channel, payment>>, BooksOnce, failures' = failures
    PROVE  (\A u \in tasks' : TaskIsSound(u)') /\ KeepsConfirms
  BY StaysSound DEF KeepsConfirms

\* The trip, its ends and the requests that begin keep the invariant.
LEMMA RideInvStep ==
    ASSUME MoneyTypeOK, MoneyInv, NEW r \in Rides,
           \/ StartTrip(r) \/ EndTrip(r) \/ BeginEarlyEnd(r) \/ StrandedSweep(r) \/ BeginCollect(r)
           \/ Poll(r) \/ BeginRetry(r)
    PROVE  MoneyInv'
<1>. USE DEF tripVars, offerVars, payVars, walletVars, gatewayVars, countVars
<1>1. /\ UNCHANGED <<channel, payment, collected, walletVars, txn, redemption>>
      /\ failures' = failures
  BY DEF StartTrip, EndTrip, BeginEarlyEnd, StrandedSweep, BeginCollect, Poll, BeginRetry
<1>2. \A s \in Rides : ride'[s] = "unbooked" <=> ride[s] = "unbooked"
  BY DEF StartTrip, EndTrip, BeginEarlyEnd, StrandedSweep, BeginCollect, Poll, BeginRetry, MoneyTypeOK
<1>3. BooksOnce
  BY <1>1, <1>2 DEF BooksOnce
<1>4. CASE StartTrip(r)
  BY <1>1, <1>2, <1>3, <1>4, StaysSound, QuietStep DEF StartTrip, KeepsConfirms
<1>5. ASSUME NEW v, tasks' = tasks \cup {v}, TaskIsSound(v)' PROVE MoneyInv'
  <2>1. (\A u \in tasks' : TaskIsSound(u)') /\ KeepsConfirms
    BY <1>1, <1>3, <1>5, StartedSound
  <2>. QED  BY <1>1, <1>2, <1>3, <2>1, QuietStep
<1>6. CASE EndTrip(r) \/ BeginEarlyEnd(r)
  <2>1. PICK op \in {"end", "early"} : tasks' = tasks \cup {NewTask(op, "fare", r)}
    BY <1>6 DEF EndTrip, BeginEarlyEnd, Start
  <2>2. TaskIsSound(NewTask(op, "fare", r))'
    BY <1>2, <1>6 DEF EndTrip, BeginEarlyEnd, TaskIsSound, NewTask
  <2>. QED  BY <1>5, <2>1, <2>2
<1>7. CASE StrandedSweep(r) \/ BeginCollect(r)
  <2>1. PICK op \in {"stranded", "cash"} : tasks' = tasks \cup {NewTask(op, "quote", r)}
    BY <1>7 DEF StrandedSweep, BeginCollect, Start
  <2>2. TaskIsSound(NewTask(op, "quote", r))'
    BY <1>2, <1>7 DEF StrandedSweep, BeginCollect, TaskIsSound, NewTask
  <2>. QED  BY <1>5, <2>1, <2>2
<1>8. CASE Poll(r)
  <2>1. PICK w : /\ tasks' = tasks \cup {w}
                 /\ w.op = "poll" /\ w.at \in {"confirm", "fail"} /\ w.ride = r
    <3>. DEFINE v(at) == [op |-> "poll", at |-> at, ride |-> r, n |-> 0, txn |-> payment[r].txn]
    <3>1. PICK at \in {"confirm", "fail"} : tasks' = tasks \cup {v(at)}
      BY <1>8 DEF Poll
    <3>2. v(at).op = "poll" /\ v(at).at = at /\ v(at).ride = r
      OBVIOUS
    <3>. HIDE DEF v
    <3>. QED  BY <3>1, <3>2
  <2>2. channel[r] = "online" /\ ride[r] # "unbooked"
    BY <1>8 DEF Poll, MoneyInv, MintedOnline, BookedFirst
  <2>3. TaskIsSound(w)'
    BY <1>1, <1>2, <2>1, <2>2 DEF TaskIsSound
  <2>. QED  BY <1>5, <2>1, <2>3
<1>9. CASE BeginRetry(r)
  <2>1. PICK w : /\ tasks' = tasks \cup {w}
                 /\ w = [NewTask("retry", "reset", r) EXCEPT !.n = payment[r].amount]
    BY <1>9 DEF BeginRetry, Start
  <2>2. ride[r] # "unbooked"
    BY <1>9 DEF BeginRetry, MoneyInv, BookedFirst
  <2>3. w.op = "retry" /\ w.at = "reset" /\ w.ride = r /\ w.txn = NoTxn
    BY <2>1 DEF NewTask
  <2>4. TaskIsSound(w)'
    BY <1>1, <1>2, <2>2, <2>3 DEF TaskIsSound
  <2>. QED  BY <1>5, <2>1, <2>4
<1>. QED  BY <1>4, <1>6, <1>7, <1>8, <1>9

\* A capture and its notification keep the invariant.
LEMMA GatewayInvStep ==
    ASSUME MoneyTypeOK, MoneyInv, NEW k \in Txns, RiderPays(k) \/ Notify(k) PROVE MoneyInv'
<1>. USE DEF tripVars, offerVars, payVars, walletVars, gatewayVars, countVars
<1>1. /\ UNCHANGED <<ride, channel, payment, collected, walletVars, redemption>>
      /\ failures' = failures
  BY DEF RiderPays, Notify
<1>2. BooksOnce
  BY <1>1 DEF BooksOnce
<1>3. CASE RiderPays(k)
  <2>1. \A j \in Txns : txn'[j].st # "none" => txn[j].st # "none" /\ txn'[j].ride = txn[j].ride
    BY <1>3 DEF RiderPays, MoneyTypeOK, GatewayRow
  <2>2. UNCHANGED tasks
    BY <1>3 DEF RiderPays
  <2>. QED  BY <1>1, <1>2, <2>1, <2>2, StaysSound, QuietStep DEF KeepsConfirms
<1>4. CASE Notify(k)
  <2>1. PICK w : /\ tasks' = tasks \cup {w}
                 /\ w.op = "payu" /\ w.at \in {"flag", "reopen", "confirm"}
                 /\ w.ride = txn[k].ride /\ w.txn = k
    <3>. DEFINE v(at) == [op |-> "payu", at |-> at, ride |-> txn[k].ride, n |-> 0, txn |-> k]
    <3>1. PICK at \in {"flag", "reopen", "confirm"} : tasks' = tasks \cup {v(at)}
      BY <1>4 DEF Notify
    <3>2. v(at).op = "payu" /\ v(at).at = at /\ v(at).ride = txn[k].ride /\ v(at).txn = k
      OBVIOUS
    <3>. HIDE DEF v
    <3>. QED  BY <3>1, <3>2
  <2>2. channel[txn[k].ride] = "online" /\ ride[txn[k].ride] # "unbooked"
    BY <1>4 DEF Notify, MoneyInv, MintedOnline
  <2>3. TaskIsSound(w)'
    BY <1>1, <2>1, <2>2 DEF TaskIsSound
  <2>4. (\A u \in tasks' : TaskIsSound(u)') /\ KeepsConfirms
    BY <1>1, <1>2, <2>1, <2>3, StartedSound
  <2>5. UNCHANGED txn
    BY <1>4 DEF Notify
  <2>. QED  BY <1>1, <1>2, <2>4, <2>5, QuietStep
<1>. QED  BY <1>3, <1>4

\* A request moves on to a statement that its payment allows.
LEMMA TaskMoves ==
    ASSUME MoneyTypeOK, MoneyInv, NEW t \in tasks, UNCHANGED channel, BooksOnce,
           \A r \in Rides : channel[r] = "wallet" /\ payment[r].st \in {"pending", "completed"}
                => payment'[r].st \in {"pending", "completed"},
           \A u \in tasks' : u \in tasks \/ TaskIsSound(u)'
    PROVE  TasksAreSound'
  BY StaysSound DEF TasksAreSound

\* The statements that write no payment keep the invariant.
LEMMA QuietTaskStep ==
    ASSUME MoneyTypeOK, MoneyInv, NEW t \in tasks,
           WriteFare(t) \/ CloseEarly(t) \/ Quote(t) \/ Flag(t) \/ Judge(t) \/ Die(t)
    PROVE  MoneyInv'
<1>. USE DEF tripVars, offerVars, payVars, walletVars, gatewayVars, countVars, unchangedByPaying
<1>1. /\ t \in Task /\ t.ride \in Rides /\ TaskIsSound(t)
      /\ t.at # "confirm" \/ Die(t)
  BY TaskTyped
  DEF MoneyTypeOK, MoneyInv, TasksAreSound, WriteFare, CloseEarly, Quote, Flag, Judge
<1>2. UNCHANGED <<channel, payment, collected, walletVars, txn, redemption>>
  BY DEF WriteFare, CloseEarly, Quote, Flag, Judge, Die
<1>3. \A s \in Rides : ride'[s] = "unbooked" <=> ride[s] = "unbooked"
  BY DEF WriteFare, CloseEarly, Quote, Flag, Judge, Die, MoneyTypeOK
<1>4. BooksOnce
  BY <1>2, <1>3 DEF BooksOnce
<1>5. ASSUME NEW u \in tasks', u.ride = t.ride, u.op = t.op, u.txn \in {t.txn, NoTxn},
             \/ u.at \in {"derive", "quote"} /\ t.at \in {"fare", "close"}
             \/ u.at = "record" /\ channel[t.ride] # "cash" /\ t.at = "quote"
             \/ u.at = "claim" /\ channel[t.ride] = "cash" /\ t.at = "quote"
      PROVE  TaskIsSound(u)'
  BY <1>1, <1>2, <1>3, <1>5 DEF TaskIsSound
<1>6. \A u \in tasks : TaskIsSound(u)'
  BY <1>2, <1>4, StaysSound
<1>7. \A u \in tasks' : TaskIsSound(u)'
  <2>1. CASE Flag(t) \/ Judge(t) \/ Die(t)
    BY <1>6, <2>1, TaskEnds DEF Flag, Judge, Die
  <2>2. CASE WriteFare(t)
    BY <1>5, <1>6, <2>2, TaskGoes DEF WriteFare, Steps
  <2>3. CASE CloseEarly(t)
    BY <1>5, <1>6, <2>3, TaskGoes, TaskEnds DEF CloseEarly, Steps
  <2>4. CASE Quote(t)
    <3>1. Finalise(t.ride)
      BY <2>4 DEF Quote
    <3>2. Payable(Fare(t.ride), discount'[t.ride]) \in Nat
      BY <1>1, <3>1, FinaliseTyped, FareIsNat, AmountsAreNat
    <3>. QED  BY <1>5, <1>6, <2>4, <3>2, TaskCarries, TaskGoes, TaskEnds DEF Quote, Steps
  <2>. QED  BY <2>1, <2>2, <2>3, <2>4
<1>8. KeepsConfirms \/ failures' > 0
  <2>1. CASE Die(t)
    BY <2>1 DEF Die, MoneyTypeOK
  <2>2. CASE ~Die(t)
    <3>1. tasks \ {t} \subseteq tasks' /\ failures' = failures
      BY <2>2 DEF WriteFare, CloseEarly, Quote, Flag, Judge, Goes, Carries, Ends
    <3>. QED  BY <1>1, <2>2, <3>1 DEF KeepsConfirms
  <2>. QED  BY <2>1, <2>2
<1>. QED  BY <1>2, <1>3, <1>4, <1>7, <1>8, QuietStep

\* What a statement finds: its task, its ride, its payment.
LEMMA AtStatement ==
    ASSUME MoneyTypeOK, MoneyInv, NEW t \in tasks
    PROVE  /\ t \in Task /\ t.ride \in Rides /\ TaskIsSound(t)
           /\ channel[t.ride] \in {"cash", "online", "wallet"}
           /\ payment[t.ride].st \in {"none", "pending", "completed", "failed"}
<1>1. t \in Task /\ t.ride \in Rides /\ TaskIsSound(t)
  BY TaskTyped DEF MoneyTypeOK, MoneyInv, TasksAreSound
<1>2. payment[t.ride] \in PaymentRow
  BY <1>1 DEF MoneyTypeOK
<1>. QED  BY <1>1, <1>2 DEF TaskIsSound, MoneyInv, BookedFirst, MoneyTypeOK, Channel, PaymentRow

\* Writing the payments row keeps the invariant.
LEMMA RecordStep == ASSUME MoneyTypeOK, MoneyInv, NEW t \in tasks, Record(t) PROVE MoneyInv'
<1>. USE DEF MoneyInv, tripVars, walletVars, gatewayVars, unchangedByPaying
<1>. DEFINE r == t.ride
<1>1. /\ t.at = "record" /\ r \in Rides /\ TaskIsSound(t) /\ channel[r] \in {"online", "wallet"}
      /\ payment[r].st \in {"none", "pending", "completed", "failed"} /\ ride[r] # "unbooked"
  BY AtStatement DEF Record, TaskIsSound
<1>2. UNCHANGED <<ride, channel, redemption, collected, balance, debited, txn, failures>>
  BY DEF Record
<1>3. /\ payment[r].st # "none" => payment' = payment
      /\ payment[r].st = "none" => /\ payment'[r].st = "pending" /\ payment'[r].txn = NoTxn
                                   /\ \A s \in Rides \ {r} : payment'[s] = payment[s]
  BY <1>1 DEF Record, Recorded, MoneyTypeOK
<1>4. /\ tasks \ {t} \subseteq tasks'
      /\ \A u \in tasks' : \/ u \in tasks
                           \/ /\ u.ride = r /\ u.op = t.op /\ u.txn = t.txn
                              /\ u.at = IF channel[r] = "online" THEN "order" ELSE "debit"
  <2>1. CASE Ends(t)
    BY <2>1, TaskEnds
  <2>2. CASE Goes(t, IF channel[r] = "online" THEN "order" ELSE "debit")
    <3>1. (IF channel[r] = "online" THEN "order" ELSE "debit") \in Steps
      BY DEF Steps
    <3>. QED  BY <2>2, <3>1, TaskGoes
  <2>. QED  BY <2>1, <2>2 DEF Record
<1>. HIDE DEF r
<1>5. BooksOnce
  BY <1>2 DEF BooksOnce
<1>6. TasksAreSound'
  <2>1. ASSUME NEW u \in tasks', u.ride = r, u.op = t.op, u.txn = t.txn,
               u.at = IF channel[r] = "online" THEN "order" ELSE "debit"
        PROVE  TaskIsSound(u)'
    BY <1>1, <1>2, <1>3, <2>1 DEF TaskIsSound, WalletPays
  <2>. QED  BY <1>2, <1>3, <1>4, <1>5, <2>1, TaskMoves
<1>7. BookedFirst' /\ MintedOnline'
  BY <1>1, <1>2, <1>3 DEF BookedFirst, MintedOnline
<1>8. CashIsCollected' /\ UnbilledIsUnpaid' /\ WalletPays'
  BY <1>1, <1>2, <1>3 DEF CashIsCollected, UnbilledIsUnpaid, WalletPays
<1>9. PaidOfferIsUsed'
  BY <1>2, <1>3 DEF PaidOfferIsUsed
<1>10. DebitSettles'
  BY <1>1, <1>2, <1>3, <1>4 DEF DebitSettles
<1>. QED  BY <1>6, <1>7, <1>8, <1>9, <1>10

\* A gateway order for a bill keeps the invariant.
LEMMA OrderStep == ASSUME MoneyTypeOK, MoneyInv, NEW t \in tasks, Order(t) PROVE MoneyInv'
<1>. USE DEF MoneyInv, tripVars, offerVars, walletVars, countVars
<1>. DEFINE r == t.ride
<1>1. /\ t.at = "order" /\ r \in Rides /\ TaskIsSound(t) /\ channel[r] = "online"
      /\ ride[r] # "unbooked"
  BY AtStatement DEF Order, TaskIsSound
<1>2. UNCHANGED <<ride, channel, redemption, collected, balance, debited, failures>>
  BY DEF Order
<1>3. /\ \A s \in Rides : /\ payment'[s].st = payment[s].st /\ payment'[s].payer = payment[s].payer
                          /\ payment'[s].by = payment[s].by
                          /\ s # r => payment'[s].txn = payment[s].txn
  <2>1. \A s \in Rides : payment[s] \in PaymentRow
    BY DEF MoneyTypeOK
  <2>2. PICK k \in Txns : payment' = [payment EXCEPT ![r].txn = k]
    BY DEF Order
  <2>. QED  BY <1>1, <2>1, <2>2 DEF MoneyTypeOK, PaymentRow
<1>4. \A k \in Txns : txn'[k] = txn[k] \/ txn'[k].ride = r
  <2>1. PICK k \in Txns : txn' = [txn EXCEPT ![k] = [st |-> "open", ride |-> r, amount |-> t.n]]
    BY DEF Order
  <2>. QED  BY <2>1 DEF MoneyTypeOK
<1>5. tasks' = tasks \ {t}
  BY TaskEnds DEF Order
<1>. HIDE DEF r
<1>6. BooksOnce
  BY <1>2 DEF BooksOnce
<1>7. TasksAreSound'
  BY <1>2, <1>3, <1>5, <1>6, TaskMoves
<1>8. BookedFirst' /\ MintedOnline'
  BY <1>1, <1>2, <1>3, <1>4 DEF BookedFirst, MintedOnline
<1>9. CashIsCollected' /\ UnbilledIsUnpaid' /\ WalletPays' /\ PaidOfferIsUsed'
  BY <1>2, <1>3 DEF CashIsCollected, UnbilledIsUnpaid, WalletPays, PaidOfferIsUsed
<1>10. DebitSettles'
  BY <1>1, <1>2, <1>3, <1>5 DEF DebitSettles
<1>. QED  BY <1>7, <1>8, <1>9, <1>10

\* The wallet's debit keeps the invariant.
LEMMA DebitStep == ASSUME MoneyTypeOK, MoneyInv, NEW t \in tasks, Debit(t) PROVE MoneyInv'
<1>. USE DEF MoneyInv, tripVars, offerVars, payVars, gatewayVars, countVars
<1>. DEFINE r == t.ride
<1>1. /\ t.at = "debit" /\ r \in Rides /\ TaskIsSound(t) /\ channel[r] = "wallet"
      /\ payment[r].st \in {"pending", "completed"} /\ ride[r] # "unbooked"
  BY AtStatement DEF Debit, TaskIsSound
<1>2. UNCHANGED <<ride, channel, redemption, payment, collected, txn, failures>>
  BY DEF Debit
<1>3. /\ tasks \ {t} \subseteq tasks'
      /\ \A u \in tasks' : u \in tasks \/ (u.at = "confirm" /\ u.ride = r /\ u.op = t.op /\ u.txn = t.txn)
  BY TaskEnds, TaskGoes DEF Debit, Steps
<1>4. /\ \A s \in Rides \ {r} : debited'[s] = debited[s]
      /\ debited'[r] > 0 => debited[r] > 0 \/ \E u \in tasks' : u.at = "confirm" /\ u.ride = r
  <2>1. CASE UNCHANGED walletVars
    BY <2>1 DEF walletVars
  <2>2. CASE Goes(t, "confirm") /\ debited' = [debited EXCEPT ![r] = t.n]
    <3>1. \E u \in tasks' : u.at = "confirm" /\ u.ride = r
      BY <2>2, TaskGoes DEF Steps
    <3>. QED  BY <2>2, <3>1 DEF MoneyTypeOK
  <2>. QED  BY <2>1, <2>2 DEF Debit
<1>. HIDE DEF r
<1>5. BooksOnce
  BY <1>2 DEF BooksOnce
<1>6. TasksAreSound'
  <2>1. ASSUME NEW u \in tasks', u.at = "confirm", u.ride = r, u.op = t.op, u.txn = t.txn
        PROVE  TaskIsSound(u)'
    BY <1>1, <1>2, <2>1 DEF TaskIsSound
  <2>. QED  BY <1>2, <1>3, <1>5, <2>1, TaskMoves
<1>7. BookedFirst' /\ MintedOnline' /\ CashIsCollected' /\ UnbilledIsUnpaid' /\ PaidOfferIsUsed'
  BY <1>2 DEF BookedFirst, MintedOnline, CashIsCollected, UnbilledIsUnpaid, PaidOfferIsUsed
<1>8. WalletPays'
  BY <1>1, <1>2, <1>4 DEF WalletPays
<1>9. DebitSettles'
  BY <1>1, <1>2, <1>3, <1>4 DEF DebitSettles, WalletPays
<1>. QED  BY <1>6, <1>7, <1>8, <1>9

\* A confirmation, with its booking and consumption, keeps the invariant.
LEMMA ConfirmStep == ASSUME MoneyTypeOK, MoneyInv, NEW t \in tasks, Confirm(t) PROVE MoneyInv'
<1>. USE DEF MoneyInv, tripVars, walletVars, unchangedByPaying
<1>. DEFINE r == t.ride
<1>1. /\ t.at = "confirm" /\ r \in Rides /\ TaskIsSound(t) /\ ride[r] # "unbooked"
      /\ channel[r] = "wallet" => t.txn = NoTxn /\ t.op # "payu"
      /\ t.op = "payu" => channel[r] = "online" /\ t.txn \in Txns
  BY AtStatement DEF Confirm, TaskIsSound
<1>2. UNCHANGED <<ride, channel, collected, balance, debited, txn, failures>>
  BY DEF Confirm
<1>3. /\ tasks \ {t} \subseteq tasks'
      /\ \A u \in tasks' : u \in tasks \/ (u.at = "judge" /\ u.ride = r /\ u.op = "payu" /\ u.txn = t.txn)
  BY TaskEnds, TaskGoes DEF Confirm, Steps
<1>4. CASE payment[r].st = "pending"
  <2>1. /\ payment'[r].st = "completed" /\ payment'[r].txn = payment[r].txn
        /\ channel[r] = "wallet" => payment'[r].payer = "wallet"
        /\ \A s \in Rides \ {r} : payment'[s] = payment[s]
    <3>1. payment[r] \in PaymentRow
      BY <1>1 DEF MoneyTypeOK
    <3>2. payment' = [payment EXCEPT ![r] =
              [payment[r] EXCEPT !.st = "completed", !.by = t.txn,
                                 !.payer = IF t.txn = NoTxn THEN "wallet" ELSE "payu"]]
      BY <1>4 DEF Confirm, Confirmable
    <3>. QED  BY <1>1, <3>1, <3>2 DEF MoneyTypeOK, PaymentRow
  <2>2. redemption' = Consumed(r)
    BY <1>4 DEF Confirm, Confirmable
  <2>3. redemption'[r] # "reserved" /\ \A s \in Rides \ {r} : redemption'[s] = redemption[s]
    BY <1>1, <2>2 DEF Consumed, MoneyTypeOK
  <2>. HIDE DEF r
  <2>4. BooksOnce
    BY <1>2, <2>3 DEF BooksOnce
  <2>5. TasksAreSound'
    <3>1. ASSUME NEW u \in tasks', u.at = "judge", u.ride = r, u.op = "payu", u.txn = t.txn
          PROVE  TaskIsSound(u)'
      BY <1>1, <1>2, <1>3, <3>1, <1>4 DEF TaskIsSound, r, Confirm, Confirmable, Ends, TasksAreSound
    <3>. QED  BY <1>2, <1>3, <2>1, <2>4, <3>1, TaskMoves
  <2>6. BookedFirst' /\ MintedOnline'
    BY <1>1, <1>2, <2>1 DEF BookedFirst, MintedOnline
  <2>7. CashIsCollected' /\ UnbilledIsUnpaid' /\ WalletPays'
    BY <1>1, <1>2, <1>4, <2>1 DEF CashIsCollected, UnbilledIsUnpaid, WalletPays
  <2>8. PaidOfferIsUsed'
    BY <1>1, <2>1, <2>3 DEF PaidOfferIsUsed
  <2>9. DebitSettles'
    <3>. SUFFICES ASSUME NEW s \in Rides, debited[s] > 0, ~(failures > 0)
                  PROVE  \/ payment'[s].st = "completed" /\ payment'[s].payer = "wallet"
                         \/ payment'[s].st = "pending" /\ \E u \in tasks' : u.at = "confirm" /\ u.ride = s
      BY <1>2 DEF DebitSettles
    <3>1. CASE s = r
      BY <1>2, <2>1, <3>1 DEF WalletPays
    <3>2. CASE s # r
      BY <1>3, <2>1, <3>2 DEF DebitSettles, r
    <3>. QED  BY <3>1, <3>2
  <2>. QED  BY <2>5, <2>6, <2>7, <2>8, <2>9
<1>5. CASE payment[r].st # "pending"
  <2>1. UNCHANGED <<payment, redemption>>
    BY <1>5 DEF Confirm, Confirmable
  <2>. HIDE DEF r
  <2>2. BooksOnce
    BY <1>2, <2>1 DEF BooksOnce
  <2>3. TasksAreSound'
    <3>1. ASSUME NEW u \in tasks', u.at = "judge", u.ride = r, u.op = "payu", u.txn = t.txn
          PROVE  u \in tasks \/ TaskIsSound(u)'
      <4>1. u \in tasks \/ t.op = "payu"
        BY DEF Confirm, Ends
      <4>. QED  BY <1>1, <1>2, <3>1, <4>1 DEF TaskIsSound
    <3>. QED  BY <1>2, <1>3, <2>1, <2>2, <3>1, TaskMoves
  <2>4. BookedFirst' /\ MintedOnline' /\ CashIsCollected' /\ UnbilledIsUnpaid' /\ WalletPays'
    BY <1>2, <2>1 DEF BookedFirst, MintedOnline, CashIsCollected, UnbilledIsUnpaid, WalletPays
  <2>5. PaidOfferIsUsed'
    BY <2>1 DEF PaidOfferIsUsed
  <2>6. DebitSettles'
    BY <1>2, <1>3, <1>5, <2>1 DEF DebitSettles, r
  <2>. QED  BY <2>3, <2>4, <2>5, <2>6
<1>. QED  BY <1>4, <1>5

\* A cash collection's claim keeps the invariant.
LEMMA ClaimStep == ASSUME MoneyTypeOK, MoneyInv, NEW t \in tasks, Claim(t) PROVE MoneyInv'
<1>. USE DEF MoneyInv, tripVars, walletVars, gatewayVars, unchangedByPaying
<1>. DEFINE r == t.ride
<1>1. /\ t.at = "claim" /\ r \in Rides /\ channel[r] = "cash" /\ ride[r] # "unbooked"
      /\ payment[r].st \in {"none", "completed"}
      /\ payment[r].st = "completed" <=> r \in collected
  BY AtStatement DEF Claim, TaskIsSound, CashIsCollected
<1>2. UNCHANGED <<ride, channel, balance, debited, txn, failures>> /\ tasks' = tasks \ {t}
  BY TaskEnds DEF Claim
<1>3. /\ collected' = collected \cup {r}
      /\ payment'[r].st = "completed" /\ payment'[r].txn \in {payment[r].txn, NoTxn}
      /\ \A s \in Rides \ {r} : payment'[s] = payment[s]
  BY <1>1 DEF Claim, Recorded, MoneyTypeOK
<1>4. /\ \A s \in Rides \ {r} : redemption'[s] = redemption[s]
      /\ redemption'[r] # "reserved"
  BY <1>1 DEF Claim, Consumed, MoneyTypeOK, PaidOfferIsUsed
<1>. HIDE DEF r
<1>5. BooksOnce
  BY <1>2, <1>4 DEF BooksOnce
<1>6. TasksAreSound'
  BY <1>1, <1>2, <1>3, <1>5, TaskMoves
<1>7. BookedFirst' /\ MintedOnline'
  BY <1>1, <1>2, <1>3 DEF BookedFirst, MintedOnline
<1>8. CashIsCollected' /\ UnbilledIsUnpaid' /\ WalletPays'
  BY <1>1, <1>2, <1>3 DEF CashIsCollected, UnbilledIsUnpaid, WalletPays
<1>9. PaidOfferIsUsed'
  BY <1>3, <1>4 DEF PaidOfferIsUsed
<1>10. DebitSettles'
  BY <1>1, <1>2, <1>3 DEF DebitSettles, WalletPays
<1>. QED  BY <1>6, <1>7, <1>8, <1>9, <1>10

\* A retry that reopens a bill and a callback that fails one keep the invariant.
LEMMA ResetStep ==
    ASSUME MoneyTypeOK, MoneyInv, NEW t \in tasks, ReopenPayment(t) \/ FailPayment(t) \/ Reset(t)
    PROVE  MoneyInv'
<1>. USE DEF MoneyInv, tripVars, offerVars, walletVars, gatewayVars, countVars
<1>. DEFINE r == t.ride
<1>1. /\ t.at \in {"reopen", "fail", "reset"} /\ r \in Rides /\ TaskIsSound(t)
      /\ ride[r] # "unbooked" /\ channel[r] \in {"cash", "online", "wallet"}
      /\ t.at \in {"reopen", "fail"} => channel[r] = "online"
  BY AtStatement DEF ReopenPayment, FailPayment, Reset, TaskIsSound
<1>2. UNCHANGED <<ride, channel, redemption, collected, balance, debited, txn, failures>>
  BY DEF ReopenPayment, FailPayment, Reset
<1>3. /\ \A s \in Rides \ {r} : payment'[s] = payment[s]
      /\ payment'[r].txn = payment[r].txn /\ payment'[r].payer = payment[r].payer
      /\ payment'[r].by = payment[r].by
      /\ \/ payment'[r].st = payment[r].st
         \/ payment[r].st \in {"pending", "failed"} /\ payment'[r].st = "pending"
         \/ payment[r].st = "pending" /\ payment'[r].st = "failed" /\ t.at = "fail"
  <2>1. payment[r] \in PaymentRow
    BY <1>1 DEF MoneyTypeOK
  <2>2. CASE ReopenPayment(t)
    BY <1>1, <2>1, <2>2 DEF ReopenPayment, MoneyTypeOK, PaymentRow
  <2>3. CASE FailPayment(t)
    BY <1>1, <2>1, <2>3 DEF FailPayment, MoneyTypeOK, PaymentRow
  <2>4. CASE Reset(t)
    BY <1>1, <2>1, <2>4 DEF Reset, MoneyTypeOK, PaymentRow
  <2>. QED  BY <2>2, <2>3, <2>4
<1>4. /\ tasks \ {t} \subseteq tasks'
      /\ \A u \in tasks' : \/ u \in tasks
                           \/ /\ u.ride = r /\ u.op = t.op /\ u.txn = t.txn
                              /\ \/ t.at = "reopen" /\ u.at = "confirm"
                                 \/ /\ t.at = "reset" /\ payment'[r].st = "pending"
                                    /\ u.at = IF channel[r] = "online" THEN "order" ELSE "debit"
  <2>1. CASE Ends(t)
    BY <2>1, TaskEnds
  <2>2. CASE ReopenPayment(t)
    BY <2>2, TaskGoes DEF ReopenPayment, Steps
  <2>3. CASE Reset(t) /\ ~Ends(t)
    <3>1. t.at = "reset" /\ Goes(t, IF channel[r] = "online" THEN "order" ELSE "debit")
      BY <2>3 DEF Reset
    <3>2. payment'[r].st = "pending"
      BY <1>1, <2>3 DEF Reset, MoneyTypeOK, PaymentRow
    <3>3. (IF channel[r] = "online" THEN "order" ELSE "debit") \in Steps
      BY DEF Steps
    <3>. QED  BY <3>1, <3>2, <3>3, TaskGoes
  <2>. QED  BY <2>1, <2>2, <2>3 DEF FailPayment
<1>5. t.at = "reset" /\ channel[r] = "cash" => \A u \in tasks' : u \in tasks
  BY <1>1, TaskEnds DEF Reset, ReopenPayment, FailPayment, CashIsCollected
<1>. HIDE DEF r
<1>6. BooksOnce
  BY <1>2 DEF BooksOnce
<1>7. TasksAreSound'
  <2>1. ASSUME NEW u \in tasks', u \notin tasks PROVE TaskIsSound(u)'
    BY <1>1, <1>2, <1>4, <1>5, <2>1 DEF TaskIsSound
  <2>. QED  BY <1>1, <1>2, <1>3, <1>6, <2>1, TaskMoves
<1>8. BookedFirst' /\ MintedOnline'
  BY <1>1, <1>2, <1>3 DEF BookedFirst, MintedOnline
<1>9. CashIsCollected' /\ UnbilledIsUnpaid' /\ WalletPays'
  BY <1>1, <1>2, <1>3 DEF CashIsCollected, UnbilledIsUnpaid, WalletPays
<1>10. PaidOfferIsUsed'
  BY <1>2, <1>3 DEF PaidOfferIsUsed
<1>11. DebitSettles'
  BY <1>1, <1>2, <1>3, <1>4 DEF DebitSettles, WalletPays
<1>. QED  BY <1>7, <1>8, <1>9, <1>10, <1>11

\* A step of the money paths keeps the invariant.
LEMMA MoneyInvStep == ASSUME MoneyTypeOK, MoneyInv, [MoneyNext]_moneyVars PROVE MoneyInv'
<1>1. CASE UNCHANGED moneyVars
  <2>1. /\ UNCHANGED <<ride, channel, payment, collected, walletVars, txn, redemption, tasks, failures>>
        /\ BooksOnce
    BY <1>1 DEF moneyVars, tripVars, offerVars, payVars, gatewayVars, countVars, BooksOnce
  <2>. QED  BY <2>1, StaysSound, QuietStep DEF KeepsConfirms
<1>2. CASE OfferNext
  BY <1>2, OfferInvStep
<1>3. ASSUME NEW r \in Rides,
             \/ StartTrip(r) \/ EndTrip(r) \/ BeginEarlyEnd(r) \/ StrandedSweep(r) \/ BeginCollect(r)
             \/ Poll(r) \/ BeginRetry(r)
      PROVE  MoneyInv'
  BY <1>3, RideInvStep
<1>4. ASSUME NEW k \in Txns, RiderPays(k) \/ Notify(k) PROVE MoneyInv'
  BY <1>4, GatewayInvStep
<1>5. ASSUME NEW u \in Users, FundWallet(u) PROVE MoneyInv'
  <2>1. /\ UNCHANGED <<ride, channel, payment, collected, debited, txn, redemption, tasks, failures>>
        /\ BooksOnce
    BY <1>5 DEF FundWallet, tripVars, offerVars, payVars, gatewayVars, countVars, BooksOnce
  <2>2. TasksAreSound'
    BY <2>1, StaysSound DEF TasksAreSound
  <2>. QED
    BY <2>1, <2>2
    DEF MoneyInv, BookedFirst, MintedOnline, CashIsCollected, UnbilledIsUnpaid, WalletPays,
        PaidOfferIsUsed, DebitSettles
<1>6. ASSUME NEW t \in tasks, TaskStep(t) \/ Die(t) PROVE MoneyInv'
  BY <1>6, QuietTaskStep, RecordStep, OrderStep, DebitStep, ConfirmStep, ClaimStep, ResetStep
  DEF TaskStep
<1>. QED  BY <1>1, <1>2, <1>3, <1>4, <1>5, <1>6 DEF MoneyNext, PaymentNext

\* Types and invariant hold in every state of the money paths.
LEMMA MoneyInvAlways == MoneySafety => [](MoneyTypeOK /\ MoneyInv)
<1>1. MoneyInit => MoneyTypeOK
  <2>. SUFFICES ASSUME MoneyInit PROVE MoneyTypeOK
    OBVIOUS
  <2>1. NoPayment \in PaymentRow /\ [st |-> "none", ride |-> NoRide, amount |-> 0] \in GatewayRow
    BY DEF NoPayment, PaymentRow, Payers, GatewayRow
  <2>2. payment \in [Rides -> PaymentRow] /\ txn \in [Txns -> GatewayRow]
    BY <2>1 DEF MoneyInit
  <2>3. offer \in [st : OfferState, budget : Nat, spent : Nat, count : Nat]
    BY BudgetsAreNat DEF MoneyInit, OfferState
  <2>4. ride \in [Rides -> RideStatus] /\ redemption \in [Rides -> RedemptionStatus]
    BY DEF MoneyInit, RideStatus, RedemptionStatus
  <2>. QED  BY <2>2, <2>3, <2>4, MixesTyped DEF MoneyInit, MoneyTypeOK
<1>2. MoneyInit => MoneyInv
  BY DEF MoneyInit, NoPayment, MoneyInv, BookedFirst, MintedOnline, TasksAreSound, CashIsCollected,
     UnbilledIsUnpaid, WalletPays, PaidOfferIsUsed, DebitSettles
<1>. QED  BY <1>1, <1>2, MoneyTypeStep, MoneyInvStep, PTL DEF MoneySafety

-----------------------------------------------------------------------------
(* What follows. *)

\* Amounts stay natural numbers and rows stay rows, whatever requests interleave: no budget,
\* use or balance is ever taken below zero.
THEOREM MoneyTypeCorrect == MoneySafety => []MoneyTypeOK
  BY MoneyInvAlways, PTL

\* A settled bill has used its offer up, for any number of rides and requests: the stale
\* sweep finds nothing to give back.
THEOREM PaidOfferUsed == MoneySafety => []PaidOfferIsUsed
  BY MoneyInvAlways, PTL DEF MoneyInv

\* A debit of the rider's wallet settles the ride, or is about to, unless a process died.
THEOREM DebitIsSettled == MoneySafety => []DebitSettles
  BY MoneyInvAlways, PTL DEF MoneyInv

-----------------------------------------------------------------------------
(* Payments implement RideCharge. *)

ChargeRow == [st : {"none", "due", "settled"}, amount : Nat, payer : ChargePayers, booked : Nat]

\* The abstract bill of a payments row: due while pending or failed, settled when completed.
LEMMA BillTyped ==
    ASSUME NEW p \in PaymentRow, NEW n \in Nat
    PROVE  /\ BillOf(p, n) \in ChargeRow
           /\ BillOf(p, n).st = "none" <=> p.st = "none"
           /\ BillOf(p, n).st = "settled" <=> p.st = "completed"
           /\ BillOf(p, n).st = "due" <=> p.st \in {"pending", "failed"}
           /\ BillOf(p, n).amount = p.amount /\ BillOf(p, n).payer = <<p.payer, p.by>>
           /\ BillOf(p, n).booked = n
  BY DEF BillOf, PaymentRow, ChargeRow, ChargePayers

\* A bill is its four fields.
LEMMA SameRow ==
    ASSUME NEW a \in ChargeRow, NEW b \in ChargeRow, a.st = b.st, a.amount = b.amount,
           a.payer = b.payer, a.booked = b.booked
    PROVE  a = b
  BY DEF ChargeRow

\* The bill of a row of which only the transaction or the discount changed.
LEMMA SameBill ==
    ASSUME NEW p \in PaymentRow, NEW q \in PaymentRow, NEW n \in Nat,
           q.amount = p.amount, q.payer = p.payer, q.by = p.by,
           q.st = p.st \/ {p.st, q.st} \subseteq {"pending", "failed"}
    PROVE  BillOf(q, n) = BillOf(p, n)
<1>1. /\ BillOf(q, n) \in ChargeRow /\ BillOf(p, n) \in ChargeRow
      /\ BillOf(q, n).amount = BillOf(p, n).amount /\ BillOf(q, n).payer = BillOf(p, n).payer
      /\ BillOf(q, n).booked = BillOf(p, n).booked
  BY BillTyped
<1>2. BillOf(q, n).st = BillOf(p, n).st
  BY DEF BillOf
<1>. QED  BY <1>1, <1>2, SameRow

\* RideCharge's steps, as one bill before and after.
LEMMA BillStep ==
    ASSUME NEW c \in [Rides -> ChargeRow], NEW d \in [Rides -> ChargeRow], NEW r \in Rides,
           \A s \in Rides \ {r} : d[s] = c[s],
           d[r].st = "due", d[r].payer = c[r].payer, d[r].booked = c[r].booked
    PROVE  d = [c EXCEPT ![r].st = "due", ![r].amount = d[r].amount]
<1>. DEFINE w == [c[r] EXCEPT !.st = "due", !.amount = d[r].amount]
<1>1. w \in ChargeRow /\ w.st = "due" /\ w.amount = d[r].amount
      /\ w.payer = c[r].payer /\ w.booked = c[r].booked
  BY DEF ChargeRow
<1>2. [c EXCEPT ![r].st = "due", ![r].amount = d[r].amount] = [c EXCEPT ![r] = w]
  OBVIOUS
<1>. HIDE DEF w
<1>3. d[r] = w
  BY <1>1, SameRow
<1>. QED  BY <1>2, <1>3

\* Every statement bills a ride, settles its bill, does both (cash), or leaves it alone.
LEMMA ChargeStep ==
    ASSUME MoneyTypeOK, MoneyTypeOK', MoneyInv, [MoneyNext]_moneyVars
    PROVE  [ChargeOfRide!Next]_Charges
<1>1. /\ \A s \in Rides : payment[s] \in PaymentRow /\ payment'[s] \in PaymentRow
                          /\ settled[s] \in Nat /\ settled'[s] \in Nat
      /\ \A s \in Rides : Charges[s] = BillOf(payment[s], settled[s])
                          /\ Charges'[s] = BillOf(payment'[s], settled'[s])
  BY DEF MoneyTypeOK, Charges
<1>2. Charges \in [Rides -> ChargeRow] /\ Charges' \in [Rides -> ChargeRow]
  <2>1. \A s \in Rides : BillOf(payment[s], settled[s]) \in ChargeRow
                         /\ BillOf(payment'[s], settled'[s]) \in ChargeRow
    BY <1>1, BillTyped
  <2>. QED  BY <2>1 DEF Charges
<1>3. ASSUME \A s \in Rides : Charges'[s] = Charges[s] PROVE Charges' = Charges
  BY <1>2, <1>3
<1>4. CASE UNCHANGED <<payment, settled>>
  BY <1>4 DEF Charges
<1>5. ASSUME NEW t \in tasks, Record(t) PROVE [ChargeOfRide!Next]_Charges
  <2>. DEFINE r == t.ride
  <2>1. r \in Rides /\ UNCHANGED settled
    BY <1>5, AtStatement DEF Record
  <2>2. CASE payment[r].st # "none"
    BY <1>4, <1>5, <2>1, <2>2 DEF Record, Recorded
  <2>3. CASE payment[r].st = "none"
    <3>1. /\ payment'[r].st = "pending" /\ payment'[r].payer = "nobody" /\ payment'[r].by = NoTxn
          /\ payment'[r].amount \in Nat
          /\ \A s \in Rides \ {r} : payment'[s] = payment[s]
      BY <1>1, <1>5, <2>1, <2>3 DEF Record, Recorded, MoneyTypeOK, PaymentRow
    <3>2. payment[r].payer = "nobody" /\ payment[r].by = NoTxn
      BY <2>1, <2>3 DEF MoneyInv, UnbilledIsUnpaid
    <3>. HIDE DEF r
    <3>3. /\ Charges[r].st = "none" /\ Charges'[r].st = "due" /\ Charges'[r].amount \in Nat
          /\ Charges'[r].payer = Charges[r].payer /\ Charges'[r].booked = Charges[r].booked
          /\ \A s \in Rides \ {r} : Charges'[s] = Charges[s]
      BY <1>1, <2>1, <2>3, <3>1, <3>2, BillTyped
    <3>4. Charges' = [Charges EXCEPT ![r].st = "due", ![r].amount = Charges'[r].amount]
      BY <1>2, <2>1, <3>3, BillStep
    <3>5. ChargeOfRide!Bill(r)
      BY <3>3, <3>4 DEF ChargeOfRide!Bill
    <3>. QED  BY <2>1, <3>5 DEF ChargeOfRide!Next
  <2>. QED  BY <2>2, <2>3
<1>6. ASSUME NEW t \in tasks, Order(t) \/ ReopenPayment(t) \/ FailPayment(t) \/ Reset(t)
      PROVE  Charges' = Charges
  <2>. DEFINE r == t.ride
  <2>1. r \in Rides /\ UNCHANGED settled
    BY <1>6, AtStatement DEF Order, ReopenPayment, FailPayment, Reset
  <2>2. /\ \A s \in Rides \ {r} : payment'[s] = payment[s]
        /\ payment'[r].amount = payment[r].amount /\ payment'[r].payer = payment[r].payer
        /\ payment'[r].by = payment[r].by
        /\ payment'[r].st = payment[r].st \/ {payment[r].st, payment'[r].st} \subseteq {"pending", "failed"}
    <3>1. CASE Order(t)
      <4>1. PICK k \in Txns : payment' = [payment EXCEPT ![r].txn = k]
        BY <3>1 DEF Order
      <4>. QED  BY <1>1, <2>1, <4>1 DEF MoneyTypeOK, PaymentRow
    <3>2. CASE ReopenPayment(t)
      BY <1>1, <2>1, <3>2 DEF ReopenPayment, MoneyTypeOK, PaymentRow
    <3>3. CASE FailPayment(t)
      BY <1>1, <2>1, <3>3 DEF FailPayment, MoneyTypeOK, PaymentRow
    <3>4. CASE Reset(t)
      BY <1>1, <2>1, <3>4 DEF Reset, MoneyTypeOK, PaymentRow
    <3>. QED  BY <1>6, <3>1, <3>2, <3>3, <3>4
  <2>. HIDE DEF r
  <2>3. BillOf(payment'[r], settled[r]) = BillOf(payment[r], settled[r])
    BY <1>1, <2>1, <2>2, SameBill
  <2>. QED  BY <1>1, <1>3, <2>1, <2>2, <2>3
<1>7. ASSUME NEW t \in tasks, Confirm(t) PROVE [ChargeOfRide!Next]_Charges
  <2>. DEFINE r == t.ride
  <2>1. r \in Rides /\ t.txn \in Txns \cup {NoTxn}
    BY AtStatement, TaskTyped
  <2>2. CASE payment[r].st # "pending"
    BY <1>4, <1>7, <2>2 DEF Confirm, Confirmable
  <2>3. CASE payment[r].st = "pending"
    <3>1. /\ payment' = [payment EXCEPT ![r] =
                [payment[r] EXCEPT !.st = "completed", !.by = t.txn,
                                   !.payer = IF t.txn = NoTxn THEN "wallet" ELSE "payu"]]
          /\ settled' = [settled EXCEPT ![r] = @ + 1]
      BY <1>7, <2>3 DEF Confirm, Confirmable
    <3>2. /\ payment'[r].st = "completed" /\ payment'[r].amount = payment[r].amount
          /\ settled'[r] = settled[r] + 1
          /\ \A s \in Rides \ {r} : payment'[s] = payment[s] /\ settled'[s] = settled[s]
      BY <1>1, <2>1, <3>1 DEF MoneyTypeOK, PaymentRow
    <3>. HIDE DEF r
    <3>3. /\ Charges[r].st = "due" /\ Charges'[r].st = "settled"
          /\ Charges'[r].amount = Charges[r].amount /\ Charges'[r].booked = Charges[r].booked + 1
          /\ \A s \in Rides \ {r} : Charges'[s] = Charges[s]
      BY <1>1, <2>1, <2>3, <3>2, BillTyped
    <3>4. Charges' = [Charges EXCEPT ![r].st = "settled", ![r].payer = Charges'[r].payer,
                                     ![r].booked = @ + 1]
      <4>. DEFINE w == [Charges[r] EXCEPT !.st = "settled", !.payer = Charges'[r].payer,
                                          !.booked = @ + 1]
      <4>1. Charges[r] \in ChargeRow /\ Charges'[r] \in ChargeRow
        BY <1>2, <2>1
      <4>2. w = Charges'[r]
        <5>1. w \in ChargeRow /\ w.st = "settled" /\ w.amount = Charges[r].amount
              /\ w.payer = Charges'[r].payer /\ w.booked = Charges[r].booked + 1
          <6>1. PICK a \in ChargeRow, b \in ChargeRow : a = Charges[r] /\ b = Charges'[r]
            BY <4>1
          <6>. DEFINE v == [a EXCEPT !.st = "settled", !.payer = b.payer, !.booked = @ + 1]
          <6>2. a.booked + 1 \in Nat /\ b.payer \in ChargePayers
            BY DEF ChargeRow
          <6>3. v \in ChargeRow /\ v.st = "settled" /\ v.amount = a.amount
                /\ v.payer = b.payer /\ v.booked = a.booked + 1
            BY <6>2 DEF ChargeRow
          <6>. QED  BY <6>1, <6>3
        <5>. HIDE DEF w
        <5>. QED  BY <3>3, <4>1, <5>1, SameRow
      <4>. HIDE DEF w
      <4>3. Charges' = [Charges EXCEPT ![r] = w]
        BY <1>2, <2>1, <3>3, <4>2
      <4>. QED  BY <4>3 DEF w
    <3>5. Charges'[r].payer \in ChargePayers
      BY <1>2, <2>1 DEF ChargeRow
    <3>6. ChargeOfRide!Settle(r)
      BY <3>3, <3>4, <3>5 DEF ChargeOfRide!Settle
    <3>. QED  BY <2>1, <3>6 DEF ChargeOfRide!Next
  <2>. QED  BY <2>2, <2>3
<1>8. ASSUME NEW t \in tasks, Claim(t) PROVE [ChargeOfRide!Next]_Charges
  <2>. DEFINE r == t.ride
  <2>1. r \in Rides /\ channel[r] = "cash"
    BY <1>8, AtStatement DEF Claim, TaskIsSound
  <2>2. CASE r \in collected
    BY <1>4, <1>8, <2>2 DEF Claim
  <2>3. CASE r \notin collected
    <3>1. payment[r].st = "none"
      BY <2>1, <2>3 DEF MoneyInv, CashIsCollected
    <3>2. /\ payment'[r].st = "completed" /\ settled'[r] = settled[r] + 1
          /\ \A s \in Rides \ {r} : payment'[s] = payment[s] /\ settled'[s] = settled[s]
      BY <1>8, <2>1, <2>3, <3>1 DEF Claim, Recorded, MoneyTypeOK
    <3>. HIDE DEF r
    <3>3. /\ Charges[r].st = "none" /\ Charges'[r].st = "settled"
          /\ Charges'[r].booked = Charges[r].booked + 1
          /\ \A s \in Rides \ {r} : Charges'[s] = Charges[s]
      BY <1>1, <2>1, <3>1, <3>2, BillTyped
    <3>4. Charges'[r].payer \in ChargePayers /\ Charges'[r].amount \in Nat
      BY <1>2, <2>1 DEF ChargeRow
    <3>5. Charges' = [Charges EXCEPT ![r] =
              [st |-> "settled", amount |-> Charges'[r].amount, payer |-> Charges'[r].payer,
               booked |-> @.booked + 1]]
      <4>. DEFINE w == [st |-> "settled", amount |-> Charges'[r].amount,
                        payer |-> Charges'[r].payer, booked |-> Charges[r].booked + 1]
      <4>1. w \in ChargeRow /\ Charges'[r] \in ChargeRow
        BY <1>2, <2>1 DEF ChargeRow
      <4>2. Charges'[r] = w
        BY <3>3, <4>1, SameRow
      <4>. HIDE DEF w
      <4>3. Charges' = [Charges EXCEPT ![r] = w]
        BY <1>2, <2>1, <3>3, <4>2
      <4>. QED  BY <4>3 DEF w
    <3>6. ChargeOfRide!BillAndSettle(r)
      BY <3>3, <3>4, <3>5 DEF ChargeOfRide!BillAndSettle
    <3>. QED  BY <2>1, <3>6 DEF ChargeOfRide!Next
  <2>. QED  BY <2>2, <2>3
<1>9. \/ UNCHANGED <<payment, settled>>
      \/ \E t \in tasks : \/ Record(t) \/ Order(t) \/ ReopenPayment(t) \/ FailPayment(t) \/ Reset(t)
                          \/ Confirm(t) \/ Claim(t)
  <2>. USE DEF payVars
  <2>1. CASE UNCHANGED moneyVars
    BY <2>1 DEF moneyVars
  <2>2. CASE OfferNext
    BY <2>2
    DEF OfferNext, BookPlain, BookWithOffer, CancelFree, CancelWithFee, CloseNoDrivers, Reopen,
        ListStale, ReleaseStale, PatchOffer, UndoRedemption, ReturnBudget, ReturnUsage,
        ZeroDiscount, Derive, Shrink, Apply
  <2>3. CASE PaymentNext
    BY <2>3
    DEF PaymentNext, StartTrip, EndTrip, BeginEarlyEnd, StrandedSweep, BeginCollect, Poll, BeginRetry,
        FundWallet, RiderPays, Notify, Die, TaskStep, WriteFare, CloseEarly, Quote, Debit, Flag, Judge
  <2>. QED  BY <2>1, <2>2, <2>3 DEF MoneyNext
<1>. QED  BY <1>4, <1>5, <1>6, <1>7, <1>8, <1>9

\* Payments implement RideCharge, for any number of rides, callbacks, retries and sweeps: a
\* ride is billed one amount, settled once by one payer with one booking of commission and
\* earning, and never unsettled.
THEOREM PaymentsKeepTheCharge == MoneySafety => RideChargeSpec
<1>1. MoneyInit => ChargeOfRide!Init
  <2>. SUFFICES ASSUME MoneyInit PROVE ChargeOfRide!Init
    OBVIOUS
  <2>1. <<"nobody", NoTxn>> \in ChargePayers
    BY DEF ChargePayers, Payers
  <2>2. \A r \in Rides : BillOf(payment[r], settled[r]) = ChargeOfRide!Unbilled(<<"nobody", NoTxn>>)
    BY DEF MoneyInit, NoPayment, BillOf, ChargeOfRide!Unbilled
  <2>3. Charges = [r \in Rides |-> ChargeOfRide!Unbilled(<<"nobody", NoTxn>>)]
    BY <2>2 DEF Charges
  <2>. QED  BY <2>1, <2>3 DEF ChargeOfRide!Init
<1>2. MoneyTypeOK /\ MoneyTypeOK' /\ MoneyInv /\ [MoneyNext]_moneyVars => [ChargeOfRide!Next]_Charges
  BY ChargeStep
<1>. QED  BY <1>1, <1>2, MoneyInvAlways, PTL DEF MoneySafety, RideChargeSpec, ChargeOfRide!Spec

-----------------------------------------------------------------------------
(* Captured money. *)

\* Transaction k captured what ride r is billed.
PaysFor(k, r) ==
    /\ k \in Txns /\ txn[k].st = "captured" /\ txn[k].ride = r
    /\ payment[r].st # "none" /\ payment[r].amount = txn[k].amount

\* A bill the gateway settled was settled by a capture of its own ride and of its amount.
SettledByCapture ==
    \A r \in Rides, k \in Txns :
        payment[r].by = k => payment[r].st = "completed" /\ PaysFor(k, r)

\* A capture whose notification was answered with 200, so that PayU does not deliver it again,
\* has settled its ride or is left for a manual refund.
AnsweredIsAccounted ==
    \A k \in answered : k \in flagged \/ (txn[k].ride \in Rides /\ payment[txn[k].ride].by = k)

\* A row names a transaction minted for its ride.
MintedForRow ==
    \A r \in Rides : payment[r].txn # NoTxn =>
        payment[r].st # "none" /\ txn[payment[r].txn].st # "none" /\ txn[payment[r].txn].ride = r

\* What a request knows of the row and the transaction at its statement.
TaskIsPaid(t) ==
    /\ t.at = "order" => payment[t.ride].st # "none"
    /\ t.op = "payu" => t.txn \in Txns /\ txn[t.txn].st = "captured" /\ txn[t.txn].ride = t.ride
    /\ t.op \in {"payu", "poll"} /\ t.at \in {"reopen", "confirm"} => PaysFor(t.txn, t.ride)
    /\ t.op \notin {"payu", "poll"} => t.txn = NoTxn

CaptureInv ==
    /\ SettledByCapture /\ AnsweredIsAccounted /\ MintedForRow
    /\ answered \subseteq {k \in Txns : txn[k].st = "captured"}
    /\ \A t \in tasks : TaskIsPaid(t)

\* Transactions and bills stay what they are: a minted transaction keeps its ride, a captured
\* one everything, a bill its amount.
RowsStay ==
    /\ \A k \in Txns : txn[k].st # "none" => txn'[k].st # "none" /\ txn'[k].ride = txn[k].ride
    /\ \A k \in Txns : txn[k].st = "captured" => txn'[k] = txn[k]
    /\ \A r \in Rides : payment[r].st # "none" =>
        /\ payment'[r].st # "none" /\ payment'[r].amount = payment[r].amount
        /\ payment[r].st = "completed" => payment'[r].st = "completed" /\ payment'[r].by = payment[r].by

\* Who pays for a bill is written by a confirmation alone.
PayersStay == \A r \in Rides : payment'[r].by = payment[r].by

\* No row comes to name another transaction.
NamesStay == \A r \in Rides : payment'[r].txn \in {payment[r].txn, NoTxn}

\* Every step keeps minted transactions and bills.
LEMMA RowsStayStep == ASSUME MoneyTypeOK, MoneyInv, [MoneyNext]_moneyVars PROVE RowsStay
<1>1. /\ \A s \in Rides : payment[s] \in PaymentRow
      /\ \A j \in Txns : txn[j] \in GatewayRow
  BY DEF MoneyTypeOK
<1>2. CASE UNCHANGED <<payment, txn>>
  BY <1>2 DEF RowsStay
<1>3. ASSUME NEW k \in Txns, RiderPays(k) PROVE RowsStay
  <2>1. UNCHANGED payment
    BY <1>3 DEF RiderPays, payVars
  <2>. QED  BY <1>1, <1>3, <2>1 DEF RiderPays, RowsStay, MoneyTypeOK, GatewayRow
<1>4. ASSUME NEW t \in tasks, Order(t) PROVE RowsStay
  <2>1. PICK k \in Txns :
          /\ txn[k].st = "none"
          /\ txn' = [txn EXCEPT ![k] = [st |-> "open", ride |-> t.ride, amount |-> t.n]]
          /\ payment' = [payment EXCEPT ![t.ride].txn = k]
    BY <1>4 DEF Order
  <2>2. t.ride \in Rides
    BY AtStatement
  <2>3. \A s \in Rides : /\ payment'[s].st = payment[s].st /\ payment'[s].amount = payment[s].amount
                         /\ payment'[s].by = payment[s].by
    BY <1>1, <2>1, <2>2 DEF MoneyTypeOK, PaymentRow
  <2>4. \A j \in Txns : j # k => txn'[j] = txn[j]
    BY <2>1 DEF MoneyTypeOK
  <2>. QED  BY <2>1, <2>3, <2>4 DEF RowsStay
<1>5. ASSUME NEW t \in tasks,
             Record(t) \/ Confirm(t) \/ Claim(t) \/ ReopenPayment(t) \/ FailPayment(t) \/ Reset(t)
      PROVE  RowsStay
  <2>. DEFINE r == t.ride
  <2>1. r \in Rides /\ UNCHANGED txn
    BY <1>5, AtStatement
    DEF Record, Confirm, Claim, ReopenPayment, FailPayment, Reset, gatewayVars
  <2>2. /\ \A s \in Rides \ {r} : payment'[s] = payment[s]
        /\ payment[r].st # "none" =>
            /\ payment'[r].st # "none" /\ payment'[r].amount = payment[r].amount
            /\ payment[r].st = "completed" => payment'[r].st = "completed" /\ payment'[r].by = payment[r].by
    <3>1. CASE Record(t)
      BY <2>1, <3>1 DEF Record, Recorded, MoneyTypeOK
    <3>2. CASE Confirm(t)
      <4>1. CASE payment[r].st # "pending"
        BY <3>2, <4>1 DEF Confirm, Confirmable
      <4>2. CASE payment[r].st = "pending"
        <5>1. payment' = [payment EXCEPT ![r] =
                [payment[r] EXCEPT !.st = "completed", !.by = t.txn,
                                   !.payer = IF t.txn = NoTxn THEN "wallet" ELSE "payu"]]
          BY <3>2, <4>2 DEF Confirm, Confirmable
        <5>. QED  BY <1>1, <2>1, <4>2, <5>1 DEF MoneyTypeOK, PaymentRow
      <4>. QED  BY <4>1, <4>2
    <3>3. CASE Claim(t)
      BY <2>1, <3>3 DEF Claim, Recorded, MoneyTypeOK
    <3>4. CASE ReopenPayment(t)
      BY <1>1, <2>1, <3>4 DEF ReopenPayment, MoneyTypeOK, PaymentRow
    <3>5. CASE FailPayment(t)
      BY <1>1, <2>1, <3>5 DEF FailPayment, MoneyTypeOK, PaymentRow
    <3>6. CASE Reset(t)
      BY <1>1, <2>1, <3>6 DEF Reset, MoneyTypeOK, PaymentRow
    <3>. QED  BY <1>5, <3>1, <3>2, <3>3, <3>4, <3>5, <3>6
  <2>. HIDE DEF r
  <2>. QED  BY <2>1, <2>2 DEF RowsStay
<1>6. \/ UNCHANGED <<payment, txn>>
      \/ \E k \in Txns : RiderPays(k)
      \/ \E t \in tasks : \/ Record(t) \/ Order(t) \/ ReopenPayment(t) \/ FailPayment(t) \/ Reset(t)
                          \/ Confirm(t) \/ Claim(t)
  <2>1. CASE UNCHANGED moneyVars
    BY <2>1 DEF moneyVars, payVars, gatewayVars
  <2>2. CASE OfferNext
    <3>1. UNCHANGED <<payVars, gatewayVars>>
      BY <2>2
      DEF OfferNext, BookPlain, BookWithOffer, CancelFree, CancelWithFee, CloseNoDrivers, Reopen,
          ListStale, ReleaseStale, PatchOffer, UndoRedemption, ReturnBudget, ReturnUsage,
          ZeroDiscount, Derive, Shrink, Apply
    <3>. QED  BY <3>1 DEF payVars, gatewayVars
  <2>3. CASE PaymentNext
    BY <2>3
    DEF payVars, gatewayVars, PaymentNext, StartTrip, EndTrip, BeginEarlyEnd, StrandedSweep,
        BeginCollect, Poll, BeginRetry, FundWallet, Notify, Die, TaskStep, WriteFare, CloseEarly, Quote, Debit, Flag, Judge
  <2>. QED  BY <2>1, <2>2, <2>3 DEF MoneyNext
<1>. QED  BY <1>2, <1>3, <1>4, <1>5, <1>6

\* A capture goes on paying for the ride it pays for.
LEMMA PaysStill ==
    ASSUME RowsStay, NEW k, NEW r \in Rides, PaysFor(k, r) PROVE PaysFor(k, r)'
  BY DEF RowsStay, PaysFor

\* What a request knows stays true.
LEMMA StaysPaid ==
    ASSUME MoneyTypeOK, RowsStay, NEW t \in Task, TaskIsPaid(t) PROVE TaskIsPaid(t)'
<1>1. t.ride \in Rides
  BY TaskTyped
<1>2. t.at = "order" => payment'[t.ride].st # "none"
  BY <1>1 DEF TaskIsPaid, RowsStay
<1>3. t.op = "payu" => t.txn \in Txns /\ txn'[t.txn].st = "captured" /\ txn'[t.txn].ride = t.ride
  BY DEF TaskIsPaid, RowsStay
<1>. QED  BY <1>1, <1>2, <1>3, PaysStill DEF TaskIsPaid

\* A step that confirms, answers and mints nothing keeps the invariant, if what it leaves at
\* work knows what it needs.
LEMMA CaptureKept ==
    ASSUME MoneyTypeOK, MoneyTypeOK', CaptureInv, RowsStay, PayersStay, NamesStay,
           answered' = answered, flagged \subseteq flagged',
           \A u \in tasks' : u \in tasks \/ TaskIsPaid(u)'
    PROVE  CaptureInv'
<1>1. SettledByCapture'
  <2>. SUFFICES ASSUME NEW r \in Rides, NEW k \in Txns, payment'[r].by = k
                PROVE  payment'[r].st = "completed" /\ PaysFor(k, r)'
    BY DEF SettledByCapture
  <2>1. payment[r].st = "completed" /\ PaysFor(k, r)
    BY DEF CaptureInv, SettledByCapture, PayersStay
  <2>. QED  BY <2>1, PaysStill DEF RowsStay
<1>2. answered' \subseteq {k \in Txns : txn'[k].st = "captured"} /\ AnsweredIsAccounted'
  <2>1. \A k \in answered : k \in Txns /\ txn[k].st = "captured" /\ txn'[k] = txn[k]
    BY DEF CaptureInv, RowsStay
  <2>. QED  BY <2>1 DEF CaptureInv, AnsweredIsAccounted, PayersStay
<1>3. MintedForRow'
  <2>. SUFFICES ASSUME NEW r \in Rides, payment'[r].txn # NoTxn
                PROVE  /\ payment'[r].st # "none" /\ txn'[payment'[r].txn].st # "none"
                       /\ txn'[payment'[r].txn].ride = r
    BY DEF MintedForRow
  <2>1. payment'[r].txn = payment[r].txn /\ payment[r].txn \in Txns
    BY DEF NamesStay, MoneyTypeOK, PaymentRow
  <2>. QED  BY <2>1 DEF CaptureInv, MintedForRow, RowsStay
<1>4. \A u \in tasks' : TaskIsPaid(u)'
  BY StaysPaid DEF CaptureInv, MoneyTypeOK
<1>. QED  BY <1>1, <1>2, <1>3, <1>4 DEF CaptureInv

\* A request that is none of the gateway's knows no transaction.
LEMMA PlainIsPaid ==
    ASSUME NEW u, u.op \notin {"payu", "poll"}, u.txn = NoTxn,
           u.at = "order" => payment'[u.ride].st # "none"
    PROVE  TaskIsPaid(u)'
  BY DEF TaskIsPaid

\* A request that does not answer the gateway or poll it, at its next statement.
LEMMA MovedIsPaid ==
    ASSUME MoneyInv, CaptureInv, NEW t \in tasks,
           t.at \notin {"flag", "reopen", "confirm", "judge", "fail"},
           NEW u, u.op = t.op, u.ride = t.ride, u.txn \in {t.txn, NoTxn},
           u.at = "order" => payment'[t.ride].st # "none"
    PROVE  TaskIsPaid(u)'
<1>1. t.op \notin {"payu", "poll"}
  BY DEF MoneyInv, TasksAreSound, TaskIsSound
<1>2. t.txn = NoTxn
  BY <1>1 DEF CaptureInv, TaskIsPaid
<1>. QED  BY <1>1, <1>2, PlainIsPaid

\* A step that leaves payments and answers alone keeps the invariant.
LEMMA CaptureQuiet ==
    ASSUME MoneyTypeOK, MoneyTypeOK', CaptureInv, RowsStay, UNCHANGED <<payment, answered, flagged>>,
           \A u \in tasks' : u \in tasks \/ TaskIsPaid(u)'
    PROVE  CaptureInv'
<1>1. PayersStay /\ NamesStay
  BY DEF PayersStay, NamesStay
<1>. QED  BY <1>1, CaptureKept

\* The offer's steps keep the invariant.
LEMMA OfferCaptureStep ==
    ASSUME MoneyTypeOK, MoneyTypeOK', MoneyInv, CaptureInv, RowsStay, OfferNext PROVE CaptureInv'
<1>1. UNCHANGED <<payment, answered, flagged>>
  <2>1. UNCHANGED <<payVars, gatewayVars>>
    BY DEF OfferNext, BookPlain, BookWithOffer, CancelFree, CancelWithFee, CloseNoDrivers, Reopen,
       ListStale, ReleaseStale, PatchOffer, UndoRedemption, ReturnBudget, ReturnUsage,
       ZeroDiscount, Derive, Shrink, Apply
  <2>. QED  BY <2>1 DEF payVars, gatewayVars
<1>2. ASSUME NEW r \in Rides,
             BookPlain(r) \/ BookWithOffer(r) \/ CancelFree(r) \/ CancelWithFee(r) \/ CloseNoDrivers(r)
             \/ Reopen(r) \/ ListStale(r) \/ ReleaseStale(r) \/ PatchOffer
      PROVE  \A u \in tasks' : u \in tasks \/ TaskIsPaid(u)'
  <2>1. tasks' = tasks \/ tasks' = tasks \cup {NewTask("release", "undo", r)}
    BY <1>2 DEF BookPlain, BookWithOffer, CancelFree, CancelWithFee, CloseNoDrivers, Reopen,
       ListStale, ReleaseStale, PatchOffer, Start
  <2>2. TaskIsPaid(NewTask("release", "undo", r))'
    BY DEF TaskIsPaid, NewTask
  <2>. QED  BY <2>1, <2>2
<1>3. ASSUME NEW t \in tasks,
             UndoRedemption(t) \/ ReturnBudget(t) \/ ReturnUsage(t) \/ ZeroDiscount(t)
             \/ Derive(t) \/ Shrink(t) \/ Apply(t)
      PROVE  \A u \in tasks' : u \in tasks \/ TaskIsPaid(u)'
  <2>1. t.ride \in Rides /\ t.n \in Nat /\ held[t.ride] \in Nat /\ Rederived(t.ride) \in Nat
    BY TaskTyped, RederivedIsNat DEF MoneyTypeOK
  <2>2. t.at \in OfferSteps
    BY <1>3 DEF UndoRedemption, ReturnBudget, ReturnUsage, ZeroDiscount, Derive, Shrink, Apply,
       OfferSteps
  <2>. DEFINE Moved == \A u \in tasks' :
                \/ u \in tasks
                \/ u.at \in OfferSteps /\ u.ride = t.ride /\ u.op = t.op /\ u.txn \in {t.txn, NoTxn}
  <2>3. Moved
    <3>. USE DEF OfferSteps, Steps
    <3>1. CASE Ends(t)
      BY <3>1, TaskEnds
    <3>2. ASSUME NEW at \in OfferSteps, Goes(t, at) PROVE Moved
      <4>1. at \in Steps
        OBVIOUS
      <4>. QED  BY <3>2, <4>1, TaskGoes
    <3>3. ASSUME NEW at \in OfferSteps, NEW n \in Nat, Carries(t, at, n, NoTxn) PROVE Moved
      <4>1. at \in Steps /\ NoTxn \in Txns \cup {NoTxn}
        OBVIOUS
      <4>. QED  BY <3>3, <4>1, TaskCarries
    <3>. QED
      BY <1>3, <2>1, <3>1, <3>2, <3>3
      DEF UndoRedemption, ReturnBudget, ReturnUsage, ZeroDiscount, Derive, Shrink, Apply
  <2>. QED  BY <2>2, <2>3, MovedIsPaid DEF OfferSteps
<1>4. CASE PatchOffer
  <2>1. PICK r \in Rides : TRUE
    BY <1>4 DEF PatchOffer
  <2>. QED  BY <1>1, <1>2, <1>4, CaptureQuiet
<1>. QED  BY <1>1, <1>2, <1>3, <1>4, CaptureQuiet DEF OfferNext

\* The trip, its ends and the requests that begin keep the invariant: the sweep's poll goes on
\* to confirm only what PayU says was captured for the row it read.
LEMMA RideCaptureStep ==
    ASSUME MoneyTypeOK, MoneyTypeOK', MoneyInv, CaptureInv, RowsStay, NEW r \in Rides,
           \/ StartTrip(r) \/ EndTrip(r) \/ BeginEarlyEnd(r) \/ StrandedSweep(r) \/ BeginCollect(r)
           \/ Poll(r) \/ BeginRetry(r)
    PROVE  CaptureInv'
<1>1. UNCHANGED <<payment, txn, answered, flagged>>
  BY DEF StartTrip, EndTrip, BeginEarlyEnd, StrandedSweep, BeginCollect, Poll, BeginRetry,
     payVars, gatewayVars
<1>2. CASE StartTrip(r)
  BY <1>1, <1>2, CaptureQuiet DEF StartTrip
<1>3. ASSUME NEW op \in {"end", "early", "stranded", "cash"}, NEW at \in {"fare", "quote"},
             tasks' = tasks \cup {NewTask(op, at, r)}
      PROVE  CaptureInv'
  <2>1. TaskIsPaid(NewTask(op, at, r))'
    BY DEF TaskIsPaid, NewTask
  <2>. QED  BY <1>1, <1>3, <2>1, CaptureQuiet
<1>4. CASE EndTrip(r) \/ BeginEarlyEnd(r) \/ StrandedSweep(r) \/ BeginCollect(r)
  <2>1. \E op \in {"end", "early", "stranded", "cash"}, at \in {"fare", "quote"} :
            tasks' = tasks \cup {NewTask(op, at, r)}
    BY <1>4 DEF EndTrip, BeginEarlyEnd, StrandedSweep, BeginCollect, Start
  <2>. QED  BY <1>3, <2>1
<1>5. CASE Poll(r)
  <2>1. PICK k, w :
          /\ k \in Txns
          /\ tasks' = tasks \cup {w} /\ w.op = "poll" /\ w.at \in {"confirm", "fail"}
          /\ w.ride = r /\ w.txn = k /\ k = payment[r].txn /\ k # NoTxn
          /\ w.at = "confirm" => txn[k].st = "captured" /\ txn[k].amount = payment[r].amount
    <3>. DEFINE k == payment[r].txn
                v(at) == [op |-> "poll", at |-> at, ride |-> r, n |-> 0, txn |-> k]
    <3>1. PICK at \in {"confirm", "fail"} :
            /\ tasks' = tasks \cup {v(at)} /\ k # NoTxn
            /\ at = "confirm" => txn[k].st = "captured" /\ txn[k].amount = payment[r].amount
      BY <1>5 DEF Poll
    <3>2. v(at).op = "poll" /\ v(at).at = at /\ v(at).ride = r /\ v(at).txn = k
      OBVIOUS
    <3>3. k \in Txns
      BY <3>1 DEF MoneyTypeOK, PaymentRow
    <3>. HIDE DEF v
    <3>. QED  BY <3>1, <3>2, <3>3
  <2>2. payment[r].st # "none" /\ txn[k].ride = r
    BY <2>1 DEF CaptureInv, MintedForRow
  <2>3. w.at = "confirm" => PaysFor(k, r)'
    BY <1>1, <2>1, <2>2 DEF PaysFor
  <2>4. TaskIsPaid(w)'
    BY <2>1, <2>3 DEF TaskIsPaid
  <2>. QED  BY <1>1, <2>1, <2>4, CaptureQuiet
<1>6. CASE BeginRetry(r)
  <2>1. PICK w : /\ tasks' = tasks \cup {w}
                 /\ w = [NewTask("retry", "reset", r) EXCEPT !.n = payment[r].amount]
    BY <1>6 DEF BeginRetry, Start
  <2>2. w.op = "retry" /\ w.at = "reset" /\ w.ride = r /\ w.txn = NoTxn
    BY <2>1 DEF NewTask
  <2>3. TaskIsPaid(w)'
    BY <2>2, PlainIsPaid
  <2>. QED  BY <1>1, <2>1, <2>3, CaptureQuiet
<1>. QED  BY <1>2, <1>4, <1>5, <1>6

\* A notification knows the row of the captured transaction, or flags it.
LEMMA NotifyCaptureStep ==
    ASSUME MoneyTypeOK, MoneyTypeOK', MoneyInv, CaptureInv, RowsStay, NEW k \in Txns, Notify(k)
    PROVE  CaptureInv'
<1>1. UNCHANGED <<payment, txn, answered, flagged>> /\ txn[k].st = "captured"
  BY DEF Notify, payVars, gatewayVars
<1>2. PICK w, r :
        /\ tasks' = tasks \cup {w} /\ w.op = "payu" /\ w.at \in {"flag", "reopen", "confirm"}
        /\ w.ride = r /\ w.txn = k /\ r = txn[k].ride
        /\ w.at # "flag" => /\ \E s \in Rides : payment[s].txn = k
                            /\ payment[r].amount = txn[k].amount
  <2>. DEFINE v(at) == [op |-> "payu", at |-> at, ride |-> txn[k].ride, n |-> 0, txn |-> k]
  <2>1. PICK at \in {"flag", "reopen", "confirm"} :
          /\ tasks' = tasks \cup {v(at)}
          /\ at # "flag" => /\ \E s \in Rides : payment[s].txn = k
                            /\ payment[txn[k].ride].amount = txn[k].amount
    BY DEF Notify
  <2>2. v(at).op = "payu" /\ v(at).at = at /\ v(at).ride = txn[k].ride /\ v(at).txn = k
    OBVIOUS
  <2>. HIDE DEF v
  <2>. QED  BY <2>1, <2>2
<1>3. w.at # "flag" => PaysFor(k, r)
  <2>. SUFFICES ASSUME w.at # "flag" PROVE PaysFor(k, r)
    OBVIOUS
  <2>1. PICK s \in Rides : payment[s].txn = k
    BY <1>2
  <2>2. k # NoTxn
    BY MoneyBoundsAreNat DEF Txns, NoTxn
  <2>3. r = s /\ payment[s].st # "none"
    BY <1>2, <2>1, <2>2 DEF CaptureInv, MintedForRow
  <2>. QED  BY <1>1, <1>2, <2>1, <2>3 DEF PaysFor
<1>4. txn'[k].st = "captured" /\ txn'[k].ride = r /\ (w.at # "flag" => PaysFor(k, r)')
  BY <1>1, <1>2, <1>3 DEF PaysFor
<1>5. TaskIsPaid(w)'
  BY <1>2, <1>4 DEF TaskIsPaid
<1>. QED  BY <1>1, <1>2, <1>5, CaptureQuiet

\* The statements that write neither a row nor an answer keep the invariant.
LEMMA QuietCaptureStep ==
    ASSUME MoneyTypeOK, MoneyTypeOK', MoneyInv, CaptureInv, RowsStay, NEW t \in tasks,
           WriteFare(t) \/ CloseEarly(t) \/ Quote(t) \/ Debit(t) \/ Die(t)
    PROVE  CaptureInv'
<1>1. UNCHANGED <<payment, answered, flagged>>
  BY DEF WriteFare, CloseEarly, Quote, Debit, Die, payVars, gatewayVars
<1>2. t \in Task /\ t.ride \in Rides
  BY AtStatement
<1>3. CASE Die(t)
  BY <1>1, <1>3, TaskEnds, CaptureQuiet DEF Die
<1>4. CASE WriteFare(t) \/ CloseEarly(t) \/ Quote(t) \/ Debit(t)
  <2>1. t.at \in {"fare", "close", "quote", "debit"}
    BY <1>4 DEF WriteFare, CloseEarly, Quote, Debit
  <2>2. \A u \in tasks' : \/ u \in tasks
                          \/ /\ u.at \in {"derive", "quote", "record", "claim", "confirm"}
                             /\ u.ride = t.ride /\ u.op = t.op /\ u.txn \in {t.txn, NoTxn}
    <3>1. CASE WriteFare(t)
      BY <3>1, TaskGoes DEF WriteFare, Steps
    <3>2. CASE CloseEarly(t)
      BY <3>2, TaskGoes, TaskEnds DEF CloseEarly, Steps
    <3>3. CASE Quote(t)
      <4>1. Finalise(t.ride)
        BY <3>3 DEF Quote
      <4>2. Payable(Fare(t.ride), discount'[t.ride]) \in Nat
        BY <1>2, <4>1, FinaliseTyped, FareIsNat, AmountsAreNat
      <4>. QED  BY <3>3, <4>2, TaskCarries, TaskGoes, TaskEnds DEF Quote, Steps
    <3>4. CASE Debit(t)
      BY <3>4, TaskGoes, TaskEnds DEF Debit, Steps
    <3>. QED  BY <1>4, <3>1, <3>2, <3>3, <3>4
  <2>3. \A u \in tasks' : u \in tasks \/ TaskIsPaid(u)'
    BY <2>1, <2>2, MovedIsPaid
  <2>. QED  BY <1>1, <2>3, CaptureQuiet
<1>. QED  BY <1>3, <1>4

\* Billing, reopening and failing a row keep the invariant: they name no payer.
LEMMA BillCaptureStep ==
    ASSUME MoneyTypeOK, MoneyTypeOK', MoneyInv, CaptureInv, RowsStay, NEW t \in tasks,
           Record(t) \/ Claim(t) \/ ReopenPayment(t) \/ FailPayment(t) \/ Reset(t)
    PROVE  CaptureInv'
<1>. DEFINE r == t.ride
<1>1. /\ r \in Rides /\ t \in Task /\ payment[r] \in PaymentRow
      /\ UNCHANGED <<answered, flagged, txn>> /\ t.at # "confirm"
  BY AtStatement
  DEF Record, Claim, ReopenPayment, FailPayment, Reset, gatewayVars, MoneyTypeOK
<1>2. /\ \A s \in Rides \ {r} : payment'[s] = payment[s]
      /\ payment'[r].by = payment[r].by /\ payment'[r].txn \in {payment[r].txn, NoTxn}
      /\ t.at = "record" => payment'[r].st # "none"
      /\ t.at = "reset" => payment'[r].st = "pending" \/ payment' = payment
  <2>1. payment[r].st = "none" => payment[r].by = NoTxn
    BY <1>1 DEF MoneyInv, UnbilledIsUnpaid
  <2>2. CASE Record(t)
    BY <1>1, <2>1, <2>2 DEF Record, Recorded, MoneyTypeOK
  <2>3. CASE Claim(t)
    BY <1>1, <2>1, <2>3 DEF Claim, Recorded, MoneyTypeOK
  <2>4. CASE ReopenPayment(t)
    BY <1>1, <2>4 DEF ReopenPayment, MoneyTypeOK, PaymentRow
  <2>5. CASE FailPayment(t)
    BY <1>1, <2>5 DEF FailPayment, MoneyTypeOK, PaymentRow
  <2>6. CASE Reset(t)
    BY <1>1, <2>6 DEF Reset, MoneyTypeOK, PaymentRow
  <2>. QED  BY <2>2, <2>3, <2>4, <2>5, <2>6
<1>3. PayersStay /\ NamesStay
  BY <1>2 DEF PayersStay, NamesStay
<1>4. ASSUME Record(t) \/ Reset(t) PROVE \A u \in tasks' : u \in tasks \/ TaskIsPaid(u)'
  <2>1. \A u \in tasks' : \/ u \in tasks
                          \/ /\ u.at \in {"order", "debit"} /\ u.ride = r /\ u.op = t.op
                             /\ u.txn = t.txn /\ payment'[r].st # "none"
    <3>1. CASE Ends(t)
      BY <3>1, TaskEnds
    <3>2. CASE ~Ends(t)
      <4>. DEFINE at == IF channel[r] = "online" THEN "order" ELSE "debit"
      <4>1. Goes(t, at)
        BY <1>4, <3>2 DEF Record, Reset
      <4>2. payment'[r].st # "none"
        <5>1. CASE Record(t)
          BY <1>2, <5>1 DEF Record
        <5>2. CASE Reset(t)
          <6>1. t.at = "reset" /\ payment[r].st # "none"
            BY <3>2, <5>2 DEF Reset
          <6>. QED  BY <1>2, <6>1
        <5>. QED  BY <1>4, <5>1, <5>2
      <4>3. at \in Steps /\ at \in {"order", "debit"}
        BY DEF Steps
      <4>. HIDE DEF at, r
      <4>. QED  BY <4>1, <4>2, <4>3, TaskGoes DEF r
    <3>. QED  BY <3>1, <3>2
  <2>2. t.at \in {"record", "reset"}
    BY <1>4 DEF Record, Reset
  <2>. QED  BY <2>1, <2>2, MovedIsPaid
<1>5. ASSUME Claim(t) \/ FailPayment(t) PROVE \A u \in tasks' : u \in tasks \/ TaskIsPaid(u)'
  BY <1>5, TaskEnds DEF Claim, FailPayment
<1>6. ASSUME ReopenPayment(t) PROVE \A u \in tasks' : u \in tasks \/ TaskIsPaid(u)'
  <2>1. t.at = "reopen" /\ t.op = "payu"
    BY <1>6, AtStatement DEF ReopenPayment, TaskIsSound
  <2>2. PaysFor(t.txn, r) /\ t.txn \in Txns /\ txn[t.txn].st = "captured" /\ txn[t.txn].ride = r
    BY <2>1 DEF CaptureInv, TaskIsPaid
  <2>3. PaysFor(t.txn, r)'
    BY <1>1, <2>2, PaysStill
  <2>4. \A u \in tasks' : \/ u \in tasks
                          \/ u.at = "confirm" /\ u.ride = r /\ u.op = "payu" /\ u.txn = t.txn
    BY <1>6, <2>1, TaskGoes DEF ReopenPayment, Steps
  <2>. HIDE DEF r
  <2>. QED  BY <1>1, <2>2, <2>3, <2>4 DEF TaskIsPaid
<1>7. \A u \in tasks' : u \in tasks \/ TaskIsPaid(u)'
  BY <1>4, <1>5, <1>6
<1>. QED  BY <1>1, <1>3, <1>7, CaptureKept

\* A new transaction for a bill keeps the invariant: it is minted for the row that names it.
LEMMA OrderCaptureStep ==
    ASSUME MoneyTypeOK, MoneyTypeOK', MoneyInv, CaptureInv, RowsStay, NEW t \in tasks, Order(t)
    PROVE  CaptureInv'
<1>. DEFINE r == t.ride
<1>1. PICK k \in Txns :
        /\ txn[k].st = "none"
        /\ txn' = [txn EXCEPT ![k] = [st |-> "open", ride |-> r, amount |-> t.n]]
        /\ payment' = [payment EXCEPT ![r].txn = k]
  BY DEF Order
<1>2. r \in Rides /\ payment[r].st # "none" /\ UNCHANGED <<answered, flagged>> /\ tasks' = tasks \ {t}
  BY AtStatement, TaskEnds DEF Order, CaptureInv, TaskIsPaid
<1>3. /\ \A s \in Rides : payment'[s].st = payment[s].st /\ payment'[s].by = payment[s].by
      /\ payment'[r].txn = k /\ \A s \in Rides \ {r} : payment'[s].txn = payment[s].txn
      /\ txn'[k].st = "open" /\ txn'[k].ride = r
  <2>1. \A s \in Rides : payment[s] \in PaymentRow
    BY DEF MoneyTypeOK
  <2>. QED  BY <1>1, <1>2, <2>1 DEF MoneyTypeOK, PaymentRow
<1>. HIDE DEF r
<1>4. SettledByCapture'
  <2>. SUFFICES ASSUME NEW s \in Rides, NEW j \in Txns, payment'[s].by = j
                PROVE  payment'[s].st = "completed" /\ PaysFor(j, s)'
    BY DEF SettledByCapture
  <2>1. payment[s].st = "completed" /\ PaysFor(j, s)
    BY <1>3 DEF CaptureInv, SettledByCapture
  <2>. QED  BY <2>1, PaysStill DEF RowsStay
<1>5. answered' \subseteq {j \in Txns : txn'[j].st = "captured"} /\ AnsweredIsAccounted'
  <2>1. \A j \in answered : j \in Txns /\ txn[j].st = "captured" /\ txn'[j] = txn[j]
    BY DEF CaptureInv, RowsStay
  <2>. QED  BY <1>2, <1>3, <2>1 DEF CaptureInv, AnsweredIsAccounted
<1>6. MintedForRow'
  <2>. SUFFICES ASSUME NEW s \in Rides, payment'[s].txn # NoTxn
                PROVE  /\ payment'[s].st # "none" /\ txn'[payment'[s].txn].st # "none"
                       /\ txn'[payment'[s].txn].ride = s
    BY DEF MintedForRow
  <2>1. CASE s = r
    BY <1>2, <1>3, <2>1
  <2>2. CASE s # r
    <3>1. payment'[s].txn = payment[s].txn /\ payment[s].txn \in Txns
      BY <1>3, <2>2 DEF MoneyTypeOK, PaymentRow
    <3>. QED  BY <1>3, <3>1 DEF CaptureInv, MintedForRow, RowsStay
  <2>. QED  BY <2>1, <2>2
<1>7. \A u \in tasks' : TaskIsPaid(u)'
  BY <1>2, StaysPaid DEF CaptureInv, MoneyTypeOK
<1>. QED  BY <1>4, <1>5, <1>6, <1>7 DEF CaptureInv

\* A confirmation keeps the invariant: it settles the bill by what it knows was captured for it.
LEMMA ConfirmCaptureStep ==
    ASSUME MoneyTypeOK, MoneyTypeOK', MoneyInv, CaptureInv, RowsStay, NEW t \in tasks, Confirm(t)
    PROVE  CaptureInv'
<1>. DEFINE r == t.ride
<1>1. /\ r \in Rides /\ t \in Task /\ payment[r] \in PaymentRow /\ TaskIsPaid(t) /\ t.at = "confirm"
      /\ UNCHANGED <<flagged, txn>>
  BY AtStatement DEF Confirm, CaptureInv, MoneyTypeOK
<1>2. /\ t.op \in {"payu", "poll"} => PaysFor(t.txn, r)
      /\ t.op \notin {"payu", "poll"} => t.txn = NoTxn
  BY <1>1 DEF TaskIsPaid
<1>3. \A u \in tasks' : u \in tasks \/ TaskIsPaid(u)'
  <2>1. \A u \in tasks' : \/ u \in tasks
                          \/ u.at = "judge" /\ u.ride = r /\ u.op = "payu" /\ u.txn = t.txn /\ t.op = "payu"
    BY TaskEnds, TaskGoes DEF Confirm, Steps
  <2>2. t.op = "payu" => t.txn \in Txns /\ txn'[t.txn].st = "captured" /\ txn'[t.txn].ride = r
    BY <1>1 DEF TaskIsPaid
  <2>. HIDE DEF r
  <2>. QED  BY <2>1, <2>2 DEF TaskIsPaid
<1>4. CASE payment[r].st # "pending"
  <2>1. UNCHANGED <<payment, answered>>
    BY <1>4 DEF Confirm, Confirmable
  <2>. QED  BY <1>1, <1>3, <2>1, CaptureQuiet
<1>5. CASE payment[r].st = "pending"
  <2>1. /\ payment'[r].st = "completed" /\ payment'[r].by = t.txn /\ payment'[r].txn = payment[r].txn
        /\ \A s \in Rides \ {r} : payment'[s] = payment[s]
    <3>1. payment' = [payment EXCEPT ![r] =
              [payment[r] EXCEPT !.st = "completed", !.by = t.txn,
                                 !.payer = IF t.txn = NoTxn THEN "wallet" ELSE "payu"]]
      BY <1>5 DEF Confirm, Confirmable
    <3>. QED  BY <1>1, <3>1 DEF MoneyTypeOK, PaymentRow
  <2>2. /\ answered \subseteq answered'
        /\ \A k \in answered' : k \in answered \/ (k = t.txn /\ t.op = "payu")
    BY <1>5 DEF Confirm, Confirmable
  <2>. HIDE DEF r
  <2>3. SettledByCapture'
    <3>. SUFFICES ASSUME NEW s \in Rides, NEW k \in Txns, payment'[s].by = k
                  PROVE  payment'[s].st = "completed" /\ PaysFor(k, s)'
      BY DEF SettledByCapture
    <3>1. CASE s = r
      <4>1. k = t.txn /\ k # NoTxn
        BY <2>1, <3>1, MoneyBoundsAreNat DEF Txns, NoTxn
      <4>2. PaysFor(k, r)
        BY <1>2, <4>1
      <4>. QED  BY <1>1, <2>1, <3>1, <4>2, PaysStill
    <3>2. CASE s # r
      <4>1. payment[s].st = "completed" /\ PaysFor(k, s)
        BY <2>1, <3>2 DEF CaptureInv, SettledByCapture
      <4>. QED  BY <2>1, <3>2, <4>1, PaysStill
    <3>. QED  BY <3>1, <3>2
  <2>4. answered' \subseteq {k \in Txns : txn'[k].st = "captured"} /\ AnsweredIsAccounted'
    <3>1. ASSUME NEW k \in answered'
          PROVE  /\ k \in Txns /\ txn'[k].st = "captured"
                 /\ k \in flagged' \/ (txn'[k].ride \in Rides /\ payment'[txn'[k].ride].by = k)
      <4>1. CASE k = t.txn /\ t.op = "payu"
        <5>1. PaysFor(k, r)
          BY <1>2, <4>1
        <5>. QED  BY <1>1, <2>1, <4>1, <5>1 DEF PaysFor
      <4>2. CASE k \in answered
        <5>1. /\ k \in Txns /\ txn[k].st = "captured"
              /\ k \in flagged \/ (txn[k].ride \in Rides /\ payment[txn[k].ride].by = k)
          BY <4>2 DEF CaptureInv, AnsweredIsAccounted
        <5>2. payment[r].by # k
          BY <1>1, <1>5, <5>1 DEF CaptureInv, SettledByCapture, r
        <5>. QED  BY <1>1, <2>1, <5>1, <5>2
      <4>. QED  BY <2>2, <4>1, <4>2
    <3>. QED  BY <3>1 DEF AnsweredIsAccounted
  <2>5. MintedForRow'
    <3>. SUFFICES ASSUME NEW s \in Rides, payment'[s].txn # NoTxn
                  PROVE  /\ payment'[s].st # "none" /\ txn'[payment'[s].txn].st # "none"
                         /\ txn'[payment'[s].txn].ride = s
      BY DEF MintedForRow
    <3>1. payment'[s].txn = payment[s].txn
      BY <2>1
    <3>. QED  BY <1>1, <2>1, <3>1 DEF CaptureInv, MintedForRow
  <2>6. \A u \in tasks' : TaskIsPaid(u)'
    BY <1>3, StaysPaid DEF CaptureInv, MoneyTypeOK
  <2>. QED  BY <2>3, <2>4, <2>5, <2>6 DEF CaptureInv
<1>. QED  BY <1>4, <1>5

\* An answer keeps the invariant: what is neither flagged nor a replay is not answered.
LEMMA AnswerCaptureStep ==
    ASSUME MoneyTypeOK, MoneyTypeOK', MoneyInv, CaptureInv, RowsStay, NEW t \in tasks,
           Flag(t) \/ Judge(t)
    PROVE  CaptureInv'
<1>1. UNCHANGED <<payment, txn>> /\ flagged \subseteq flagged' /\ answered' = answered \cup {t.txn}
      /\ tasks' \subseteq tasks
  BY TaskEnds DEF Flag, Judge, payVars
<1>2. t.op = "payu" /\ t.ride \in Rides
  BY AtStatement DEF Flag, Judge, TaskIsSound
<1>3. t.txn \in Txns /\ txn[t.txn].st = "captured" /\ txn[t.txn].ride = t.ride
  BY <1>2 DEF CaptureInv, TaskIsPaid
<1>4. t.txn \in flagged' \/ payment[t.ride].by = t.txn
  BY DEF Flag, Judge, IsReplay
<1>5. AnsweredIsAccounted' /\ answered' \subseteq {k \in Txns : txn'[k].st = "captured"}
  BY <1>1, <1>2, <1>3, <1>4 DEF CaptureInv, AnsweredIsAccounted
<1>6. SettledByCapture' /\ MintedForRow'
  BY <1>1 DEF CaptureInv, SettledByCapture, MintedForRow, PaysFor
<1>7. \A u \in tasks' : TaskIsPaid(u)'
  BY <1>1, StaysPaid DEF CaptureInv, MoneyTypeOK
<1>. QED  BY <1>5, <1>6, <1>7 DEF CaptureInv

\* Every step keeps the invariant.
LEMMA CaptureStep ==
    ASSUME MoneyTypeOK, MoneyTypeOK', MoneyInv, CaptureInv, [MoneyNext]_moneyVars PROVE CaptureInv'
<1>1. RowsStay
  BY RowsStayStep
<1>2. CASE UNCHANGED moneyVars
  BY <1>1, <1>2, CaptureQuiet DEF moneyVars, payVars, gatewayVars
<1>3. CASE OfferNext
  BY <1>1, <1>3, OfferCaptureStep
<1>4. ASSUME NEW r \in Rides,
             \/ StartTrip(r) \/ EndTrip(r) \/ BeginEarlyEnd(r) \/ StrandedSweep(r) \/ BeginCollect(r)
             \/ Poll(r) \/ BeginRetry(r)
      PROVE  CaptureInv'
  BY <1>1, <1>4, RideCaptureStep
<1>5. ASSUME NEW k \in Txns, RiderPays(k) PROVE CaptureInv'
  BY <1>1, <1>5, CaptureQuiet DEF RiderPays, payVars
<1>6. ASSUME NEW k \in Txns, Notify(k) PROVE CaptureInv'
  BY <1>1, <1>6, NotifyCaptureStep
<1>7. ASSUME NEW u \in Users, FundWallet(u) PROVE CaptureInv'
  BY <1>1, <1>7, CaptureQuiet DEF FundWallet, payVars, gatewayVars
<1>8. ASSUME NEW t \in tasks, TaskStep(t) \/ Die(t) PROVE CaptureInv'
  BY <1>1, <1>8, QuietCaptureStep, BillCaptureStep, OrderCaptureStep, ConfirmCaptureStep, AnswerCaptureStep
  DEF TaskStep
<1>. QED  BY <1>2, <1>3, <1>4, <1>5, <1>6, <1>7, <1>8 DEF MoneyNext, PaymentNext

\* What is captured, answered and settled agrees in every state of the money paths.
LEMMA CaptureInvAlways == MoneySafety => []CaptureInv
<1>1. MoneyInit => CaptureInv
  <2>. SUFFICES ASSUME MoneyInit PROVE CaptureInv
    OBVIOUS
  <2>1. NoTxn \notin Txns
    BY MoneyBoundsAreNat DEF Txns, NoTxn
  <2>. QED  BY <2>1 DEF MoneyInit, NoPayment, CaptureInv, SettledByCapture, AnsweredIsAccounted, MintedForRow
<1>2. MoneyTypeOK /\ MoneyTypeOK' /\ MoneyInv /\ CaptureInv /\ [MoneyNext]_moneyVars => CaptureInv'
  BY CaptureStep
<1>. QED  BY <1>1, <1>2, MoneyInvAlways, PTL DEF MoneySafety

\* A bill the gateway settled was settled by money it captured for this very ride and in the
\* billed amount, whatever retries, callbacks and sweeps interleave.
THEOREM SettledByItsCapture == MoneySafety => []SettledByCapture
  BY CaptureInvAlways, PTL DEF CaptureInv

\* A capture that PayU will not report again has settled its ride or is left for a manual
\* refund, whatever process died: the safety half of CaptureIsAccounted.
THEOREM AnsweredAccounted == MoneySafety => []AnsweredIsAccounted
  BY CaptureInvAlways, PTL DEF CaptureInv
=============================================================================
