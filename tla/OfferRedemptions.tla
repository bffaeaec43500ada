-------------------------- MODULE OfferRedemptions --------------------------
(***************************************************************************)
(* An offer's books: a booking reserves a redemption, the ride's payment   *)
(* consumes it, a ride that delivered nothing releases it, and a fare that *)
(* shrank trues it down (modules/offers of src/api/src, and the callers in *)
(* the rides service and the broadcast worker).  A transaction is one      *)
(* step.  The broadcast worker releases on the pool, outside any           *)
(* transaction, so each of its four statements is a step of its own; so    *)
(* are the statements of finaliseDiscount, which reads first and writes    *)
(* later.                                                                  *)
(***************************************************************************)
EXTENDS RideMoney

\* A booking without an offer, or one the rider makes again after a refusal.  (Of a ride
\* that never starts it would touch nothing here.)
BookPlain(r) ==
    /\ r \in Driven
    /\ ride[r] = "unbooked"
    /\ channel[r] # "none"
    /\ ride' = [ride EXCEPT ![r] = "waiting"]
    /\ UNCHANGED <<channel, final, discount, offerVars, payVars, walletVars, gatewayVars,
                   tasks, listed, countVars>>

\* Mutant: the budget is not asked for.
OfferTakesAny(r, off) ==
    usage[UserOf[r]] < PerUserLimit /\ offer.st = "active" /\ offer.count < GlobalLimit

\* reserveRedemption's two conditional updates: the rider's use, then the offer's.
OfferTakes(r, off) ==
    /\ usage[UserOf[r]] < PerUserLimit
    /\ offer.st = "active"
    /\ offer.spent + off <= offer.budget
    /\ offer.count < GlobalLimit

\* createBooking with an offer: the snapshot carries the discount and the redemption takes
\* the rider's use, the budget and the global slot, or the whole booking rolls back.
BookWithOffer(r) ==
    LET off == DiscountOn(Estimate)
    IN  /\ ride[r] = "unbooked"
        /\ channel[r] # "none"
        /\ OfferTakes(r, off)
        /\ ride' = [ride EXCEPT ![r] = "waiting"]
        /\ discount' = [discount EXCEPT ![r] = off]
        /\ usage' = [usage EXCEPT ![UserOf[r]] = @ + 1]
        /\ offer' = [offer EXCEPT !.spent = @ + off, !.count = @ + 1]
        /\ redemption' = [redemption EXCEPT ![r] = "reserved"]
        /\ held' = [held EXCEPT ![r] = off]
        /\ UNCHANGED <<channel, final, payVars, walletVars, gatewayVars, tasks, listed, countVars>>

\* undo('released') inside the caller's transaction: the redemption, the budget and the
\* slot, the rider's use, and the snapshot's discount.
Release(r) ==
    IF redemption[r] = "reserved"
    THEN /\ redemption' = [redemption EXCEPT ![r] = "released"]
         /\ offer' = [offer EXCEPT !.spent = Less(@, held[r]), !.count = Less(@, 1)]
         /\ usage' = [usage EXCEPT ![UserOf[r]] = Less(@, 1)]
         /\ discount' = [discount EXCEPT ![r] = 0]
         /\ UNCHANGED held
    ELSE UNCHANGED <<offerVars, discount>>

\* Mutant: collecting cash forgets the offer.
ConsumedUnlessCash(r) ==
    [redemption EXCEPT ![r] = IF @ = "reserved" /\ channel[r] # "cash" THEN "consumed" ELSE @]

\* Mutant: a status the enum does not have.
ConsumedMisspelt(r) == [redemption EXCEPT ![r] = IF @ = "reserved" THEN "used" ELSE @]

\* consumeRedemption: reserved -> consumed, and nothing otherwise.
Consumed(r) == [redemption EXCEPT ![r] = IF @ = "reserved" THEN "consumed" ELSE @]

\* A cancellation by the rider that charges nothing, one by the driver, and, of a trip, the
\* forced one of an admin or the stale-trip sweep (forceResolveRide).
CancelFree(r) ==
    /\ ride[r] \in {"waiting", "underway"}
    /\ ride' = [ride EXCEPT ![r] = "cancelled"]
    /\ Release(r)
    /\ UNCHANGED <<channel, final, payVars, walletVars, gatewayVars, tasks, listed, countVars>>

\* A cancellation with a fee: the offer counts as used (the fee itself is left out).
CancelWithFee(r) ==
    /\ ride[r] = "waiting"
    /\ ride' = [ride EXCEPT ![r] = "cancelled"]
    /\ redemption' = Consumed(r)
    /\ UNCHANGED <<channel, final, discount, offer, usage, held, payVars, walletVars,
                   gatewayVars, tasks, listed, countVars>>

\* The third broadcast round finds nobody: the compare-and-swap, then releaseForRide on
\* the pool.  The stale-request sweep (expireStaleRequested) closes a ride the same way and
\* starts no release.
CloseNoDrivers(r) ==
    /\ ride[r] = "waiting"
    /\ ride' = [ride EXCEPT ![r] = "no_drivers"]
    /\ \/ Start(NewTask("release", "undo", r))
       \/ UNCHANGED tasks
    /\ UNCHANGED <<channel, final, discount, offerVars, payVars, walletVars, gatewayVars,
                   listed, countVars>>

\* An admin offers a ride nobody took to a driver (assignRide reopens it).
Reopen(r) ==
    /\ ride[r] = "no_drivers"
    /\ ride' = [ride EXCEPT ![r] = "waiting"]
    /\ UNCHANGED <<channel, final, discount, offerVars, payVars, walletVars, gatewayVars,
                   tasks, listed, countVars>>

\* undo on the pool, statement by statement.
UndoRedemption(t) ==
    /\ t.at = "undo"
    /\ IF redemption[t.ride] = "reserved"
       THEN /\ redemption' = [redemption EXCEPT ![t.ride] = "released"]
            /\ Carries(t, "budget", held[t.ride], NoTxn)
       ELSE Ends(t) /\ UNCHANGED redemption
    /\ UNCHANGED <<tripVars, discount, offer, usage, held, payVars, walletVars, gatewayVars,
                   listed, countVars>>

ReturnBudget(t) ==
    /\ t.at = "budget"
    /\ offer' = [offer EXCEPT !.spent = Less(@, t.n), !.count = Less(@, 1)]
    /\ Carries(t, "usage", 0, NoTxn)
    /\ UNCHANGED <<tripVars, discount, usage, redemption, held, payVars, walletVars, gatewayVars,
                   listed, countVars>>

ReturnUsage(t) ==
    /\ t.at = "usage"
    /\ usage' = [usage EXCEPT ![UserOf[t.ride]] = Less(@, 1)]
    /\ Goes(t, "gross")
    /\ UNCHANGED <<tripVars, discount, offer, redemption, held, payVars, walletVars, gatewayVars,
                   listed, countVars>>

ZeroDiscount(t) ==
    /\ t.at = "gross"
    /\ discount' = [discount EXCEPT ![t.ride] = 0]
    /\ Ends(t)
    /\ UNCHANGED <<tripVars, offerVars, payVars, walletVars, gatewayVars, listed, countVars>>

\* Mutant: only cancelled rides.
ClosedByCancel == {"cancelled"}

\* The statuses of a ride closed without service.
ClosedUnserved == {"cancelled", "no_drivers"}

\* releaseStaleReservations: the list (rides closed without service whose reservation is
\* over thirty minutes old: with no clock here, any) ...
ListStale(r) ==
    /\ r \notin listed
    /\ redemption[r] = "reserved"
    /\ ride[r] \in ClosedUnserved
    /\ listed' = listed \cup {r}
    /\ UNCHANGED <<tripVars, discount, offerVars, payVars, walletVars, gatewayVars, tasks, countVars>>

\* ... and the release of each, in a transaction, which asks nothing of the ride again.
ReleaseStale(r) ==
    /\ r \in listed
    /\ listed' = listed \ {r}
    /\ Release(r)
    /\ UNCHANGED <<tripVars, payVars, walletVars, gatewayVars, tasks, countVars>>

\* patchOffer's status and budget under the offer's row lock: a budget never falls below
\* what is spent, nor, while the offer is live, below itself.  (Only a booking reads
\* either: the offer is patched between two of them.)
PatchOffer ==
    /\ \E r, s \in Rides : ride[r] # "unbooked" /\ ride[s] = "unbooked" /\ channel[s] # "none"
    /\ \E st \in OfferState, b \in Budgets :
        /\ \/ st = offer.st
           \/ <<offer.st, st>> \in {<<"active", "paused">>, <<"active", "ended">>,
                                    <<"paused", "active">>, <<"paused", "ended">>}
        /\ b >= offer.spent
        /\ offer.st = "active" => b >= offer.budget
        /\ offer' = [offer EXCEPT !.st = st, !.budget = b]
    /\ UNCHANGED <<tripVars, discount, usage, redemption, held, payVars, walletVars, gatewayVars,
                   tasks, listed, countVars>>

-----------------------------------------------------------------------------
(* finaliseDiscount on the pool, after a writer of the final fare. *)

\* The read: the discount the fare now earns, at most what is held.
Derive(t) ==
    /\ t.at = "derive"
    /\ LET next == Rederived(t.ride)
       IN  IF next = discount[t.ride] THEN Goes(t, IF t.op = "early" THEN "close" ELSE "quote")
           ELSE Carries(t, IF next < held[t.ride] THEN "shrink" ELSE "apply", next, NoTxn)
    /\ UNCHANGED <<tripVars, discount, offerVars, payVars, walletVars, gatewayVars, listed, countVars>>

\* Mutant: whatever became of the redemption since it was read.
ShrinkBlindly(t) ==
    /\ t.at = "shrink"
    /\ held' = [held EXCEPT ![t.ride] = Least(@, t.n)]
    /\ offer' = [offer EXCEPT !.spent = Less(@, Less(held[t.ride], t.n))]
    /\ Goes(t, "apply")
    /\ UNCHANGED <<tripVars, discount, usage, redemption, payVars, walletVars, gatewayVars,
                   listed, countVars>>

\* The one statement that shrinks the redemption and trues the budget down by what the
\* redemption held until now.
Shrink(t) ==
    /\ t.at = "shrink"
    /\ IF redemption[t.ride] \in HoldsBudget /\ held[t.ride] > t.n
       THEN /\ held' = [held EXCEPT ![t.ride] = t.n]
            /\ offer' = [offer EXCEPT !.spent = Less(@, held[t.ride] - t.n)]
       ELSE UNCHANGED <<held, offer>>
    /\ Goes(t, "apply")
    /\ UNCHANGED <<tripVars, discount, usage, redemption, payVars, walletVars, gatewayVars,
                   listed, countVars>>

Apply(t) ==
    /\ t.at = "apply"
    /\ discount' = [discount EXCEPT ![t.ride] = t.n]
    /\ Carries(t, IF t.op = "early" THEN "close" ELSE "quote", 0, NoTxn)
    /\ UNCHANGED <<tripVars, offerVars, payVars, walletVars, gatewayVars, listed, countVars>>

\* The same function called from the settlement, in one step: its read and its writes.
\* (Its statements interleave with another writer's in Derive, Shrink and Apply.)
Finalise(r) ==
    LET next == Rederived(r)
    IN  /\ discount' = [discount EXCEPT ![r] = next]
        /\ IF redemption[r] \in HoldsBudget /\ next # discount[r] /\ next < held[r]
           THEN /\ held' = [held EXCEPT ![r] = next]
                /\ offer' = [offer EXCEPT !.spent = Less(@, held[r] - next)]
           ELSE UNCHANGED <<held, offer>>

\* The rides' side of an offer, and its admin.
OfferNext ==
    \/ \E r \in Rides :
        \/ BookPlain(r) \/ BookWithOffer(r)
        \/ CancelFree(r) \/ CancelWithFee(r) \/ CloseNoDrivers(r) \/ Reopen(r)
        \/ ListStale(r) \/ ReleaseStale(r)
    \/ PatchOffer
    \/ \E t \in tasks :
        \/ UndoRedemption(t) \/ ReturnBudget(t) \/ ReturnUsage(t) \/ ZeroDiscount(t)
        \/ Derive(t) \/ Shrink(t) \/ Apply(t)
=============================================================================
