---------------------------- MODULE DriverPayouts ----------------------------
(***************************************************************************)
(* What the platform owes one driver and how it is paid out: the earnings  *)
(* of driver_earnings, swept into settlements, submitted to the bank       *)
(* (RazorpayX) by the settlements job and by an admin at the same time,    *)
(* and concluded by the bank's webhooks (modules/payments of src/api/src). *)
(* Earnings and settlements of two drivers never meet.  A transaction is   *)
(* one step, and so is a statement outside of one.                         *)
(***************************************************************************)
EXTENDS Naturals, FiniteSets

CONSTANTS
    Earnings,       \* driver_earnings that may be accrued (a ride's fare less its TDS)
    MaxSettlements, \* bound: settlements
    Submitters,     \* bound: calls of submitSettlementRow at once
    Hooks,          \* bound: webhooks being handled at once
    MaxFaults       \* bound: deaths and lost answers

Settlements == 1..MaxSettlements
NoSettlement == 0

ASSUME PayoutBoundsAreNat == MaxSettlements \in Nat /\ MaxFaults \in Nat

VARIABLES
    earning,    \* driver_earnings: status and settlement_id
    payout,     \* settlements: status, razorpay_payout_id, and the rows net_payout sums
    bank,       \* what became of the transfer asked for under a settlement's idempotency key
    submitter,  \* what each call of submitSettlementRow is at
    hook,       \* what each webhook being handled is at
    handled,    \* payment_gateway_events marked processed
    lost,       \* settlements whose accepted transfer was answered by an error or a timeout
    late,       \* settlements claimed when they were no longer processing
    early,      \* settlements whose webhook came before the transfer's id was stored
    broken      \* settlements at which a process died

payoutVars == <<earning, payout, bank, submitter, hook, handled, lost, late, early, broken>>
faultVars == <<lost, late, early, broken>>

EarningRow == [st : {"none", "pending", "cleared", "in_payout", "paid"},
               by : Settlements \cup {NoSettlement}]
\* razorpay_payout_id: NULL, the placeholder of a claim, or the bank's id.
PayoutRow == [st : {"none", "pending", "processing", "completed", "failed"},
              id : {"null", "placeholder", "real"}, rows : SUBSET Earnings]
Events == {"processed", "failed", "reversed"}
Submitting == [at : {"claim", "call", "store", "revert", "unsweep"}, k : Settlements]
Hooking == [at : {"settle", "rows", "mark"}, k : Settlements, ev : Events]
AtRest == [at |-> "rest"]

Faulty == Cardinality(lost) + Cardinality(broken) >= MaxFaults
Cleared == {e \in Earnings : earning[e].st = "cleared"}
SweptInto(k) == {e \in Earnings : earning[e].by = k}
SubmitterGoes(s, at) == submitter' = [submitter EXCEPT ![s].at = at]
HookGoes(h, at) == hook' = [hook EXCEPT ![h].at = at]

PayoutInit ==
    /\ earning = [e \in Earnings |-> [st |-> "none", by |-> NoSettlement]]
    /\ payout = [k \in Settlements |-> [st |-> "none", id |-> "null", rows |-> {}]]
    /\ bank = [k \in Settlements |-> "none"]
    /\ submitter = [s \in Submitters |-> AtRest]
    /\ hook = [h \in Hooks |-> AtRest]
    /\ handled = {}
    /\ lost = {} /\ late = {} /\ early = {} /\ broken = {}

-----------------------------------------------------------------------------
(* Earnings, and the sweeps that gather them. *)

\* accrueDriverEarning (held for some hours), or an admin's adjustment (cleared at once).
Accrue(e) ==
    /\ earning[e].st = "none"
    /\ \E st \in {"pending", "cleared"} : earning' = [earning EXCEPT ![e].st = st]
    /\ UNCHANGED <<payout, bank, submitter, hook, handled, faultVars>>

\* clearAvailableEarnings: the hold of all that are due has passed.
ClearEarnings ==
    /\ \E due \in (SUBSET {e \in Earnings : earning[e].st = "pending"}) \ {{}} :
        earning' = [e \in Earnings |-> IF e \in due THEN [earning[e] EXCEPT !.st = "cleared"]
                                       ELSE earning[e]]
    /\ UNCHANGED <<payout, bank, submitter, hook, handled, faultVars>>

\* The driver's cleared rows, locked and summed, become a settlement.
SweepInto(st) ==
    /\ Cleared # {}
    /\ \E k \in Settlements :
        /\ payout[k].st = "none"
        /\ \A j \in 1..(k - 1) : payout[j].st # "none"
        /\ payout' = [payout EXCEPT ![k] = [st |-> st, id |-> "null", rows |-> Cleared]]
        /\ earning' = [e \in Earnings |->
                        IF e \in Cleared THEN [st |-> "in_payout", by |-> k] ELSE earning[e]]
    /\ UNCHANGED <<bank, submitter, hook, handled, faultVars>>

\* runScheduledSettlementBatch: above the limit an admin approves first.
RunBatch == SweepInto("processing") \/ SweepInto("pending")

\* instantCashOut (its fee is one more row of the sum).
CashOut == SweepInto("processing")

\* Mutant: the failed settlement itself is submitted again.
ResurrectFailed(k) ==
    /\ payout[k].st = "failed"
    /\ payout' = [payout EXCEPT ![k].st = "processing", ![k].id = "null"]
    /\ UNCHANGED <<earning, bank, submitter, hook, handled, faultVars>>

\* retryFailedSettlement: whatever is cleared now, in a new settlement.
RetryFailed(k) == payout[k].st = "failed" /\ SweepInto("processing")

\* approveSettlementPeriod.
ApprovePeriod(k) ==
    /\ payout[k].st = "pending"
    /\ payout' = [payout EXCEPT ![k].st = "processing"]
    /\ UNCHANGED <<earning, bank, submitter, hook, handled, faultVars>>

-----------------------------------------------------------------------------
(* submitSettlementRow. *)

\* submitProcessingSettlements reads the rows (and comes to each later), and so does
\* retryNeverSubmittedSettlement.
BeginSubmit(s, k) ==
    /\ submitter[s] = AtRest
    /\ payout[k].st = "processing" /\ payout[k].id = "null"
    /\ submitter' = [submitter EXCEPT ![s] = [at |-> "claim", k |-> k]]
    /\ UNCHANGED <<earning, payout, bank, hook, handled, faultVars>>

\* The claim asks for razorpay_payout_id IS NULL, and not for the status.
ClaimPayout(s) ==
    /\ submitter[s].at = "claim"
    /\ LET k == submitter[s].k
       IN  IF payout[k].id = "null"
           THEN /\ payout' = [payout EXCEPT ![k].id = "placeholder"]
                /\ SubmitterGoes(s, "call")
                /\ late' = IF payout[k].st = "processing" THEN late ELSE late \cup {k}
           ELSE /\ submitter' = [submitter EXCEPT ![s] = AtRest]
                /\ UNCHANGED <<payout, late>>
    /\ UNCHANGED <<earning, bank, hook, handled, lost, early, broken>>

\* The bank accepts (one transfer per idempotency key, and one id), refuses, or accepts and
\* its answer, or the statement that stores the id, fails.
CallBank(s) ==
    /\ submitter[s].at = "call"
    /\ LET k == submitter[s].k
           accepted == [bank EXCEPT ![k] = IF @ = "none" THEN "accepted" ELSE @]
       IN  \/ bank' = accepted /\ SubmitterGoes(s, "store") /\ UNCHANGED lost
           \/ bank[k] = "none" /\ SubmitterGoes(s, "revert") /\ UNCHANGED <<bank, lost>>
           \/ ~Faulty /\ bank' = accepted /\ SubmitterGoes(s, "revert") /\ lost' = lost \cup {k}
    /\ UNCHANGED <<earning, payout, hook, handled, late, early, broken>>

StoreId(s) ==
    /\ submitter[s].at = "store"
    /\ payout' = [payout EXCEPT ![submitter[s].k].id = "real"]
    /\ submitter' = [submitter EXCEPT ![s] = AtRest]
    /\ UNCHANGED <<earning, bank, hook, handled, faultVars>>

\* Mutant: the rows stay in the failed settlement.
RevertOnly(s) ==
    /\ submitter[s].at = "revert"
    /\ payout' = [payout EXCEPT ![submitter[s].k].st = "failed", ![submitter[s].k].id = "null"]
    /\ submitter' = [submitter EXCEPT ![s] = AtRest]
    /\ UNCHANGED <<earning, bank, hook, handled, faultVars>>

\* The catch: the settlement is failed and unclaimed, and then its rows are cleared.
RevertPayout(s) ==
    /\ submitter[s].at = "revert"
    /\ payout' = [payout EXCEPT ![submitter[s].k].st = "failed", ![submitter[s].k].id = "null"]
    /\ SubmitterGoes(s, "unsweep")
    /\ UNCHANGED <<earning, bank, hook, handled, faultVars>>

\* The rows a statement of the form WHERE settlement_id = k gives back.
Returned(rows) == [e \in Earnings |-> IF e \in rows THEN [st |-> "cleared", by |-> NoSettlement]
                                      ELSE earning[e]]

\* Mutant: all of the driver's rows, whichever settlement they are in.
UnsweepAll(s) ==
    /\ submitter[s].at = "unsweep"
    /\ earning' = Returned({e \in Earnings : earning[e].st = "in_payout"})
    /\ submitter' = [submitter EXCEPT ![s] = AtRest]
    /\ UNCHANGED <<payout, bank, hook, handled, faultVars>>

\* The second statement of the catch.
Unsweep(s) ==
    /\ submitter[s].at = "unsweep"
    /\ earning' = Returned(SweptInto(submitter[s].k))
    /\ submitter' = [submitter EXCEPT ![s] = AtRest]
    /\ UNCHANGED <<payout, bank, hook, handled, faultVars>>

SubmitterStep(s) ==
    ClaimPayout(s) \/ CallBank(s) \/ StoreId(s) \/ RevertPayout(s) \/ Unsweep(s)

-----------------------------------------------------------------------------
(* The bank, and its webhooks. *)

\* A transfer is processed or fails; a processed one may come back.
BankDecides(k) ==
    /\ bank[k] = "accepted"
    /\ \E st \in {"processed", "failed"} : bank' = [bank EXCEPT ![k] = st]
    /\ UNCHANGED <<earning, payout, submitter, hook, handled, faultVars>>

BankReverses(k) ==
    /\ bank[k] = "processed"
    /\ bank' = [bank EXCEPT ![k] = "reversed"]
    /\ UNCHANGED <<earning, payout, submitter, hook, handled, faultVars>>

\* An event of the bank is delivered, in any order, again until it is marked processed.
Happened(k, ev) == bank[k] = ev \/ (ev = "processed" /\ bank[k] = "reversed")
Deliver(h, k, ev) ==
    /\ hook[h] = AtRest
    /\ Happened(k, ev)
    /\ <<k, ev>> \notin handled
    /\ hook' = [hook EXCEPT ![h] = [at |-> "settle", k |-> k, ev |-> ev]]
    /\ UNCHANGED <<earning, payout, bank, submitter, handled, faultVars>>

\* applyRazorpayEvent: not over a completed settlement, and only under the stored id.
SettlePayout(h) ==
    /\ hook[h].at = "settle"
    /\ LET k == hook[h].k
       IN  IF payout[k].st # "completed" /\ payout[k].id = "real"
           THEN /\ payout' = [payout EXCEPT ![k].st =
                        IF hook[h].ev = "processed" THEN "completed" ELSE "failed"]
                /\ HookGoes(h, "rows")
                /\ UNCHANGED early
           ELSE /\ HookGoes(h, "mark")
                /\ early' = IF payout[k].id = "real" THEN early ELSE early \cup {k}
                /\ UNCHANGED payout
    /\ UNCHANGED <<earning, bank, submitter, handled, lost, late, broken>>

\* The settlement's rows: paid, or cleared again.
SettleRows(h) ==
    /\ hook[h].at = "rows"
    /\ LET rows == {e \in SweptInto(hook[h].k) : earning[e].st = "in_payout"}
       IN  earning' = IF hook[h].ev = "processed"
                      THEN [e \in Earnings |-> IF e \in rows THEN [earning[e] EXCEPT !.st = "paid"]
                                               ELSE earning[e]]
                      ELSE Returned(rows)
    /\ HookGoes(h, "mark")
    /\ UNCHANGED <<payout, bank, submitter, handled, faultVars>>

MarkHandled(h) ==
    /\ hook[h].at = "mark"
    /\ handled' = handled \cup {<<hook[h].k, hook[h].ev>>}
    /\ hook' = [hook EXCEPT ![h] = AtRest]
    /\ UNCHANGED <<earning, payout, bank, submitter, faultVars>>

HookStep(h) == SettlePayout(h) \/ SettleRows(h) \/ MarkHandled(h)

\* The process dies between two statements.
PayoutDies ==
    /\ ~Faulty
    /\ \/ \E s \in Submitters : /\ submitter[s] # AtRest
                                /\ broken' = broken \cup {submitter[s].k}
                                /\ submitter' = [submitter EXCEPT ![s] = AtRest]
                                /\ UNCHANGED hook
       \/ \E h \in Hooks : /\ hook[h] # AtRest
                           /\ broken' = broken \cup {hook[h].k}
                           /\ hook' = [hook EXCEPT ![h] = AtRest]
                           /\ UNCHANGED submitter
    /\ UNCHANGED <<earning, payout, bank, handled, lost, late, early>>

PayoutNext ==
    \/ \E e \in Earnings : Accrue(e)
    \/ ClearEarnings \/ RunBatch \/ CashOut
    \/ \E k \in Settlements : RetryFailed(k) \/ ApprovePeriod(k) \/ BankDecides(k) \/ BankReverses(k)
    \/ \E s \in Submitters : (\E k \in Settlements : BeginSubmit(s, k)) \/ SubmitterStep(s)
    \/ \E h \in Hooks : (\E k \in Settlements, ev \in Events : Deliver(h, k, ev)) \/ HookStep(h)
    \/ PayoutDies

PayoutSafety == PayoutInit /\ [][PayoutNext]_payoutVars

-----------------------------------------------------------------------------
(* Properties. *)

PayoutTypeOK ==
    /\ earning \in [Earnings -> EarningRow]
    /\ payout \in [Settlements -> PayoutRow]
    /\ bank \in [Settlements -> {"none", "accepted"} \cup Events]
    /\ submitter \in [Submitters -> Submitting \cup {AtRest}]
    /\ hook \in [Hooks -> Hooking \cup {AtRest}]
    /\ handled \subseteq Settlements \X Events
    /\ lost \subseteq Settlements /\ late \subseteq Settlements
    /\ early \subseteq Settlements /\ broken \subseteq Settlements

\* The transfers by which an earning has left, or is leaving, for the driver's bank.
Transfers(e) == {k \in Settlements : e \in payout[k].rows /\ bank[k] \in {"accepted", "processed"}}

\* An earning is paid out once, unless one of its settlements lost the bank's answer or was
\* claimed by a submitter that had read it before another one failed it.
PaidOutOnce ==
    \A e \in Earnings : Cardinality(Transfers(e) \ (lost \cup late)) <= 1

\* A settlement still to be paid is backed by its own earnings, and by no others.
OpenSettlementIsBacked ==
    \A k \in Settlements : payout[k].st \in {"pending", "processing"}
        => SweptInto(k) = payout[k].rows /\ \A e \in SweptInto(k) : earning[e].st = "in_payout"

\* Who will still move a settlement's earnings on: an admin's approval, the settlements
\* job, a submitter or a webhook at work, the bank, or an event it has yet to deliver.
IsGoingOn(k) ==
    \/ payout[k].st = "pending"
    \/ payout[k].st = "processing" /\ payout[k].id = "null"
    \/ \E s \in Submitters : submitter[s] # AtRest /\ submitter[s].k = k
    \/ \E h \in Hooks : hook[h] # AtRest /\ hook[h].k = k
    \/ bank[k] = "accepted"
    \/ \E ev \in Events : Happened(k, ev) /\ <<k, ev>> \notin handled

\* No earning is left in a payout that nobody moves on any more, unless a process died at
\* its settlement or the bank's webhook came before the transfer's id was stored.
EarningIsNotStuck ==
    \A e \in Earnings : earning[e].st = "in_payout"
        => IsGoingOn(earning[e].by) \/ earning[e].by \in broken \cup early
=============================================================================
