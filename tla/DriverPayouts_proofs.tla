------------------------- MODULE DriverPayouts_proofs -------------------------
(***************************************************************************)
(* A driver's payouts, for any number of earnings, settlements, submitters *)
(* and webhooks: an earning leaves for the driver's bank once, and what is *)
(* still to be paid is backed by earnings nobody else pays out.            *)
(***************************************************************************)
EXTENDS DriverPayouts, FiniteSetTheorems, TLAPS

Closed == {"completed", "failed"}
Holding == {"call", "store", "revert"}

\* Swept rows are in a settlement that exists; the others are in none.
RowsAreInOne == \A e \in Earnings :
    IF earning[e].st \in {"in_payout", "paid"}
    THEN earning[e].by # NoSettlement /\ payout[earning[e].by].st # "none"
    ELSE earning[e].by = NoSettlement

\* Rows go back from closed settlements only, and a late claim is of a closed one.
ClosedBefore ==
    /\ \A k \in late : payout[k].st \in Closed
    /\ \A s \in Submitters : submitter[s] # AtRest =>
        /\ payout[submitter[s].k].st \in Closed \cup {"processing"}
        /\ submitter[s].at = "unsweep" => payout[submitter[s].k].st \in Closed
    /\ \A h \in Hooks : hook[h] # AtRest =>
        /\ Happened(hook[h].k, hook[h].ev)
        /\ hook[h].at = "rows" => payout[hook[h].k].st \in Closed

\* Unless it was claimed late, a settlement has one claim at a time, under the placeholder,
\* and the bank is asked once.
OneClaim == \A s \in Submitters : submitter[s].at \in Holding /\ submitter[s].k \notin late =>
    /\ payout[submitter[s].k].st = "processing" /\ payout[submitter[s].k].id = "placeholder"
    /\ \A z \in Submitters \ {s} : submitter[z].at \in Holding => submitter[z].k # submitter[s].k
    /\ submitter[s].at = "call" => bank[submitter[s].k] = "none"

\* The bank was not asked for a settlement before it is claimed.
UnaskedIsUnclaimed == \A k \in Settlements \ late :
    /\ payout[k].st \in {"none", "pending"} => payout[k].id = "null"
    /\ payout[k].st \notin Closed /\ payout[k].id = "null" => bank[k] = "none"

\* Rows go back from a settlement the bank was never asked for, or refused.
GivenBackUnpaid == \A s \in Submitters : submitter[s].at \in {"revert", "unsweep"} =>
    bank[submitter[s].k] = "none" \/ submitter[s].k \in lost \cup late

\* What the bank is paying, or has paid, is still in its settlement.
PaidIsBacked == \A k \in Settlements \ (lost \cup late) : bank[k] \in {"accepted", "processed"} =>
    \A e \in payout[k].rows : earning[e].by = k

PayoutInv ==
    /\ RowsAreInOne /\ ClosedBefore /\ OneClaim /\ UnaskedIsUnclaimed /\ GivenBackUnpaid
    /\ OpenSettlementIsBacked /\ PaidIsBacked

-----------------------------------------------------------------------------
(* Types. *)

SubmitterSteps == {"claim", "call", "store", "revert", "unsweep"}
HookSteps == {"settle", "rows", "mark"}

\* A submitter that is not at rest carries a settlement.
LEMMA AtWorkIsSubmitting ==
    ASSUME PayoutTypeOK, NEW s \in Submitters, submitter[s] # AtRest \/ submitter[s].at \in SubmitterSteps
    PROVE  submitter[s] \in Submitting /\ submitter[s].k \in Settlements /\ submitter[s] # AtRest
  BY DEF PayoutTypeOK, AtRest, SubmitterSteps, Submitting

\* A webhook that is not at rest carries a settlement and an event.
LEMMA AtWorkIsHooking ==
    ASSUME PayoutTypeOK, NEW h \in Hooks, hook[h] # AtRest \/ hook[h].at \in HookSteps
    PROVE  /\ hook[h] \in Hooking /\ hook[h].k \in Settlements /\ hook[h].ev \in Events
           /\ hook[h] # AtRest
  BY DEF PayoutTypeOK, AtRest, HookSteps, Hooking

\* A submitter at its next statement; the others are left alone.
LEMMA SubmitterMoves ==
    ASSUME PayoutTypeOK, NEW s \in Submitters, submitter[s] \in Submitting,
           NEW at \in SubmitterSteps, SubmitterGoes(s, at)
    PROVE  /\ submitter' \in [Submitters -> Submitting \cup {AtRest}]
           /\ submitter'[s] \in Submitting /\ submitter'[s].at = at /\ submitter'[s].k = submitter[s].k
           /\ \A z \in Submitters \ {s} : submitter'[z] = submitter[z]
<1>. DEFINE w == [submitter[s] EXCEPT !.at = at]
<1>1. w \in Submitting /\ w.at = at /\ w.k = submitter[s].k
  BY DEF Submitting, SubmitterSteps
<1>2. submitter' = [submitter EXCEPT ![s] = w]
  BY DEF SubmitterGoes, PayoutTypeOK
<1>. HIDE DEF w
<1>. QED  BY <1>1, <1>2 DEF PayoutTypeOK

\* A submitter that ends leaves the others where they are.
LEMMA SubmitterRests ==
    ASSUME PayoutTypeOK, NEW s \in Submitters, submitter' = [submitter EXCEPT ![s] = AtRest]
    PROVE  /\ submitter' \in [Submitters -> Submitting \cup {AtRest}] /\ submitter'[s] = AtRest
           /\ \A z \in Submitters \ {s} : submitter'[z] = submitter[z]
  BY DEF PayoutTypeOK

\* A webhook that goes on keeps its settlement and its event.
LEMMA HookMoves ==
    ASSUME PayoutTypeOK, NEW h \in Hooks, hook[h] \in Hooking, NEW at \in HookSteps, HookGoes(h, at)
    PROVE  /\ hook' \in [Hooks -> Hooking \cup {AtRest}]
           /\ hook'[h] \in Hooking /\ hook'[h].at = at
           /\ hook'[h].k = hook[h].k /\ hook'[h].ev = hook[h].ev
           /\ \A z \in Hooks \ {h} : hook'[z] = hook[z]
<1>. DEFINE w == [hook[h] EXCEPT !.at = at]
<1>1. w \in Hooking /\ w.at = at /\ w.k = hook[h].k /\ w.ev = hook[h].ev
  BY DEF Hooking, HookSteps
<1>2. hook' = [hook EXCEPT ![h] = w]
  BY DEF HookGoes, PayoutTypeOK
<1>. HIDE DEF w
<1>. QED  BY <1>1, <1>2 DEF PayoutTypeOK

\* A webhook that ends leaves the others where they are.
LEMMA HookRests ==
    ASSUME PayoutTypeOK, NEW h \in Hooks, hook' = [hook EXCEPT ![h] = AtRest]
    PROVE  /\ hook' \in [Hooks -> Hooking \cup {AtRest}] /\ hook'[h] = AtRest
           /\ \A z \in Hooks \ {h} : hook'[z] = hook[z]
  BY DEF PayoutTypeOK

\* A settlement's status, or its payout id, is written, and nothing else of it.
LEMMA RowWritten ==
    ASSUME PayoutTypeOK, NEW k \in Settlements,
           NEW st \in {"none", "pending", "processing", "completed", "failed"},
           NEW id \in {"null", "placeholder", "real"},
           \/ payout' = [payout EXCEPT ![k].st = st, ![k].id = id]
           \/ id = payout[k].id /\ payout' = [payout EXCEPT ![k].st = st]
           \/ st = payout[k].st /\ payout' = [payout EXCEPT ![k].id = id]
    PROVE  /\ payout' \in [Settlements -> PayoutRow]
           /\ payout'[k].st = st /\ payout'[k].id = id /\ payout'[k].rows = payout[k].rows
           /\ \A j \in Settlements \ {k} : payout'[j] = payout[j]
<1>. DEFINE w == [payout[k] EXCEPT !.st = st, !.id = id]
<1>1. payout[k] \in PayoutRow
  BY DEF PayoutTypeOK
<1>2. w \in PayoutRow /\ w.st = st /\ w.id = id /\ w.rows = payout[k].rows
  BY <1>1 DEF PayoutRow
<1>3. payout' = [payout EXCEPT ![k] = w]
  <2>1. CASE payout' = [payout EXCEPT ![k].st = st, ![k].id = id]
    BY <2>1
  <2>2. CASE id = payout[k].id /\ payout' = [payout EXCEPT ![k].st = st]
    <3>1. [payout[k] EXCEPT !.st = st] = w
      BY <1>1, <2>2 DEF PayoutRow
    <3>2. payout' = [payout EXCEPT ![k] = [payout[k] EXCEPT !.st = st]]
      BY <2>2
    <3>. QED  BY <3>1, <3>2
  <2>3. CASE st = payout[k].st /\ payout' = [payout EXCEPT ![k].id = id]
    <3>1. [payout[k] EXCEPT !.id = id] = w
      BY <1>1, <2>3 DEF PayoutRow
    <3>2. payout' = [payout EXCEPT ![k] = [payout[k] EXCEPT !.id = id]]
      BY <2>3
    <3>. QED  BY <3>1, <3>2
  <2>. QED  BY <2>1, <2>2, <2>3
<1>. HIDE DEF w
<1>. QED  BY <1>2, <1>3 DEF PayoutTypeOK

\* The cleared rows become a new settlement.
LEMMA Swept ==
    ASSUME PayoutTypeOK, NEW st \in {"pending", "processing"}, SweepInto(st)
    PROVE  \E k \in Settlements :
            /\ payout[k].st = "none"
            /\ payout' \in [Settlements -> PayoutRow] /\ earning' \in [Earnings -> EarningRow]
            /\ payout'[k].st = st /\ payout'[k].id = "null" /\ payout'[k].rows = Cleared
            /\ \A j \in Settlements \ {k} : payout'[j] = payout[j]
            /\ \A e \in Earnings : IF earning[e].st = "cleared"
                                   THEN earning'[e].st = "in_payout" /\ earning'[e].by = k
                                   ELSE earning'[e] = earning[e]
            /\ UNCHANGED <<bank, submitter, hook, handled, faultVars>>
<1>1. PICK k \in Settlements :
        /\ payout[k].st = "none"
        /\ payout' = [payout EXCEPT ![k] = [st |-> st, id |-> "null", rows |-> Cleared]]
        /\ earning' = [e \in Earnings |->
                        IF e \in Cleared THEN [st |-> "in_payout", by |-> k] ELSE earning[e]]
  BY DEF SweepInto
<1>2. [st |-> st, id |-> "null", rows |-> Cleared] \in PayoutRow
  BY DEF PayoutRow, Cleared
<1>3. [st |-> "in_payout", by |-> k] \in EarningRow
  BY DEF EarningRow
<1>4. UNCHANGED <<bank, submitter, hook, handled, faultVars>>
  BY DEF SweepInto
<1>5. payout' \in [Settlements -> PayoutRow] /\ earning' \in [Earnings -> EarningRow]
  BY <1>1, <1>2, <1>3 DEF PayoutTypeOK
<1>6. /\ payout'[k].st = st /\ payout'[k].id = "null" /\ payout'[k].rows = Cleared
      /\ \A j \in Settlements \ {k} : payout'[j] = payout[j]
  BY <1>1 DEF PayoutTypeOK
<1>7. \A e \in Earnings : IF earning[e].st = "cleared"
                          THEN earning'[e].st = "in_payout" /\ earning'[e].by = k
                          ELSE earning'[e] = earning[e]
  BY <1>1 DEF Cleared
<1>. QED  BY <1>1, <1>4, <1>5, <1>6, <1>7

\* Rows given back are cleared, and in no settlement.
LEMMA GivenBack ==
    ASSUME PayoutTypeOK, NEW rows \in SUBSET Earnings, earning' = Returned(rows)
    PROVE  /\ earning' \in [Earnings -> EarningRow]
           /\ \A e \in rows : earning'[e].st = "cleared" /\ earning'[e].by = NoSettlement
           /\ \A e \in Earnings \ rows : earning'[e] = earning[e]
<1>1. [st |-> "cleared", by |-> NoSettlement] \in EarningRow
  BY DEF EarningRow
<1>. QED  BY <1>1 DEF Returned, PayoutTypeOK

\* A step of the payouts keeps every variable in its type.
LEMMA PayoutTypeStep ==
    ASSUME PayoutTypeOK, [PayoutNext]_payoutVars
    PROVE  PayoutTypeOK'
<1>. USE DEF faultVars
<1>1. CASE UNCHANGED payoutVars
  BY <1>1 DEF payoutVars, PayoutTypeOK
<1>2. ASSUME NEW e \in Earnings, Accrue(e) PROVE PayoutTypeOK'
  BY <1>2 DEF Accrue, PayoutTypeOK, EarningRow
<1>3. ASSUME ClearEarnings PROVE PayoutTypeOK'
  BY <1>3 DEF ClearEarnings, PayoutTypeOK, EarningRow
<1>4. ASSUME NEW st \in {"pending", "processing"}, SweepInto(st) PROVE PayoutTypeOK'
  BY <1>4, Swept DEF PayoutTypeOK
<1>5. ASSUME NEW k \in Settlements, ApprovePeriod(k) PROVE PayoutTypeOK'
  <2>1. payout[k].id \in {"null", "placeholder", "real"}
    BY DEF PayoutTypeOK, PayoutRow
  <2>2. payout' \in [Settlements -> PayoutRow]
    BY <1>5, <2>1, RowWritten DEF ApprovePeriod
  <2>. QED  BY <1>5, <2>2 DEF ApprovePeriod, PayoutTypeOK
<1>6. ASSUME NEW s \in Submitters, NEW k \in Settlements, BeginSubmit(s, k) PROVE PayoutTypeOK'
  BY <1>6 DEF BeginSubmit, PayoutTypeOK, Submitting
<1>7. ASSUME NEW s \in Submitters, ClaimPayout(s) PROVE PayoutTypeOK'
  <2>1. /\ submitter[s] \in Submitting /\ submitter[s].k \in Settlements
        /\ payout[submitter[s].k].st \in {"none", "pending", "processing", "completed", "failed"}
    BY <1>7, AtWorkIsSubmitting DEF ClaimPayout, SubmitterSteps, PayoutTypeOK, PayoutRow
  <2>2. submitter' \in [Submitters -> Submitting \cup {AtRest}]
    BY <1>7, <2>1, SubmitterMoves, SubmitterRests DEF ClaimPayout, SubmitterSteps
  <2>3. payout' \in [Settlements -> PayoutRow]
    BY <1>7, <2>1, RowWritten DEF ClaimPayout, PayoutTypeOK
  <2>. QED  BY <1>7, <2>1, <2>2, <2>3 DEF ClaimPayout, PayoutTypeOK
<1>8. ASSUME NEW s \in Submitters, CallBank(s) PROVE PayoutTypeOK'
  <2>1. submitter[s] \in Submitting /\ submitter[s].k \in Settlements
    BY <1>8, AtWorkIsSubmitting DEF CallBank, SubmitterSteps
  <2>2. submitter' \in [Submitters -> Submitting \cup {AtRest}]
    BY <1>8, <2>1, SubmitterMoves DEF CallBank, SubmitterSteps
  <2>. QED  BY <1>8, <2>1, <2>2 DEF CallBank, PayoutTypeOK
<1>9. ASSUME NEW s \in Submitters, StoreId(s) PROVE PayoutTypeOK'
  <2>1. /\ submitter[s].k \in Settlements
        /\ payout[submitter[s].k].st \in {"none", "pending", "processing", "completed", "failed"}
    BY <1>9, AtWorkIsSubmitting DEF StoreId, SubmitterSteps, PayoutTypeOK, PayoutRow
  <2>2. payout' \in [Settlements -> PayoutRow]
    BY <1>9, <2>1, RowWritten DEF StoreId
  <2>. QED  BY <1>9, <2>2, SubmitterRests DEF StoreId, PayoutTypeOK
<1>10. ASSUME NEW s \in Submitters, RevertPayout(s) PROVE PayoutTypeOK'
  <2>1. submitter[s] \in Submitting /\ submitter[s].k \in Settlements
    BY <1>10, AtWorkIsSubmitting DEF RevertPayout, SubmitterSteps
  <2>2. submitter' \in [Submitters -> Submitting \cup {AtRest}]
    BY <1>10, <2>1, SubmitterMoves DEF RevertPayout, SubmitterSteps
  <2>3. payout' \in [Settlements -> PayoutRow]
    BY <1>10, <2>1, RowWritten DEF RevertPayout
  <2>. QED  BY <1>10, <2>2, <2>3 DEF RevertPayout, PayoutTypeOK
<1>11. ASSUME NEW s \in Submitters, Unsweep(s) PROVE PayoutTypeOK'
  BY <1>11, GivenBack, SubmitterRests DEF Unsweep, PayoutTypeOK, SweptInto
<1>12. ASSUME NEW k \in Settlements, BankDecides(k) \/ BankReverses(k) PROVE PayoutTypeOK'
  BY <1>12 DEF BankDecides, BankReverses, PayoutTypeOK, Events
<1>13. ASSUME NEW h \in Hooks, NEW k \in Settlements, NEW ev \in Events, Deliver(h, k, ev)
       PROVE  PayoutTypeOK'
  BY <1>13 DEF Deliver, PayoutTypeOK, Hooking
<1>14. ASSUME NEW h \in Hooks, SettlePayout(h) PROVE PayoutTypeOK'
  <2>1. /\ hook[h] \in Hooking /\ hook[h].k \in Settlements
        /\ payout[hook[h].k].id \in {"null", "placeholder", "real"}
    BY <1>14, AtWorkIsHooking DEF SettlePayout, HookSteps, PayoutTypeOK, PayoutRow
  <2>2. hook' \in [Hooks -> Hooking \cup {AtRest}]
    BY <1>14, <2>1, HookMoves DEF SettlePayout, HookSteps
  <2>3. payout' \in [Settlements -> PayoutRow]
    BY <1>14, <2>1, RowWritten DEF SettlePayout, PayoutTypeOK
  <2>. QED  BY <1>14, <2>1, <2>2, <2>3 DEF SettlePayout, PayoutTypeOK
<1>15. ASSUME NEW h \in Hooks, SettleRows(h) PROVE PayoutTypeOK'
  <2>1. hook' \in [Hooks -> Hooking \cup {AtRest}]
    BY <1>15, AtWorkIsHooking, HookMoves DEF SettleRows, HookSteps
  <2>2. earning' \in [Earnings -> EarningRow]
    BY <1>15, GivenBack DEF SettleRows, SweptInto, PayoutTypeOK, EarningRow
  <2>. QED  BY <1>15, <2>1, <2>2 DEF SettleRows, PayoutTypeOK
<1>16. ASSUME NEW h \in Hooks, MarkHandled(h) PROVE PayoutTypeOK'
  BY <1>16, AtWorkIsHooking, HookRests DEF MarkHandled, HookSteps, PayoutTypeOK
<1>17. ASSUME PayoutDies PROVE PayoutTypeOK'
  BY <1>17, AtWorkIsSubmitting, AtWorkIsHooking, SubmitterRests, HookRests DEF PayoutDies, PayoutTypeOK
<1>. QED
  BY <1>1, <1>2, <1>3, <1>4, <1>5, <1>6, <1>7, <1>8, <1>9, <1>10, <1>11, <1>12, <1>13, <1>14, <1>15,
     <1>16, <1>17
  DEF PayoutNext, RunBatch, CashOut, RetryFailed, SubmitterStep, HookStep

-----------------------------------------------------------------------------
(* The invariant. *)

\* Earnings not swept yet: nothing of a settlement depends on them.
LEMMA UnsweptChange ==
    ASSUME PayoutTypeOK, PayoutInv, UNCHANGED <<payout, bank, submitter, hook, handled, faultVars>>,
           \A e \in Earnings : /\ earning'[e].by = earning[e].by
                               /\ \/ earning'[e] = earning[e]
                                  \/ {earning[e].st, earning'[e].st} \subseteq {"none", "pending", "cleared"}
    PROVE  PayoutInv'
<1>. USE DEF faultVars
<1>1. RowsAreInOne'
  BY DEF PayoutInv, RowsAreInOne
<1>2. OpenSettlementIsBacked'
  BY DEF PayoutInv, RowsAreInOne, OpenSettlementIsBacked, SweptInto, PayoutTypeOK
<1>3. PaidIsBacked'
  BY DEF PayoutInv, PaidIsBacked, PayoutTypeOK, PayoutRow
<1>4. ClosedBefore' /\ OneClaim' /\ UnaskedIsUnclaimed' /\ GivenBackUnpaid'
  BY DEF PayoutInv, ClosedBefore, OneClaim, UnaskedIsUnclaimed, GivenBackUnpaid, Happened
<1>. QED  BY <1>1, <1>2, <1>3, <1>4 DEF PayoutInv

\* Every step of batch, submitter, admin, bank and webhook keeps the invariant.
LEMMA PayoutInvStep ==
    ASSUME PayoutTypeOK, PayoutInv, [PayoutNext]_payoutVars
    PROVE  PayoutInv'
<1>. USE DEF faultVars, PayoutInv
<1>1. CASE UNCHANGED payoutVars
  BY <1>1 DEF payoutVars, RowsAreInOne, ClosedBefore, OneClaim, UnaskedIsUnclaimed, GivenBackUnpaid,
              OpenSettlementIsBacked, PaidIsBacked, SweptInto, Happened
<1>2. ASSUME NEW e \in Earnings, Accrue(e) PROVE PayoutInv'
  BY <1>2, UnsweptChange DEF Accrue, PayoutTypeOK, EarningRow
<1>3. ASSUME ClearEarnings PROVE PayoutInv'
  BY <1>3, UnsweptChange DEF ClearEarnings, PayoutTypeOK, EarningRow
<1>4. ASSUME NEW st \in {"pending", "processing"}, SweepInto(st) PROVE PayoutInv'
  <2>1. PICK k \in Settlements :
            /\ payout[k].st = "none"
            /\ payout'[k].st = st /\ payout'[k].id = "null" /\ payout'[k].rows = Cleared
            /\ \A j \in Settlements \ {k} : payout'[j] = payout[j]
            /\ \A e \in Earnings : IF earning[e].st = "cleared"
                                   THEN earning'[e].st = "in_payout" /\ earning'[e].by = k
                                   ELSE earning'[e] = earning[e]
            /\ UNCHANGED <<bank, submitter, hook, handled, faultVars>>
    BY <1>4, Swept
  <2>2. k # NoSettlement /\ k \notin late /\ bank[k] = "none"
    BY <2>1 DEF NoSettlement, Settlements, ClosedBefore, Closed, UnaskedIsUnclaimed
  <2>3. \A e \in Earnings : earning[e].by # k
    BY <2>1, <2>2 DEF RowsAreInOne
  <2>4. \A e \in Earnings : earning[e].st = "cleared" => earning[e].by = NoSettlement
    BY DEF RowsAreInOne
  <2>5. RowsAreInOne'
    BY <2>1, <2>2, <2>4 DEF RowsAreInOne, PayoutTypeOK, EarningRow
  <2>6. ClosedBefore'
    BY <2>1, AtWorkIsSubmitting, AtWorkIsHooking DEF ClosedBefore, Closed, Happened, PayoutTypeOK
  <2>7. OneClaim'
    BY <2>1, AtWorkIsSubmitting DEF OneClaim, Holding, SubmitterSteps
  <2>8. UnaskedIsUnclaimed' /\ GivenBackUnpaid'
    BY <2>1, <2>2 DEF UnaskedIsUnclaimed, GivenBackUnpaid, Closed
  <2>9. OpenSettlementIsBacked'
    <3>. SUFFICES ASSUME NEW j \in Settlements, payout'[j].st \in {"pending", "processing"}
                  PROVE  /\ SweptInto(j)' = payout'[j].rows
                         /\ \A e \in SweptInto(j)' : earning'[e].st = "in_payout"
      BY DEF OpenSettlementIsBacked
    <3>1. CASE j = k
      BY <2>1, <2>3, <3>1 DEF SweptInto, Cleared
    <3>2. CASE j # k
      <4>1. j # NoSettlement
        BY DEF Settlements, NoSettlement
      <4>2. SweptInto(j)' = SweptInto(j)
        BY <2>1, <2>4, <3>2, <4>1 DEF SweptInto
      <4>3. \A e \in SweptInto(j) : earning'[e] = earning[e]
        BY <2>1, <2>4, <4>1 DEF SweptInto
      <4>. QED  BY <2>1, <3>2, <4>2, <4>3 DEF OpenSettlementIsBacked, SweptInto
    <3>. QED  BY <3>1, <3>2
  <2>10. PaidIsBacked'
    <3>. SUFFICES ASSUME NEW j \in Settlements \ (lost \cup late), bank[j] \in {"accepted", "processed"},
                         NEW e \in payout'[j].rows
                  PROVE  earning'[e].by = j
      BY <2>1 DEF PaidIsBacked
    <3>1. j # k /\ j # NoSettlement
      BY <2>2 DEF Settlements, NoSettlement
    <3>2. e \in payout[j].rows /\ e \in Earnings
      BY <2>1, <3>1 DEF PayoutTypeOK, PayoutRow
    <3>. QED  BY <2>1, <2>4, <3>1, <3>2 DEF PaidIsBacked
  <2>. QED  BY <2>5, <2>6, <2>7, <2>8, <2>9, <2>10
<1>5. ASSUME NEW k \in Settlements, ApprovePeriod(k) PROVE PayoutInv'
  <2>1. /\ payout[k].st = "pending" /\ payout'[k].st = "processing"
        /\ payout'[k].id = payout[k].id /\ payout'[k].rows = payout[k].rows
        /\ \A j \in Settlements \ {k} : payout'[j] = payout[j]
    <3>1. payout[k].id \in {"null", "placeholder", "real"}
      BY DEF PayoutTypeOK, PayoutRow
    <3>. QED  BY <1>5, <3>1, RowWritten DEF ApprovePeriod
  <2>2. UNCHANGED <<earning, bank, submitter, hook, handled, faultVars>>
    BY <1>5 DEF ApprovePeriod
  <2>3. RowsAreInOne'
    BY <2>1, <2>2 DEF RowsAreInOne, PayoutTypeOK, EarningRow
  <2>4. ClosedBefore'
    BY <2>1, <2>2, AtWorkIsSubmitting, AtWorkIsHooking DEF ClosedBefore, Closed, Happened, PayoutTypeOK
  <2>5. OneClaim'
    BY <2>1, <2>2, AtWorkIsSubmitting DEF OneClaim, Holding, SubmitterSteps
  <2>6. UnaskedIsUnclaimed' /\ GivenBackUnpaid'
    BY <2>1, <2>2 DEF UnaskedIsUnclaimed, GivenBackUnpaid, Closed
  <2>7. OpenSettlementIsBacked' /\ PaidIsBacked'
    BY <2>1, <2>2 DEF OpenSettlementIsBacked, PaidIsBacked, SweptInto
  <2>. QED  BY <2>3, <2>4, <2>5, <2>6, <2>7
<1>6. ASSUME NEW s \in Submitters, NEW k \in Settlements, BeginSubmit(s, k) PROVE PayoutInv'
  <2>1. /\ payout[k].st = "processing" /\ UNCHANGED <<earning, payout, bank, hook, handled, faultVars>>
        /\ submitter'[s].at = "claim" /\ submitter'[s].k = k
        /\ \A z \in Submitters \ {s} : submitter'[z] = submitter[z]
    BY <1>6 DEF BeginSubmit, PayoutTypeOK
  <2>2. RowsAreInOne' /\ UnaskedIsUnclaimed' /\ OpenSettlementIsBacked' /\ PaidIsBacked'
    BY <2>1 DEF RowsAreInOne, UnaskedIsUnclaimed, OpenSettlementIsBacked, PaidIsBacked, SweptInto
  <2>3. ClosedBefore'
    BY <2>1 DEF ClosedBefore, Happened
  <2>4. OneClaim' /\ GivenBackUnpaid'
    BY <2>1 DEF OneClaim, GivenBackUnpaid, Holding
  <2>. QED  BY <2>2, <2>3, <2>4
<1>7. ASSUME NEW s \in Submitters, ClaimPayout(s) PROVE PayoutInv'
  <2>1. PICK k \in Settlements : /\ k = submitter[s].k /\ submitter[s] \in Submitting
                                 /\ submitter[s] # AtRest /\ submitter[s].at = "claim"
    BY <1>7, AtWorkIsSubmitting DEF ClaimPayout, SubmitterSteps
  <2>2. payout[k].st \in Closed \cup {"processing"}
    BY <2>1 DEF ClosedBefore
  <2>3. UNCHANGED <<earning, bank, hook, handled, lost, early, broken>>
    BY <1>7 DEF ClaimPayout
  <2>4. CASE payout[k].id # "null"
    <3>1. /\ UNCHANGED <<payout, late>> /\ submitter'[s] = AtRest
          /\ \A z \in Submitters \ {s} : submitter'[z] = submitter[z]
      BY <1>7, <2>1, <2>4, SubmitterRests DEF ClaimPayout
    <3>2. RowsAreInOne' /\ UnaskedIsUnclaimed' /\ OpenSettlementIsBacked' /\ PaidIsBacked'
      BY <2>3, <3>1 DEF RowsAreInOne, UnaskedIsUnclaimed, OpenSettlementIsBacked, PaidIsBacked, SweptInto
    <3>3. ClosedBefore'
      BY <2>3, <3>1 DEF ClosedBefore, Happened, AtRest
    <3>4. OneClaim' /\ GivenBackUnpaid'
      BY <2>3, <3>1 DEF OneClaim, GivenBackUnpaid, Holding, AtRest
    <3>. QED  BY <3>2, <3>3, <3>4
  <2>5. CASE payout[k].id = "null"
    <3>1. /\ submitter'[s].at = "call" /\ submitter'[s].k = k
          /\ \A z \in Submitters \ {s} : submitter'[z] = submitter[z]
          /\ late' = IF payout[k].st = "processing" THEN late ELSE late \cup {k}
      BY <1>7, <2>1, <2>5, SubmitterMoves DEF ClaimPayout, SubmitterSteps
    <3>2. /\ payout'[k].st = payout[k].st /\ payout'[k].id = "placeholder"
          /\ payout'[k].rows = payout[k].rows
          /\ \A j \in Settlements \ {k} : payout'[j] = payout[j]
      <4>1. payout[k].st \in {"none", "pending", "processing", "completed", "failed"}
        BY DEF PayoutTypeOK, PayoutRow
      <4>. QED  BY <1>7, <2>1, <2>5, <4>1, RowWritten DEF ClaimPayout
    <3>3. RowsAreInOne'
      BY <2>3, <3>2 DEF RowsAreInOne, PayoutTypeOK, EarningRow
    <3>4. ClosedBefore'
      BY <2>1, <2>2, <2>3, <3>1, <3>2, AtWorkIsSubmitting, AtWorkIsHooking
      DEF ClosedBefore, Closed, Happened, PayoutTypeOK
    <3>5. OneClaim'
      <4>1. ASSUME payout[k].st = "processing"
            PROVE  bank[k] = "none" /\ \A z \in Submitters : submitter[z].at \in Holding => submitter[z].k # k
        <5>1. k \notin late
          BY <4>1 DEF ClosedBefore, Closed
        <5>. QED  BY <2>5, <4>1, <5>1 DEF UnaskedIsUnclaimed, Closed, OneClaim
      <4>2. ASSUME NEW z \in Submitters, submitter[z].at \in Holding PROVE submitter[z].k \in Settlements
        BY <4>2, AtWorkIsSubmitting DEF Holding, SubmitterSteps
      <4>. QED  BY <2>1, <2>3, <3>1, <3>2, <4>1, <4>2 DEF OneClaim, Holding
    <3>6. UnaskedIsUnclaimed' /\ GivenBackUnpaid'
      BY <2>2, <2>3, <3>1, <3>2 DEF UnaskedIsUnclaimed, GivenBackUnpaid, Closed
    <3>7. OpenSettlementIsBacked' /\ PaidIsBacked'
      BY <2>3, <3>1, <3>2 DEF OpenSettlementIsBacked, PaidIsBacked, SweptInto
    <3>. QED  BY <3>3, <3>4, <3>5, <3>6, <3>7
  <2>. QED  BY <2>4, <2>5
<1>8. ASSUME NEW s \in Submitters, CallBank(s) PROVE PayoutInv'
  <2>1. PICK k \in Settlements : /\ k = submitter[s].k /\ submitter[s] \in Submitting
                                 /\ submitter[s] # AtRest /\ submitter[s].at = "call"
    BY <1>8, AtWorkIsSubmitting DEF CallBank, SubmitterSteps
  <2>2. UNCHANGED <<earning, payout, hook, handled, late, early, broken>>
    BY <1>8 DEF CallBank
  <2>3. /\ submitter'[s].at \in {"store", "revert"} /\ submitter'[s].k = k
        /\ \A z \in Submitters \ {s} : submitter'[z] = submitter[z]
    BY <1>8, <2>1, SubmitterMoves DEF CallBank, SubmitterSteps
  <2>4. /\ lost \subseteq lost' /\ lost' \subseteq lost \cup {k}
        /\ \A j \in Settlements \ {k} : bank'[j] = bank[j]
        /\ \/ bank'[k] = bank[k]
           \/ bank[k] = "none" /\ bank'[k] = "accepted"
        /\ submitter'[s].at = "revert" => bank'[k] = "none" \/ k \in lost'
    <3>. DEFINE accepted == [bank EXCEPT ![k] = IF @ = "none" THEN "accepted" ELSE @]
    <3>1. /\ \A j \in Settlements \ {k} : accepted[j] = bank[j]
          /\ \/ accepted[k] = bank[k]
             \/ bank[k] = "none" /\ accepted[k] = "accepted"
      BY DEF PayoutTypeOK
    <3>2. \/ bank' = accepted /\ SubmitterGoes(s, "store") /\ UNCHANGED lost
          \/ bank[k] = "none" /\ SubmitterGoes(s, "revert") /\ UNCHANGED <<bank, lost>>
          \/ bank' = accepted /\ SubmitterGoes(s, "revert") /\ lost' = lost \cup {k}
      BY <1>8, <2>1 DEF CallBank
    <3>. HIDE DEF accepted
    <3>3. SubmitterGoes(s, "store") => submitter'[s].at = "store"
      BY <2>1, SubmitterMoves DEF SubmitterSteps
    <3>. QED  BY <3>1, <3>2, <3>3
  <2>5. ASSUME k \notin late
        PROVE  /\ payout[k].st = "processing" /\ payout[k].id = "placeholder" /\ bank[k] = "none"
               /\ \A z \in Submitters \ {s} : submitter[z].at \in Holding => submitter[z].k # k
               /\ \A z \in Submitters : submitter[z].at = "unsweep" => submitter[z].k # k
    BY <2>1, <2>5 DEF OneClaim, Holding, ClosedBefore, Closed, AtRest
  <2>6. ASSUME NEW z \in Submitters, submitter[z] # AtRest PROVE submitter[z].k \in Settlements
    BY <2>6, AtWorkIsSubmitting
  <2>7. RowsAreInOne' /\ OpenSettlementIsBacked'
    BY <2>2 DEF RowsAreInOne, OpenSettlementIsBacked, SweptInto
  <2>8. ClosedBefore'
    <3>1. ASSUME NEW h \in Hooks, hook[h] # AtRest PROVE Happened(hook[h].k, hook[h].ev)'
      BY <2>2, <2>4, <3>1, AtWorkIsHooking DEF ClosedBefore, Happened, Events
    <3>. QED  BY <2>1, <2>2, <2>3, <3>1 DEF ClosedBefore, AtRest
  <2>9. OneClaim'
    BY <2>1, <2>2, <2>3, <2>4, <2>5, <2>6 DEF OneClaim, Holding, AtRest
  <2>10. UnaskedIsUnclaimed'
    BY <2>2, <2>4, <2>5 DEF UnaskedIsUnclaimed
  <2>11. GivenBackUnpaid'
    BY <2>2, <2>3, <2>4, <2>5, <2>6 DEF GivenBackUnpaid, Holding, AtRest
  <2>12. PaidIsBacked'
    BY <2>2, <2>4, <2>5 DEF PaidIsBacked, OpenSettlementIsBacked, SweptInto
  <2>. QED  BY <2>7, <2>8, <2>9, <2>10, <2>11, <2>12
<1>9. ASSUME NEW s \in Submitters, StoreId(s) PROVE PayoutInv'
  <2>1. PICK k \in Settlements : /\ k = submitter[s].k /\ submitter[s] \in Submitting
                                 /\ submitter[s] # AtRest /\ submitter[s].at = "store"
    BY <1>9, AtWorkIsSubmitting DEF StoreId, SubmitterSteps
  <2>2. /\ payout'[k].st = payout[k].st /\ payout'[k].id = "real" /\ payout'[k].rows = payout[k].rows
        /\ \A j \in Settlements \ {k} : payout'[j] = payout[j]
    <3>1. payout[k].st \in {"none", "pending", "processing", "completed", "failed"}
      BY DEF PayoutTypeOK, PayoutRow
    <3>. QED  BY <1>9, <2>1, <3>1, RowWritten DEF StoreId
  <2>3. /\ submitter'[s] = AtRest /\ \A z \in Submitters \ {s} : submitter'[z] = submitter[z]
        /\ UNCHANGED <<earning, bank, hook, handled, faultVars>>
    BY <1>9, SubmitterRests DEF StoreId
  <2>4. payout[k].st \notin {"none", "pending"}
    BY <2>1 DEF ClosedBefore, Closed
  <2>5. ASSUME NEW z \in Submitters, submitter[z] # AtRest PROVE submitter[z].k \in Settlements
    BY <2>5, AtWorkIsSubmitting
  <2>6. RowsAreInOne'
    BY <2>2, <2>3 DEF RowsAreInOne, PayoutTypeOK, EarningRow
  <2>7. ClosedBefore'
    BY <2>2, <2>3, <2>5, AtWorkIsHooking DEF ClosedBefore, Happened, PayoutTypeOK
  <2>8. OneClaim' /\ GivenBackUnpaid'
    <3>1. ASSUME k \notin late PROVE \A z \in Submitters \ {s} : submitter[z].at \in Holding => submitter[z].k # k
      BY <2>1, <3>1 DEF OneClaim, Holding
    <3>. QED  BY <2>2, <2>3, <2>5, <3>1 DEF OneClaim, GivenBackUnpaid, Holding, AtRest
  <2>9. UnaskedIsUnclaimed'
    BY <2>2, <2>3, <2>4 DEF UnaskedIsUnclaimed
  <2>10. OpenSettlementIsBacked' /\ PaidIsBacked'
    BY <2>2, <2>3 DEF OpenSettlementIsBacked, PaidIsBacked, SweptInto
  <2>. QED  BY <2>6, <2>7, <2>8, <2>9, <2>10
<1>10. ASSUME NEW s \in Submitters, RevertPayout(s) PROVE PayoutInv'
  <2>1. PICK k \in Settlements : /\ k = submitter[s].k /\ submitter[s] \in Submitting
                                 /\ submitter[s] # AtRest /\ submitter[s].at = "revert"
    BY <1>10, AtWorkIsSubmitting DEF RevertPayout, SubmitterSteps
  <2>2. /\ payout'[k].st = "failed" /\ payout'[k].rows = payout[k].rows
        /\ \A j \in Settlements \ {k} : payout'[j] = payout[j]
    BY <1>10, <2>1, RowWritten DEF RevertPayout
  <2>3. /\ submitter'[s].at = "unsweep" /\ submitter'[s].k = k
        /\ \A z \in Submitters \ {s} : submitter'[z] = submitter[z]
        /\ UNCHANGED <<earning, bank, hook, handled, faultVars>>
    BY <1>10, <2>1, SubmitterMoves DEF RevertPayout, SubmitterSteps
  <2>4. ASSUME NEW z \in Submitters, submitter[z] # AtRest PROVE submitter[z].k \in Settlements
    BY <2>4, AtWorkIsSubmitting
  <2>5. RowsAreInOne'
    BY <2>2, <2>3 DEF RowsAreInOne, PayoutTypeOK, EarningRow
  <2>6. ClosedBefore'
    BY <2>1, <2>2, <2>3, <2>4, AtWorkIsHooking DEF ClosedBefore, Closed, Happened, PayoutTypeOK
  <2>7. OneClaim'
    <3>1. ASSUME k \notin late PROVE \A z \in Submitters \ {s} : submitter[z].at \in Holding => submitter[z].k # k
      BY <2>1, <3>1 DEF OneClaim, Holding
    <3>. QED  BY <2>2, <2>3, <2>4, <3>1 DEF OneClaim, Holding, AtRest
  <2>8. UnaskedIsUnclaimed' /\ GivenBackUnpaid'
    BY <2>1, <2>2, <2>3, <2>4 DEF UnaskedIsUnclaimed, GivenBackUnpaid, Closed
  <2>9. OpenSettlementIsBacked' /\ PaidIsBacked'
    BY <2>2, <2>3 DEF OpenSettlementIsBacked, PaidIsBacked, SweptInto
  <2>. QED  BY <2>5, <2>6, <2>7, <2>8, <2>9
<1>11. ASSUME NEW s \in Submitters, Unsweep(s) PROVE PayoutInv'
  <2>1. PICK k \in Settlements : /\ k = submitter[s].k /\ submitter[s] # AtRest
                                 /\ submitter[s].at = "unsweep" /\ k # NoSettlement
    BY <1>11, AtWorkIsSubmitting DEF Unsweep, SubmitterSteps, Settlements, NoSettlement
  <2>2. /\ \A e \in SweptInto(k) : earning'[e].st = "cleared" /\ earning'[e].by = NoSettlement
        /\ \A e \in Earnings \ SweptInto(k) : earning'[e] = earning[e]
    BY <1>11, <2>1, GivenBack DEF Unsweep, SweptInto
  <2>3. /\ submitter'[s] = AtRest /\ \A z \in Submitters \ {s} : submitter'[z] = submitter[z]
        /\ UNCHANGED <<payout, bank, hook, handled, faultVars>>
    BY <1>11, SubmitterRests DEF Unsweep
  <2>4. payout[k].st \in Closed /\ (bank[k] = "none" \/ k \in lost \cup late)
    BY <2>1 DEF ClosedBefore, GivenBackUnpaid
  <2>5. RowsAreInOne'
    BY <2>2, <2>3 DEF RowsAreInOne, SweptInto
  <2>6. ClosedBefore'
    BY <2>3 DEF ClosedBefore, Happened, AtRest
  <2>7. OneClaim' /\ UnaskedIsUnclaimed' /\ GivenBackUnpaid'
    BY <2>3 DEF OneClaim, UnaskedIsUnclaimed, GivenBackUnpaid, Holding, AtRest
  <2>8. ASSUME NEW j \in Settlements, j # k
        PROVE  SweptInto(j)' = SweptInto(j) /\ \A e \in SweptInto(j) : earning'[e] = earning[e]
    <3>1. j # NoSettlement
      BY DEF Settlements, NoSettlement
    <3>. QED  BY <2>2, <2>8, <3>1 DEF SweptInto
  <2>9. OpenSettlementIsBacked'
    BY <2>3, <2>4, <2>8 DEF OpenSettlementIsBacked, Closed
  <2>10. PaidIsBacked'
    <3>. SUFFICES ASSUME NEW j \in Settlements \ (lost \cup late), bank[j] \in {"accepted", "processed"},
                         NEW e \in payout[j].rows
                  PROVE  earning'[e].by = j
      BY <2>3 DEF PaidIsBacked
    <3>1. e \in SweptInto(j) /\ j # k
      BY <2>4 DEF PaidIsBacked, SweptInto, PayoutTypeOK, PayoutRow
    <3>. QED  BY <2>8, <3>1 DEF SweptInto
  <2>. QED  BY <2>5, <2>6, <2>7, <2>9, <2>10
<1>12. ASSUME NEW k \in Settlements, BankDecides(k) \/ BankReverses(k) PROVE PayoutInv'
  <2>1. /\ \A j \in Settlements \ {k} : bank'[j] = bank[j]
        /\ \/ bank[k] = "accepted" /\ bank'[k] \in {"processed", "failed"}
           \/ bank[k] = "processed" /\ bank'[k] = "reversed"
        /\ UNCHANGED <<earning, payout, submitter, hook, handled, faultVars>>
    BY <1>12 DEF BankDecides, BankReverses, PayoutTypeOK
  <2>2. RowsAreInOne' /\ OpenSettlementIsBacked' /\ PaidIsBacked'
    BY <2>1 DEF RowsAreInOne, OpenSettlementIsBacked, PaidIsBacked, SweptInto
  <2>3. ClosedBefore'
    <3>1. ASSUME NEW h \in Hooks, hook[h] # AtRest PROVE Happened(hook[h].k, hook[h].ev)'
      BY <2>1, <3>1, AtWorkIsHooking DEF ClosedBefore, Happened, Events
    <3>. QED  BY <2>1, <3>1 DEF ClosedBefore
  <2>4. ASSUME NEW z \in Submitters, submitter[z] # AtRest PROVE submitter[z].k \in Settlements
    BY <2>4, AtWorkIsSubmitting
  <2>5. OneClaim' /\ GivenBackUnpaid'
    BY <2>1, <2>4 DEF OneClaim, GivenBackUnpaid, Holding, AtRest
  <2>6. UnaskedIsUnclaimed'
    BY <2>1 DEF UnaskedIsUnclaimed
  <2>. QED  BY <2>2, <2>3, <2>5, <2>6
<1>13. ASSUME NEW h \in Hooks, NEW k \in Settlements, NEW ev \in Events, Deliver(h, k, ev)
       PROVE  PayoutInv'
  <2>1. /\ hook'[h].at = "settle" /\ hook'[h].k = k /\ hook'[h].ev = ev /\ Happened(k, ev)
        /\ \A z \in Hooks \ {h} : hook'[z] = hook[z]
        /\ UNCHANGED <<earning, payout, bank, submitter, handled, faultVars>>
    BY <1>13 DEF Deliver, PayoutTypeOK
  <2>2. RowsAreInOne' /\ OpenSettlementIsBacked' /\ PaidIsBacked'
    BY <2>1 DEF RowsAreInOne, OpenSettlementIsBacked, PaidIsBacked, SweptInto
  <2>3. ClosedBefore'
    BY <2>1 DEF ClosedBefore, Happened
  <2>4. OneClaim' /\ UnaskedIsUnclaimed' /\ GivenBackUnpaid'
    BY <2>1 DEF OneClaim, UnaskedIsUnclaimed, GivenBackUnpaid
  <2>. QED  BY <2>2, <2>3, <2>4
<1>14. ASSUME NEW h \in Hooks, SettlePayout(h) PROVE PayoutInv'
  <2>1. PICK k \in Settlements : k = hook[h].k /\ hook[h] \in Hooking /\ hook[h] # AtRest
    BY <1>14, AtWorkIsHooking DEF SettlePayout, HookSteps
  <2>2. UNCHANGED <<earning, bank, submitter, handled, lost, late, broken>>
    BY <1>14 DEF SettlePayout
  <2>3. /\ hook'[h].at \in {"rows", "mark"} /\ hook'[h].k = k /\ hook'[h].ev = hook[h].ev
        /\ \A z \in Hooks \ {h} : hook'[z] = hook[z]
    BY <1>14, <2>1, HookMoves DEF SettlePayout, HookSteps
  <2>4. \/ payout' = payout /\ hook'[h].at = "mark"
        \/ /\ payout[k].id = "real" /\ payout'[k].st \in Closed
           /\ payout'[k].id = payout[k].id /\ payout'[k].rows = payout[k].rows
           /\ \A j \in Settlements \ {k} : payout'[j] = payout[j]
    <3>1. CASE payout[k].st # "completed" /\ payout[k].id = "real"
      <4>1. PICK st \in Closed : payout' = [payout EXCEPT ![k].st = st]
        BY <1>14, <2>1, <3>1 DEF SettlePayout, Closed
      <4>. QED  BY <3>1, <4>1, RowWritten DEF Closed
    <3>2. CASE ~(payout[k].st # "completed" /\ payout[k].id = "real")
      BY <1>14, <2>1, <3>2, HookMoves DEF SettlePayout, HookSteps
    <3>. QED  BY <3>1, <3>2
  <2>5. ASSUME NEW z \in Submitters, submitter[z] # AtRest PROVE submitter[z].k \in Settlements
    BY <2>5, AtWorkIsSubmitting
  <2>6. ASSUME NEW z \in Hooks, hook[z] # AtRest PROVE hook[z].k \in Settlements
    BY <2>6, AtWorkIsHooking
  <2>7. RowsAreInOne'
    BY <2>2, <2>4 DEF RowsAreInOne, Closed, PayoutTypeOK, EarningRow
  <2>8. ClosedBefore'
    BY <2>1, <2>2, <2>3, <2>4, <2>5, <2>6 DEF ClosedBefore, Closed, Happened, PayoutTypeOK
  <2>9. OneClaim' /\ GivenBackUnpaid'
    BY <2>2, <2>4, <2>5 DEF OneClaim, GivenBackUnpaid, Holding, AtRest
  <2>10. UnaskedIsUnclaimed'
    BY <2>2, <2>4 DEF UnaskedIsUnclaimed, Closed
  <2>11. OpenSettlementIsBacked' /\ PaidIsBacked'
    BY <2>2, <2>4 DEF OpenSettlementIsBacked, PaidIsBacked, SweptInto, Closed
  <2>. QED  BY <2>7, <2>8, <2>9, <2>10, <2>11
<1>15. ASSUME NEW h \in Hooks, SettleRows(h) PROVE PayoutInv'
  <2>1. PICK k \in Settlements : /\ k = hook[h].k /\ hook[h] \in Hooking /\ hook[h] # AtRest
                                 /\ hook[h].at = "rows" /\ hook[h].ev \in Events
    BY <1>15, AtWorkIsHooking DEF SettleRows, HookSteps
  <2>2. UNCHANGED <<payout, bank, submitter, handled, faultVars>>
    BY <1>15 DEF SettleRows
  <2>3. /\ hook'[h].at = "mark" /\ hook'[h].k = k /\ hook'[h].ev = hook[h].ev
        /\ \A z \in Hooks \ {h} : hook'[z] = hook[z]
    BY <1>15, <2>1, HookMoves DEF SettleRows, HookSteps
  <2>4. payout[k].st \in Closed /\ Happened(k, hook[h].ev) /\ k # NoSettlement
    BY <2>1 DEF ClosedBefore, Settlements, NoSettlement
  <2>5. \A e \in Earnings :
            \/ earning'[e] = earning[e]
            \/ /\ earning[e].by = k /\ earning[e].st = "in_payout"
               /\ \/ earning'[e].by = k /\ earning'[e].st = "paid"
                  \/ earning'[e].by = NoSettlement /\ earning'[e].st = "cleared" /\ hook[h].ev # "processed"
    <3>1. CASE hook[h].ev = "processed"
      BY <1>15, <2>1, <3>1 DEF SettleRows, SweptInto, PayoutTypeOK, EarningRow
    <3>2. CASE hook[h].ev # "processed"
      <4>. DEFINE rows == {e \in SweptInto(k) : earning[e].st = "in_payout"}
      <4>1. earning' = Returned(rows) /\ rows \in SUBSET Earnings
        BY <1>15, <2>1, <3>2 DEF SettleRows, SweptInto
      <4>2. /\ \A e \in rows : earning'[e].st = "cleared" /\ earning'[e].by = NoSettlement
            /\ \A e \in Earnings \ rows : earning'[e] = earning[e]
        BY <4>1, GivenBack
      <4>. QED  BY <3>2, <4>2 DEF SweptInto
    <3>. QED  BY <3>1, <3>2
  <2>6. RowsAreInOne'
    BY <2>2, <2>4, <2>5 DEF RowsAreInOne, Closed
  <2>7. ClosedBefore'
    BY <2>1, <2>2, <2>3 DEF ClosedBefore, Happened
  <2>8. OneClaim' /\ UnaskedIsUnclaimed' /\ GivenBackUnpaid'
    BY <2>2 DEF OneClaim, UnaskedIsUnclaimed, GivenBackUnpaid
  <2>9. ASSUME NEW j \in Settlements, j # k
        PROVE  SweptInto(j)' = SweptInto(j) /\ \A e \in SweptInto(j) : earning'[e] = earning[e]
    <3>1. j # NoSettlement
      BY DEF Settlements, NoSettlement
    <3>. QED  BY <2>5, <2>9, <3>1 DEF SweptInto
  <2>10. OpenSettlementIsBacked'
    BY <2>2, <2>4, <2>9 DEF OpenSettlementIsBacked, Closed
  <2>11. PaidIsBacked'
    <3>. SUFFICES ASSUME NEW j \in Settlements \ (lost \cup late), bank[j] \in {"accepted", "processed"},
                         NEW e \in payout[j].rows
                  PROVE  earning'[e].by = j
      BY <2>2 DEF PaidIsBacked
    <3>1. e \in Earnings /\ earning[e].by = j
      BY DEF PaidIsBacked, PayoutTypeOK, PayoutRow
    <3>2. j = k => hook[h].ev = "processed"
      BY <2>1, <2>4 DEF Happened, Events
    <3>. QED  BY <2>5, <3>1, <3>2
  <2>. QED  BY <2>6, <2>7, <2>8, <2>10, <2>11
<1>16. ASSUME \/ \E h \in Hooks : MarkHandled(h)
              \/ PayoutDies
       PROVE  PayoutInv'
  <2>1. /\ \A s \in Submitters : submitter'[s] \in {submitter[s], AtRest}
        /\ \A h \in Hooks : hook'[h] \in {hook[h], AtRest}
        /\ UNCHANGED <<earning, payout, bank, lost, late>>
    BY <1>16, SubmitterRests, HookRests DEF MarkHandled, PayoutDies
  <2>2. RowsAreInOne' /\ UnaskedIsUnclaimed' /\ OpenSettlementIsBacked' /\ PaidIsBacked'
    BY <2>1 DEF RowsAreInOne, UnaskedIsUnclaimed, OpenSettlementIsBacked, PaidIsBacked, SweptInto
  <2>3. ClosedBefore'
    BY <2>1 DEF ClosedBefore, Happened
  <2>4. OneClaim' /\ GivenBackUnpaid'
    BY <2>1 DEF OneClaim, GivenBackUnpaid, Holding, AtRest
  <2>. QED  BY <2>2, <2>3, <2>4
<1>. QED
  BY <1>1, <1>2, <1>3, <1>4, <1>5, <1>6, <1>7, <1>8, <1>9, <1>10, <1>11, <1>12, <1>13, <1>14, <1>15,
     <1>16
  DEF PayoutNext, RunBatch, CashOut, RetryFailed, SubmitterStep, HookStep

\* Types and invariant hold in every state of the payouts.
LEMMA PayoutInvAlways == PayoutSafety => [](PayoutTypeOK /\ PayoutInv)
<1>1. PayoutInit => PayoutTypeOK
  BY DEF PayoutInit, PayoutTypeOK, EarningRow, PayoutRow
<1>2. PayoutInit => PayoutInv
  BY DEF PayoutInit, PayoutInv, RowsAreInOne, ClosedBefore, OneClaim, UnaskedIsUnclaimed,
     GivenBackUnpaid, OpenSettlementIsBacked, PaidIsBacked, Holding, AtRest
<1>. QED  BY <1>1, <1>2, PayoutTypeStep, PayoutInvStep, PTL DEF PayoutSafety

\* Earnings, settlements, submitters and webhooks stay what they are.
THEOREM PayoutTypeCorrect == PayoutSafety => []PayoutTypeOK
  BY PayoutInvAlways, PTL

\* However many sweeps, submitters, webhooks and faults there are, a settlement still to be
\* paid sums its own earnings: none was given back, paid, or swept into another.
THEOREM OpenIsBacked == PayoutSafety => []OpenSettlementIsBacked
  BY PayoutInvAlways, PTL DEF PayoutInv

\* An earning leaves for the driver's bank in one transfer, for any number of settlements
\* and submitters, except by those whose answer was lost and those claimed late.
THEOREM PaidOnce == PayoutSafety => []PaidOutOnce
<1>1. ASSUME PayoutTypeOK, PaidIsBacked PROVE PaidOutOnce
  <2>. SUFFICES ASSUME NEW e \in Earnings PROVE Cardinality(Transfers(e) \ (lost \cup late)) <= 1
    BY DEF PaidOutOnce
  <2>1. \A k \in Transfers(e) \ (lost \cup late) : k = earning[e].by
    BY <1>1 DEF Transfers, PaidIsBacked
  <2>2. Transfers(e) \ (lost \cup late) = {} \/ Transfers(e) \ (lost \cup late) = {earning[e].by}
    BY <2>1
  <2>3. Cardinality({earning[e].by}) = 1 /\ Cardinality({}) = 0
    BY FS_EmptySet, FS_Singleton
  <2>. QED  BY <2>2, <2>3
<1>. QED  BY <1>1, PayoutInvAlways, PTL DEF PayoutInv

-----------------------------------------------------------------------------
(* Nothing is left behind. *)

\* A placeholder is held by the submitter that put it there.
ClaimIsHeld == \A k \in Settlements \ broken :
    payout[k].st = "processing" /\ payout[k].id = "placeholder"
    => \E s \in Submitters : submitter[s].at \in Holding /\ submitter[s].k = k

\* Somebody at work still moves the rows of a closed settlement on.
Emptying(k) ==
    \/ \E s \in Submitters : submitter[s].at = "unsweep" /\ submitter[s].k = k
    \/ \E h \in Hooks : hook[h].at = "rows" /\ hook[h].k = k
ClosedIsEmptied == \A e \in Earnings :
    earning[e].st = "in_payout" /\ earning[e].by \notin broken /\ payout[earning[e].by].st \in Closed
    => Emptying(earning[e].by)

\* An id of the bank's was asked for.
StoredIsAsked ==
    /\ \A k \in Settlements : payout[k].id = "real" => bank[k] # "none"
    /\ \A s \in Submitters : submitter[s].at = "store" => bank[submitter[s].k] # "none"

\* A webhook that is done with, and was not too early, has closed its settlement.
HandledIsClosed ==
    /\ \A k \in Settlements, ev \in Events :
        <<k, ev>> \in handled => k \in early \/ payout[k].st \in Closed
    /\ \A h \in Hooks : hook[h].at = "mark" => hook[h].k \in early \/ payout[hook[h].k].st \in Closed

EndInv == ClaimIsHeld /\ ClosedIsEmptied /\ StoredIsAsked /\ HandledIsClosed

\* The settlement of a swept row is one of the settlements.
LEMMA SweptBySettlement ==
    ASSUME PayoutTypeOK, PayoutInv, NEW e \in Earnings, earning[e].st \in {"in_payout", "paid"}
    PROVE  earning[e].by \in Settlements /\ payout[earning[e].by].st # "none"
  BY DEF PayoutTypeOK, PayoutInv, RowsAreInOne, EarningRow

\* A step that leaves settlements, and whoever is at work on them, alone.
EarningsStill == \A e \in Earnings : earning'[e] = earning[e] \/ earning'[e].st # "in_payout"
BankStill == \A k \in Settlements : bank[k] # "none" => bank'[k] # "none"
SubmittersStill == \A s \in Submitters :
    \/ submitter'[s] = submitter[s]
    \/ submitter[s].at \in {"rest", "claim"} /\ submitter'[s].at \in {"rest", "claim"}
HooksStill == \A h \in Hooks :
    \/ hook'[h] = hook[h]
    \/ hook[h].at = "rest" /\ hook'[h].at = "settle"

\* A step in which no earning enters a payout and nobody at work on one stops leaves EndInv.
LEMMA EndUnmoved ==
    ASSUME PayoutTypeOK, PayoutInv, EndInv, UNCHANGED <<payout, handled, early, broken>>,
           EarningsStill, BankStill, SubmittersStill, HooksStill
    PROVE  EndInv'
<1>. USE DEF EndInv, EarningsStill, BankStill, SubmittersStill, HooksStill
<1>1. ASSUME NEW s \in Submitters, submitter[s].at \in {"call", "store", "revert", "unsweep"}
      PROVE  submitter'[s] = submitter[s]
  BY <1>1
<1>2. ASSUME NEW h \in Hooks, hook[h].at = "rows" PROVE hook'[h] = hook[h]
  BY <1>2 DEF AtRest
<1>3. ClaimIsHeld'
  BY <1>1 DEF ClaimIsHeld, Holding
<1>4. ClosedIsEmptied'
  BY <1>1, <1>2 DEF ClosedIsEmptied, Emptying
<1>5. StoredIsAsked'
  <2>1. ASSUME NEW s \in Submitters, submitter'[s].at = "store"
        PROVE  submitter'[s] = submitter[s] /\ submitter[s].k \in Settlements
    BY <2>1, AtWorkIsSubmitting DEF SubmitterSteps
  <2>. QED  BY <2>1 DEF StoredIsAsked
<1>6. HandledIsClosed'
  BY DEF HandledIsClosed, AtRest
<1>. QED  BY <1>3, <1>4, <1>5, <1>6

\* However a payout goes on, each earning in it keeps somebody who will move it.
LEMMA EndStep ==
    ASSUME PayoutTypeOK, PayoutInv, EndInv, [PayoutNext]_payoutVars
    PROVE  EndInv'
<1>. USE DEF faultVars, EndInv
<1>1. CASE UNCHANGED payoutVars
  <2>1. EarningsStill /\ BankStill /\ SubmittersStill /\ HooksStill
    BY <1>1 DEF payoutVars, EarningsStill, BankStill, SubmittersStill, HooksStill
  <2>. QED  BY <1>1, <2>1, EndUnmoved DEF payoutVars
<1>2. ASSUME NEW e \in Earnings, Accrue(e) PROVE EndInv'
  <2>1. EarningsStill
    BY <1>2 DEF Accrue, PayoutTypeOK, EarningRow, EarningsStill
  <2>2. BankStill /\ SubmittersStill /\ HooksStill
    BY <1>2 DEF Accrue, BankStill, SubmittersStill, HooksStill
  <2>. QED  BY <1>2, <2>1, <2>2, EndUnmoved DEF Accrue
<1>3. ASSUME ClearEarnings PROVE EndInv'
  <2>1. EarningsStill
    BY <1>3 DEF ClearEarnings, PayoutTypeOK, EarningRow, EarningsStill
  <2>2. BankStill /\ SubmittersStill /\ HooksStill
    BY <1>3 DEF ClearEarnings, BankStill, SubmittersStill, HooksStill
  <2>. QED  BY <1>3, <2>1, <2>2, EndUnmoved DEF ClearEarnings
<1>4. ASSUME NEW st \in {"pending", "processing"}, SweepInto(st) PROVE EndInv'
  <2>1. PICK k \in Settlements :
            /\ payout[k].st = "none"
            /\ payout'[k].st = st /\ payout'[k].id = "null"
            /\ \A j \in Settlements \ {k} : payout'[j] = payout[j]
            /\ \A e \in Earnings : IF earning[e].st = "cleared"
                                   THEN earning'[e].st = "in_payout" /\ earning'[e].by = k
                                   ELSE earning'[e] = earning[e]
            /\ UNCHANGED <<bank, submitter, hook, handled, faultVars>>
    BY <1>4, Swept
  <2>2. ClaimIsHeld' /\ StoredIsAsked'
    BY <2>1 DEF ClaimIsHeld, StoredIsAsked
  <2>3. ClosedIsEmptied'
    BY <2>1, SweptBySettlement DEF ClosedIsEmptied, Emptying, Closed
  <2>4. HandledIsClosed'
    BY <2>1, AtWorkIsHooking DEF HandledIsClosed, Closed, HookSteps
  <2>. QED  BY <2>2, <2>3, <2>4
<1>5. ASSUME NEW k \in Settlements, ApprovePeriod(k) PROVE EndInv'
  <2>1. /\ payout[k].st = "pending" /\ payout'[k].st = "processing" /\ payout'[k].id = payout[k].id
        /\ \A j \in Settlements \ {k} : payout'[j] = payout[j]
    <3>1. payout[k].id \in {"null", "placeholder", "real"}
      BY DEF PayoutTypeOK, PayoutRow
    <3>. QED  BY <1>5, <3>1, RowWritten DEF ApprovePeriod
  <2>2. UNCHANGED <<earning, bank, submitter, hook, handled, faultVars>>
    BY <1>5 DEF ApprovePeriod
  <2>3. payout[k].id = "null"
    BY <2>1 DEF PayoutInv, ClosedBefore, UnaskedIsUnclaimed, Closed
  <2>4. ClaimIsHeld' /\ StoredIsAsked'
    BY <2>1, <2>2, <2>3 DEF ClaimIsHeld, StoredIsAsked
  <2>5. ClosedIsEmptied'
    BY <2>1, <2>2, SweptBySettlement DEF ClosedIsEmptied, Emptying, Closed
  <2>6. HandledIsClosed'
    BY <2>1, <2>2, AtWorkIsHooking DEF HandledIsClosed, Closed, HookSteps
  <2>. QED  BY <2>4, <2>5, <2>6
<1>6. ASSUME NEW s \in Submitters, NEW k \in Settlements, BeginSubmit(s, k) PROVE EndInv'
  <2>1. /\ submitter[s].at = "rest" /\ submitter'[s].at = "claim"
        /\ \A z \in Submitters \ {s} : submitter'[z] = submitter[z]
    BY <1>6 DEF BeginSubmit, PayoutTypeOK, AtRest
  <2>2. EarningsStill /\ BankStill /\ SubmittersStill /\ HooksStill
    BY <1>6, <2>1 DEF BeginSubmit, EarningsStill, BankStill, SubmittersStill, HooksStill
  <2>. QED  BY <1>6, <2>2, EndUnmoved DEF BeginSubmit
<1>7. ASSUME NEW s \in Submitters, ClaimPayout(s) PROVE EndInv'
  <2>1. PICK k \in Settlements : /\ k = submitter[s].k /\ submitter[s] \in Submitting
                                 /\ submitter[s].at = "claim"
    BY <1>7, AtWorkIsSubmitting DEF ClaimPayout, SubmitterSteps
  <2>2. UNCHANGED <<earning, bank, hook, handled, lost, early, broken>>
    BY <1>7 DEF ClaimPayout
  <2>3. CASE payout[k].id # "null"
    <3>1. /\ UNCHANGED payout /\ submitter'[s].at = "rest"
          /\ \A z \in Submitters \ {s} : submitter'[z] = submitter[z]
      BY <1>7, <2>1, <2>3, SubmitterRests DEF ClaimPayout, AtRest
    <3>2. EarningsStill /\ BankStill /\ SubmittersStill /\ HooksStill
      BY <2>1, <2>2, <3>1 DEF EarningsStill, BankStill, SubmittersStill, HooksStill
    <3>. QED  BY <2>2, <3>1, <3>2, EndUnmoved
  <2>4. CASE payout[k].id = "null"
    <3>1. /\ submitter'[s].at = "call" /\ submitter'[s].k = k
          /\ \A z \in Submitters \ {s} : submitter'[z] = submitter[z]
      BY <1>7, <2>1, <2>4, SubmitterMoves DEF ClaimPayout, SubmitterSteps
    <3>2. /\ payout'[k].st = payout[k].st /\ payout'[k].id = "placeholder"
          /\ \A j \in Settlements \ {k} : payout'[j] = payout[j]
      <4>1. payout[k].st \in {"none", "pending", "processing", "completed", "failed"}
        BY DEF PayoutTypeOK, PayoutRow
      <4>. QED  BY <1>7, <2>1, <2>4, <4>1, RowWritten DEF ClaimPayout
    <3>3. ASSUME NEW z \in Submitters, submitter[z].at \in {"call", "store", "revert", "unsweep"}
          PROVE  submitter'[z] = submitter[z]
      BY <2>1, <3>1, <3>3
    <3>4. ClaimIsHeld'
      BY <2>2, <3>1, <3>2, <3>3 DEF ClaimIsHeld, Holding
    <3>5. ClosedIsEmptied'
      BY <2>2, <3>2, <3>3, SweptBySettlement DEF ClosedIsEmptied, Emptying
    <3>6. StoredIsAsked'
      BY <2>2, <3>1, <3>2 DEF StoredIsAsked
    <3>7. HandledIsClosed'
      BY <2>2, <3>2, AtWorkIsHooking DEF HandledIsClosed, HookSteps
    <3>. QED  BY <3>4, <3>5, <3>6, <3>7
  <2>. QED  BY <2>3, <2>4
<1>8. ASSUME NEW s \in Submitters, CallBank(s) PROVE EndInv'
  <2>1. PICK k \in Settlements : /\ k = submitter[s].k /\ submitter[s] \in Submitting
                                 /\ submitter[s].at = "call"
    BY <1>8, AtWorkIsSubmitting DEF CallBank, SubmitterSteps
  <2>2. UNCHANGED <<earning, payout, hook, handled, late, early, broken>>
    BY <1>8 DEF CallBank
  <2>3. /\ submitter'[s].at \in {"store", "revert"} /\ submitter'[s].k = k
        /\ \A z \in Submitters \ {s} : submitter'[z] = submitter[z]
    BY <1>8, <2>1, SubmitterMoves DEF CallBank, SubmitterSteps
  <2>4. /\ \A j \in Settlements : bank[j] # "none" => bank'[j] # "none"
        /\ submitter'[s].at = "store" => bank'[k] # "none"
    <3>. DEFINE accepted == [bank EXCEPT ![k] = IF @ = "none" THEN "accepted" ELSE @]
    <3>1. accepted[k] # "none" /\ \A j \in Settlements : bank[j] # "none" => accepted[j] # "none"
      BY DEF PayoutTypeOK
    <3>2. \/ bank' = accepted
          \/ SubmitterGoes(s, "revert") /\ UNCHANGED bank
      BY <1>8, <2>1 DEF CallBank
    <3>. HIDE DEF accepted
    <3>3. SubmitterGoes(s, "revert") => submitter'[s].at = "revert"
      BY <2>1, SubmitterMoves DEF SubmitterSteps
    <3>. QED  BY <3>1, <3>2, <3>3
  <2>5. ClaimIsHeld'
    BY <2>1, <2>2, <2>3 DEF ClaimIsHeld, Holding
  <2>6. ClosedIsEmptied'
    BY <2>1, <2>2, <2>3 DEF ClosedIsEmptied, Emptying
  <2>7. StoredIsAsked'
    BY <2>2, <2>3, <2>4, AtWorkIsSubmitting DEF StoredIsAsked, SubmitterSteps
  <2>8. HandledIsClosed'
    BY <2>2 DEF HandledIsClosed
  <2>. QED  BY <2>5, <2>6, <2>7, <2>8
<1>9. ASSUME NEW s \in Submitters, StoreId(s) PROVE EndInv'
  <2>1. PICK k \in Settlements : k = submitter[s].k /\ submitter[s].at = "store"
    BY <1>9, AtWorkIsSubmitting DEF StoreId, SubmitterSteps
  <2>2. /\ payout'[k].st = payout[k].st /\ payout'[k].id = "real"
        /\ \A j \in Settlements \ {k} : payout'[j] = payout[j]
    <3>1. payout[k].st \in {"none", "pending", "processing", "completed", "failed"}
      BY DEF PayoutTypeOK, PayoutRow
    <3>. QED  BY <1>9, <2>1, <3>1, RowWritten DEF StoreId
  <2>3. /\ submitter'[s].at = "rest" /\ \A z \in Submitters \ {s} : submitter'[z] = submitter[z]
        /\ UNCHANGED <<earning, bank, hook, handled, faultVars>>
    BY <1>9, SubmitterRests DEF StoreId, AtRest
  <2>4. ClaimIsHeld'
    BY <2>1, <2>2, <2>3 DEF ClaimIsHeld
  <2>5. ClosedIsEmptied'
    BY <2>1, <2>2, <2>3, SweptBySettlement DEF ClosedIsEmptied, Emptying
  <2>6. StoredIsAsked'
    BY <2>1, <2>2, <2>3 DEF StoredIsAsked
  <2>7. HandledIsClosed'
    BY <2>2, <2>3, AtWorkIsHooking DEF HandledIsClosed, HookSteps
  <2>. QED  BY <2>4, <2>5, <2>6, <2>7
<1>10. ASSUME NEW s \in Submitters, RevertPayout(s) PROVE EndInv'
  <2>1. PICK k \in Settlements : /\ k = submitter[s].k /\ submitter[s] \in Submitting
                                 /\ submitter[s].at = "revert"
    BY <1>10, AtWorkIsSubmitting DEF RevertPayout, SubmitterSteps
  <2>2. /\ payout'[k].st = "failed" /\ payout'[k].id = "null"
        /\ \A j \in Settlements \ {k} : payout'[j] = payout[j]
    BY <1>10, <2>1, RowWritten DEF RevertPayout
  <2>3. /\ submitter'[s].at = "unsweep" /\ submitter'[s].k = k
        /\ \A z \in Submitters \ {s} : submitter'[z] = submitter[z]
        /\ UNCHANGED <<earning, bank, hook, handled, faultVars>>
    BY <1>10, <2>1, SubmitterMoves DEF RevertPayout, SubmitterSteps
  <2>4. ClaimIsHeld'
    BY <2>1, <2>2, <2>3 DEF ClaimIsHeld
  <2>5. ClosedIsEmptied'
    BY <2>1, <2>2, <2>3, SweptBySettlement DEF ClosedIsEmptied, Emptying
  <2>6. StoredIsAsked'
    BY <2>2, <2>3 DEF StoredIsAsked
  <2>7. HandledIsClosed'
    BY <2>2, <2>3, AtWorkIsHooking DEF HandledIsClosed, HookSteps, Closed
  <2>. QED  BY <2>4, <2>5, <2>6, <2>7
<1>11. ASSUME NEW s \in Submitters, Unsweep(s) PROVE EndInv'
  <2>1. PICK k \in Settlements : k = submitter[s].k /\ submitter[s].at = "unsweep"
    BY <1>11, AtWorkIsSubmitting DEF Unsweep, SubmitterSteps
  <2>2. /\ \A e \in SweptInto(k) : earning'[e].st = "cleared"
        /\ \A e \in Earnings \ SweptInto(k) : earning'[e] = earning[e]
    BY <1>11, <2>1, GivenBack DEF Unsweep, SweptInto
  <2>3. /\ submitter'[s].at = "rest" /\ \A z \in Submitters \ {s} : submitter'[z] = submitter[z]
        /\ UNCHANGED <<payout, bank, hook, handled, faultVars>>
    BY <1>11, SubmitterRests DEF Unsweep, AtRest
  <2>4. ClaimIsHeld'
    BY <2>1, <2>3 DEF ClaimIsHeld, Holding
  <2>5. ClosedIsEmptied'
    BY <2>1, <2>2, <2>3 DEF ClosedIsEmptied, Emptying, SweptInto
  <2>6. StoredIsAsked' /\ HandledIsClosed'
    BY <2>3 DEF StoredIsAsked, HandledIsClosed
  <2>. QED  BY <2>4, <2>5, <2>6
<1>12. ASSUME NEW k \in Settlements, BankDecides(k) \/ BankReverses(k) PROVE EndInv'
  <2>1. BankStill
    BY <1>12 DEF BankDecides, BankReverses, PayoutTypeOK, BankStill
  <2>2. EarningsStill /\ SubmittersStill /\ HooksStill
    BY <1>12 DEF BankDecides, BankReverses, EarningsStill, SubmittersStill, HooksStill
  <2>. QED  BY <1>12, <2>1, <2>2, EndUnmoved DEF BankDecides, BankReverses
<1>13. ASSUME NEW h \in Hooks, NEW k \in Settlements, NEW ev \in Events, Deliver(h, k, ev)
       PROVE  EndInv'
  <2>1. HooksStill
    BY <1>13 DEF Deliver, PayoutTypeOK, HooksStill, AtRest
  <2>2. EarningsStill /\ BankStill /\ SubmittersStill
    BY <1>13 DEF Deliver, EarningsStill, BankStill, SubmittersStill
  <2>. QED  BY <1>13, <2>1, <2>2, EndUnmoved DEF Deliver
<1>14. ASSUME NEW h \in Hooks, SettlePayout(h) PROVE EndInv'
  <2>1. PICK k \in Settlements : /\ k = hook[h].k /\ hook[h] \in Hooking /\ hook[h].at = "settle"
    BY <1>14, AtWorkIsHooking DEF SettlePayout, HookSteps
  <2>2. UNCHANGED <<earning, bank, submitter, handled, lost, late, broken>>
    BY <1>14 DEF SettlePayout
  <2>3. /\ hook'[h].at \in {"rows", "mark"} /\ hook'[h].k = k
        /\ \A z \in Hooks \ {h} : hook'[z] = hook[z]
    BY <1>14, <2>1, HookMoves DEF SettlePayout, HookSteps
  <2>4. CASE payout[k].st # "completed" /\ payout[k].id = "real"
    <3>1. /\ payout'[k].st \in Closed /\ payout'[k].id = "real"
          /\ \A j \in Settlements \ {k} : payout'[j] = payout[j]
      <4>1. PICK st \in Closed : payout' = [payout EXCEPT ![k].st = st]
        BY <1>14, <2>1, <2>4 DEF SettlePayout, Closed
      <4>. QED  BY <2>4, <4>1, RowWritten DEF Closed
    <3>2. hook'[h].at = "rows" /\ early' = early
      BY <1>14, <2>1, <2>4, HookMoves DEF SettlePayout, HookSteps
    <3>3. ClaimIsHeld'
      BY <2>2, <3>1 DEF ClaimIsHeld, Closed
    <3>4. ClosedIsEmptied'
      BY <2>1, <2>2, <2>3, <3>1, <3>2, SweptBySettlement DEF ClosedIsEmptied, Emptying
    <3>5. StoredIsAsked'
      BY <2>2, <2>4, <3>1 DEF StoredIsAsked
    <3>6. HandledIsClosed'
      BY <2>2, <2>3, <3>1, <3>2, AtWorkIsHooking DEF HandledIsClosed, HookSteps
    <3>. QED  BY <3>3, <3>4, <3>5, <3>6
  <2>5. CASE ~(payout[k].st # "completed" /\ payout[k].id = "real")
    <3>1. /\ payout' = payout /\ hook'[h].at = "mark" /\ early \subseteq early'
          /\ k \in early' \/ payout[k].st = "completed"
      BY <1>14, <2>1, <2>5, HookMoves DEF SettlePayout, HookSteps
    <3>2. ClaimIsHeld' /\ StoredIsAsked'
      BY <2>2, <3>1 DEF ClaimIsHeld, StoredIsAsked
    <3>3. ClosedIsEmptied'
      BY <2>1, <2>2, <2>3, <3>1 DEF ClosedIsEmptied, Emptying
    <3>4. HandledIsClosed'
      BY <2>2, <2>3, <3>1 DEF HandledIsClosed, Closed
    <3>. QED  BY <3>2, <3>3, <3>4
  <2>. QED  BY <2>4, <2>5
<1>15. ASSUME NEW h \in Hooks, SettleRows(h) PROVE EndInv'
  <2>1. PICK k \in Settlements : /\ k = hook[h].k /\ hook[h] \in Hooking /\ hook[h].at = "rows"
                                 /\ hook[h].ev \in Events /\ hook[h] # AtRest
    BY <1>15, AtWorkIsHooking DEF SettleRows, HookSteps
  <2>2. UNCHANGED <<payout, bank, submitter, handled, faultVars>>
    BY <1>15 DEF SettleRows
  <2>3. /\ hook'[h].at = "mark" /\ hook'[h].k = k /\ \A z \in Hooks \ {h} : hook'[z] = hook[z]
    BY <1>15, <2>1, HookMoves DEF SettleRows, HookSteps
  <2>4. \A e \in Earnings : IF earning[e].by = k /\ earning[e].st = "in_payout"
                            THEN earning'[e].st # "in_payout"
                            ELSE earning'[e] = earning[e]
    <3>1. CASE hook[h].ev = "processed"
      BY <1>15, <2>1, <3>1 DEF SettleRows, SweptInto, PayoutTypeOK, EarningRow
    <3>2. CASE hook[h].ev # "processed"
      <4>. DEFINE rows == {e \in SweptInto(k) : earning[e].st = "in_payout"}
      <4>1. earning' = Returned(rows) /\ rows \in SUBSET Earnings
        BY <1>15, <2>1, <3>2 DEF SettleRows, SweptInto
      <4>2. /\ \A e \in rows : earning'[e].st = "cleared"
            /\ \A e \in Earnings \ rows : earning'[e] = earning[e]
        BY <4>1, GivenBack
      <4>. QED  BY <4>2 DEF SweptInto
    <3>. QED  BY <3>1, <3>2
  <2>5. payout[k].st \in Closed
    BY <2>1 DEF PayoutInv, ClosedBefore
  <2>6. ClaimIsHeld' /\ StoredIsAsked'
    BY <2>2 DEF ClaimIsHeld, StoredIsAsked
  <2>7. ClosedIsEmptied'
    BY <2>1, <2>2, <2>3, <2>4 DEF ClosedIsEmptied, Emptying
  <2>8. HandledIsClosed'
    BY <2>2, <2>3, <2>5 DEF HandledIsClosed
  <2>. QED  BY <2>6, <2>7, <2>8
<1>16. ASSUME NEW h \in Hooks, MarkHandled(h) PROVE EndInv'
  <2>1. /\ hook[h].at = "mark" /\ hook'[h].at = "rest" /\ \A z \in Hooks \ {h} : hook'[z] = hook[z]
        /\ handled' = handled \cup {<<hook[h].k, hook[h].ev>>}
        /\ UNCHANGED <<earning, payout, bank, submitter, faultVars>>
    BY <1>16, HookRests DEF MarkHandled, AtRest
  <2>2. ClaimIsHeld' /\ StoredIsAsked'
    BY <2>1 DEF ClaimIsHeld, StoredIsAsked
  <2>3. ClosedIsEmptied'
    BY <2>1 DEF ClosedIsEmptied, Emptying
  <2>4. HandledIsClosed'
    BY <2>1 DEF HandledIsClosed
  <2>. QED  BY <2>2, <2>3, <2>4
<1>17. ASSUME PayoutDies PROVE EndInv'
  <2>1. UNCHANGED <<earning, payout, bank, handled, lost, late, early>>
    BY <1>17 DEF PayoutDies
  <2>2. /\ broken \subseteq broken'
        /\ \A s \in Submitters : \/ submitter'[s] = submitter[s]
                                 \/ submitter'[s].at = "rest" /\ submitter[s].k \in broken'
        /\ \A h \in Hooks : \/ hook'[h] = hook[h]
                            \/ hook'[h].at = "rest" /\ hook[h].k \in broken'
    <3>1. CASE \E s \in Submitters : /\ broken' = broken \cup {submitter[s].k}
                                     /\ submitter' = [submitter EXCEPT ![s] = AtRest]
                                     /\ UNCHANGED hook
      BY <3>1, SubmitterRests DEF AtRest
    <3>2. CASE \E h \in Hooks : /\ broken' = broken \cup {hook[h].k}
                                /\ hook' = [hook EXCEPT ![h] = AtRest]
                                /\ UNCHANGED submitter
      BY <3>2, HookRests DEF AtRest
    <3>. QED  BY <1>17, <3>1, <3>2 DEF PayoutDies
  <2>3. ClaimIsHeld'
    BY <2>1, <2>2 DEF ClaimIsHeld
  <2>4. ClosedIsEmptied'
    BY <2>1, <2>2 DEF ClosedIsEmptied, Emptying
  <2>5. StoredIsAsked' /\ HandledIsClosed'
    BY <2>1, <2>2 DEF StoredIsAsked, HandledIsClosed
  <2>. QED  BY <2>3, <2>4, <2>5
<1>. QED
  BY <1>1, <1>2, <1>3, <1>4, <1>5, <1>6, <1>7, <1>8, <1>9, <1>10, <1>11, <1>12, <1>13, <1>14, <1>15,
     <1>16, <1>17
  DEF PayoutNext, RunBatch, CashOut, RetryFailed, SubmitterStep, HookStep

\* EndInv holds in every state of the payouts.
LEMMA EndAlways == PayoutSafety => []EndInv
<1>1. PayoutInit => EndInv
  BY DEF PayoutInit, EndInv, ClaimIsHeld, ClosedIsEmptied, StoredIsAsked, HandledIsClosed, AtRest
<1>. QED  BY <1>1, PayoutInvAlways, EndStep, PTL DEF PayoutSafety

\* For any number of earnings, settlements, submitters and webhooks, an earning in a payout
\* is still moved on by somebody; only a process that died at its settlement, or a webhook
\* that came before the transfer's id, can leave it there.
THEOREM NothingIsStuck == PayoutSafety => []EarningIsNotStuck
<1>1. ASSUME PayoutTypeOK, PayoutInv, EndInv PROVE EarningIsNotStuck
  <2>. SUFFICES ASSUME NEW e \in Earnings, earning[e].st = "in_payout",
                       earning[e].by \notin broken \cup early
                PROVE  IsGoingOn(earning[e].by)
    BY DEF EarningIsNotStuck
  <2>1. PICK k \in Settlements : k = earning[e].by /\ payout[k].st # "none"
    BY <1>1, SweptBySettlement
  <2>2. CASE payout[k].st \in Closed
    <3>1. Emptying(k)
      BY <1>1, <2>1, <2>2 DEF EndInv, ClosedIsEmptied
    <3>. QED  BY <2>1, <3>1 DEF Emptying, IsGoingOn, AtRest
  <2>3. CASE payout[k].st = "processing" /\ payout[k].id = "placeholder"
    <3>1. \E s \in Submitters : submitter[s].at \in Holding /\ submitter[s].k = k
      BY <1>1, <2>1, <2>3 DEF EndInv, ClaimIsHeld
    <3>. QED  BY <2>1, <3>1 DEF Holding, IsGoingOn, AtRest
  <2>4. CASE payout[k].st = "processing" /\ payout[k].id = "real"
    <3>1. bank[k] \in {"accepted"} \cup Events
      BY <1>1, <2>4 DEF EndInv, StoredIsAsked, PayoutTypeOK
    <3>2. \A ev \in Events : <<k, ev>> \notin handled
      BY <1>1, <2>1, <2>4 DEF EndInv, HandledIsClosed, Closed
    <3>. QED  BY <2>1, <3>1, <3>2 DEF IsGoingOn, Happened
  <2>5. CASE payout[k].st = "pending" \/ (payout[k].st = "processing" /\ payout[k].id = "null")
    BY <2>1, <2>5 DEF IsGoingOn
  <2>6. payout[k] \in PayoutRow
    BY <1>1 DEF PayoutTypeOK
  <2>. QED  BY <2>1, <2>2, <2>3, <2>4, <2>5, <2>6 DEF PayoutRow, Closed
<1>. QED  BY <1>1, PayoutInvAlways, EndAlways, PTL
=============================================================================
