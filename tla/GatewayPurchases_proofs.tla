----------------------- MODULE GatewayPurchases_proofs -----------------------
(***************************************************************************)
(* A driver's purchases, for any number of orders and of callbacks and     *)
(* sweeps at work: each is credited once, and what was paid is found.      *)
(***************************************************************************)
EXTENDS GatewayPurchases, FiniteSetTheorems, TLAPS

\* An order exists before its page does, and stays pending until it is paid.
PageFollowsOrder == \A o \in Orders :
    /\ order[o].st = "none" => page[o] = "none" /\ credits[o] = {}
    /\ page[o] = "open" => order[o].st = "pending"
    /\ page[o] = "captured" => order[o].st # "none"

\* A package is credited under the reference its claim stored, a top-up under our own
\* transaction id; neither before it was paid.
CreditRef(o) == IF o \in Packages THEN order[o].ref ELSE "txnid"
CreditedAsClaimed == \A o \in Orders :
    /\ credits[o] \subseteq {CreditRef(o)}
    /\ credits[o] # {} => page[o] = "captured"
    /\ o \in Packages /\ credits[o] # {} => order[o].st = "completed"
    /\ o \in Packages /\ order[o].st = "completed" => order[o].ref \in Refs
    /\ o \in Topups /\ order[o].st = "completed" => credits[o] # {}

\* What a settler knows of its order at each of its statements.
SettlerKnows == \A s \in Settlers : settler[s] # Idle =>
    LET o == settler[s].order
    IN  /\ page[o] = "captured"
        /\ settler[s].at \in {"claim", "replay", "credit"} => o \in Packages
        /\ settler[s].at = "claim" => settler[s].ref \in Refs
        /\ settler[s].at \in {"replay", "credit"} => order[o].st = "completed"
        /\ settler[s].at = "credit" => settler[s].ref = order[o].ref
        /\ settler[s].at \in {"topup", "stamp"} => o \in Topups
        /\ settler[s].at = "topup" => settler[s].ref = "txnid"
        /\ settler[s].at = "stamp" => credits[o] # {}

PurchaseInv == PageFollowsOrder /\ CreditedAsClaimed /\ SettlerKnows /\ PaidPurchaseIsFound

-----------------------------------------------------------------------------
(* Types. *)

SettlerSteps == {"claim", "replay", "credit", "topup", "stamp"}

\* A settler at work is a record of its own.
LEMMA AtWorkIsSettling ==
    ASSUME PurchaseTypeOK, NEW s \in Settlers, settler[s].at \in SettlerSteps
    PROVE  settler[s] \in Settling
  BY DEF PurchaseTypeOK, Idle, SettlerSteps

\* What it becomes at its next statement; the others are left alone.
LEMMA SettlerMoves ==
    ASSUME PurchaseTypeOK, NEW s \in Settlers, settler[s] \in Settling,
           NEW at \in SettlerSteps, NEW ref \in Refs \cup {NoRef}, SettlerGoes(s, at, ref)
    PROVE  /\ settler' \in [Settlers -> Settling \cup {Idle}]
           /\ settler'[s] \in Settling /\ settler'[s].at = at
           /\ settler'[s].order = settler[s].order /\ settler'[s].ref = ref
           /\ \A z \in Settlers \ {s} : settler'[z] = settler[z]
<1>. DEFINE w == [settler[s] EXCEPT !.at = at, !.ref = ref]
<1>1. w \in Settling
  BY DEF Settling, SettlerSteps
<1>2. w.at = at /\ w.order = settler[s].order /\ w.ref = ref
  BY DEF Settling, SettlerSteps
<1>3. settler' = [settler EXCEPT ![s] = w]
  BY DEF SettlerGoes, PurchaseTypeOK
<1>. HIDE DEF w
<1>. QED  BY <1>1, <1>2, <1>3 DEF PurchaseTypeOK

\* One that ends, or dies, is idle.
LEMMA SettlerRests ==
    ASSUME PurchaseTypeOK, NEW s \in Settlers, SettlerEnds(s)
    PROVE  /\ settler' \in [Settlers -> Settling \cup {Idle}] /\ settler'[s] = Idle
           /\ \A z \in Settlers \ {s} : settler'[z] = settler[z]
  BY DEF SettlerEnds, PurchaseTypeOK

\* What a settler begins with.
LEMMA SettlerBegins ==
    ASSUME PurchaseTypeOK, NEW s \in Settlers, NEW o \in Orders, Settle(s, o)
    PROVE  /\ settler' \in [Settlers -> Settling \cup {Idle}] /\ settler'[s] \in Settling
           /\ settler'[s].order = o /\ settler'[s].ref \in Refs
           /\ \/ o \in Packages /\ settler'[s].at = "claim"
              \/ o \in Topups /\ settler'[s].at = "topup" /\ settler'[s].ref = "txnid"
           /\ \A z \in Settlers \ {s} : settler'[z] = settler[z]
<1>. DEFINE claim(ref) == [at |-> "claim", order |-> o, ref |-> ref]
            topup == [at |-> "topup", order |-> o, ref |-> "txnid"]
<1>1. CASE o \in Packages
  <2>1. PICK ref \in Refs : settler' = [settler EXCEPT ![s] = claim(ref)]
    BY <1>1 DEF Settle
  <2>2. claim(ref) \in Settling
    BY DEF Settling
  <2>. QED  BY <1>1, <2>1, <2>2 DEF PurchaseTypeOK
<1>2. CASE o \notin Packages
  <2>1. settler' = [settler EXCEPT ![s] = topup]
    BY <1>2 DEF Settle
  <2>2. topup \in Settling
    BY DEF Settling, Refs
  <2>. QED  BY <1>2, <2>1, <2>2 DEF PurchaseTypeOK, Orders, Refs
<1>. QED  BY <1>1, <1>2

\* A settler about to credit, or to stamp, holds the reference its order is credited under.
LEMMA HeldRef ==
    ASSUME PurchaseTypeOK, CreditedAsClaimed, SettlerKnows, NEW s \in Settlers,
           settler[s] \in Settling, settler[s].at \in {"credit", "topup"}
    PROVE  settler[s].ref = CreditRef(settler[s].order) /\ settler[s].ref \in Refs
<1>1. settler[s] # Idle /\ settler[s].order \in Orders
  BY DEF Settling, Idle
<1>. QED  BY <1>1, OrderKindsDiffer DEF SettlerKnows, CreditedAsClaimed, CreditRef, Refs

\* A step of the purchases keeps every variable in its type.
LEMMA PurchaseTypeStep ==
    ASSUME PurchaseTypeOK, PurchaseInv, [PurchaseNext]_purchaseVars
    PROVE  PurchaseTypeOK'
<1>1. CASE UNCHANGED purchaseVars
  BY <1>1 DEF purchaseVars, PurchaseTypeOK
<1>2. ASSUME NEW o \in Orders, CreateOrder(o) \/ DriverPays(o) PROVE PurchaseTypeOK'
  BY <1>2 DEF CreateOrder, DriverPays, PurchaseTypeOK, OrderRow
<1>3. ASSUME NEW s \in Settlers, NEW o \in Orders, Settle(s, o) PROVE PurchaseTypeOK'
  BY <1>3, SettlerBegins DEF Settle, PurchaseTypeOK
<1>4. ASSUME NEW s \in Settlers, ClaimPurchase(s) PROVE PurchaseTypeOK'
  <2>1. settler[s] \in Settling
    BY <1>4, AtWorkIsSettling DEF ClaimPurchase, SettlerSteps
  <2>2. settler[s].ref \in Refs \cup {NoRef} /\ settler[s].order \in Orders
    BY <2>1 DEF Settling
  <2>3. settler' \in [Settlers -> Settling \cup {Idle}]
    BY <1>4, <2>1, <2>2, SettlerMoves DEF ClaimPurchase, SettlerSteps
  <2>4. order' \in [Orders -> OrderRow]
    BY <1>4, <2>2 DEF ClaimPurchase, PurchaseTypeOK, OrderRow
  <2>. QED  BY <1>4, <2>3, <2>4 DEF ClaimPurchase, PurchaseTypeOK
<1>5. ASSUME NEW s \in Settlers, ReplayPurchase(s) PROVE PurchaseTypeOK'
  <2>1. settler[s] \in Settling
    BY <1>5, AtWorkIsSettling DEF ReplayPurchase, SettlerSteps
  <2>2. order[settler[s].order].ref \in Refs \cup {NoRef}
    BY <2>1 DEF Settling, PurchaseTypeOK, OrderRow
  <2>3. settler' \in [Settlers -> Settling \cup {Idle}]
    BY <1>5, <2>1, <2>2, SettlerMoves DEF ReplayPurchase, SettlerSteps
  <2>. QED  BY <1>5, <2>3 DEF ReplayPurchase, PurchaseTypeOK
<1>6. ASSUME NEW s \in Settlers, CreditPackage(s) \/ TopUp(s) PROVE PurchaseTypeOK'
  <2>1. settler[s] \in Settling /\ settler[s].at \in {"credit", "topup"}
    BY <1>6, AtWorkIsSettling DEF CreditPackage, TopUp, SettlerSteps
  <2>2. settler[s].ref \in Refs
    BY <2>1, HeldRef DEF PurchaseInv
  <2>3. settler' \in [Settlers -> Settling \cup {Idle}]
    BY <1>6, <2>1, SettlerMoves, SettlerRests DEF CreditPackage, TopUp, SettlerSteps
  <2>4. credits' \in [Orders -> SUBSET Refs]
    BY <1>6, <2>2 DEF CreditPackage, TopUp, PurchaseTypeOK
  <2>. QED  BY <1>6, <2>3, <2>4 DEF CreditPackage, TopUp, PurchaseTypeOK
<1>7. ASSUME NEW s \in Settlers, StampTopup(s) \/ SettlerDies(s) PROVE PurchaseTypeOK'
  <2>1. settler' \in [Settlers -> Settling \cup {Idle}]
    BY <1>7, SettlerRests DEF StampTopup, SettlerDies
  <2>2. order' \in [Orders -> OrderRow]
    BY <1>7 DEF StampTopup, SettlerDies, PurchaseTypeOK, OrderRow
  <2>. QED  BY <1>7, <2>1, <2>2 DEF StampTopup, SettlerDies, PurchaseTypeOK
<1>. QED
  BY <1>1, <1>2, <1>3, <1>4, <1>5, <1>6, <1>7
  DEF PurchaseNext, SettlerStep, Callback, SweepOrder

-----------------------------------------------------------------------------
(* The invariant. *)

\* Every order, payment, callback, sweep and credit keeps the invariant.
LEMMA PurchaseInvStep ==
    ASSUME PurchaseTypeOK, PurchaseInv, [PurchaseNext]_purchaseVars
    PROVE  PurchaseInv'
<1>. USE DEF PurchaseInv
<1>1. CASE UNCHANGED purchaseVars
  BY <1>1 DEF purchaseVars, PageFollowsOrder, CreditedAsClaimed, SettlerKnows, PaidPurchaseIsFound,
     CreditRef
<1>2. ASSUME NEW o \in Orders, CreateOrder(o) PROVE PurchaseInv'
  <2>. USE <1>2 DEF CreateOrder, PurchaseTypeOK, OrderRow
  <2>1. PageFollowsOrder'
    BY DEF PageFollowsOrder
  <2>2. CreditedAsClaimed'
    BY DEF CreditedAsClaimed, CreditRef, PageFollowsOrder
  <2>3. SettlerKnows'
    BY DEF SettlerKnows, PageFollowsOrder
  <2>4. PaidPurchaseIsFound'
    BY DEF PaidPurchaseIsFound
  <2>. QED  BY <2>1, <2>2, <2>3, <2>4
<1>3. ASSUME NEW o \in Orders, DriverPays(o) PROVE PurchaseInv'
  <2>. USE <1>3 DEF DriverPays, PurchaseTypeOK, OrderRow
  <2>1. PageFollowsOrder'
    BY DEF PageFollowsOrder
  <2>2. CreditedAsClaimed'
    BY DEF CreditedAsClaimed, CreditRef
  <2>3. SettlerKnows'
    BY DEF SettlerKnows
  <2>4. PaidPurchaseIsFound'
    BY DEF PaidPurchaseIsFound, CreditedAsClaimed, PageFollowsOrder
  <2>. QED  BY <2>1, <2>2, <2>3, <2>4
<1>4. ASSUME NEW s \in Settlers, NEW o \in Orders, Settle(s, o) PROVE PurchaseInv'
  <2>1. UNCHANGED <<order, page, credits, crashes>> /\ page[o] = "captured" /\ settler[s] = Idle
    BY <1>4 DEF Settle
  <2>2. PageFollowsOrder' /\ CreditedAsClaimed'
    BY <2>1 DEF PageFollowsOrder, CreditedAsClaimed, CreditRef
  <2>3. SettlerKnows'
    BY <1>4, <2>1, SettlerBegins DEF SettlerKnows
  <2>4. PaidPurchaseIsFound'
    BY <1>4, <2>1, SettlerBegins DEF PaidPurchaseIsFound, Idle
  <2>. QED  BY <2>2, <2>3, <2>4
<1>5. ASSUME NEW s \in Settlers, ClaimPurchase(s) PROVE PurchaseInv'
  <2>. DEFINE o == settler[s].order
              ref == settler[s].ref
  <2>1. settler[s] \in Settling /\ settler[s] # Idle /\ settler[s].at = "claim"
    BY <1>5, AtWorkIsSettling DEF ClaimPurchase, SettlerSteps, Idle
  <2>2. o \in Packages /\ o \in Orders /\ ref \in Refs /\ page[o] = "captured"
    BY <2>1 DEF SettlerKnows, Orders
  <2>3. /\ settler'[s] \in Settling /\ settler'[s].order = o /\ settler'[s].ref = ref
        /\ settler'[s].at = IF order[o].st = "pending" THEN "credit" ELSE "replay"
        /\ \A z \in Settlers \ {s} : settler'[z] = settler[z]
    BY <1>5, <2>1, <2>2, SettlerMoves DEF ClaimPurchase, SettlerSteps
  <2>4. CASE order[o].st = "pending"
    <3>1. /\ order' = [order EXCEPT ![o] = [st |-> "completed", ref |-> ref]]
          /\ UNCHANGED <<page, credits, crashes>>
      BY <1>5, <2>4 DEF ClaimPurchase
    <3>2. /\ order'[o].st = "completed" /\ order'[o].ref = ref
          /\ \A p \in Orders \ {o} : order'[p] = order[p]
      BY <3>1, <2>2 DEF PurchaseTypeOK
    <3>. HIDE DEF o, ref
    <3>3. PageFollowsOrder'
      BY <2>2, <3>1, <3>2 DEF PageFollowsOrder
    <3>4. CreditedAsClaimed'
      BY <2>2, <2>4, <3>1, <3>2, OrderKindsDiffer DEF CreditedAsClaimed, CreditRef, Orders
    <3>5. SettlerKnows'
      BY <2>2, <2>3, <2>4, <3>1, <3>2 DEF SettlerKnows
    <3>6. PaidPurchaseIsFound'
      BY <2>1, <2>2, <2>3, <2>4, <3>1, <3>2 DEF PaidPurchaseIsFound
    <3>. QED  BY <3>3, <3>4, <3>5, <3>6
  <2>5. CASE order[o].st # "pending"
    <3>1. UNCHANGED <<order, page, credits, crashes>>
      BY <1>5, <2>5 DEF ClaimPurchase
    <3>2. order[o].st = "completed"
      BY <2>2, <2>5 DEF PageFollowsOrder, PurchaseTypeOK, OrderRow
    <3>. HIDE DEF o, ref
    <3>3. PageFollowsOrder' /\ CreditedAsClaimed'
      BY <3>1 DEF PageFollowsOrder, CreditedAsClaimed, CreditRef
    <3>4. SettlerKnows'
      BY <2>2, <2>3, <2>5, <3>1, <3>2 DEF SettlerKnows
    <3>5. PaidPurchaseIsFound'
      BY <2>1, <2>3, <3>1 DEF PaidPurchaseIsFound
    <3>. QED  BY <3>3, <3>4, <3>5
  <2>. QED  BY <2>4, <2>5
<1>6. ASSUME NEW s \in Settlers, ReplayPurchase(s) PROVE PurchaseInv'
  <2>. DEFINE o == settler[s].order
  <2>1. settler[s] \in Settling /\ settler[s] # Idle /\ settler[s].at = "replay"
    BY <1>6, AtWorkIsSettling DEF ReplayPurchase, SettlerSteps, Idle
  <2>2. /\ o \in Packages /\ o \in Orders /\ page[o] = "captured"
        /\ order[o].st = "completed" /\ order[o].ref \in Refs
    BY <2>1 DEF SettlerKnows, CreditedAsClaimed, Orders
  <2>3. /\ settler'[s] \in Settling /\ settler'[s].order = o /\ settler'[s].ref = order[o].ref
        /\ settler'[s].at = "credit"
        /\ \A z \in Settlers \ {s} : settler'[z] = settler[z]
    BY <1>6, <2>1, <2>2, SettlerMoves DEF ReplayPurchase, SettlerSteps
  <2>4. UNCHANGED <<order, page, credits, crashes>>
    BY <1>6 DEF ReplayPurchase
  <2>. HIDE DEF o
  <2>5. PageFollowsOrder' /\ CreditedAsClaimed'
    BY <2>4 DEF PageFollowsOrder, CreditedAsClaimed, CreditRef
  <2>6. SettlerKnows'
    BY <2>2, <2>3, <2>4 DEF SettlerKnows
  <2>7. PaidPurchaseIsFound'
    BY <2>1, <2>3, <2>4 DEF PaidPurchaseIsFound
  <2>. QED  BY <2>5, <2>6, <2>7
<1>7. ASSUME NEW s \in Settlers, CreditPackage(s) \/ TopUp(s) PROVE PurchaseInv'
  <2>. DEFINE o == settler[s].order
  <2>1. /\ settler[s] \in Settling /\ settler[s] # Idle
        /\ settler[s].at \in {"credit", "topup"}
    BY <1>7, AtWorkIsSettling DEF CreditPackage, TopUp, SettlerSteps, Idle
  <2>2. /\ o \in Orders /\ page[o] = "captured"
        /\ settler[s].at = "credit" => o \in Packages /\ order[o].st = "completed"
        /\ settler[s].at = "topup" => o \in Topups
    BY <2>1 DEF SettlerKnows, Settling
  <2>3. UNCHANGED <<order, page, crashes>>
    BY <1>7 DEF CreditPackage, TopUp
  <2>4. /\ credits'[o] = credits[o] \cup {CreditRef(o)}
        /\ \A p \in Orders \ {o} : credits'[p] = credits[p]
    BY <1>7, <2>1, <2>2, HeldRef DEF CreditPackage, TopUp, PurchaseTypeOK
  <2>5. /\ \A z \in Settlers \ {s} : settler'[z] = settler[z]
        /\ \/ settler'[s] = Idle
           \/ settler'[s].at = "stamp" /\ settler'[s].order = o /\ settler[s].at = "topup"
    BY <1>7, <2>1, SettlerMoves, SettlerRests DEF CreditPackage, TopUp, SettlerSteps
  <2>. HIDE DEF o
  <2>6. PageFollowsOrder'
    BY <2>2, <2>3, <2>4 DEF PageFollowsOrder
  <2>7. CreditedAsClaimed'
    BY <2>1, <2>2, <2>3, <2>4, OrderKindsDiffer DEF CreditedAsClaimed, CreditRef
  <2>8. SettlerKnows'
    <3>1. credits'[o] # {} /\ \A p \in Orders : credits[p] # {} => credits'[p] # {}
      BY <2>4
    <3>2. ASSUME NEW z \in Settlers \ {s}, settler[z] # Idle PROVE settler[z].order \in Orders
      BY <3>2 DEF PurchaseTypeOK, Settling
    <3>3. \A z \in Settlers \ {s} : SettlerKnows!(z)'
      BY <2>3, <2>5, <3>1, <3>2 DEF SettlerKnows
    <3>4. SettlerKnows!(s)'
      BY <2>2, <2>3, <2>5, <3>1
    <3>. QED  BY <3>3, <3>4 DEF SettlerKnows
  <2>9. PaidPurchaseIsFound'
    <3>. SUFFICES ASSUME NEW p \in Orders, page[p] = "captured", credits'[p] = {},
                         order[p].st # "pending", ~(p \in Packages /\ crashes > 0)
                  PROVE  \E z \in Settlers : settler'[z].at = "credit" /\ settler'[z].order = p
      BY <2>3 DEF PaidPurchaseIsFound
    <3>1. p # o /\ credits[p] = {}
      BY <2>4
    <3>2. PICK z \in Settlers : settler[z].at = "credit" /\ settler[z].order = p
      BY <3>1 DEF PaidPurchaseIsFound
    <3>. QED  BY <2>5, <3>1, <3>2 DEF o
  <2>. QED  BY <2>6, <2>7, <2>8, <2>9
<1>8. ASSUME NEW s \in Settlers, StampTopup(s) PROVE PurchaseInv'
  <2>. DEFINE o == settler[s].order
  <2>1. settler[s] \in Settling /\ settler[s] # Idle /\ settler[s].at = "stamp"
    BY <1>8, AtWorkIsSettling DEF StampTopup, SettlerSteps, Idle
  <2>2. o \in Topups /\ o \in Orders /\ page[o] = "captured" /\ credits[o] # {}
    BY <2>1 DEF SettlerKnows, Orders
  <2>3. /\ order'[o].st = "completed" /\ order'[o].ref = order[o].ref
        /\ \A p \in Orders \ {o} : order'[p] = order[p]
    BY <1>8, <2>2 DEF StampTopup, PurchaseTypeOK, OrderRow
  <2>4. /\ settler'[s] = Idle /\ \A z \in Settlers \ {s} : settler'[z] = settler[z]
        /\ UNCHANGED <<page, credits, crashes>>
    BY <1>8, SettlerRests DEF StampTopup
  <2>. HIDE DEF o
  <2>5. PageFollowsOrder'
    BY <2>2, <2>3, <2>4 DEF PageFollowsOrder
  <2>6. CreditedAsClaimed'
    BY <2>2, <2>3, <2>4, OrderKindsDiffer DEF CreditedAsClaimed, CreditRef
  <2>7. SettlerKnows'
    <3>1. ASSUME NEW z \in Settlers, settler[z] # Idle PROVE settler[z].order \in Orders
      BY <3>1 DEF PurchaseTypeOK, Settling
    <3>. QED  BY <2>2, <2>3, <2>4, <3>1 DEF SettlerKnows
  <2>8. PaidPurchaseIsFound'
    <3>. SUFFICES ASSUME NEW p \in Orders, page[p] = "captured", credits[p] = {},
                         order'[p].st # "pending", ~(p \in Packages /\ crashes > 0)
                  PROVE  \E z \in Settlers : settler'[z].at = "credit" /\ settler'[z].order = p
      BY <2>4 DEF PaidPurchaseIsFound
    <3>1. p # o /\ order'[p] = order[p]
      BY <2>2, <2>3
    <3>2. PICK z \in Settlers : settler[z].at = "credit" /\ settler[z].order = p
      BY <3>1 DEF PaidPurchaseIsFound
    <3>. QED  BY <2>1, <2>4, <3>2
  <2>. QED  BY <2>5, <2>6, <2>7, <2>8
<1>9. ASSUME NEW s \in Settlers, SettlerDies(s) PROVE PurchaseInv'
  <2>1. /\ settler'[s] = Idle /\ \A z \in Settlers \ {s} : settler'[z] = settler[z]
        /\ UNCHANGED <<order, page, credits>> /\ crashes' > 0
    BY <1>9, SettlerRests DEF SettlerDies, PurchaseTypeOK
  <2>2. PageFollowsOrder' /\ CreditedAsClaimed'
    BY <2>1 DEF PageFollowsOrder, CreditedAsClaimed, CreditRef
  <2>3. SettlerKnows'
    BY <2>1 DEF SettlerKnows
  <2>4. PaidPurchaseIsFound'
    <3>. SUFFICES ASSUME NEW p \in Topups, page[p] = "captured", credits[p] = {},
                         order[p].st # "pending"
                  PROVE  FALSE
      BY <2>1 DEF PaidPurchaseIsFound, Orders
    <3>1. p \in Orders /\ p \notin Packages
      BY OrderKindsDiffer DEF Orders
    <3>. QED  BY <3>1 DEF CreditedAsClaimed, PageFollowsOrder, PurchaseTypeOK, OrderRow
  <2>. QED  BY <2>2, <2>3, <2>4
<1>. QED
  BY <1>1, <1>2, <1>3, <1>4, <1>5, <1>6, <1>7, <1>8, <1>9
  DEF PurchaseNext, SettlerStep, Callback, SweepOrder

\* Types and invariant hold in every state of the purchases.
LEMMA PurchaseInvAlways == PurchaseSafety => [](PurchaseTypeOK /\ PurchaseInv)
<1>1. PurchaseInit => PurchaseTypeOK
  BY DEF PurchaseInit, PurchaseTypeOK, OrderRow
<1>2. PurchaseInit => PurchaseInv
  BY DEF PurchaseInit, PurchaseInv, PageFollowsOrder, CreditedAsClaimed, SettlerKnows,
     PaidPurchaseIsFound, CreditRef
<1>. QED  BY <1>1, <1>2, PurchaseTypeStep, PurchaseInvStep, PTL DEF PurchaseSafety

\* Orders, credits and settlers stay what they are: no credit is ever without a reference.
THEOREM PurchaseTypeCorrect == PurchaseSafety => []PurchaseTypeOK
  BY PurchaseInvAlways, PTL

\* What a driver paid and was not credited is still found by the sweep, for any number of
\* orders and settlers; only a settler that died can leave a package to another callback.
THEOREM PaidPurchaseFound == PurchaseSafety => []PaidPurchaseIsFound
  BY PurchaseInvAlways, PTL DEF PurchaseInv

\* However many callbacks and sweeps settle one purchase, and under whichever references
\* PayU answers them, it is credited once, and only when it was paid.
THEOREM CreditedOnce == PurchaseSafety => []PurchaseCreditedOnce
<1>1. ASSUME CreditedAsClaimed PROVE PurchaseCreditedOnce
  <2>. SUFFICES ASSUME NEW o \in Orders PROVE Cardinality(credits[o]) <= 1
    BY <1>1 DEF PurchaseCreditedOnce, CreditedAsClaimed
  <2>1. credits[o] = {} \/ credits[o] = {CreditRef(o)}
    BY <1>1 DEF CreditedAsClaimed
  <2>2. Cardinality({CreditRef(o)}) = 1 /\ Cardinality({}) = 0
    BY FS_EmptySet, FS_Singleton
  <2>. QED  BY <2>1, <2>2
<1>. QED  BY <1>1, PurchaseInvAlways, PTL DEF PurchaseInv
=============================================================================
