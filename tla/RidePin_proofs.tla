--------------------------- MODULE RidePin_proofs ---------------------------
(***************************************************************************)
(* The start PIN, for any number of calls of markArrived: the PIN in Redis *)
(* and the hash in Postgres are of one PIN, and a repeated "arrived" keeps *)
(* the PIN the rider has been shown.                                       *)
(***************************************************************************)
EXTENDS RidePin, TLAPS

\* No two calls overlapped and Redis answered every one.
Quiet == trouble \cap {"overlap", "silence"} = {}

\* Without an overlap one call at a time is between two of its awaits.
OneAtWork == "overlap" \notin trouble => \A a, b \in Arrivals : AtWork(a) /\ AtWork(b) => a = b

\* Nothing is minted, cached or shown before the driver arrives.
FreshRide == stage = "accepted" =>
    /\ hash = NoPin /\ cached = NoPin /\ shown = {}
    /\ \A a \in Arrivals : arrival[a].at \in {"unsent", "cas", "done"}

\* A call about to cache a PIN holds the one that is hashed; one about to mint a PIN found
\* none in Redis, and none has come since.
HeldPin == Quiet /\ stage = "driver_arrived" => \A a \in Arrivals :
    /\ arrival[a].at = "set" => arrival[a].pin = hash
    /\ arrival[a].at = "reissue" => cached = NoPin

\* While Redis loses nothing, a PIN that was shown, or is about to be, is still there.
ShownIsCached == trouble = {} /\ stage = "driver_arrived" /\ cached = NoPin =>
    shown = {} /\ \A a \in Arrivals : arrival[a].at # "push"

PinInv == OneAtWork /\ FreshRide /\ PinAgrees /\ HeldPin /\ ShownIsCached

-----------------------------------------------------------------------------
(* Types. *)

\* A step of the PIN keeps every variable in its type.
LEMMA PinTypeStep == ASSUME PinTypeOK, [PinNext]_pinVars PROVE PinTypeOK'
<1>. USE DEF PinTypeOK, Pins, ArrivalStep, Troubles, ArrivalGoes
<1>1. CASE UNCHANGED pinVars
  BY <1>1 DEF pinVars
<1>2. ASSUME NEW a \in Arrivals, SendArrived(a) PROVE PinTypeOK'
  BY <1>2 DEF SendArrived
<1>3. ASSUME NEW a \in Arrivals, ArriveByCas(a) PROVE PinTypeOK'
  BY <1>3 DEF ArriveByCas
<1>4. ASSUME NEW a \in Arrivals, RereadRide(a) PROVE PinTypeOK'
  BY <1>4 DEF RereadRide
<1>5. ASSUME NEW a \in Arrivals, GetPin(a) PROVE PinTypeOK'
  BY <1>5 DEF GetPin
<1>6. ASSUME NEW a \in Arrivals, ReissueHash(a) PROVE PinTypeOK'
  BY <1>6 DEF ReissueHash
<1>7. ASSUME NEW a \in Arrivals, SetPin(a) \/ PushPin(a) \/ ArrivalFails(a) PROVE PinTypeOK'
  BY <1>7 DEF SetPin, PushPin, ArrivalFails
<1>8. CASE FetchPin \/ LosePin
  BY <1>8 DEF FetchPin, LosePin
<1>9. CASE StartWithPin
  BY <1>9 DEF StartWithPin
<1>. QED  BY <1>1, <1>2, <1>3, <1>4, <1>5, <1>6, <1>7, <1>8, <1>9 DEF PinNext, ArrivalStepOf

\* A PIN, a call and the state of a ride stay what they are, whatever fails.
THEOREM PinTypeCorrect == PinSafety => []PinTypeOK
<1>1. PinInit => PinTypeOK
  BY DEF PinInit, PinTypeOK, Pins, ArrivalStep, Troubles
<1>. QED  BY <1>1, PinTypeStep, PTL DEF PinSafety

-----------------------------------------------------------------------------
(* The invariant. *)

\* Arrivals, fetches and the start keep the invariant.
LEMMA PinInvStep == ASSUME PinTypeOK, PinInv, [PinNext]_pinVars PROVE PinInv'
<1>. USE DEF PinInv, PinTypeOK, Pins, ArrivalGoes, AtWork, Quiet,
             OneAtWork, FreshRide, PinAgrees, HeldPin, ShownIsCached
<1>1. CASE UNCHANGED pinVars
  BY <1>1 DEF pinVars
<1>2. ASSUME NEW a \in Arrivals, SendArrived(a) PROVE PinInv'
  BY <1>2 DEF SendArrived
<1>3. ASSUME NEW a \in Arrivals, ArriveByCas(a) PROVE PinInv'
  BY <1>3 DEF ArriveByCas
<1>4. ASSUME NEW a \in Arrivals, RereadRide(a) PROVE PinInv'
  BY <1>4 DEF RereadRide
<1>5. ASSUME NEW a \in Arrivals, GetPin(a) PROVE PinInv'
  BY <1>5 DEF GetPin
<1>6. ASSUME NEW a \in Arrivals, ReissueHash(a) PROVE PinInv'
  BY <1>6 DEF ReissueHash
<1>7. ASSUME NEW a \in Arrivals, SetPin(a) PROVE PinInv'
  BY <1>7, NoPinIsNoArrival DEF SetPin
<1>8. ASSUME NEW a \in Arrivals, PushPin(a) \/ ArrivalFails(a) PROVE PinInv'
  BY <1>8 DEF PushPin, ArrivalFails
<1>9. CASE FetchPin \/ LosePin
  BY <1>9 DEF FetchPin, LosePin
<1>10. CASE StartWithPin
  BY <1>10 DEF StartWithPin
<1>. QED
  BY <1>1, <1>2, <1>3, <1>4, <1>5, <1>6, <1>7, <1>8, <1>9, <1>10 DEF PinNext, ArrivalStepOf

\* Types and invariant hold in every state of the PIN.
LEMMA PinInvAlways == PinSafety => [](PinTypeOK /\ PinInv)
<1>1. PinInit => PinInv
  BY DEF PinInit, PinInv, OneAtWork, FreshRide, PinAgrees, HeldPin, ShownIsCached, AtWork
<1>. QED  BY <1>1, PinInvStep, PinTypeCorrect, PTL DEF PinSafety

\* The PIN the rider can fetch is the one the driver's app will be asked for, for any number
\* of calls that fail and are repeated one after the other.
THEOREM PinsAgree == PinSafety => []PinAgrees
  BY PinInvAlways, PTL DEF PinInv

\* A PIN the rider was shown is replaced only in trouble.
LEMMA ShownPinStep ==
    ASSUME PinTypeOK, PinInv, [PinNext]_pinVars, hash' # hash, hash \in shown
    PROVE  trouble' # {}
<1>1. CASE \E a \in Arrivals : ArriveByCas(a)
  BY <1>1 DEF ArriveByCas, PinInv, FreshRide
<1>2. CASE \E a \in Arrivals : ReissueHash(a)
  BY <1>2 DEF ReissueHash, PinInv, HeldPin, ShownIsCached, Quiet
<1>3. \E a \in Arrivals : ArriveByCas(a) \/ ReissueHash(a)
  BY DEF PinNext, ArrivalStepOf, SendArrived, RereadRide, GetPin, SetPin, PushPin, ArrivalFails,
     FetchPin, LosePin, StartWithPin, pinVars
<1>. QED  BY <1>1, <1>2, <1>3

\* No repeated "arrived" invalidates a PIN the rider was shown, unless calls overlapped or
\* Redis failed.
THEOREM ShownPinStays == PinSafety => ShownPinStaysValid
<1>1. PinTypeOK /\ PinInv /\ [PinNext]_pinVars
        => [hash' # hash /\ hash \in shown => trouble' # {}]_pinVars
  BY ShownPinStep
<1>. QED  BY <1>1, PinInvAlways, PTL DEF PinSafety, ShownPinStaysValid
=============================================================================
