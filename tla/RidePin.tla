------------------------------- MODULE RidePin -------------------------------
(***************************************************************************)
(* The PIN that starts a ride: markArrived mints it, its hash goes to      *)
(* rides.start_otp_hash, its clear text to Redis and to the rider's app,   *)
(* and verifyStartOTP compares what the driver types with the hash.  A     *)
(* driver's app repeats "arrived" when it gets no answer, so several calls *)
(* of markArrived may be at work, each between two of its awaits.          *)
(* (The count of wrong attempts is left out.)                              *)
(***************************************************************************)
EXTENDS Naturals, FiniteSets

CONSTANTS
    Arrivals,       \* bound: calls of markArrived; each mints a PIN of its own
    NoPin           \* no hash, or no key in Redis

ASSUME NoPinIsNoArrival == NoPin \notin Arrivals

VARIABLES
    stage,      \* rides.status, from accepted on
    hash,       \* the PIN whose hash is in rides.start_otp_hash
    cached,     \* the PIN in Redis
    shown,      \* the PINs the rider has been shown
    arrival,    \* each call of markArrived: the await it has come to and the PIN it holds
    trouble     \* calls overlapped, Redis did not answer, or lost the key

pinVars == <<stage, hash, cached, shown, arrival, trouble>>

Pins == Arrivals \cup {NoPin}
ArrivalStep == {"unsent", "cas", "reread", "get", "reissue", "set", "push", "done"}
Troubles == {"overlap", "silence", "expiry"}
AtWork(a) == arrival[a].at \notin {"unsent", "done"}
ArrivalGoes(a, at) == arrival' = [arrival EXCEPT ![a].at = at]

PinInit ==
    /\ stage = "accepted"
    /\ hash = NoPin /\ cached = NoPin /\ shown = {}
    /\ arrival = [a \in Arrivals |-> [at |-> "unsent", pin |-> a]]
    /\ trouble = {}

\* markArrived up to its first write: the driver's own ride, and a fresh PIN.
SendArrived(a) ==
    /\ arrival[a].at = "unsent"
    /\ ArrivalGoes(a, "cas")
    /\ trouble' = IF \E b \in Arrivals : AtWork(b) THEN trouble \cup {"overlap"} ELSE trouble
    /\ UNCHANGED <<stage, hash, cached, shown>>

\* The compare-and-swap from accepted, with the hash of this call's PIN.
ArriveByCas(a) ==
    /\ arrival[a].at = "cas"
    /\ IF stage = "accepted"
       THEN stage' = "driver_arrived" /\ hash' = arrival[a].pin /\ ArrivalGoes(a, "set")
       ELSE ArrivalGoes(a, "reread") /\ UNCHANGED <<stage, hash>>
    /\ UNCHANGED <<cached, shown, trouble>>

\* The compare-and-swap is lost: a retry, or a call that came too late (409).
RereadRide(a) ==
    /\ arrival[a].at = "reread"
    /\ ArrivalGoes(a, IF stage = "driver_arrived" THEN "get" ELSE "done")
    /\ UNCHANGED <<stage, hash, cached, shown, trouble>>

\* Mutant: a repeated call always mints a new PIN.
GetNothing(a) ==
    /\ arrival[a].at = "get"
    /\ ArrivalGoes(a, "reissue")
    /\ UNCHANGED <<stage, hash, cached, shown, trouble>>

\* redis.get: the PIN that is still there is sent again.  A timeout reads as no PIN.
GetPin(a) ==
    /\ arrival[a].at = "get"
    /\ \/ /\ arrival' = [arrival EXCEPT ![a] =
                IF cached # NoPin THEN [at |-> "set", pin |-> cached] ELSE [@ EXCEPT !.at = "reissue"]]
          /\ UNCHANGED trouble
       \/ ArrivalGoes(a, "reissue") /\ trouble' = trouble \cup {"silence"}
    /\ UNCHANGED <<stage, hash, cached, shown>>

\* Mutant: the new PIN is cached and sent without its hash.
ReissuePinOnly(a) ==
    /\ arrival[a].at = "reissue"
    /\ ArrivalGoes(a, IF stage = "driver_arrived" THEN "set" ELSE "done")
    /\ UNCHANGED <<stage, hash, cached, shown, trouble>>

\* reissueStartOtpHash: while the ride is still driver_arrived.
ReissueHash(a) ==
    /\ arrival[a].at = "reissue"
    /\ IF stage = "driver_arrived"
       THEN hash' = arrival[a].pin /\ ArrivalGoes(a, "set")
       ELSE ArrivalGoes(a, "done") /\ UNCHANGED hash
    /\ UNCHANGED <<stage, cached, shown, trouble>>

\* redis.set ...
SetPin(a) ==
    /\ arrival[a].at = "set"
    /\ cached' = arrival[a].pin
    /\ ArrivalGoes(a, "push")
    /\ UNCHANGED <<stage, hash, shown, trouble>>

\* ... and the rider's socket.
PushPin(a) ==
    /\ arrival[a].at = "push"
    /\ shown' = shown \cup {arrival[a].pin}
    /\ ArrivalGoes(a, "done")
    /\ UNCHANGED <<stage, hash, cached, trouble>>

\* A call dies, or an await of it throws.
ArrivalFails(a) ==
    /\ AtWork(a)
    /\ ArrivalGoes(a, "done")
    /\ UNCHANGED <<stage, hash, cached, shown, trouble>>

\* The rider's app fetches the ride.
FetchPin ==
    /\ cached # NoPin
    /\ shown' = shown \cup {cached}
    /\ UNCHANGED <<stage, hash, cached, arrival, trouble>>

\* The key expires after two hours, or Redis loses it.
LosePin ==
    /\ cached # NoPin
    /\ cached' = NoPin
    /\ trouble' = trouble \cup {"expiry"}
    /\ UNCHANGED <<stage, hash, shown, arrival>>

\* verifyStartOTP with the PIN the rider reads out: the hash is compared, the status is
\* swapped, the key deleted (a death before that leaves it).
StartWithPin ==
    /\ stage = "driver_arrived"
    /\ hash \in shown
    /\ stage' = "in_progress"
    /\ cached' \in {NoPin, cached}
    /\ UNCHANGED <<hash, shown, arrival, trouble>>

ArrivalStepOf(a) ==
    \/ ArriveByCas(a) \/ RereadRide(a) \/ GetPin(a) \/ ReissueHash(a) \/ SetPin(a) \/ PushPin(a)

PinNext ==
    \/ \E a \in Arrivals : SendArrived(a) \/ ArrivalStepOf(a) \/ ArrivalFails(a)
    \/ FetchPin \/ LosePin \/ StartWithPin

PinSafety == PinInit /\ [][PinNext]_pinVars

-----------------------------------------------------------------------------
(* Properties. *)

PinTypeOK ==
    /\ stage \in {"accepted", "driver_arrived", "in_progress"}
    /\ hash \in Pins /\ cached \in Pins
    /\ shown \subseteq Arrivals
    /\ arrival \in [Arrivals -> [at : ArrivalStep, pin : Arrivals]]
    /\ trouble \subseteq Troubles

\* The PIN the rider can fetch is the one the driver's app will be asked for, whichever
\* call died and was repeated, unless two calls overlapped or Redis did not answer one.
PinAgrees ==
    stage = "driver_arrived" /\ trouble \cap {"overlap", "silence"} = {} => cached \in {NoPin, hash}

\* A repeated "arrived" does not invalidate the PIN the rider is looking at, unless two
\* calls overlapped, or Redis did not answer or had lost the PIN.
ShownPinStaysValid ==
    [][hash' # hash /\ hash \in shown => trouble' # {}]_pinVars
=============================================================================
