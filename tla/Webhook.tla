------------------------------- MODULE Webhook -------------------------------
(***************************************************************************)
(* A webhook from the message service to the receiver's handler            *)
(* (paratro/webhook.py): the service stamps and signs an event, the        *)
(* delivery takes its time, may be damaged and may come again, and the     *)
(* handler calls verify_signature and then parse_event, as the usage at    *)
(* the head of the file does.                                              *)
(*                                                                         *)
(* Clocks count ticks of a fraction of a second: the stamp is a whole      *)
(* second, time.time() is not.  The receiver's clock is off by skew.       *)
(***************************************************************************)
EXTENDS Integers

CONSTANTS
    Second,      \* ticks in a second
    Tolerances,  \* what receivers pass as tolerance, in ticks
    MaxSkew,     \* how far the clocks may be apart
    MaxTime      \* bound: the clock stops here

ASSUME TimeAssumption == /\ Second \in Nat \ {0}
                         /\ Tolerances \subseteq Int
                         /\ MaxSkew \in Nat
                         /\ MaxTime \in Nat

(* swap_incoming: absent, not an object, an object that does not say       *)
(* whether the leg was booked, and one that does.                          *)
Swaps == {"absent", "garbage", "silent", "unbooked", "booked"}

VARIABLES
    now,         \* the service's clock
    skew,        \* the receiver's clock minus the service's
    tolerance,   \* the receiver's tolerance
    signedAt,    \* when the event was signed
    signed,      \* what was signed: stamp and body
    delivery,    \* what the receiver gets
    verdict,     \* how the last verify_signature ended
    verifiedAt,  \* history: when
    credited     \* the handler has credited a booked leg

receiver == <<skew, tolerance>>
message  == <<signedAt, signed, delivery>>
handled  == <<verdict, verifiedAt, credited>>
vars == <<now, receiver, message, handled>>

Never == -1
Contents   == [stamp : Int, swap : Swaps]
Deliveries == [stamp : Int, legible : BOOLEAN, swap : Swaps,
               signature : {"sent", "other", "unreadable"}]
Verdicts   == {"none", "accepted", "invalid_timestamp", "timestamp_expired",
               "signature_mismatch", "TypeError"}

TypeOK ==
    /\ now \in Nat
    /\ skew \in -MaxSkew..MaxSkew
    /\ tolerance \in Tolerances
    /\ signedAt \in Nat \cup {Never}
    /\ signed \in Contents
    /\ delivery \in Deliveries
    /\ verdict \in Verdicts
    /\ verifiedAt \in Nat \cup {Never}
    /\ credited \in BOOLEAN

Init ==
    /\ now = 0
    /\ skew \in -MaxSkew..MaxSkew
    /\ tolerance \in Tolerances
    /\ signedAt = Never
    /\ signed = [stamp |-> 0, swap |-> "absent"]
    /\ delivery = [stamp |-> 0, legible |-> TRUE, swap |-> "absent", signature |-> "other"]
    /\ verdict = "none"
    /\ verifiedAt = Never
    /\ credited = FALSE

-----------------------------------------------------------------------------
(* The service: the stamp is the second begun, "v1=" the HMAC of           *)
(* "{timestamp}.{body}".                                                   *)
Sign ==
    /\ signedAt = Never
    /\ signedAt' = now
    /\ \E fraction \in 0..Second - 1, swap \in Swaps :
          /\ signed' = [stamp |-> now - fraction, swap |-> swap]
          /\ delivery' = [stamp |-> now - fraction, legible |-> TRUE,
                          swap |-> swap, signature |-> "sent"]
    /\ UNCHANGED <<now, receiver, handled>>

IgnoresBody ==                                  \* mutant: HMAC of the stamp
    delivery.signature = "sent" /\ delivery.stamp = signed.stamp

(* The HMAC matches when it is the one sent and covers what was signed.    *)
Matches ==
    /\ delivery.signature = "sent"
    /\ delivery.stamp = signed.stamp
    /\ delivery.swap = signed.swap

Intact == delivery.legible /\ Matches

(* On the way a header is lost or garbled, or the body is rewritten.       *)
Damage ==
    /\ signedAt # Never
    /\ verdict = "none"
    /\ Intact                   \* bound: one damage to a delivery
    /\ \/ delivery' = [delivery EXCEPT !.legible = FALSE]
       \/ \E lost \in {"other", "unreadable"} :
             delivery' = [delivery EXCEPT !.signature = lost]
       \/ \E other \in 0..MaxTime : delivery' = [delivery EXCEPT !.stamp = other]
       \/ \E swap \in Swaps : delivery' = [delivery EXCEPT !.swap = swap]
    /\ UNCHANGED <<now, receiver, signedAt, signed, handled>>

Tick ==
    /\ now < MaxTime
    /\ now' = now + 1
    /\ UNCHANGED <<receiver, message, handled>>

-----------------------------------------------------------------------------
AbsoluteValue(n) == IF n < 0 THEN -n ELSE n

Age == AbsoluteValue((now + skew) - delivery.stamp)

(* Mutants: the limit itself counts as too old; the age in whole seconds;  *)
(* no stamp from the future.                                               *)
TooOldAtLimit    == tolerance > 0 /\ Age >= tolerance
TooOldInSeconds  == tolerance > 0 /\ Age >= tolerance + Second
TooOldIfInFuture == tolerance > 0 /\ (Age > tolerance \/ now + skew < delivery.stamp)

TooOld == tolerance > 0 /\ Age > tolerance

(* compare_digest refuses to compare with None or with a non-ASCII string. *)
Comparable == delivery.signature # "unreadable"

BookedByDefault(swap) == swap \in {"silent", "booked"}   \* mutant: get("booked", True)

(* parse_event: a leg that is not an object is none; booked is False       *)
(* unless the leg says so.                                                 *)
Booked(swap) == swap = "booked"

(* One call of verify_signature on the delivery; again if it comes again.  *)
Verified(result) ==
    /\ signedAt # Never
    /\ verdict' = result
    /\ verifiedAt' = now
    /\ UNCHANGED <<now, receiver, message>>

RefuseTimestamp ==
    ~delivery.legible /\ Verified("invalid_timestamp") /\ UNCHANGED credited

RefuseAge ==
    delivery.legible /\ TooOld /\ Verified("timestamp_expired") /\ UNCHANGED credited

InTime == delivery.legible /\ ~TooOld

RaiseTypeError ==
    InTime /\ ~Comparable /\ Verified("TypeError") /\ UNCHANGED credited

RefuseSignature ==
    /\ InTime /\ Comparable /\ ~Matches
    /\ Verified("signature_mismatch")
    /\ UNCHANGED credited

(* The handler goes on to parse_event and credits a booked leg.            *)
Accept ==
    /\ InTime /\ Comparable /\ Matches
    /\ Verified("accepted")
    /\ credited' = (credited \/ Booked(delivery.swap))

Next == \/ Sign \/ Damage \/ Tick
        \/ RefuseTimestamp \/ RefuseAge \/ RaiseTypeError \/ RefuseSignature \/ Accept

Spec == Init /\ [][Next]_vars

-----------------------------------------------------------------------------
Delay == verifiedAt - signedAt

(* A delivery older than the tolerance, by the service's own clock and but *)
(* for the skew, is not accepted: not on its way, and not when it comes    *)
(* again.                                                                  *)
AcceptedIsFresh ==
    verdict = "accepted" /\ tolerance > 0 => Delay <= tolerance + MaxSkew

(* A delivery that arrived as it was sent is only refused when it took all *)
(* of the tolerance, less the skew and the second begun.  True of clocks   *)
(* that are no further apart than the tolerance.                           *)
RefusedIsLate ==
    Intact /\ verdict \notin {"none", "accepted"} =>
        Delay + MaxSkew + (Second - 1) > tolerance

(* Refused as too old, a delivery is not accepted when it comes again.     *)
(* True of such clocks too.                                                *)
ExpiredIsFinal ==
    [][verdict = "timestamp_expired" => verdict' # "accepted"]_vars

(* "Credit your customer's target asset only when booked is True": a       *)
(* handler that does credits nothing the service did not report as booked. *)
CreditIsBooked == credited => signed.swap = "booked"

-----------------------------------------------------------------------------
(* The inductive invariant.  The clock of the receiver does not run back,  *)
(* so a stamp once too old stays too old.                                  *)
StampInv == signedAt # Never => /\ signed.stamp <= signedAt
                                /\ signedAt < signed.stamp + Second
                                /\ signedAt <= now

VerdictInv ==
    /\ signedAt = Never => verdict = "none" /\ ~credited
    /\ verdict # "none" => signedAt <= verifiedAt /\ verifiedAt <= now
    /\ verdict = "accepted" => /\ Intact
                               /\ tolerance > 0 => verifiedAt + skew - signed.stamp <= tolerance
    /\ Intact /\ verdict \notin {"none", "accepted"} =>
           /\ verdict = "timestamp_expired"
           /\ tolerance > 0
           /\ AbsoluteValue((verifiedAt + skew) - signed.stamp) > tolerance

Inv == TypeOK /\ StampInv /\ VerdictInv /\ CreditIsBooked
=============================================================================
