---------------------------- MODULE WebhookProofs ----------------------------
(* Proofs about Webhook for every tolerance, skew and length of a second.  *)
EXTENDS Webhook, TLAPS

LEMMA InvInit == Init => Inv
<1> SUFFICES ASSUME Init PROVE Inv OBVIOUS
<1> USE DEF Init
<1>1. signed \in Contents /\ delivery \in Deliveries BY DEF Contents, Deliveries, Swaps
<1>2. TypeOK BY <1>1 DEF TypeOK, Verdicts
<1>3. StampInv /\ CreditIsBooked BY DEF StampInv, CreditIsBooked
<1>4. VerdictInv BY DEF VerdictInv
<1> QED BY <1>2, <1>3, <1>4 DEF Inv

-----------------------------------------------------------------------------
LEMMA SignStep == Inv /\ Sign => Inv'
<1> SUFFICES ASSUME Inv, Sign PROVE Inv' OBVIOUS
<1> USE DEF Inv, Sign, receiver, handled
<1>1. PICK fraction \in 0..Second - 1, swap \in Swaps :
        /\ signed' = [stamp |-> now - fraction, swap |-> swap]
        /\ delivery' = [stamp |-> now - fraction, legible |-> TRUE,
                        swap |-> swap, signature |-> "sent"]
  OBVIOUS
<1>2. now \in Nat /\ fraction \in Int /\ now - fraction \in Int
  BY TimeAssumption DEF TypeOK
<1>3. signed' \in Contents /\ delivery' \in Deliveries
  BY <1>1, <1>2 DEF Contents, Deliveries
<1>4. TypeOK' BY <1>3 DEF TypeOK
<1>5. StampInv' BY <1>1, <1>2, TimeAssumption DEF StampInv, Never
<1>6. verdict = "none" /\ ~credited BY DEF VerdictInv
<1> QED BY <1>4, <1>5, <1>6 DEF VerdictInv, CreditIsBooked

LEMMA DamageStep == Inv /\ Damage => Inv'
<1> SUFFICES ASSUME Inv, Damage PROVE Inv' OBVIOUS
<1>1. delivery' \in Deliveries
  <2>1. delivery \in Deliveries /\ 0..MaxTime \subseteq Int BY DEF Inv, TypeOK
  <2> QED BY <2>1 DEF Damage, Deliveries
<1>2. TypeOK' BY <1>1 DEF Damage, Inv, TypeOK, receiver, handled
<1>3. StampInv' BY DEF Damage, Inv, StampInv, receiver
<1>4. CreditIsBooked' BY DEF Damage, Inv, CreditIsBooked, handled
<1>5. VerdictInv' BY DEF Damage, Inv, VerdictInv, handled
<1> QED BY <1>2, <1>3, <1>4, <1>5 DEF Inv

LEMMA TickStep == Inv /\ Tick => Inv'
<1> SUFFICES ASSUME Inv, Tick PROVE Inv' OBVIOUS
<1> USE DEF Tick, receiver, message, handled
<1>1. TypeOK' BY DEF Inv, TypeOK
<1>2. StampInv' BY DEF Inv, TypeOK, StampInv, Never
<1>3. VerdictInv' BY DEF Inv, TypeOK, VerdictInv, Intact, Matches, Never
<1> QED BY <1>1, <1>2, <1>3 DEF Inv, CreditIsBooked

-----------------------------------------------------------------------------
(* What a verdict may be, given the delivery, for VerdictInv to hold.      *)
LEMMA VerifiedStep ==
  ASSUME Inv, NEW result \in Verdicts, Verified(result), credited' \in BOOLEAN,
         credited' => credited \/ signed.swap = "booked",
         result # "none",
         result = "accepted" => /\ Intact
                                /\ tolerance > 0 => now + skew - signed.stamp <= tolerance,
         Intact /\ result # "accepted" =>
             /\ result = "timestamp_expired"
             /\ tolerance > 0
             /\ AbsoluteValue((now + skew) - signed.stamp) > tolerance
  PROVE  Inv'
<1> USE DEF Verified, receiver, message
<1>1. TypeOK' BY DEF Inv, TypeOK
<1>2. StampInv' BY DEF Inv, StampInv
<1>3. CreditIsBooked' BY DEF Inv, CreditIsBooked
<1>4. Intact' = Intact BY DEF Intact, Matches
<1>5. signedAt <= now /\ now <= now BY DEF Inv, TypeOK, StampInv
<1>6. VerdictInv' BY <1>4, <1>5 DEF VerdictInv
<1> QED BY <1>1, <1>2, <1>3, <1>6 DEF Inv

LEMMA VerifyStep ==
  ASSUME Inv,
         RefuseTimestamp \/ RefuseAge \/ RaiseTypeError \/ RefuseSignature \/ Accept
  PROVE  Inv'
<1>1. credited \in BOOLEAN BY DEF Inv, TypeOK
<1>2. Intact => delivery.stamp = signed.stamp /\ delivery.legible /\ Comparable
  BY DEF Intact, Matches, Comparable
<1>3. CASE RefuseTimestamp
  BY <1>1, <1>2, <1>3, VerifiedStep DEF RefuseTimestamp, Verdicts
<1>4. CASE RefuseAge
  BY <1>1, <1>2, <1>4, VerifiedStep DEF RefuseAge, Verdicts, TooOld, Age
<1>5. CASE RaiseTypeError
  BY <1>1, <1>2, <1>5, VerifiedStep DEF RaiseTypeError, Verdicts
<1>6. CASE RefuseSignature
  BY <1>1, <1>6, VerifiedStep DEF RefuseSignature, Verdicts, Intact
<1>7. CASE Accept
  <2>1. Intact BY <1>7 DEF Accept, InTime, Intact
  <2>2. tolerance > 0 => now + skew - signed.stamp <= tolerance
    <3> SUFFICES ASSUME tolerance > 0 PROVE now + skew - signed.stamp <= tolerance OBVIOUS
    <3>1. now \in Int /\ skew \in Int /\ signed.stamp \in Int /\ tolerance \in Int
      BY TimeAssumption DEF Inv, TypeOK, Contents
    <3>2. ~(AbsoluteValue((now + skew) - signed.stamp) > tolerance)
      BY <1>2, <1>7, <2>1 DEF Accept, InTime, TooOld, Age
    <3> QED BY <3>1, <3>2 DEF AbsoluteValue
  <2>3. credited' \in BOOLEAN /\ (credited' => credited \/ signed.swap = "booked")
    BY <1>1, <1>7, <2>1 DEF Accept, Booked, Intact, Matches
  <2>4. Verified("accepted") BY <1>7 DEF Accept
  <2> QED BY <2>1, <2>2, <2>3, <2>4, VerifiedStep DEF Verdicts
<1> QED BY <1>3, <1>4, <1>5, <1>6, <1>7

LEMMA InvStep == Inv /\ [Next]_vars => Inv'
<1> SUFFICES ASSUME Inv, [Next]_vars PROVE Inv' OBVIOUS
<1>1. CASE UNCHANGED vars
  <2> USE <1>1 DEF vars, receiver, message, handled, Inv
  <2>1. TypeOK' BY DEF TypeOK
  <2>2. StampInv' /\ CreditIsBooked' BY DEF StampInv, CreditIsBooked
  <2>3. Intact' = Intact BY DEF Intact, Matches
  <2>4. VerdictInv' BY <2>3 DEF VerdictInv
  <2> QED BY <2>1, <2>2, <2>4
<1> QED BY <1>1, SignStep, DamageStep, TickStep, VerifyStep DEF Next

(* The inductive invariant, whatever the clocks and the damage.            *)
THEOREM Invariance == Spec => []Inv
BY InvInit, InvStep, PTL DEF Spec

-----------------------------------------------------------------------------
(* No delivery is accepted that took longer than the tolerance, but for    *)
(* the skew of the clocks; repeated or not, damaged or not.                *)
THEOREM FreshOnly == Spec => []AcceptedIsFresh
<1>1. ASSUME Inv PROVE AcceptedIsFresh
  <2> SUFFICES ASSUME verdict = "accepted", tolerance > 0 PROVE Delay <= tolerance + MaxSkew
    BY DEF AcceptedIsFresh
  <2>1. signedAt # Never BY <1>1 DEF Inv, VerdictInv
  <2>2. signed.stamp <= signedAt BY <1>1, <2>1 DEF Inv, StampInv
  <2>3. signedAt <= verifiedAt /\ verifiedAt + skew - signed.stamp <= tolerance
    BY <1>1 DEF Inv, VerdictInv
  <2>4. /\ signed.stamp \in Int /\ signedAt \in Int /\ verifiedAt \in Int
        /\ tolerance \in Int /\ skew \in -MaxSkew..MaxSkew
    BY <1>1, TimeAssumption DEF Inv, TypeOK, Contents, Never
  <2> QED BY <2>2, <2>3, <2>4, TimeAssumption DEF Delay
<1> QED BY <1>1, Invariance, PTL

(* With clocks no further apart than the tolerance, a delivery that arrived *)
(* as it was sent is refused only when it took all of the tolerance, less  *)
(* the skew and the second begun.                                          *)
THEOREM PromptAccepted ==
  ASSUME \A t \in Tolerances : t > 0 => MaxSkew <= t
  PROVE  Spec => []RefusedIsLate
<1>1. ASSUME Inv PROVE RefusedIsLate
  <2> SUFFICES ASSUME Intact, verdict \notin {"none", "accepted"}
               PROVE  Delay + MaxSkew + (Second - 1) > tolerance
    BY DEF RefusedIsLate
  <2>1. signedAt # Never BY <1>1 DEF Inv, VerdictInv
  <2>2. signed.stamp <= signedAt /\ signedAt < signed.stamp + Second
    BY <1>1, <2>1 DEF Inv, StampInv
  <2>3. signedAt <= verifiedAt BY <1>1 DEF Inv, VerdictInv
  <2>4. tolerance > 0 /\ AbsoluteValue((verifiedAt + skew) - signed.stamp) > tolerance
    BY <1>1 DEF Inv, VerdictInv
  <2>5. MaxSkew <= tolerance BY <1>1, <2>4 DEF Inv, TypeOK
  <2>6. /\ signed.stamp \in Int /\ signedAt \in Int /\ verifiedAt \in Int
        /\ tolerance \in Int /\ skew \in -MaxSkew..MaxSkew
    BY <1>1, TimeAssumption DEF Inv, TypeOK, Contents, Never
  <2>7. (verifiedAt + skew) - signed.stamp > tolerance
    BY <2>2, <2>3, <2>4, <2>5, <2>6, TimeAssumption DEF AbsoluteValue
  <2> QED BY <2>2, <2>6, <2>7, TimeAssumption DEF Delay
<1> QED BY <1>1, Invariance, PTL

(* With such clocks, a delivery refused as too old is never accepted when  *)
(* it comes again.                                                         *)
THEOREM ExpiredStaysExpired ==
  ASSUME \A t \in Tolerances : t > 0 => MaxSkew <= t
  PROVE  Spec => ExpiredIsFinal
<1>1. ASSUME Inv, [Next]_vars, verdict = "timestamp_expired" PROVE verdict' # "accepted"
  <2>1. CASE Accept
    <3>1. Intact /\ ~TooOld /\ delivery.stamp = signed.stamp
      BY <2>1 DEF Accept, InTime, Intact, Matches
    <3>2. /\ tolerance > 0
          /\ AbsoluteValue((verifiedAt + skew) - signed.stamp) > tolerance
          /\ signedAt <= verifiedAt /\ verifiedAt <= now
      BY <1>1, <3>1 DEF Inv, VerdictInv
    <3>3. signed.stamp <= signedAt
      BY <1>1 DEF Inv, StampInv, VerdictInv
    <3>4. MaxSkew <= tolerance BY <1>1, <3>2 DEF Inv, TypeOK
    <3>5. /\ signed.stamp \in Int /\ signedAt \in Int /\ verifiedAt \in Int /\ now \in Int
          /\ tolerance \in Int /\ skew \in -MaxSkew..MaxSkew
      BY <1>1, TimeAssumption DEF Inv, TypeOK, Contents, Never
    <3>6. (verifiedAt + skew) - signed.stamp > tolerance
      BY <3>2, <3>3, <3>4, <3>5, TimeAssumption DEF AbsoluteValue
    <3>7. (now + skew) - signed.stamp > tolerance BY <3>2, <3>5, <3>6, TimeAssumption
    <3>8. AbsoluteValue((now + skew) - signed.stamp) > tolerance
      BY <3>2, <3>5, <3>7, TimeAssumption DEF AbsoluteValue
    <3> QED BY <3>1, <3>2, <3>8 DEF TooOld, Age
  <2>2. CASE ~Accept
    BY <1>1, <2>2 DEF Next, vars, handled, Sign, Damage, Tick, Verified,
       RefuseTimestamp, RefuseAge, RaiseTypeError, RefuseSignature
  <2> QED BY <2>1, <2>2
<1> QED BY <1>1, Invariance, PTL DEF Spec, ExpiredIsFinal

(* A handler credits only what the service reported as booked.             *)
THEOREM OnlyBooked == Spec => []CreditIsBooked
<1>1. Inv => CreditIsBooked BY DEF Inv
<1> QED BY <1>1, Invariance, PTL
=============================================================================
