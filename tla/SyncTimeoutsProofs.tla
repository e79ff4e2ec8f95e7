------------------------- MODULE SyncTimeoutsProofs -------------------------
(* Proofs about SyncTimeouts for any limits and any network delay.         *)
EXTENDS SyncTimeouts, TLAPS

USE LimitsAssumption

LEMMA InvInit == Init => Inv
<1> SUFFICES ASSUME Init PROVE Inv OBVIOUS
<1>1. delay \in Delays /\ delay \in Nat BY DEF Init
<1> QED BY <1>1 DEF Init, Inv, TypeOK, StageInv, ClockInv, CloseInv, Working, Replies, Never

LEMMA InvStep == Inv /\ [Next]_vars => Inv'
<1> SUFFICES ASSUME Inv, [Next]_vars PROVE Inv' OBVIOUS
<1>0. delay \in Nat BY DEF Inv, TypeOK
<1> USE <1>0
<1> USE DEF Inv, TypeOK, StageInv, ClockInv, CloseInv, Working, Replies, Never,
            AcceptDue, CloseDue
<1>1. CASE Arrive BY <1>1 DEF Arrive
<1>2. CASE Dispatch BY <1>2 DEF Dispatch
<1>3. CASE Answer
  <2>1. TypeOK' BY <1>3 DEF Answer, Reply
  <2>2. StageInv' BY <1>3 DEF Answer, Reply
  <2>3. ClockInv' BY <1>3 DEF Answer, Reply
  <2>4. CloseInv' BY <1>3 DEF Answer, Reply
  <2> QED BY <2>1, <2>2, <2>3, <2>4
<1>4. CASE Accept BY <1>4 DEF Accept, Reply
<1>5. CASE Close
  <2>1. TypeOK' BY <1>5 DEF Close, Reply
  <2>2. StageInv' BY <1>5 DEF Close, Reply
  <2>3. ClockInv' BY <1>5 DEF Close, Reply
  <2>4. CloseInv' BY <1>5 DEF Close, Reply
  <2> QED BY <2>1, <2>2, <2>3, <2>4
<1>6. CASE Receive
  <2>1. TypeOK' BY <1>6 DEF Receive, Told
  <2>2. StageInv' BY <1>6 DEF Receive, Told
  <2>3. ClockInv' BY <1>6 DEF Receive, Told
  <2>4. CloseInv' BY <1>6 DEF Receive, Told
  <2> QED BY <2>1, <2>2, <2>3, <2>4
<1>7. CASE TimeOut
  <2>1. TypeOK' BY <1>7 DEF TimeOut
  <2>2. StageInv' BY <1>7 DEF TimeOut
  <2>3. ClockInv' BY <1>7 DEF TimeOut
  <2>4. CloseInv' BY <1>7 DEF TimeOut
  <2> QED BY <2>1, <2>2, <2>3, <2>4
<1>8. CASE Tick
  <2>1. TypeOK' BY <1>8 DEF Tick
  <2>2. StageInv' BY <1>8 DEF Tick
  <2>3. ClockInv' BY <1>8 DEF Tick
  <2>4. CloseInv' BY <1>8 DEF Tick
  <2> QED BY <2>1, <2>2, <2>3, <2>4
<1>9. CASE UNCHANGED vars BY <1>9 DEF vars
<1> QED BY <1>1, <1>2, <1>3, <1>4, <1>5, <1>6, <1>7, <1>8, <1>9 DEF Next

(* How far the clock can be in each stage, whatever the limits.            *)
THEOREM Invariance == Spec => []Inv
BY InvInit, InvStep, PTL DEF Spec

(* The SDK gives up first only when request and answer together were under *)
(* way for at least the margin between the two limits, whatever they are.  *)
THEOREM TimeoutsAreTheNetworks == Spec => TimeoutBlamesNetwork
<1> DEFINE Blame == caller' = "timeout" =>
                      caller = "timeout" \/ NetworkTook >= SdkTimeout - WriteTimeout
<1>1. Inv /\ [Next]_vars => [Blame]_vars
  <2> SUFFICES ASSUME Inv, Next, caller' = "timeout", caller # "timeout"
               PROVE  NetworkTook >= SdkTimeout - WriteTimeout
    OBVIOUS
  <2>1. TimeOut
    BY DEF Next, Arrive, Dispatch, Answer, Accept, Close, Reply, Receive, Told, Tick, Inv, TypeOK,
           Replies
  <2>2. now >= SdkTimeout /\ now \in Nat BY <2>1 DEF TimeOut, ReadTimeout, Inv, TypeOK
  <2>3. CASE gateway = "none" BY <2>2, <2>3 DEF NetworkTook
  <2>4. CASE Working
    <3>1. received \in Nat /\ now <= received + WriteTimeout /\ wire = "none"
      BY <2>4 DEF Working, Inv, ClockInv, StageInv, CloseDue
    <3> QED BY <2>2, <2>4, <3>1 DEF NetworkTook, Working
  <2>5. CASE gateway = "done"
    <3>1. received \in Nat /\ replied \in Nat /\ replied <= received + WriteTimeout
          /\ wire # "none"
      BY <2>5 DEF Inv, TypeOK, ClockInv, StageInv, CloseDue
    <3> QED BY <2>2, <2>5, <3>1 DEF NetworkTook
  <2> QED BY <2>3, <2>4, <2>5 DEF Working, Inv, TypeOK
<1> QED BY <1>1, Invariance, PTL DEF Spec, TimeoutBlamesNetwork

(* With the SDK's limit above the gateway's by more than two ways through  *)
(* the network, which is what the property supposes, the SDK never gives   *)
(* up first.                                                               *)
THEOREM GatewayFirst == Spec => []GatewayGivesUpFirst
<1>1. Init => GatewayGivesUpFirst BY DEF Init, GatewayGivesUpFirst
<1>2. Inv /\ GatewayGivesUpFirst /\ [Next]_vars => GatewayGivesUpFirst'
  <2> SUFFICES ASSUME Inv, GatewayGivesUpFirst, [Next]_vars,
                      SdkTimeout > WriteTimeout + 2 * delay'
               PROVE  caller' # "timeout"
    BY DEF GatewayGivesUpFirst
  <2>0. delay' = delay
    BY DEF Next, Arrive, Dispatch, Answer, Accept, Close, Reply, Receive, TimeOut, Tick, vars
  <2>a. SdkTimeout > WriteTimeout + 2 * delay /\ caller # "timeout"
    BY <2>0 DEF GatewayGivesUpFirst
  <2>1. ~TimeOut
    <3>0. delay \in Nat BY DEF Inv, TypeOK
    <3> USE <3>0, <2>a
    <3> SUFFICES ASSUME caller = "waiting" PROVE now < SdkTimeout
      BY DEF TimeOut, ReadTimeout, Inv, TypeOK
    <3>1. CASE gateway = "none" BY <3>1 DEF Inv, TypeOK, StageInv
    <3>2. CASE Working
      <4>1. received \in 0..delay /\ now <= received + WriteTimeout
        BY <3>2 DEF Working, Inv, ClockInv, CloseDue
      <4> QED BY <4>1 DEF Inv, TypeOK
    <3>3. CASE gateway = "done"
      <4>1. /\ received \in 0..delay /\ replied \in Nat
            /\ replied <= received + WriteTimeout /\ now <= replied + delay
        BY <3>3 DEF Inv, TypeOK, ClockInv, StageInv, CloseDue
      <4> QED BY <4>1 DEF Inv, TypeOK
    <3> QED BY <3>1, <3>2, <3>3 DEF Working, Inv, TypeOK
  <2> QED
    BY <2>1, <2>a DEF Next, Arrive, Dispatch, Answer, Accept, Close, Reply, Receive, Told, Tick,
                      vars, Inv, TypeOK, Replies
<1> QED BY <1>1, <1>2, Invariance, PTL DEF Spec

(* A row is left without a tx_id only if the gateway's own checks used up  *)
(* the margin between its two limits.                                      *)
THEOREM SlowEngine == Spec => []SlowEngineGets202
<1>1. Inv => SlowEngineGets202
  <2> SUFFICES ASSUME Inv, caller = "closed", dispatched # Never
               PROVE  dispatched - received >= WriteTimeout - EngineWait
    BY DEF SlowEngineGets202
  <2>1. wire = "closed" BY DEF Inv, CloseInv
  <2>2. /\ received + WriteTimeout <= replied /\ replied <= dispatched + EngineWait
        /\ received \in Nat /\ replied \in Nat /\ dispatched \in Nat
    BY <2>1 DEF Inv, TypeOK, StageInv, ClockInv, CloseInv, CloseDue, AcceptDue
  <2> QED BY <2>2
<1> QED BY <1>1, Invariance, PTL
=============================================================================
