---------------------------- MODULE SyncTimeouts ----------------------------
(***************************************************************************)
(* The four limits of one synchronous PROGRAM_CALL / CONTRACT_CALL create, *)
(* as client.py sets them against each other: the gateway waits EngineWait *)
(* for the signing engine before it answers 202 with a tx_id, closes the   *)
(* connection after WriteTimeout, and the SDK stops waiting after          *)
(* SdkTimeout.  The three clocks start at different moments: the SDK's     *)
(* when it sends, the gateway's when the request has arrived, the engine's *)
(* when the checks are passed and the row is written.                      *)
(*                                                                         *)
(* One request, on a connection that loses nothing: it and its answer take *)
(* at most `delay' each.                                                   *)
(***************************************************************************)
EXTENDS Integers

CONSTANTS
    SdkTimeout,    \* MPCClient(..., timeout): 200 s
    WriteTimeout,  \* the gateway's server limit: 180 s
    EngineWait,    \* the wait for the engine before a 202: 150 s
    Delays         \* what the longest way through the network may be

ASSUME LimitsAssumption ==
    {SdkTimeout, WriteTimeout, EngineWait} \subseteq Nat /\ Delays \subseteq Nat

VARIABLES
    delay,       \* the longest way through this network, each direction
    now,         \* time since the request was sent
    caller,      \* "waiting", or how create() ended
    gateway,     \* "none" until the request arrives, "checks", "engine", "done"
    received,    \* when the request arrived
    dispatched,  \* when the row was written and the engine called
    wire,        \* what is on its way back
    replied      \* since when

vars == <<delay, now, caller, gateway, received, dispatched, wire, replied>>

Never == -1
Replies == {"answered", "accepted", "closed"}

TypeOK ==
    /\ delay \in Delays
    /\ now \in Nat
    /\ caller \in {"waiting", "timeout"} \cup Replies
    /\ gateway \in {"none", "checks", "engine", "done"}
    /\ received \in Nat \cup {Never}
    /\ dispatched \in Nat \cup {Never}
    /\ wire \in {"none"} \cup Replies
    /\ replied \in Nat \cup {Never}

(* The request has just been sent: session.request(..., timeout=...).      *)
Init ==
    /\ delay \in Delays
    /\ now = 0
    /\ caller = "waiting"
    /\ gateway = "none"
    /\ received = Never
    /\ dispatched = Never
    /\ wire = "none"
    /\ replied = Never

-----------------------------------------------------------------------------
Working == gateway \in {"checks", "engine"}

EngineWaitOnly == EngineWait    \* mutant: as long as the gateway waits
ReadTimeout == SdkTimeout       \* timeout=self._timeout

LateAccept == dispatched + WriteTimeout   \* mutant: 202 only past the write limit
AcceptDue == dispatched + EngineWait
CloseDue  == received + WriteTimeout

(* The gateway.                                                            *)
Arrive ==
    /\ gateway = "none"
    /\ gateway' = "checks"
    /\ received' = now
    /\ UNCHANGED <<delay, now, caller, dispatched, wire, replied>>

Dispatch ==
    /\ gateway = "checks"
    /\ gateway' = "engine"
    /\ dispatched' = now
    /\ UNCHANGED <<delay, now, caller, received, wire, replied>>

Reply(what) ==
    /\ gateway' = "done"
    /\ wire' = what
    /\ replied' = now
    /\ UNCHANGED <<delay, now, caller, received, dispatched>>

(* A refusal of the checks, or the engine's answer.                        *)
Answer == Working /\ Reply("answered")

Accept == gateway = "engine" /\ now >= AcceptDue /\ Reply("accepted")

Close == Working /\ now >= CloseDue /\ Reply("closed")

-----------------------------------------------------------------------------
(* The SDK.                                                                *)
HidesClosing ==                 \* mutant: the lost connection is swallowed
    IF wire = "closed" THEN "answered" ELSE wire

(* A response is returned or raised as an APIError, a closed connection    *)
(* raises what requests raises.                                            *)
Told == wire

Receive ==
    /\ caller = "waiting"
    /\ wire # "none"
    /\ caller' = Told
    /\ UNCHANGED <<delay, now, gateway, received, dispatched, wire, replied>>

TimeOut ==
    /\ caller = "waiting"
    /\ now >= ReadTimeout
    /\ caller' = "timeout"
    /\ UNCHANGED <<delay, now, gateway, received, dispatched, wire, replied>>

(* Time passes, but not beyond a limit that is due.                        *)
Tick ==
    /\ gateway = "none" => now < delay
    /\ Working => now < CloseDue
    /\ gateway = "engine" => now < AcceptDue
    /\ caller = "waiting" => /\ now < ReadTimeout
                             /\ wire # "none" => now < replied + delay
    /\ caller = "waiting" \/ gateway # "done"   \* bound: the story is over
    /\ now' = now + 1
    /\ UNCHANGED <<delay, caller, gateway, received, dispatched, wire, replied>>

Next == \/ Arrive \/ Dispatch \/ Answer \/ Accept \/ Close
        \/ Receive \/ TimeOut \/ Tick

Spec == Init /\ [][Next]_vars

-----------------------------------------------------------------------------
(* "The gateway, never the SDK, is the side that gives up": create() does  *)
(* not time out, for a timeout may leave a row without a tx_id.  True of a *)
(* network that takes less than the margin between the limits.             *)
GatewayGivesUpFirst == SdkTimeout > WriteTimeout + 2 * delay => caller # "timeout"

(* How long the request, and so far its answer, have been under way.       *)
NetworkTook == IF gateway = "none" THEN now
               ELSE received + IF wire = "none" THEN 0 ELSE now - replied

(* Of any network: the SDK only gives up first when the network used up    *)
(* all that lies between its limit and the gateway's.                      *)
TimeoutBlamesNetwork ==
    [][caller' = "timeout" => caller = "timeout" \/ NetworkTook >= SdkTimeout - WriteTimeout]_vars

(* "A slow engine ends in a 202 with a tx_id": a row is left without one   *)
(* only if the checks alone used up what lies between the gateway's limits.*)
SlowEngineGets202 ==
    caller = "closed" /\ dispatched # Never =>
        dispatched - received >= WriteTimeout - EngineWait

-----------------------------------------------------------------------------
(* The inductive invariant: how far the clock can be in each stage.        *)
StageInv ==
    /\ gateway = "none" => now <= delay
    /\ gateway = "engine" <=> dispatched # Never /\ wire = "none"
    /\ gateway = "engine" => now <= AcceptDue
    /\ gateway = "done" <=> wire # "none"
    /\ gateway = "done" => replied # Never

ClockInv ==
    /\ gateway # "none" => received \in 0..delay
    /\ Working => now <= CloseDue
    /\ wire # "none" => replied <= CloseDue
    /\ wire # "none" /\ caller = "waiting" => now <= replied + delay

CloseInv ==
    /\ caller \notin {"waiting", "timeout"} => caller = wire
    /\ wire = "closed" /\ dispatched # Never =>
           /\ CloseDue <= replied
           /\ replied <= AcceptDue

Inv == TypeOK /\ StageInv /\ ClockInv /\ CloseInv
=============================================================================
