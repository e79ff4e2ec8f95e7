------------------------------ MODULE CallOnce ------------------------------
(***************************************************************************)
(* What one call of MPCClient._request promises its caller, with no token, *)
(* lock, retry or clock in sight:                                          *)
(*                                                                         *)
(*  - the gateway's handler runs at most once for the call, however often  *)
(*    the SDK puts it on the wire;                                         *)
(*  - "answered": the handler ran and its answer (a result or an API       *)
(*    error) reached the caller;                                           *)
(*  - "refused": the gateway turned the call down before the handler, so   *)
(*    the handler has not run and never will;                              *)
(*  - "unknown": an exception that says nothing; the handler may have run, *)
(*    and may still run later.                                             *)
(***************************************************************************)
EXTENDS Naturals

CONSTANT Calls      \* the calls made on one MPCClient, each made once

VARIABLES outcome,  \* what the caller of each call has been told
          effect    \* how often the gateway's handler ran for each call

vars == <<outcome, effect>>

Outcomes == {"pending", "answered", "refused", "unknown"}

Init == /\ outcome = [c \in Calls |-> "pending"]
        /\ effect = [c \in Calls |-> 0]

\* The handler runs; the caller may already have given up.
Apply(c) == /\ outcome[c] \in {"pending", "unknown"}
            /\ effect[c] = 0
            /\ effect' = [effect EXCEPT ![c] = 1]
            /\ UNCHANGED outcome

Conclude(c, o) == /\ outcome[c] = "pending"
                  /\ outcome' = [outcome EXCEPT ![c] = o]
                  /\ UNCHANGED effect

Answer(c) == effect[c] = 1 /\ Conclude(c, "answered")

Refuse(c) == effect[c] = 0 /\ Conclude(c, "refused")

LoseTrack(c) == Conclude(c, "unknown")

Next == \E c \in Calls : Apply(c) \/ Answer(c) \/ Refuse(c) \/ LoseTrack(c)

Spec == Init /\ [][Next]_vars
=============================================================================
