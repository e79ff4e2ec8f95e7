------------------------------- MODULE Payment -------------------------------
(***************************************************************************)
(* What the answers of client.transactions amount to for a caller who      *)
(* follows them, with no call, handler, status code or key in sight: a     *)
(* payment is tried under one reference_id after the other, and            *)
(*                                                                         *)
(*  - an attempt begins only where no other one is open or on the chain;   *)
(*  - "dead" is for good;                                                  *)
(*  - the caller is only told that he may pay again ("free") where nothing *)
(*    is open or on the chain, and from then on nothing moves until he     *)
(*    does;                                                                *)
(*  - told "paid", the payment was sent and no attempt ever will be again, *)
(*    though the chain may still revert the one that was.                  *)
(***************************************************************************)
CONSTANT Refs       \* the reference ids of one payment

VARIABLES attempt,  \* under each: "none", "open", "moved" or "dead"
          told      \* the caller: "free", "waiting" or "paid"

vars == <<attempt, told>>

Init == attempt = [r \in Refs |-> "none"] /\ told = "free"

OverFor(r) == attempt[r] \in {"none", "dead"}

Become(r, fate) == attempt' = [attempt EXCEPT ![r] = fate] /\ UNCHANGED told

\* The row is inserted, which may be after the caller gave up on the call.
Begin(r) == /\ told = "waiting" /\ attempt[r] = "none"
            /\ \A s \in Refs : OverFor(s)
            /\ Become(r, "open")

\* A TRANSFER or an engine call puts it on the chain.
Move(r) == told = "waiting" /\ attempt[r] = "open" /\ Become(r, "moved")

\* It fails: in the engine, in its queue or on the chain.
Die(r) == attempt[r] \in {"open", "moved"} /\ Become(r, "dead")

Tell(answer) == told' = answer /\ UNCHANGED attempt

Try == told = "free" /\ Tell("waiting")

LearnFree == told = "waiting" /\ (\A r \in Refs : OverFor(r)) /\ Tell("free")

LearnPaid == /\ told = "waiting"
             /\ \E r \in Refs : attempt[r] \in {"moved", "dead"}
             /\ \A r \in Refs : attempt[r] # "open"
             /\ Tell("paid")

Next == \/ \E r \in Refs : Begin(r) \/ Move(r) \/ Die(r)
        \/ Try \/ LearnFree \/ LearnPaid

Spec == Init /\ [][Next]_vars
=============================================================================
