---------------------------- MODULE Transactions ----------------------------
(***************************************************************************)
(* One payment made through client.transactions: create() calls that may   *)
(* be lost and repeated, what the SDK says of each answer, and a caller    *)
(* who acts on it the way examples/ does: poll, resend under the same      *)
(* reference_id, pay under a new one, or stop.                             *)
(*                                                                         *)
(* A create() is one call of the request engine, so its request reaches    *)
(* the gateway's handler by the steps of CallOnce and no others: at most   *)
(* once, possibly after the caller has given up on it.                     *)
(*                                                                         *)
(* Reference ids are numbered in the order the caller invents them.  A     *)
(* caller who sets an Idempotency-Key uses one key for each of them.       *)
(***************************************************************************)
EXTENDS Naturals

CONSTANTS
    Ops,           \* the operations payments are made with
    MaxCalls,      \* bound: create() calls made for the payment
    PollAttempts   \* how often the caller polls

ASSUME OpsAssumption == Ops \subseteq {"TRANSFER", "PROGRAM_CALL", "CONTRACT_CALL"}
ASSUME BoundAssumption == MaxCalls \in Nat \ {0} /\ PollAttempts \in Nat

Calls == 1..MaxCalls
Refs  == 1..MaxCalls

VARIABLES
    outcome, effect,  \* the request engine's promise (CallOnce)
    op,          \* the payment's operation
    keyed,       \* whether its calls carry an Idempotency-Key
    made,        \* how many create() calls have been made
    ref,         \* the reference_id of each call
    stage,       \* the handler of each call: "none", "engine" or "done"
    reply,       \* what the handler answered
    row,         \* the gateway's row under each reference_id
    cached,      \* the 2xx answer remembered under each Idempotency-Key
    plan,        \* what the caller does next
    status,      \* the status in the get() answer being read
    polls        \* get() calls left

wireVars    == <<outcome, effect>>
requestVars == <<op, keyed, made, ref>>
gatewayVars == <<stage, reply, row, cached>>
callerVars  == <<plan, status, polls>>
vars == <<wireVars, requestVars, gatewayVars, callerVars>>

Engine == INSTANCE CallOnce

-----------------------------------------------------------------------------
(* Rows.  "SYNC" is a PENDING row whose handler still waits for the signing*)
(* engine, "HELD" a PENDING row whose permit is signed and will not be used*)
Open == {"SYNC", "PENDING", "SIGNED", "HELD"}
Dead == {"HELD", "FAILED"}
Paid == {"BROADCAST", "CONFIRMED"}
RowStates == {"none"} \cup Open \cup Dead \cup Paid

(* The status column as GET /transactions shows it.                        *)
Shown(state) == IF state \in {"SYNC", "HELD"} THEN "PENDING" ELSE state

(* Answers: http status, the body's status field, and which of the messages*)
(* the SDK tells apart the body carries.                                   *)
Ok(http, st) == [http |-> http, status |-> st, message |-> ""]
Fault(http, message) == [http |-> http, status |-> "", message |-> message]
NoReply == Fault(0, "")

Successes == {Ok(200, "PENDING"), Ok(200, "BROADCAST"), Ok(202, "PENDING")}
Duplicate == Fault(400, "duplicate")
Rejected  == Fault(400, "Rejected")
Failed    == Fault(400, "transaction_failed")
Busy      == Fault(503, "busy")
Internal  == Fault(500, "other")
(* Given before any row is written.                                        *)
PreChecks == {Rejected, Internal, Fault(400, "insufficient_balance"),
              Fault(403, "other"), Fault(404, "other")}
             \cup IF op = "TRANSFER" THEN {} ELSE {Fault(503, "unavailable")}
Replies == Successes \cup PreChecks \cup {Duplicate, Failed, Busy, NoReply}

-----------------------------------------------------------------------------
(* What the SDK makes of an answer.                                        *)
SubclassByStatus(http) ==
    CASE http = 400 -> "BadRequestError"
      [] http = 403 -> "ForbiddenError"
      [] http = 404 -> "NotFoundError"
      [] http = 503 -> "ServiceUnavailableError"
      [] OTHER      -> "APIError"

(* APIError.from_response.                                                 *)
ErrorClass(r) == IF r = Rejected THEN "RejectedError" ELSE SubclassByStatus(r.http)

AnyUnavailable(r) == TRUE          \* mutant: the message is not looked at

IsEngineBusy(r) == r.message = "busy"

OnlyStatus202(r) == r.http = 202   \* mutant: replays are not recognised

(* CreateTransactionResponse.accepted: 202, or its replay as 200.          *)
Accepted(r) == r.http = 202 \/ (op # "TRANSFER" /\ r.status = "PENDING")

ForgetsSigned(st) == st \in {"PENDING", "PENDING_APPROVAL"}  \* mutant

IsInFlight(st) == st \in {"PENDING", "SIGNED", "PENDING_APPROVAL"}

(* What a caller does about a create() that ended: the handlers in         *)
(* examples/, and for the errors they let through what errors.py documents.*)
IsResponse(r)  == r.http < 300
Unavailable(r) == ~IsResponse(r) /\ ErrorClass(r) = "ServiceUnavailableError"

(* A RejectedError does not tell whether it left a held row, so a rejected *)
(* CONTRACT_CALL is retried under a new reference_id.  The docs advise it  *)
(* after any rejection; it is only safe while no other call under the old  *)
(* one may still create a row.  OnlyCall is that care, which the caller    *)
(* has to add: it is his bookkeeping, not the SDK's.                       *)
AnyRejection == TRUE               \* mutant: the advice of the docs as it is

OnlyCall == \A c \in 1..(made - 1) : ref[c] # ref[made]

IsRejection(r) == ErrorClass(r) = "RejectedError"

(* The answers whose reference_id stays free for the same value.           *)
LeavesFree(r) == \/ r.http \in {403, 404} \/ r.message = "insufficient_balance"
                 \/ IsRejection(r) /\ op # "CONTRACT_CALL"

MustPoll(r)  == IsResponse(r) /\ (Accepted(r) \/ op = "TRANSFER")
IsPaid(r)    == IsResponse(r) /\ ~MustPoll(r)
MayRenew(r)  == \/ r = Failed \/ (Unavailable(r) /\ IsEngineBusy(r))
                \/ IsRejection(r) /\ op = "CONTRACT_CALL" /\ OnlyCall
MayResend(r) == \/ r = Internal \/ (Unavailable(r) /\ ~IsEngineBusy(r))
                \/ LeavesFree(r)
MayStop(r)   == ~IsResponse(r) /\ ~Unavailable(r)

-----------------------------------------------------------------------------
TypeOK ==
    /\ outcome \in [Calls -> Engine!Outcomes]
    /\ effect \in [Calls -> 0..1]
    /\ op \in Ops
    /\ keyed \in BOOLEAN
    /\ made \in 0..MaxCalls
    /\ ref \in [Calls -> {0} \cup Refs]
    /\ stage \in [Calls -> {"none", "engine", "done"}]
    /\ reply \in [Calls -> Replies]
    /\ row \in [Refs -> RowStates]
    /\ cached \in [Refs -> Successes \cup {NoReply}]
    /\ plan \in {"new", "same", "wait", "poll", "paid", "stop"}
    /\ status \in {"none", "PENDING", "SIGNED", "FAILED"} \cup Paid
    /\ polls \in 0..PollAttempts

Init ==
    /\ Engine!Init
    /\ op \in Ops
    /\ keyed \in BOOLEAN
    /\ made = 0
    /\ ref = [c \in Calls |-> 0]
    /\ stage = [c \in Calls |-> "none"]
    /\ reply = [c \in Calls |-> NoReply]
    /\ row = [r \in Refs |-> "none"]
    /\ cached = [r \in Refs |-> NoReply]
    /\ plan = "new"
    /\ status = "none"
    /\ polls = PollAttempts

Current == ref[made]   \* the reference_id of the latest call

-----------------------------------------------------------------------------
(* The caller.                                                             *)
Create ==
    /\ plan \in {"new", "same"}
    /\ made < MaxCalls
    /\ made' = made + 1
    /\ ref' = [ref EXCEPT ![made + 1] =
                  IF made = 0 THEN 1
                  ELSE IF plan = "new" THEN Current + 1 ELSE Current]
    /\ plan' = "wait"
    /\ UNCHANGED <<wireVars, op, keyed, gatewayVars, status, polls>>

(* create() returns a response or raises the error the answer stands for.  *)
Return ==
    /\ plan = "wait"
    /\ stage[made] = "done"
    /\ Engine!Answer(made)
    /\ \/ MustPoll(reply[made])  /\ plan' = "poll"
       \/ IsPaid(reply[made])    /\ plan' = "paid"
       \/ MayRenew(reply[made])  /\ plan' = "new"
       \/ MayResend(reply[made]) /\ plan' = "same"
       \/ MayStop(reply[made])   /\ plan' = "stop"
    /\ UNCHANGED <<requestVars, gatewayVars, status, polls>>

(* 401, 429: turned down before the handler.                               *)
RaiseRefused ==
    /\ plan = "wait"
    /\ Engine!Refuse(made)
    /\ plan' \in {"same", "stop"}
    /\ UNCHANGED <<requestVars, gatewayVars, status, polls>>

(* A timeout, a lost connection or an unreadable body.                     *)
RaiseUnknown ==
    /\ plan = "wait"
    /\ Engine!LoseTrack(made)
    /\ plan' \in {"same", "stop"}
    /\ UNCHANGED <<requestVars, gatewayVars, status, polls>>

OneTooMany == polls >= 0           \* mutant: one poll more than allowed

AttemptsLeft == polls > 0          \* for _ in range(POLL_ATTEMPTS)

(* get(tx_id): the row is read first, its status reaches the caller later. *)
PollRead ==
    /\ plan = "poll"
    /\ status = "none"
    /\ AttemptsLeft
    /\ polls' = polls - 1
    /\ status' = Shown(row[Current])
    /\ UNCHANGED <<wireVars, requestVars, gatewayVars, plan>>

PollAgain ==
    /\ status # "none"
    /\ IsInFlight(status)
    /\ status' = "none"
    /\ UNCHANGED <<wireVars, requestVars, gatewayVars, plan, polls>>

(* The loop ends on the first status that is no longer in flight; a caller *)
(* told FAILED may pay again.                                              *)
PollEnds ==
    /\ plan = "poll"
    /\ status # "none"
    /\ ~IsInFlight(status)
    /\ plan' \in IF status = "FAILED" THEN {"new", "stop"} ELSE {"paid"}
    /\ status' = "none"
    /\ UNCHANGED <<wireVars, requestVars, gatewayVars, polls>>

(* POLL_ATTEMPTS used up: the loop falls through, the outcome still open.  *)
PollGivesUp ==
    /\ plan = "poll"
    /\ status = "none"
    /\ ~AttemptsLeft
    /\ plan' = "stop"
    /\ UNCHANGED <<wireVars, requestVars, gatewayVars, status, polls>>

GetRaises ==
    /\ plan = "poll"
    /\ status' = "none"
    /\ plan' \in {"poll", "stop"}
    /\ UNCHANGED <<wireVars, requestVars, gatewayVars, polls>>

-----------------------------------------------------------------------------
(* The gateway, from what transactions.py and errors.py say of it.         *)
Say(c, r) ==
    /\ reply' = [reply EXCEPT ![c] = r]
    /\ stage' = [stage EXCEPT ![c] = "done"]

(* A 2xx answer is remembered under the Idempotency-Key.                   *)
Reply(c, r) ==
    /\ Say(c, r)
    /\ cached' = IF keyed /\ r \in Successes THEN [cached EXCEPT ![ref[c]] = r]
                                             ELSE cached

(* The handler starts; which check comes first is the gateway's business.  *)
Receive(c) ==
    /\ c <= made
    /\ Engine!Apply(c)
    /\ UNCHANGED <<requestVars, callerVars>>

Replay(c) ==
    /\ Receive(c)
    /\ keyed
    /\ cached[ref[c]] # NoReply
    /\ Say(c, Ok(200, cached[ref[c]].status))
    /\ UNCHANGED <<row, cached>>

Misses(c) == keyed => cached[ref[c]] = NoReply

FailPreCheck(c) ==
    /\ Receive(c)
    /\ Misses(c)
    /\ \E r \in PreChecks : Reply(c, r)
    /\ UNCHANGED row

FindDuplicate(c) ==
    /\ Receive(c)
    /\ Misses(c)
    /\ row[ref[c]] # "none"
    /\ Reply(c, Duplicate)
    /\ UNCHANGED row

Insert(c) ==
    /\ Receive(c)
    /\ Misses(c)
    /\ row[ref[c]] = "none"
    /\ \/ /\ op = "TRANSFER"
          /\ row' = [row EXCEPT ![ref[c]] = "PENDING"]
          /\ Reply(c, Ok(200, "PENDING"))
       \/ /\ op # "TRANSFER"
          /\ row' = [row EXCEPT ![ref[c]] = "SYNC"]
          /\ stage' = [stage EXCEPT ![c] = "engine"]
          /\ UNCHANGED <<reply, cached>>

(* The signing engine answers the waiting handler, or does not in time.    *)
Settle(c, state, r) ==
    /\ stage[c] = "engine"
    /\ row' = [row EXCEPT ![ref[c]] = state]
    /\ Reply(c, r)
    /\ UNCHANGED <<wireVars, requestVars, callerVars>>

Refusals == {"FAILED"} \cup IF op = "CONTRACT_CALL" THEN {"HELD"} ELSE {}

EngineBroadcasts(c) == Settle(c, "BROADCAST", Ok(200, "BROADCAST"))
EngineIsLate(c)     == Settle(c, "PENDING", Ok(202, "PENDING"))
EngineRefuses(c)    == \E state \in Refusals, r \in {Failed, Busy} : Settle(c, state, r)
RejectSigned(c)     == op = "CONTRACT_CALL" /\ Settle(c, "HELD", Rejected)
HandlerCrashes(c)   == Settle(c, "PENDING", Internal)

(* Rows go on after the answer.  Assumed: the permit of a held row is not  *)
(* used, and it ends FAILED.  The gateway holds it until its deadline has  *)
(* passed and its reconciler has confirmed that; where a permit was used   *)
(* all the same, the new attempt the docs advise would pay twice.          *)
Successors(state) ==
    CASE state = "PENDING"   -> {"SIGNED", "FAILED"}
      [] state = "SIGNED"    -> {"BROADCAST", "FAILED"}
      [] state = "BROADCAST" -> {"CONFIRMED", "FAILED"}
      [] state = "HELD"      -> {"FAILED"}
      [] OTHER               -> {}

Advance(r) ==
    /\ \E state \in Successors(row[r]) : row' = [row EXCEPT ![r] = state]
    /\ UNCHANGED <<wireVars, requestVars, stage, reply, cached, callerVars>>

-----------------------------------------------------------------------------
Caller == \/ Create \/ Return \/ RaiseRefused \/ RaiseUnknown
          \/ PollRead \/ PollAgain \/ PollEnds \/ PollGivesUp \/ GetRaises

Handler(c) == \/ Replay(c) \/ FailPreCheck(c) \/ FindDuplicate(c) \/ Insert(c)
              \/ EngineBroadcasts(c) \/ EngineIsLate(c) \/ EngineRefuses(c)
              \/ RejectSigned(c) \/ HandlerCrashes(c)

Next == \/ Caller
        \/ \E c \in Calls : Handler(c)
        \/ \E r \in Refs : Advance(r)

Spec == Init /\ [][Next]_vars

-----------------------------------------------------------------------------
(* A caller who follows what the SDK says of its answers never has two rows*)
(* of one payment on the chain, however answers are lost, late or replayed.*)
PaidOnce == \A r, s \in Refs : row[r] \in Paid /\ row[s] \in Paid => r = s

(* "Paid" is only concluded from an answer when the row did reach the      *)
(* chain; an open outcome is always recognised as one to poll.             *)
PaidIsTrue == plan = "paid" => row[Current] \in Paid \cup {"FAILED"}

(* A poll ends only on a row that is decided and stays so.                 *)
PollEndsDecided ==
    [][plan = "poll" /\ plan' \in {"new", "paid"} => row[Current] \notin Open]_vars

-----------------------------------------------------------------------------
(* What Payment promises: an attempt is what has become of its row, and    *)
(* the caller has been told what his plan rests on.                        *)
Fate(state) == CASE state = "none"  -> "none"
                 [] state \in Dead  -> "dead"
                 [] state \in Paid  -> "moved"
                 [] OTHER           -> "open"

Told == CASE plan = "new"  -> "free"
          [] plan = "paid" -> "paid"
          [] OTHER         -> "waiting"

Promise == INSTANCE Payment WITH attempt <- [r \in Refs |-> Fate(row[r])], told <- Told

(* Whatever is lost, late or replayed, no attempt begins before those      *)
(* earlier are over, and after "paid" nothing is ever sent again.          *)
ImplementsPayment == Promise!Spec

-----------------------------------------------------------------------------
(* Of a rejected call errors.py says that its reference_id is still free,  *)
(* or that its row is held.                                                *)
RejectionLeavesNothingOpen ==
    \A c \in Calls : outcome[c] = "answered" /\ reply[c] = Rejected
                        => row[ref[c]] \in {"none"} \cup Dead

-----------------------------------------------------------------------------
(* The inductive invariant.  Reference ids are used one after the other:   *)
(* those given up are dead, those to come have no row.                     *)
RefsInv ==
    /\ made = 0 => plan = "new"
    /\ made > 0 => Current \in 1..made
    /\ \A c \in Calls : IF c <= made THEN ref[c] \in 1..Current
                                     ELSE stage[c] = "none"
    /\ \A r \in Refs : made = 0 \/ r > Current => row[r] = "none"

(* No call under r can create a row any more.                             *)
Spent(r) == \A c \in Calls : c <= made /\ ref[c] = r => effect[c] = 1
GivenUp(r) == row[r] \in Dead \/ (row[r] = "none" /\ Spent(r))

DeadInv ==
    /\ \A r \in Refs : made > 0 /\ r < Current => GivenUp(r)
    /\ made > 0 /\ plan = "new" => GivenUp(Current)
    /\ \A c \in Calls : reply[c] \in {Failed, Busy} => c <= made /\ row[ref[c]] \in Dead

(* Rows come from calls; a row that a rejection is not the truth about     *)
(* comes from another call under the same reference_id.                    *)
RejectInv ==
    /\ \A c \in Calls : stage[c] # "none" => effect[c] = 1
    /\ \A r \in Refs : row[r] # "none" => \E c \in 1..made : ref[c] = r /\ stage[c] # "none"
    /\ \A c \in Calls : reply[c] = Rejected =>
          /\ c <= made /\ stage[c] = "done"
          /\ row[ref[c]] \notin {"none"} \cup Dead => \E d \in 1..made : d # c /\ ref[d] = ref[c]

(* Only the handler that inserted a row waits for the engine over it.      *)
SyncInv == \A c \in Calls :
    stage[c] = "engine" => /\ row[ref[c]] = "SYNC"
                           /\ \A d \in Calls : stage[d] = "engine" /\ ref[d] = ref[c] => d = c

(* What was answered, remembered or read is still true of the row.         *)
Reached(r) == row[r] \in Paid \cup {"FAILED"}
AnswerInv ==
    /\ \A c \in Calls : stage[c] = "done" => reply[c] # NoReply
    /\ \A c \in Calls : reply[c] \in Successes =>
          /\ c <= made /\ row[ref[c]] # "none"
          /\ reply[c] = Ok(200, "BROADCAST") => Reached(ref[c])
    /\ \A r \in Refs : cached[r] # NoReply =>
          /\ row[r] # "none"
          /\ cached[r] = Ok(200, "BROADCAST") => Reached(r)

PollInv ==
    /\ plan = "poll" => row[Current] # "none"
    /\ plan = "paid" => Reached(Current)
    /\ status # "none" => plan = "poll"
    /\ status = "FAILED" => row[Current] = "FAILED"
    /\ status \in Paid => Reached(Current)

Inv == TypeOK /\ RefsInv /\ DeadInv /\ RejectInv /\ SyncInv /\ AnswerInv /\ PollInv
=============================================================================
