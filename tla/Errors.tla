-------------------------------- MODULE Errors --------------------------------
(***************************************************************************)
(* One create() that ends in an error: the gateway fails before or after   *)
(* it writes the row, something in front of it may answer in its place     *)
(* while it goes on, and the SDK makes an APIError of what arrives, whose  *)
(* class, predicates and reason_tag are all the caller learns.             *)
(*                                                                         *)
(* A message is one of the openings the SDK looks for, or a plain one, and *)
(* the text after it up to the next colon: a tag, or prose.                *)
(***************************************************************************)
EXTENDS Naturals

CONSTANTS Ops,    \* operations
          Tags    \* lower-case words joined by underscores

ASSUME OpsAssumption == Ops \subseteq {"TRANSFER", "PROGRAM_CALL", "CONTRACT_CALL"}
ASSUME TagsAssumption == {"prose", "none"} \cap Tags = {}

VARIABLES
    op,      \* the operation
    stage,   \* the handler: "checks", "inserted" or "ended"
    reason,  \* what the verifier or the engine gave as its reason
    resp,    \* the response on its way, or Nothing
    err      \* the exception the caller got, or Nothing

vars == <<op, stage, reason, resp, err>>

Texts == Tags \cup {"prose"}
Messages == [opening : {"plain", "Rejected", "failed", "Duplicate", "busy"}, text : Texts]
Say(opening, text) == [opening |-> opening, text |-> text]
Prose == Say("plain", "prose")

(* A body is the gateway's JSON object, another object, or no object.      *)
Response(http, body, code, message) ==
    [http |-> http, body |-> body, code |-> code, message |-> message]
Nothing == Response(0, "none", "none", Prose)

RowExists == stage = "inserted"    \* for good: no row is ever deleted

Init == /\ op \in Ops
        /\ stage = "checks"
        /\ reason = "none" /\ resp = Nothing /\ err = Nothing

-----------------------------------------------------------------------------
(* The gateway, as errors.py describes it.  An answer is lost where        *)
(* something else has answered before.                                     *)
Answer(http, code, message) ==
    resp' = IF resp = Nothing THEN Response(http, "gateway", code, message) ELSE resp

Fail(http, code, message) ==
    /\ Answer(http, code, message)
    /\ UNCHANGED <<op, reason, err>>

Fails(http, code, opening) == Fail(http, code, Say(opening, "prose"))

Fault(http, code, opening) == [http |-> http, code |-> code, opening |-> opening]

EarlyFaults ==
    {Fault(400, "invalid_parameter", "plain"), Fault(400, "invalid_parameter", "Duplicate"),
     Fault(400, "insufficient_balance", "plain"), Fault(401, "invalid_token", "plain"),
     Fault(401, "token_expired", "plain"), Fault(403, "forbidden", "plain"),
     Fault(404, "not_found", "plain"),
     Fault(409, "conflict", "plain"), Fault(410, "invalid_parameter", "plain"),
     Fault(429, "too_many_requests", "plain"), Fault(500, "internal_error", "plain")}

(* Tests have a 500 "Rejected: x": it opens like a rejection, but no       *)
(* verifier gave that text as its reason.                                  *)
TurnDown ==
    /\ stage = "checks" /\ stage' = "ended"
    /\ \/ \E f \in EarlyFaults : Fails(f.http, f.code, f.opening)
       \/ op = "TRANSFER" /\ Fails(403, "address_blacklisted", "plain")
       \/ op # "TRANSFER" /\ Fails(503, "service_unavailable", "plain")
       \/ \E t \in Texts : Fail(500, "internal_error", Say("Rejected", t))

Refuse(http, code, opening) ==
    /\ \E t \in Texts : reason' = t /\ Answer(http, code, Say(opening, t))
    /\ UNCHANGED <<op, err>>

Reject ==
    /\ op # "TRANSFER"
    /\ \/ stage = "checks" /\ stage' = "ended"
       \/ op = "CONTRACT_CALL" /\ stage = "inserted" /\ resp = Nothing /\ UNCHANGED stage
    /\ Refuse(400, "invalid_parameter", "Rejected")

Insert ==
    /\ stage = "checks" /\ stage' = "inserted"
    /\ UNCHANGED <<op, reason, resp, err>>

FailAfterInsert ==
    /\ stage = "inserted" /\ resp = Nothing /\ UNCHANGED stage
    /\ \/ Refuse(400, "transaction_failed", "failed")
       \/ op # "TRANSFER" /\ Fails(503, "service_unavailable", "busy")
       \/ Fails(500, "internal_error", "plain")

(* A proxy gives the request up, and answers with a page or JSON of its    *)
(* own; base_url may also lead to a redirect.                              *)
Intercept ==
    /\ resp = Nothing /\ err = Nothing
    /\ \E http \in {502, 503, 504, 308}, body \in {"object", "text"}, t \in Texts :
           resp' = Response(http, body, "none", Say("plain", t))
    /\ UNCHANGED <<op, stage, reason, err>>

-----------------------------------------------------------------------------
(* The SDK: client.py _raise_for_error and errors.py.                      *)
SubclassByStatus(http) ==
    CASE http = 400 -> "BadRequestError"     [] http = 401 -> "AuthenticationError"
      [] http = 403 -> "ForbiddenError"      [] http = 404 -> "NotFoundError"
      [] http = 409 -> "ConflictError"       [] http = 410 -> "EndpointRetiredError"
      [] http = 429 -> "RateLimitError"      [] http = 503 -> "ServiceUnavailableError"
      [] OTHER -> "APIError"

OnlyOpening(r) == r.message.opening = "Rejected"   \* mutant: whatever the status

IsRejection(r) == r.http = 400 /\ r.message.opening = "Rejected"

NoDefault(r) == r.code             \* mutant: body.get("code") without a default

CodeOf(r) == IF r.body = "gateway" THEN r.code ELSE "unknown"

FromResponse(r) ==
    [class   |-> IF IsRejection(r) THEN "RejectedError" ELSE SubclassByStatus(r.http),
     http    |-> r.http, code |-> CodeOf(r), message |-> r.message]

UnexpectedRedirect(r) ==
    [class |-> "APIError", http |-> r.http, code |-> "unexpected_redirect", message |-> Prose]

Raise ==
    /\ resp # Nothing /\ err = Nothing
    /\ err' = IF resp.http < 400 THEN UnexpectedRedirect(resp) ELSE FromResponse(resp)
    /\ UNCHANGED <<op, stage, reason, resp>>

AnyText(t) == TRUE                 \* mutant: the shape is not checked

TagShaped(t) == t \in Tags

ReasonTag(e) ==
    IF e.message.opening \in {"Rejected", "failed"} /\ TagShaped(e.message.text)
    THEN e.message.text ELSE "none"

AnyUnavailable(e) == TRUE          \* mutant: every 503 consumes

IsEngineBusy(e) == e.message.opening = "busy"

(* ServiceUnavailableError.reference_id_consumed.                          *)
ReferenceIdConsumed(e) == e.class = "ServiceUnavailableError" /\ IsEngineBusy(e)

(* The functions is_...(err).                                              *)
Predicates(e) ==
    [is_not_found           |-> e.http = 404,
     is_rate_limited        |-> e.http = 429,
     is_auth_error          |-> e.http \in {401, 403},
     is_rejected            |-> e.http = 400 /\ e.message.opening = "Rejected",
     is_forbidden           |-> e.http = 403,
     is_endpoint_retired    |-> e.http = 410,
     is_service_unavailable |-> e.http = 503,
     is_engine_busy         |-> e.class = "ServiceUnavailableError" /\ IsEngineBusy(e),
     is_token_expired       |-> e.http = 401 /\ e.code = "token_expired"]

Next == TurnDown \/ Reject \/ Insert \/ FailAfterInsert \/ Intercept \/ Raise

Spec == Init /\ [][Next]_vars

-----------------------------------------------------------------------------
Early == {"AuthenticationError", "ForbiddenError", "NotFoundError", "ConflictError",
          "EndpointRetiredError", "RateLimitError"}
Classes == Early \cup {"APIError", "BadRequestError", "RejectedError", "ServiceUnavailableError"}
Codes == {"invalid_parameter", "insufficient_balance", "transaction_failed", "invalid_token",
          "token_expired", "forbidden", "address_blacklisted", "not_found", "conflict",
          "too_many_requests", "internal_error", "service_unavailable",
          "unknown", "unexpected_redirect"}

TypeOK ==
    /\ op \in Ops /\ stage \in {"checks", "inserted", "ended"}
    /\ reason \in Texts \cup {"none"}
    /\ resp.message \in Messages
    /\ err # Nothing => err.class \in Classes /\ err.code \in Codes /\ err.message \in Messages

(* What an exception asserts of the row is true, whoever answered and      *)
(* however the handler goes on, in three cases: where it says that the     *)
(* reference_id is consumed, or carries transaction_failed, the row exists;*)
(* where its class is one of those the checks before the insert raise, and *)
(* where it is the RejectedError of an operation that is verified only     *)
(* once, there is no row and will be none.  It says nothing of the 503s    *)
(* that do not consume: those are FreeIsFree.                              *)
VerdictsAreTrue ==
    err # Nothing =>
        /\ ReferenceIdConsumed(err) \/ err.code = "transaction_failed" => RowExists
        /\ err.class \in Early => stage = "ended"
        /\ err.class = "RejectedError" /\ op # "CONTRACT_CALL" => stage = "ended"

(* "The other 503 causes happen before the insert and leave the reference  *)
(* free" (errors.py 431-432).  That is what the docs say; a 503 that comes *)
(* from in front of the gateway says nothing of the handler behind it.     *)
FreeIsFree ==
    err # Nothing /\ err.class = "ServiceUnavailableError" /\ ~ReferenceIdConsumed(err)
        => ~RowExists

(* On a 400, the status its docstring names, reason_tag is what the        *)
(* verifier or the engine gave as its reason, and nothing where that is    *)
(* prose; an answer that is not the gateway's has none.  The docstring's   *)
(* "anything else: None" is more than the code does: the status is not     *)
(* looked at, and a 500 "Rejected: x" has the tag x.                       *)
TagIsReason ==
    err # Nothing =>
        /\ err.http = 400 => ReasonTag(err) = IF reason \in Tags THEN reason ELSE "none"
        /\ err.code \in {"unknown", "unexpected_redirect"} => ReasonTag(err) = "none"

(* Code that catches classes and code that asks the older predicates see   *)
(* the same errors, the rejections among the 400s included.                *)
ClassesAgree ==
    err # Nothing =>
        LET p == Predicates(err) IN
        /\ p.is_rejected <=> err.class = "RejectedError"
        /\ p.is_not_found <=> err.class = "NotFoundError"
        /\ p.is_rate_limited <=> err.class = "RateLimitError"
        /\ p.is_endpoint_retired <=> err.class = "EndpointRetiredError"
        /\ p.is_service_unavailable <=> err.class = "ServiceUnavailableError"
        /\ p.is_forbidden <=> err.class = "ForbiddenError"
        /\ p.is_auth_error <=> err.class \in {"AuthenticationError", "ForbiddenError"}
        /\ p.is_token_expired => err.class = "AuthenticationError"
        /\ p.is_engine_busy <=> ReferenceIdConsumed(err)

(* Of a response on its way the same holds already, and stage "inserted"   *)
(* and "ended" are final: the inductive invariant.                         *)
EarlyStatus == {401, 403, 404, 409, 410, 429}

RespInv ==
    /\ resp.http \in Nat
    /\ resp.message.opening = "busy" \/ CodeOf(resp) = "transaction_failed" => RowExists
    /\ resp.http \in EarlyStatus => stage = "ended"
    /\ IsRejection(resp) /\ op # "CONTRACT_CALL" => stage = "ended"

Inv == RespInv /\ VerdictsAreTrue /\ ClassesAgree
=============================================================================
