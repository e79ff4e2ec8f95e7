----------------------------- MODULE ErrorsProofs -----------------------------
(* Proofs about Errors for any operations and tags.                        *)
EXTENDS Errors, TLAPS

LEMMA NoResponse == /\ Nothing.message.opening = "plain" /\ CodeOf(Nothing) = "unknown"
                    /\ Nothing.http = 0
BY DEF Nothing, Response, Prose, Say, CodeOf

LEMMA InvInit == Init => Inv
<1> SUFFICES ASSUME Init PROVE Inv OBVIOUS
<1>1. resp = Nothing /\ err = Nothing BY DEF Init
<1>2. Nothing.http # 400 /\ Nothing.http \notin EarlyStatus
  <2>1. 0 # 400 /\ 0 \notin EarlyStatus BY DEF EarlyStatus
  <2> QED BY <2>1, NoResponse
<1>3. RespInv BY <1>1, <1>2, NoResponse DEF RespInv, IsRejection
<1> QED BY <1>1, <1>3 DEF Inv, VerdictsAreTrue, ClassesAgree

(* What a step other than Raise has to keep: err stays, and stage keeps    *)
(* what is final.                                                          *)
LEMMA ErrorStays ==
    ASSUME VerdictsAreTrue, ClassesAgree, op' = op, err' = err,
           stage = "inserted" => stage' = "inserted", stage = "ended" => stage' = "ended"
    PROVE  VerdictsAreTrue' /\ ClassesAgree'
<1>1. VerdictsAreTrue' BY DEF VerdictsAreTrue, RowExists, ReferenceIdConsumed, IsEngineBusy
<1>2. ClassesAgree' BY DEF ClassesAgree, Predicates, ReferenceIdConsumed, IsEngineBusy
<1> QED BY <1>1, <1>2

(* A response kept, or one of the gateway's.                               *)
LEMMA Answered ==
    ASSUME RespInv, NEW http \in Nat, NEW code, NEW opening, NEW t,
           Answer(http, code, Say(opening, t)), op' = op,
           stage = "inserted" => stage' = "inserted", stage = "ended" => stage' = "ended",
           opening = "busy" \/ code = "transaction_failed" => stage' = "inserted",
           http \in EarlyStatus => stage' = "ended",
           http = 400 /\ opening = "Rejected" /\ op # "CONTRACT_CALL" => stage' = "ended"
    PROVE  RespInv'
<1>1. CASE resp' = resp BY <1>1 DEF RespInv, RowExists, CodeOf, IsRejection
<1>2. CASE resp' = Response(http, "gateway", code, Say(opening, t))
  <2>1. /\ resp'.http = http /\ resp'.body = "gateway" /\ resp'.code = code
        /\ resp'.message.opening = opening
    BY <1>2 DEF Response, Say
  <2>2. CodeOf(resp)' = code BY <2>1 DEF CodeOf
  <2>3. IsRejection(resp)' <=> http = 400 /\ opening = "Rejected" BY <2>1 DEF IsRejection
  <2> QED BY <2>1, <2>2, <2>3 DEF RespInv, RowExists
<1> QED BY <1>1, <1>2 DEF Answer

(* What an error whose class follows from its status satisfies.            *)
AgreeOn(e) ==
    LET q == Predicates(e) IN
    /\ q.is_not_found <=> e.class = "NotFoundError"
    /\ q.is_rate_limited <=> e.class = "RateLimitError"
    /\ q.is_endpoint_retired <=> e.class = "EndpointRetiredError"
    /\ q.is_service_unavailable <=> e.class = "ServiceUnavailableError"
    /\ q.is_forbidden <=> e.class = "ForbiddenError"
    /\ q.is_auth_error <=> e.class \in {"AuthenticationError", "ForbiddenError"}
    /\ q.is_token_expired => e.class = "AuthenticationError"
    /\ q.is_engine_busy <=> ReferenceIdConsumed(e)

LEMMA PredicateFields ==
    ASSUME NEW e
    PROVE  LET q == Predicates(e) IN
           /\ q.is_not_found <=> e.http = 404
           /\ q.is_rate_limited <=> e.http = 429
           /\ q.is_endpoint_retired <=> e.http = 410
           /\ q.is_service_unavailable <=> e.http = 503
           /\ q.is_forbidden <=> e.http = 403
           /\ q.is_auth_error <=> e.http = 401 \/ e.http = 403
           /\ q.is_token_expired => e.http = 401
           /\ q.is_engine_busy <=> ReferenceIdConsumed(e)
BY DEF Predicates, ReferenceIdConsumed

LEMMA ByStatus ==
    ASSUME NEW e, e.class = SubclassByStatus(e.http)
    PROVE  AgreeOn(e) /\ e.class # "RejectedError"
<1>1. /\ e.class = "NotFoundError" <=> e.http = 404
      /\ e.class = "RateLimitError" <=> e.http = 429
      /\ e.class = "EndpointRetiredError" <=> e.http = 410
      /\ e.class = "ServiceUnavailableError" <=> e.http = 503
      /\ e.class = "ForbiddenError" <=> e.http = 403
      /\ e.class = "AuthenticationError" <=> e.http = 401
      /\ e.class # "RejectedError"
  BY DEF SubclassByStatus
<1> QED BY <1>1, PredicateFields DEF AgreeOn

LEMMA RejectionsAgree == ASSUME NEW e, e.class = "RejectedError", e.http = 400 PROVE AgreeOn(e)
<1>1. e.http \notin {401, 403, 404, 410, 429, 503} OBVIOUS
<1>2. ~ReferenceIdConsumed(e) BY DEF ReferenceIdConsumed
<1> QED BY <1>1, <1>2, PredicateFields DEF AgreeOn

LEMMA RedirectsAgree ==
    ASSUME NEW e, e.class = "APIError", e.http \in Nat, e.http < 400 PROVE AgreeOn(e)
<1>1. e.http \notin {401, 403, 404, 410, 429, 503} OBVIOUS
<1>2. ~ReferenceIdConsumed(e) BY DEF ReferenceIdConsumed
<1> QED BY <1>1, <1>2, PredicateFields DEF AgreeOn

LEMMA TurnDownStep == Inv /\ TurnDown => Inv'
<1> SUFFICES ASSUME Inv, TurnDown PROVE Inv' OBVIOUS
<1>1. stage = "checks" /\ stage' = "ended" BY DEF TurnDown
<1>2. ASSUME NEW http \in Nat, NEW code, NEW opening, Fails(http, code, opening),
             opening # "busy", code # "transaction_failed"
      PROVE  Inv'
  <2>1. Answer(http, code, Say(opening, "prose")) /\ op' = op /\ err' = err
    BY <1>2 DEF Fails, Fail
  <2>2. RespInv' BY <1>1, <1>2, <2>1, Answered DEF Inv
  <2> QED BY <1>1, <2>1, <2>2, ErrorStays DEF Inv
<1>3. ASSUME NEW f \in EarlyFaults, Fails(f.http, f.code, f.opening) PROVE Inv'
  <2>3. f.http \in Nat BY DEF EarlyFaults, Fault
  <2>1. f.opening # "busy" BY DEF EarlyFaults, Fault
  <2>2. f.code # "transaction_failed" BY DEF EarlyFaults, Fault
  <2> QED BY <1>2, <1>3, <2>1, <2>2, <2>3
<1>4. CASE Fails(403, "address_blacklisted", "plain") BY <1>2, <1>4
<1>5. CASE Fails(503, "service_unavailable", "plain") BY <1>2, <1>5
<1>6. ASSUME NEW t, Fail(500, "internal_error", Say("Rejected", t)) PROVE Inv'
  <2>1. Answer(500, "internal_error", Say("Rejected", t)) /\ op' = op /\ err' = err
    BY <1>6 DEF Fail
  <2>2. /\ "Rejected" # "busy" /\ "internal_error" # "transaction_failed"
        /\ 500 \in Nat /\ 500 # 400
    OBVIOUS
  <2>3. RespInv' BY <1>1, <2>1, <2>2, Answered DEF Inv
  <2> QED BY <1>1, <2>1, <2>3, ErrorStays DEF Inv
<1> QED BY <1>3, <1>4, <1>5, <1>6 DEF TurnDown

LEMMA RejectStep == Inv /\ Reject => Inv'
<1> SUFFICES ASSUME Inv, Reject PROVE Inv' OBVIOUS
<1>1. PICK t : Answer(400, "invalid_parameter", Say("Rejected", t))
  BY DEF Reject, Refuse
<1>2. /\ op' = op /\ err' = err
      /\ \/ stage = "checks" /\ stage' = "ended"
         \/ op = "CONTRACT_CALL" /\ stage = "inserted" /\ stage' = "inserted"
  BY DEF Reject, Refuse
<1>3. PICK http, opening, code :
          /\ http = 400 /\ opening = "Rejected" /\ code = "invalid_parameter"
  OBVIOUS
<1>4. http \in Nat /\ http \notin EarlyStatus
  <2>1. 400 \notin EarlyStatus BY DEF EarlyStatus
  <2> QED BY <1>3, <2>1
<1>5. Answer(http, code, Say(opening, t)) BY <1>1, <1>3
<1>6. opening # "busy" /\ code # "transaction_failed" BY <1>3
<1>7. RespInv' BY <1>2, <1>4, <1>5, <1>6, Answered DEF Inv
<1> QED BY <1>2, <1>7, ErrorStays DEF Inv

LEMMA FailStep == Inv /\ FailAfterInsert => Inv'
<1> SUFFICES ASSUME Inv, FailAfterInsert PROVE Inv' OBVIOUS
<1>1. op' = op /\ err' = err /\ stage = "inserted" /\ stage' = "inserted"
  BY DEF FailAfterInsert, Refuse, Fails, Fail
<1>2. ASSUME NEW http \in Nat, http \notin EarlyStatus, NEW code, NEW opening,
             opening # "Rejected", NEW t, Answer(http, code, Say(opening, t))
      PROVE  Inv'
  <2>1. RespInv' BY <1>1, <1>2, Answered DEF Inv
  <2> QED BY <1>1, <2>1, ErrorStays DEF Inv
<1>3. \/ \E t : Answer(400, "transaction_failed", Say("failed", t))
      \/ Answer(503, "service_unavailable", Say("busy", "prose"))
      \/ Answer(500, "internal_error", Say("plain", "prose"))
  BY DEF FailAfterInsert, Refuse, Fails, Fail
<1>4. 400 \in Nat /\ 500 \in Nat /\ 503 \in Nat /\ 400 \notin EarlyStatus /\ 500 \notin EarlyStatus /\ 503 \notin EarlyStatus
  BY DEF EarlyStatus
<1>5. "failed" # "Rejected" /\ "busy" # "Rejected" /\ "plain" # "Rejected" OBVIOUS
<1>6. ASSUME NEW t, Answer(400, "transaction_failed", Say("failed", t)) PROVE Inv'
  BY <1>2, <1>4, <1>5, <1>6
<1>7. CASE Answer(503, "service_unavailable", Say("busy", "prose")) BY <1>2, <1>4, <1>5, <1>7
<1>8. CASE Answer(500, "internal_error", Say("plain", "prose")) BY <1>2, <1>4, <1>5, <1>8
<1> QED BY <1>3, <1>6, <1>7, <1>8

LEMMA InterceptStep == Inv /\ Intercept => Inv'
<1> SUFFICES ASSUME Inv, Intercept PROVE Inv' OBVIOUS
<1>1. PICK http \in {502, 503, 504, 308}, body \in {"object", "text"}, t \in Texts :
          resp' = Response(http, body, "none", Say("plain", t))
  BY DEF Intercept
<1>2. /\ resp'.http = http /\ resp'.body = body /\ resp'.message.opening = "plain"
  BY <1>1 DEF Response, Say
<1>3. CodeOf(resp)' = "unknown" BY <1>2 DEF CodeOf
<1>4. http \in Nat /\ http \notin EarlyStatus /\ http # 400 BY DEF EarlyStatus
<1>5. RespInv' BY <1>2, <1>3, <1>4 DEF RespInv, IsRejection
<1>6. UNCHANGED <<op, stage, err>> BY DEF Intercept
<1> QED BY <1>5, <1>6, ErrorStays DEF Inv

LEMMA RaiseStep == Inv /\ Raise => Inv'
<1> SUFFICES ASSUME Inv, Raise PROVE Inv' OBVIOUS
<1>1. UNCHANGED <<op, stage, reason, resp>> BY DEF Raise
<1>2. RespInv' BY <1>1 DEF Inv, RespInv, RowExists, CodeOf, IsRejection
<1>3. (resp.http < 400 /\ err' = UnexpectedRedirect(resp)) \/ err' = FromResponse(resp)
  BY DEF Raise
<1>4. CASE resp.http < 400 /\ err' = UnexpectedRedirect(resp)
  <2>1. err'.class = "APIError" /\ err'.code = "unexpected_redirect" /\ err'.http = resp.http
    BY <1>4 DEF UnexpectedRedirect
  <2>2. VerdictsAreTrue' BY <2>1 DEF VerdictsAreTrue, ReferenceIdConsumed, Early
  <2>3. err'.http \in Nat /\ err'.http < 400 BY <1>4, <2>1 DEF Inv, RespInv
  <2>4. AgreeOn(err') BY <2>1, <2>3, RedirectsAgree
  <2>5. ~Predicates(err').is_rejected
    <3>1. err'.http # 400 BY <2>3
    <3> QED BY <3>1 DEF Predicates
  <2>6. ClassesAgree' BY <2>1, <2>4, <2>5 DEF ClassesAgree, AgreeOn
  <2> QED BY <1>2, <2>2, <2>6 DEF Inv
<1>5. CASE err' = FromResponse(resp)
  <2>1. /\ err'.code = CodeOf(resp) /\ err'.message = resp.message
        /\ err'.class = IF IsRejection(resp) THEN "RejectedError" ELSE SubclassByStatus(resp.http)
    BY <1>5 DEF FromResponse
  <2>2. ReferenceIdConsumed(err') => RowExists
    BY <2>1 DEF ReferenceIdConsumed, IsEngineBusy, Inv, RespInv
  <2>3. err'.code = "transaction_failed" => RowExists BY <2>1 DEF Inv, RespInv
  <2>4. err'.class \in Early => resp.http \in EarlyStatus
    BY <2>1 DEF Early, SubclassByStatus, EarlyStatus
  <2>5. err'.class = "RejectedError" => IsRejection(resp) BY <2>1 DEF SubclassByStatus
  <2>6. VerdictsAreTrue'
    BY <1>1, <2>2, <2>3, <2>4, <2>5
    DEF Inv, RespInv, VerdictsAreTrue, ReferenceIdConsumed, IsEngineBusy, RowExists
  <2>7. Predicates(err').is_rejected <=> IsRejection(resp)
    BY <1>5 DEF FromResponse, Predicates, IsRejection
  <2>8. err'.http = resp.http BY <1>5 DEF FromResponse
  <2>9. CASE IsRejection(resp)
    <3>1. err'.class = "RejectedError" /\ err'.http = 400 BY <2>1, <2>8, <2>9 DEF IsRejection
    <3>2. AgreeOn(err') BY <3>1, RejectionsAgree
    <3>3. ClassesAgree' BY <2>7, <2>9, <3>1, <3>2 DEF ClassesAgree, AgreeOn
    <3> QED BY <1>2, <2>6, <3>3 DEF Inv
  <2>10. CASE ~IsRejection(resp)
    <3>1. err'.class = SubclassByStatus(err'.http) BY <2>1, <2>8, <2>10
    <3>2. AgreeOn(err') /\ err'.class # "RejectedError" BY <3>1, ByStatus
    <3>3. ClassesAgree' BY <2>7, <2>10, <3>2 DEF ClassesAgree, AgreeOn
    <3> QED BY <1>2, <2>6, <3>3 DEF Inv
  <2> QED BY <2>9, <2>10
<1> QED BY <1>2, <1>3, <1>4, <1>5 DEF Inv

LEMMA OtherStep == Inv /\ (Insert \/ UNCHANGED vars) => Inv'
<1> SUFFICES ASSUME Inv, Insert \/ UNCHANGED vars PROVE Inv' OBVIOUS
<1>1. /\ op' = op /\ err' = err /\ resp' = resp
      /\ stage' = stage \/ stage = "checks"
  BY DEF Insert, vars
<1>2. RespInv' BY <1>1 DEF Inv, RespInv, RowExists, CodeOf, IsRejection
<1> QED BY <1>1, <1>2, ErrorStays DEF Inv

LEMMA Invariance == Spec => []Inv
<1>1. Inv /\ [Next]_vars => Inv'
  BY TurnDownStep, RejectStep, FailStep, InterceptStep, RaiseStep, OtherStep DEF Next
<1> QED BY <1>1, InvInit, PTL DEF Spec

(* Whoever answers a failed create(): an error that says the reference_id  *)
(* is consumed, or carries transaction_failed, has its row, and one of the *)
(* classes raised before the insert has none and will have none.  Of the   *)
(* 503s that do not consume nothing is stated: FreeIsFree is refuted.      *)
THEOREM TrueVerdicts == Spec => []VerdictsAreTrue
BY Invariance, PTL DEF Inv

(* The class of an error and the older predicates never disagree.          *)
THEOREM Agreement == Spec => []ClassesAgree
BY Invariance, PTL DEF Inv

-----------------------------------------------------------------------------
(* For the types and the tags: what the gateway's answer says of reason,   *)
(* and that an exception is a copy of it or says nothing.                  *)
GatewayCodes == Codes \ {"unknown", "unexpected_redirect"}
Tag == IF reason \in Tags THEN reason ELSE "none"

AnswerTag ==
    /\ stage = "checks" => resp.body # "gateway" /\ reason = "none"
    /\ resp = Nothing => reason = "none" /\ err = Nothing
    /\ IF resp.body = "gateway"
       THEN resp.code \in GatewayCodes /\ (resp.http = 400 => ReasonTag(resp) = Tag)
       ELSE resp.message.opening = "plain" /\ resp.http # 400

ErrorTag ==
    err # Nothing =>
        \/ /\ err.code \in {"unknown", "unexpected_redirect"}
           /\ ReasonTag(err) = "none" /\ err.http # 400
        \/ /\ resp.body = "gateway"
           /\ err.code = resp.code /\ err.http = resp.http
           /\ ReasonTag(err) = ReasonTag(resp)

TagInv == TypeOK /\ AnswerTag /\ ErrorTag

LEMMA NothingFields == Nothing.body = "none" /\ Nothing.message = Prose
BY DEF Nothing, Response

LEMMA SayFields ==
    ASSUME NEW opening, NEW t
    PROVE  Say(opening, t).opening = opening /\ Say(opening, t).text = t
BY DEF Say

LEMMA PlainTag == ASSUME NEW e, e.message.opening = "plain" PROVE ReasonTag(e) = "none"
BY DEF ReasonTag

LEMMA TagInvInit == Init => TagInv
<1> SUFFICES ASSUME Init PROVE TagInv OBVIOUS
<1>1. resp = Nothing /\ err = Nothing /\ reason = "none" /\ op \in Ops /\ stage = "checks"
  BY DEF Init
<1>2. Prose \in Messages BY DEF Prose, Say, Messages, Texts
<1>3. Prose.opening = "plain" BY SayFields DEF Prose
<1>4. TypeOK BY <1>1, <1>2, NothingFields DEF TypeOK
<1>5. AnswerTag BY <1>1, <1>3, NothingFields, NoResponse DEF AnswerTag
<1> QED BY <1>1, <1>4, <1>5 DEF TagInv, ErrorTag

(* The gateway answers: with the reason it has just given, with prose, or  *)
(* with another status than 400.                                           *)
LEMMA AnswerKeepsTag ==
    ASSUME TagInv, NEW http, NEW code \in GatewayCodes, NEW t \in Texts,
           NEW opening \in {"plain", "Rejected", "failed", "Duplicate", "busy"},
           Answer(http, code, Say(opening, t)), op' = op, err' = err,
           resp = Nothing \/ stage = "checks", stage' \in {"inserted", "ended"},
           \/ reason' = t /\ opening \in {"Rejected", "failed"}
           \/ reason' = reason /\ (t = "prose" \/ http # 400)
    PROVE  TagInv'
<1>1. reason' \in Texts \cup {"none"} BY DEF TagInv, TypeOK
<1>2. CASE resp # Nothing
  <2>1. resp' = resp /\ resp.body # "gateway" BY <1>2 DEF Answer, TagInv, AnswerTag
  <2>2. TypeOK' BY <1>1, <2>1 DEF TagInv, TypeOK
  <2>3. AnswerTag' BY <1>2, <2>1 DEF TagInv, AnswerTag
  <2>4. ErrorTag' BY <2>1 DEF TagInv, ErrorTag, ReasonTag, TagShaped
  <2> QED BY <2>2, <2>3, <2>4 DEF TagInv
<1>3. CASE resp = Nothing
  <2>1. resp' = Response(http, "gateway", code, Say(opening, t)) BY <1>3 DEF Answer
  <2>2. /\ resp'.body = "gateway" /\ resp'.code = code /\ resp'.http = http
        /\ resp'.message = Say(opening, t)
    BY <2>1 DEF Response
  <2>3. resp' # Nothing BY <2>2, NothingFields
  <2>4. reason = "none" /\ err = Nothing BY <1>3 DEF TagInv, AnswerTag
  <2>5. resp'.message \in Messages BY <2>2 DEF Messages, Say
  <2>6. TypeOK' BY <1>1, <2>4, <2>5 DEF TagInv, TypeOK
  <2>7. resp'.message.opening = opening /\ resp'.message.text = t BY <2>2, SayFields
  <2>8. ReasonTag(resp)' = IF opening \in {"Rejected", "failed"} /\ t \in Tags THEN t ELSE "none"
    BY <2>7 DEF ReasonTag, TagShaped
  <2>9. Tag' = IF reason' \in Tags THEN reason' ELSE "none" BY DEF Tag
  <2>10. http = 400 => ReasonTag(resp)' = Tag' BY <2>4, <2>8, <2>9, TagsAssumption
  <2>11. AnswerTag' BY <2>2, <2>3, <2>10 DEF AnswerTag
  <2> QED BY <2>4, <2>6, <2>11 DEF TagInv, ErrorTag
<1> QED BY <1>2, <1>3

LEMMA GatewayTag == TagInv /\ (TurnDown \/ Reject \/ FailAfterInsert) => TagInv'
<1> SUFFICES ASSUME TagInv, TurnDown \/ Reject \/ FailAfterInsert PROVE TagInv' OBVIOUS
<1>1. /\ resp = Nothing \/ stage = "checks"
      /\ stage' \in {"inserted", "ended"}
      /\ op' = op /\ err' = err
  BY DEF TurnDown, Reject, FailAfterInsert, Refuse, Fails, Fail
<1>2. ASSUME NEW http, NEW code \in GatewayCodes,
             NEW opening \in {"plain", "Rejected", "failed", "Duplicate", "busy"},
             Fails(http, code, opening)
      PROVE  TagInv'
  <2>1. Answer(http, code, Say(opening, "prose")) /\ reason' = reason BY <1>2 DEF Fails, Fail
  <2>2. "prose" \in Texts BY DEF Texts
  <2> QED BY <1>1, <2>1, <2>2, AnswerKeepsTag
<1>3. ASSUME NEW http, NEW code \in GatewayCodes, NEW opening \in {"Rejected", "failed"},
             Refuse(http, code, opening)
      PROVE  TagInv'
  <2>1. PICK t \in Texts : reason' = t /\ Answer(http, code, Say(opening, t))
    BY <1>3 DEF Refuse
  <2> QED BY <1>1, <2>1, AnswerKeepsTag
<1>4. CASE TurnDown
  <2>1. /\ \A f \in EarlyFaults :
               f.code \in GatewayCodes /\ f.opening \in {"plain", "Rejected", "Duplicate"}
        /\ {"address_blacklisted", "service_unavailable"} \subseteq GatewayCodes
    BY DEF EarlyFaults, Fault, GatewayCodes, Codes
  <2>2. \/ \E f \in EarlyFaults : Fails(f.http, f.code, f.opening)
        \/ Fails(403, "address_blacklisted", "plain")
        \/ Fails(503, "service_unavailable", "plain")
        \/ \E t \in Texts : Fail(500, "internal_error", Say("Rejected", t))
    BY <1>4 DEF TurnDown
  <2>3. ASSUME NEW t \in Texts, Fail(500, "internal_error", Say("Rejected", t)) PROVE TagInv'
    <3>1. Answer(500, "internal_error", Say("Rejected", t)) /\ reason' = reason
      BY <2>3 DEF Fail
    <3>2. "internal_error" \in GatewayCodes BY DEF GatewayCodes, Codes
    <3>3. 500 # 400 OBVIOUS
    <3> QED BY <1>1, <3>1, <3>2, <3>3, AnswerKeepsTag
  <2> QED BY <1>2, <2>1, <2>2, <2>3
<1>5. {"invalid_parameter", "transaction_failed", "service_unavailable", "internal_error"}
          \subseteq GatewayCodes
  BY DEF GatewayCodes, Codes
<1>6. CASE Reject BY <1>3, <1>5, <1>6 DEF Reject
<1>7. CASE FailAfterInsert BY <1>2, <1>3, <1>5, <1>7 DEF FailAfterInsert
<1> QED BY <1>4, <1>6, <1>7

LEMMA InterceptTag == TagInv /\ Intercept => TagInv'
<1> SUFFICES ASSUME TagInv, Intercept PROVE TagInv' OBVIOUS
<1>1. PICK http \in {502, 503, 504, 308}, body \in {"object", "text"}, t \in Texts :
          resp' = Response(http, body, "none", Say("plain", t))
  BY DEF Intercept
<1>2. /\ resp'.body = body /\ resp'.message = Say("plain", t)
      /\ resp'.message.opening = "plain" /\ resp'.http # 400
  BY <1>1, SayFields DEF Response
<1>3. resp = Nothing /\ err = Nothing /\ UNCHANGED <<op, stage, reason, err>> BY DEF Intercept
<1>4. resp'.message \in Messages BY <1>2 DEF Messages, Say
<1>5. TypeOK' BY <1>3, <1>4 DEF TagInv, TypeOK
<1>6. AnswerTag' BY <1>2, <1>3, NothingFields DEF TagInv, AnswerTag
<1> QED BY <1>3, <1>5, <1>6 DEF TagInv, ErrorTag

LEMMA RaiseTag == TagInv /\ Raise => TagInv'
<1> SUFFICES ASSUME TagInv, Raise PROVE TagInv' OBVIOUS
<1>1. resp # Nothing /\ UNCHANGED <<op, stage, reason, resp>> BY DEF Raise
<1>2. AnswerTag' BY <1>1 DEF TagInv, AnswerTag, ReasonTag, TagShaped, Tag
<1>3. CASE resp.http < 400 /\ err' = UnexpectedRedirect(resp)
  <2>1. /\ err'.class = "APIError" /\ err'.code = "unexpected_redirect"
        /\ err'.message = Prose /\ err'.http = resp.http
    BY <1>3 DEF UnexpectedRedirect
  <2>2. Prose \in Messages /\ Prose.opening = "plain"
    BY SayFields DEF Prose, Say, Messages, Texts
  <2>3. TypeOK' BY <1>1, <2>1, <2>2 DEF TagInv, TypeOK, Classes, Codes
  <2>4. ReasonTag(err') = "none" BY <2>1, <2>2, PlainTag
  <2>5. err'.http # 400 BY <1>3, <2>1
  <2>6. ErrorTag' BY <2>1, <2>4, <2>5 DEF ErrorTag, ReasonTag, TagShaped
  <2> QED BY <1>2, <2>3, <2>6 DEF TagInv
<1>4. CASE err' = FromResponse(resp)
  <2>1. /\ err'.code = CodeOf(resp) /\ err'.message = resp.message /\ err'.http = resp.http
        /\ err'.class = IF IsRejection(resp) THEN "RejectedError" ELSE SubclassByStatus(resp.http)
    BY <1>4 DEF FromResponse
  <2>2. SubclassByStatus(resp.http) \in Classes BY DEF SubclassByStatus, Classes, Early
  <2>3. err'.class \in Classes BY <2>1, <2>2 DEF Classes
  <2>4. ReasonTag(err') = ReasonTag(resp) BY <2>1 DEF ReasonTag
  <2>5. CASE resp.body = "gateway"
    <3>1. err'.code = resp.code /\ resp.code \in GatewayCodes
      BY <2>1, <2>5 DEF CodeOf, TagInv, AnswerTag
    <3>2. TypeOK' BY <1>1, <2>1, <2>3, <3>1 DEF TagInv, TypeOK, GatewayCodes
    <3>3. ErrorTag' BY <1>1, <2>1, <2>4, <2>5, <3>1 DEF ErrorTag, ReasonTag, TagShaped
    <3> QED BY <1>2, <3>2, <3>3 DEF TagInv
  <2>6. CASE resp.body # "gateway"
    <3>1. err'.code = "unknown" BY <2>1, <2>6 DEF CodeOf
    <3>2. ReasonTag(err') = "none" /\ err'.http # 400
      BY <2>1, <2>4, <2>6, PlainTag DEF TagInv, AnswerTag
    <3>3. TypeOK' BY <1>1, <2>1, <2>3, <3>1 DEF TagInv, TypeOK, Codes
    <3>4. ErrorTag' BY <3>1, <3>2 DEF ErrorTag, ReasonTag, TagShaped
    <3> QED BY <1>2, <3>3, <3>4 DEF TagInv
  <2> QED BY <2>5, <2>6
<1> QED BY <1>3, <1>4 DEF Raise

LEMMA OtherTag == TagInv /\ (Insert \/ UNCHANGED vars) => TagInv'
<1> SUFFICES ASSUME TagInv, Insert \/ UNCHANGED vars PROVE TagInv' OBVIOUS
<1>1. /\ op' = op /\ reason' = reason /\ resp' = resp /\ err' = err
      /\ stage' = stage \/ (stage = "checks" /\ stage' = "inserted")
  <2>1. CASE Insert BY <2>1 DEF Insert
  <2>2. CASE UNCHANGED vars BY <2>2 DEF vars
  <2> QED BY <2>1, <2>2
<1>2. TypeOK' BY <1>1 DEF TagInv, TypeOK
<1>3. AnswerTag' BY <1>1 DEF TagInv, AnswerTag, ReasonTag, TagShaped, Tag
<1>4. ErrorTag' BY <1>1 DEF TagInv, ErrorTag, ReasonTag, TagShaped
<1> QED BY <1>2, <1>3, <1>4 DEF TagInv

LEMMA TagInvariance == Spec => []TagInv
<1>1. TagInv /\ [Next]_vars => TagInv'
  BY GatewayTag, InterceptTag, RaiseTag, OtherTag DEF Next
<1> QED BY <1>1, TagInvInit, PTL DEF Spec

(* Operation, stage, reason, message, class and code stay in their types.  *)
THEOREM TypeCorrect == Spec => []TypeOK
BY TagInvariance, PTL DEF TagInv

(* On a 400 reason_tag is the reason the gateway gave, in whatever order   *)
(* it, a proxy and the SDK go on; an answer that is not its own has none.  *)
THEOREM TagsAreReasons == Spec => []TagIsReason
<1>1. TagInv => TagIsReason
  <2> SUFFICES ASSUME TagInv, err # Nothing PROVE TagIsReason BY DEF TagIsReason
  <2>1. CASE /\ err.code \in {"unknown", "unexpected_redirect"}
             /\ ReasonTag(err) = "none" /\ err.http # 400
    BY <2>1 DEF TagIsReason
  <2>2. CASE /\ resp.body = "gateway" /\ err.code = resp.code
             /\ err.http = resp.http /\ ReasonTag(err) = ReasonTag(resp)
    <3>1. /\ resp.code \notin {"unknown", "unexpected_redirect"}
          /\ resp.http = 400 => ReasonTag(resp) = Tag
      BY <2>2 DEF TagInv, AnswerTag, GatewayCodes
    <3> QED BY <2>2, <3>1 DEF TagIsReason, Tag
  <2> QED BY <2>1, <2>2 DEF TagInv, ErrorTag
<1> QED BY <1>1, TagInvariance, PTL
=============================================================================
