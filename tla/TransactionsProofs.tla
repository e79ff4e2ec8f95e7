------------------------- MODULE TransactionsProofs -------------------------
(* Proofs about Transactions for any number of calls and polls.            *)
EXTENDS Transactions, TLAPS

USE OpsAssumption, BoundAssumption

-----------------------------------------------------------------------------
(* What the SDK's reading of an answer lets the caller do.                 *)
Faults == {Rejected, Internal, Duplicate, Failed, Busy, Fault(400, "insufficient_balance"),
           Fault(403, "other"), Fault(404, "other"), Fault(503, "unavailable")}

LEMMA ReplyCases ==
  ASSUME NEW r \in Replies, r # NoReply
  PROVE  r \in Successes \/ r \in Faults
BY DEF Replies, PreChecks, Faults

LEMMA SuccessFields ==
  ASSUME NEW r \in Successes
  PROVE  /\ IsResponse(r) /\ r.message = ""
         /\ r.status = "PENDING" \/ r = Ok(200, "BROADCAST")
<1>1. PICK h \in {200, 202}, s \in {"PENDING", "BROADCAST"} :
        r = Ok(h, s) /\ (s = "PENDING" \/ r = Ok(200, "BROADCAST"))
  BY ZenonT(40) DEF Successes
<1>2. r.http = h BY <1>1 DEF Ok
<1>3. r.status = s BY <1>1 DEF Ok
<1>4. r.message = "" BY <1>1 DEF Ok
<1>5. h < 300 OBVIOUS
<1>6. r.http < 300 BY <1>2, <1>5, ZenonT(40)
<1> QED BY <1>1, <1>3, <1>4, <1>6, ZenonT(40) DEF IsResponse

LEMMA FaultParts ==
  ASSUME NEW h \in {400, 403, 404, 500, 503}, NEW t, NEW r, r = Fault(h, t)
  PROVE  ~IsResponse(r) /\ r.message = t
<1>1. r.http = h BY DEF Fault
<1>2. r.message = t BY DEF Fault
<1>3. ~(h < 300) OBVIOUS
<1>4. ~(r.http < 300) BY <1>1, <1>3, ZenonT(40)
<1> QED BY <1>2, <1>4, ZenonT(40) DEF IsResponse

LEMMA FaultFields ==
  ASSUME NEW r \in Faults
  PROVE  ~IsResponse(r) /\ (r.message = "busy" => r = Busy)
<1> DEFINE Goal == ~IsResponse(r) /\ (r.message = "busy" => r = Busy)
<1> HIDE DEF Goal
<1>1. ASSUME NEW h \in {400, 403, 404, 500, 503}, NEW t, r = Fault(h, t), t # "busy"
      PROVE  Goal
  <2>1. ~IsResponse(r) /\ r.message = t BY <1>1, FaultParts
  <2> QED BY <1>1, <2>1, ZenonT(40) DEF Goal
<1>2. ASSUME r = Busy PROVE Goal
  <2>1. r = Fault(503, "busy") BY <1>2 DEF Busy
  <2>2. ~IsResponse(r) BY <2>1, FaultParts
  <2> QED BY <1>2, <2>2, ZenonT(40) DEF Goal
<1>3. r = Rejected => Goal BY <1>1 DEF Rejected
<1>4. r = Internal => Goal BY <1>1 DEF Internal
<1>5. r = Duplicate => Goal BY <1>1 DEF Duplicate
<1>6. r = Failed => Goal BY <1>1 DEF Failed
<1>7. r = Fault(400, "insufficient_balance") => Goal BY <1>1
<1>8. r = Fault(403, "other") => Goal BY <1>1
<1>9. r = Fault(404, "other") => Goal BY <1>1
<1>10. r = Fault(503, "unavailable") => Goal BY <1>1
<1>11. Goal
  BY <1>2, <1>3, <1>4, <1>5, <1>6, <1>7, <1>8, <1>9, <1>10 DEF Faults
<1> QED BY <1>11 DEF Goal

LEMMA RejectionIsRejected == ASSUME NEW r, IsRejection(r) PROVE r = Rejected
<1>1. SubclassByStatus(r.http) # "RejectedError" BY DEF SubclassByStatus
<1> QED BY <1>1 DEF IsRejection, ErrorClass

(* A new reference_id is only used after an answer that came with a dead   *)
(* row, transaction_failed or the engine-busy 503, or after the rejection  *)
(* of the only call under the old one.                                     *)
LEMMA NewIsSafe ==
  ASSUME NEW r \in Replies, r # NoReply, MayRenew(r)
  PROVE  r \in {Failed, Busy} \/ (r = Rejected /\ OnlyCall)
BY ReplyCases, SuccessFields, FaultFields, RejectionIsRejected
   DEF MayRenew, Unavailable, IsEngineBusy

LEMMA PaidIsBroadcast ==
  ASSUME NEW r \in Replies, r # NoReply, IsPaid(r)
  PROVE  r = Ok(200, "BROADCAST")
BY ReplyCases, SuccessFields, FaultFields DEF IsPaid, MustPoll, Accepted

LEMMA PollIsResponse ==
  ASSUME NEW r \in Replies, r # NoReply, MustPoll(r)
  PROVE  r \in Successes
BY ReplyCases, FaultFields DEF MustPoll

LEMMA NoReplyFields == NoReply \notin Successes /\ NoReply \notin Faults
<1>1. NoReply.http = 0 BY DEF NoReply, Fault
<1>2. ASSUME NEW r \in Successes PROVE r # NoReply
  <2>1. PICK h \in {200, 202}, s \in {"PENDING", "BROADCAST"} : r = Ok(h, s) BY <1>2, ZenonT(40) DEF Successes
  <2>2. r.http = h BY <2>1 DEF Ok
  <2>3. h # 0 OBVIOUS
  <2> QED BY <2>2, <2>3, <1>1, ZenonT(40)
<1>3. IsResponse(NoReply) BY <1>1 DEF IsResponse
<1> QED BY <1>2, <1>3, FaultFields, ZenonT(40)

LEMMA RejectedFields == Rejected \in Faults /\ Rejected \notin Successes /\ Rejected # NoReply
<1>1. Rejected \in Faults BY DEF Faults
<1> QED BY <1>1, NoReplyFields, SuccessFields, FaultFields, ZenonT(40)

LEMMA SuccessIsTrue ==
  ASSUME NEW r \in Successes
  PROVE  r \in Replies /\ r # NoReply /\ r \notin {Failed, Busy}
<1>1. r \in Replies BY DEF Replies
<1>2. {Failed, Busy} \subseteq Faults BY DEF Faults
<1> QED BY <1>1, <1>2, NoReplyFields, SuccessFields, FaultFields, ZenonT(40)

(* Refusals given before any row is written promise nothing about a row.   *)
LEMMA PreCheckFields ==
  ASSUME NEW r \in PreChecks \cup {Duplicate}
  PROVE  r \in Replies \ (Successes \cup {Failed, Busy, NoReply})
<1>1. r \in Replies BY DEF Replies
<1>2. r \in Faults BY DEF PreChecks, Faults
<1>3. r \notin Successes BY <1>2, FaultFields, SuccessFields, ZenonT(40)
<1>4. r # NoReply BY <1>2, NoReplyFields, ZenonT(40)
<1>5. ASSUME NEW h, NEW t, r = Fault(h, t), t \notin {"transaction_failed", "busy"}
      PROVE  r \notin {Failed, Busy}
  <2>1. r.message = t BY <1>5 DEF Fault
  <2>2. Failed.message = "transaction_failed" BY DEF Failed, Fault
  <2>3. Busy.message = "busy" BY DEF Busy, Fault
  <2> QED BY <1>5, <2>1, <2>2, <2>3, ZenonT(40)
<1>6. r = Rejected => r \notin {Failed, Busy} BY <1>5 DEF Rejected
<1>7. r = Internal => r \notin {Failed, Busy} BY <1>5 DEF Internal
<1>8. r = Duplicate => r \notin {Failed, Busy} BY <1>5 DEF Duplicate
<1>9. r = Fault(400, "insufficient_balance") => r \notin {Failed, Busy} BY <1>5
<1>10. r = Fault(403, "other") => r \notin {Failed, Busy} BY <1>5
<1>11. r = Fault(404, "other") => r \notin {Failed, Busy} BY <1>5
<1>12. r = Fault(503, "unavailable") => r \notin {Failed, Busy} BY <1>5
<1>13. r \notin {Failed, Busy}
  BY <1>6, <1>7, <1>8, <1>9, <1>10, <1>11, <1>12 DEF PreChecks
<1> QED BY <1>1, <1>3, <1>4, <1>13, ZenonT(40)

(* The three answers of a success are what they look like.                 *)
LEMMA OkFields ==
  /\ Ok(200, "PENDING") # Ok(200, "BROADCAST")
  /\ Ok(202, "PENDING") # Ok(200, "BROADCAST")
  /\ Ok(200, "BROADCAST").status = "BROADCAST"
<1>1. Ok(200, "PENDING").status = "PENDING" BY DEF Ok
<1>2. Ok(200, "BROADCAST").status = "BROADCAST" BY DEF Ok
<1>3. Ok(202, "PENDING").status = "PENDING" BY DEF Ok
<1>4. "PENDING" # "BROADCAST" OBVIOUS
<1> QED BY <1>1, <1>2, <1>3, <1>4, ZenonT(40)

-----------------------------------------------------------------------------
(* How rows may move: what has been said of one stays true.                *)
Grows(old, new) ==
  /\ new \in RowStates
  /\ old # "none" => new # "none"
  /\ old \in Dead => new \in Dead
  /\ old \in Paid \cup {"FAILED"} => new \in Paid \cup {"FAILED"}
  /\ old = "FAILED" => new = "FAILED"

RowsGrow ==
  /\ row' \in [Refs -> RowStates]
  /\ \A r \in Refs : Grows(row[r], row'[r])
  /\ \A r \in Refs : row[r] = "none" /\ row'[r] # "none" =>
        \E c \in 1..made : ref[c] = r /\ effect[c] = 0 /\ stage'[c] # "none"

LEMMA RowStaysPut == ASSUME NEW state \in RowStates PROVE Grows(state, state)
BY DEF Grows

LEMMA FreshRowGrows ==
  ASSUME NEW old \in {"none", "SYNC"},
         NEW new \in {"SYNC", "PENDING", "BROADCAST", "FAILED", "HELD"}
  PROVE  Grows(old, new)
BY DEF Grows, RowStates, Open, Dead, Paid

LEMMA SuccessorGrows ==
  ASSUME NEW old \in RowStates, NEW new \in Successors(old)
  PROVE  Grows(old, new) /\ old \notin {"none", "SYNC"}
BY DEF Grows, Successors, RowStates, Open, Dead, Paid

-----------------------------------------------------------------------------
LEMMA InvInit == Init => Inv
<1> SUFFICES ASSUME Init PROVE Inv OBVIOUS
<1>1. TypeOK
  BY DEF Init, TypeOK, Engine!Init, Engine!Outcomes, Calls, Refs, RowStates, Replies
<1>2. RefsInv BY DEF Init, RefsInv, Calls, Refs
<1>3. \A c \in Calls : reply[c] = NoReply BY DEF Init
<1>4. \A r \in Refs : cached[r] = NoReply BY DEF Init
<1>5. NoReply \notin {Failed, Busy}
  BY NoReplyFields, ZenonT(40) DEF Faults
<1>6. DeadInv BY <1>3, <1>5 DEF Init, DeadInv
<1>7. SyncInv BY DEF Init, SyncInv
<1>10. RejectInv BY <1>3, RejectedFields DEF Init, RejectInv
<1>8. AnswerInv BY <1>3, <1>4, NoReplyFields DEF Init, AnswerInv
<1>9. PollInv BY DEF Init, PollInv, Paid
<1> QED BY <1>1, <1>2, <1>6, <1>7, <1>8, <1>9, <1>10 DEF Inv

(* The request engine's steps keep its own types.                          *)
LEMMA EngineTypes ==
  ASSUME outcome \in [Calls -> Engine!Outcomes], effect \in [Calls -> 0..1],
         NEW c \in Calls,
         \/ Engine!Apply(c) \/ Engine!Answer(c) \/ Engine!Refuse(c) \/ Engine!LoseTrack(c)
  PROVE  outcome' \in [Calls -> Engine!Outcomes] /\ effect' \in [Calls -> 0..1]
BY DEF Engine!Apply, Engine!Answer, Engine!Refuse, Engine!LoseTrack, Engine!Conclude,
       Engine!Outcomes

(* Steps of the caller that call nothing leave the gateway's side alone:   *)
(* what is left to show is about the plan and the status being read.       *)
LEMMA CallerStep ==
  ASSUME Inv, UNCHANGED <<requestVars, gatewayVars, effect>>, made > 0,
         outcome' \in [Calls -> Engine!Outcomes],
         plan' \in {"new", "same", "wait", "poll", "paid", "stop"},
         status' \in {"none", "PENDING", "SIGNED", "FAILED"} \cup Paid,
         polls' \in 0..PollAttempts,
         plan' = "new" => GivenUp(Current),
         PollInv'
  PROVE  Inv'
<1> USE DEF requestVars, gatewayVars
<1>1. TypeOK' BY DEF Inv, TypeOK, Replies, PreChecks
<1>2. RefsInv' BY DEF Inv, RefsInv, Current
<1>3. DeadInv' BY DEF Inv, DeadInv, Current, GivenUp, Spent
<1>4. SyncInv' BY DEF Inv, SyncInv
<1>5. AnswerInv' BY DEF Inv, AnswerInv, Reached
<1>6. RejectInv' BY DEF Inv, RejectInv
<1> QED BY <1>1, <1>2, <1>3, <1>4, <1>5, <1>6 DEF Inv

LEMMA CreateKeepsInv == ASSUME Inv, Create PROVE Inv'
<1> DEFINE new == made + 1
<1> USE DEF Create, wireVars, gatewayVars
<1>1. made \in 0..MaxCalls /\ new \in Calls /\ made' = new /\ plan' = "wait"
  BY DEF Inv, TypeOK, Calls
<1>2. /\ ref' = [ref EXCEPT ![new] = Current']
      /\ Current' \in 1..new
      /\ made > 0 => Current \in 1..made /\ Current <= Current'
      /\ made > 0 /\ Current' # Current => Current' = Current + 1 /\ GivenUp(Current)
  BY <1>1 DEF Inv, TypeOK, RefsInv, DeadInv, Current, Calls, Refs
<1>3. \A c \in Calls : c <= made => ref'[c] = ref[c] BY <1>1, <1>2 DEF Inv, TypeOK, Calls
<1>4. TypeOK'
  <2>1. ref' \in [Calls -> {0} \cup Refs] BY <1>1, <1>2 DEF Inv, TypeOK, Calls, Refs
  <2> QED BY <1>1, <2>1 DEF Inv, TypeOK, Replies, PreChecks
<1>5. RefsInv'
  <2>1. ASSUME NEW c \in Calls PROVE IF c <= new THEN ref'[c] \in 1..Current'
                                                ELSE stage[c] = "none"
    <3>1. c > made => stage[c] = "none" BY <1>1 DEF Inv, RefsInv, Calls
    <3>2. CASE c = new
      <4>1. ref'[new] = Current' BY <1>1, <1>2 DEF Inv, TypeOK
      <4> QED BY <1>1, <1>2, <3>2, <4>1 DEF Calls
    <3>3. CASE c <= made
      <4>1. ref[c] \in 1..Current BY <3>3 DEF Inv, RefsInv
      <4>2. made > 0 BY <3>3 DEF Inv, TypeOK, Calls
      <4> QED BY <1>1, <1>2, <1>3, <3>3, <4>1, <4>2 DEF Calls
    <3> QED BY <1>1, <3>1, <3>2, <3>3 DEF Calls
  <2>2. ASSUME NEW r \in Refs, r > Current' PROVE row[r] = "none"
    BY <1>1, <1>2, <2>2 DEF Inv, RefsInv, Calls, Refs
  <2> QED BY <1>1, <1>2, <2>1, <2>2 DEF RefsInv
<1>6. DeadInv'
  <2>1. ASSUME NEW r \in Refs, GivenUp(r), r # Current' PROVE GivenUp(r)'
    <3>1. ref'[new] = Current' BY <1>1, <1>2 DEF Inv, TypeOK
    <3>2. \A c \in Calls : c <= new => c <= made \/ c = new BY <1>1 DEF Calls
    <3> QED BY <1>1, <1>3, <2>1, <3>1, <3>2 DEF GivenUp, Spent
  <2>2. ASSUME NEW r \in Refs, r < Current' PROVE GivenUp(r)'
    <3>1. made > 0 /\ Current \in Refs
      BY <1>1, <1>2, <2>2 DEF Inv, RefsInv, Refs, Calls
    <3>2. GivenUp(r) BY <1>2, <2>2, <3>1 DEF Inv, DeadInv, Refs
    <3> QED BY <1>2, <2>1, <2>2, <3>2 DEF Refs
  <2>3. \A c \in Calls : reply[c] \in {Failed, Busy} => c <= new /\ row[ref'[c]] \in Dead
    BY <1>1, <1>3 DEF Inv, DeadInv, Calls
  <2> QED BY <1>1, <2>2, <2>3 DEF DeadInv
<1>10. RejectInv'
  <2>1. \A c \in 1..made : c \in 1..new /\ ref'[c] = ref[c] BY <1>1, <1>3 DEF Calls
  <2> QED BY <1>1, <1>3, <2>1 DEF Inv, RejectInv, Calls
<1>7. SyncInv'
  <2>1. \A c \in Calls : stage[c] = "engine" => c <= made BY DEF Inv, RefsInv
  <2> QED BY <1>1, <1>3, <2>1 DEF Inv, SyncInv
<1>8. AnswerInv' BY <1>1, <1>3 DEF Inv, AnswerInv, Reached, Calls
<1>9. PollInv' BY <1>1 DEF Inv, PollInv, Paid
<1> QED BY <1>4, <1>5, <1>6, <1>7, <1>8, <1>9, <1>10 DEF Inv

LEMMA WaitingCall ==
  ASSUME Inv, plan \in {"wait", "poll"} \/ status # "none"
  PROVE  made > 0 /\ made \in Calls /\ Current \in Refs
BY DEF Inv, TypeOK, RefsInv, PollInv, Calls, Refs

LEMMA ReturnKeepsInv == ASSUME Inv, Return PROVE Inv'
<1> DEFINE r == reply[made]
<1>1. made > 0 /\ made \in Calls BY WaitingCall DEF Return
<1>2. r \in Replies /\ r # NoReply BY <1>1 DEF Inv, TypeOK, AnswerInv, Return
<1>3. outcome' \in [Calls -> Engine!Outcomes] /\ effect' = effect
  BY <1>1, EngineTypes DEF Inv, TypeOK, Return, Engine!Answer, Engine!Conclude
<1>4. status = "none" BY DEF Inv, PollInv, Return
<1>5. MustPoll(r) => row[Current] # "none"
  <2>1. MustPoll(r) => r \in Successes BY <1>2, PollIsResponse
  <2> QED BY <1>1, <2>1 DEF Inv, AnswerInv, Current
<1>6. IsPaid(r) => Reached(Current)
  <2>1. IsPaid(r) => r = Ok(200, "BROADCAST") BY <1>2, PaidIsBroadcast
  <2> QED BY <1>1, <2>1 DEF Inv, AnswerInv, Current, Successes
<1>7. MayRenew(r) => GivenUp(Current)
  <2>1. MayRenew(r) => r \in {Failed, Busy} \/ (r = Rejected /\ OnlyCall)
    BY <1>2, NewIsSafe
  <2>2. r \in {Failed, Busy} => row[Current] \in Dead
    BY <1>1 DEF Inv, DeadInv, Current
  <2>3. ASSUME r = Rejected, OnlyCall PROVE GivenUp(Current)
    <3>1. \A c \in Calls : c <= made /\ ref[c] = Current => c = made
      BY <1>1, <2>3 DEF OnlyCall, Current, Calls, Inv, TypeOK
    <3>2. effect[made] = 1 BY <1>1 DEF Return, Inv, RejectInv
    <3>3. row[Current] \in {"none"} \cup Dead
      BY <1>1, <2>3, <3>1 DEF Inv, RejectInv, Current, TypeOK, Calls
    <3> QED BY <3>1, <3>2, <3>3 DEF GivenUp, Spent
  <2> QED BY <2>1, <2>2, <2>3 DEF GivenUp
<1>8. /\ plan' \in {"new", "same", "poll", "paid", "stop"}
      /\ plan' = "poll" => row[Current] # "none"
      /\ plan' = "paid" => Reached(Current)
      /\ plan' = "new" => GivenUp(Current)
  BY <1>5, <1>6, <1>7 DEF Return
<1>9. PollInv'
  BY <1>4, <1>8 DEF PollInv, Return, requestVars, gatewayVars, Current, Reached, Paid
<1> QED BY <1>1, <1>3, <1>4, <1>8, <1>9, CallerStep DEF Return, Inv, TypeOK

LEMMA RaiseKeepsInv == ASSUME Inv, RaiseRefused \/ RaiseUnknown PROVE Inv'
<1> USE DEF RaiseRefused, RaiseUnknown
<1>1. made > 0 /\ made \in Calls BY WaitingCall
<1>2. outcome' \in [Calls -> Engine!Outcomes] /\ effect' = effect
  BY <1>1, EngineTypes DEF Inv, TypeOK, Engine!Refuse, Engine!LoseTrack, Engine!Conclude
<1>3. PollInv' BY DEF Inv, PollInv, Paid
<1> QED BY <1>1, <1>2, <1>3, CallerStep DEF Inv, TypeOK

LEMMA ShownFields ==
  ASSUME NEW state \in RowStates, state # "none"
  PROVE  /\ Shown(state) \in {"PENDING", "SIGNED", "FAILED"} \cup Paid
         /\ Shown(state) = "FAILED" => state = "FAILED"
         /\ Shown(state) \in Paid => state \in Paid
BY DEF Shown, RowStates, Open, Dead, Paid

LEMMA PollKeepsInv ==
  ASSUME Inv, PollRead \/ PollAgain \/ PollEnds \/ PollGivesUp \/ GetRaises
  PROVE  Inv'
<1>1. made > 0 /\ Current \in Refs
  BY WaitingCall DEF PollRead, PollAgain, PollEnds, PollGivesUp, GetRaises
<1>2. /\ UNCHANGED <<requestVars, gatewayVars>>
      /\ outcome' \in [Calls -> Engine!Outcomes] /\ effect' = effect
  BY DEF PollRead, PollAgain, PollEnds, PollGivesUp, GetRaises, wireVars, Inv, TypeOK
<1>3. Current' = Current /\ row' = row BY <1>2 DEF requestVars, gatewayVars, Current
<1>4. CASE PollRead
  <2>1. row[Current] \in RowStates /\ row[Current] # "none"
    BY <1>1, <1>4 DEF Inv, TypeOK, PollInv, PollRead
  <2>2. PollInv' /\ status' \in {"PENDING", "SIGNED", "FAILED"} \cup Paid
    BY <1>3, <1>4, <2>1, ShownFields DEF PollRead, Inv, PollInv, Reached
  <2> QED BY <1>1, <1>2, <1>4, <2>2, CallerStep DEF PollRead, AttemptsLeft, Inv, TypeOK
<1>5. CASE PollEnds
  <2>1. status \in {"FAILED"} \cup Paid
    BY <1>5 DEF PollEnds, IsInFlight, Inv, TypeOK
  <2>2. status \in Paid => status # "FAILED" BY DEF Paid
  <2>3. plan' \in {"new", "stop", "paid"} /\ (plan' = "new" => GivenUp(Current))
    BY <1>5 DEF PollEnds, Inv, PollInv, Dead, GivenUp
  <2>4. PollInv'
    BY <1>3, <1>5, <2>1, <2>2 DEF PollEnds, Inv, PollInv, Reached, Paid
  <2> QED BY <1>1, <1>2, <1>5, <2>3, <2>4, CallerStep DEF PollEnds, Inv, TypeOK
<1>6. CASE PollAgain \/ PollGivesUp \/ GetRaises
  <2>1. plan' \in {plan, "poll", "stop"} /\ status' = "none" /\ polls' = polls /\ plan = "poll"
    BY <1>6 DEF PollAgain, PollGivesUp, GetRaises, Inv, PollInv
  <2>2. PollInv' BY <1>3, <2>1 DEF Inv, PollInv, Paid
  <2> QED BY <1>1, <1>2, <2>1, <2>2, CallerStep DEF Inv, TypeOK
<1> QED BY <1>4, <1>5, <1>6

-----------------------------------------------------------------------------
(* A step of the gateway that lets rows grow, starts at most one wait for  *)
(* the engine and gives at most one true answer.                           *)
GatewayFrame ==
  /\ UNCHANGED <<requestVars, callerVars>>
  /\ outcome' \in [Calls -> Engine!Outcomes] /\ effect' \in [Calls -> 0..1]
  /\ \A c \in Calls : /\ effect[c] = 1 => effect'[c] = 1
                      /\ stage[c] # "none" => stage'[c] # "none"
                      /\ stage'[c] # "none" => effect'[c] = 1
  /\ RowsGrow

(* The answer r, should call c be given it, is true of the row it is about.*)
TrueOf(r, c) ==
  /\ r # NoReply
  /\ r \in {Failed, Busy} => row'[ref[c]] \in Dead
  /\ r = Rejected => \/ row'[ref[c]] \in {"none"} \cup Dead
                     \/ \E d \in 1..made : d # c /\ ref[d] = ref[c]
  /\ r \in Successes => row'[ref[c]] # "none"
  /\ r = Ok(200, "BROADCAST") => row'[ref[c]] \in Paid \cup {"FAILED"}

LEMMA MadeCall == ASSUME Inv, NEW c \in Calls, c <= made
                  PROVE  made > 0 /\ ref[c] \in Refs /\ ref[c] <= Current /\ Current \in Refs
BY DEF Inv, TypeOK, RefsInv, Calls, Refs

LEMMA FramedParts ==
  ASSUME Inv, GatewayFrame
  PROVE  /\ \A r \in Refs : made = 0 \/ r > Current => row'[r] = "none"
         /\ \A r \in Refs : made > 0 /\ r < Current => GivenUp(r)'
         /\ made > 0 /\ plan' = "new" => GivenUp(Current)'
         /\ \A r \in Refs : row'[r] # "none" =>
               \E c \in 1..made : ref[c] = r /\ stage'[c] # "none"
         /\ \A c \in Calls : reply[c] = Rejected =>
               /\ c <= made
               /\ row'[ref[c]] \notin {"none"} \cup Dead =>
                     \E d \in 1..made : d # c /\ ref[d] = ref[c]
         /\ Current' = Current
         /\ PollInv'
<1> USE DEF GatewayFrame, RowsGrow, Grows, requestVars, callerVars
<1>1. Current' = Current BY DEF Current
<1>2. made > 0 => Current \in Refs /\ Current \in Nat
  BY DEF Inv, RefsInv, TypeOK, Calls, Refs
<1>3. ASSUME NEW r \in Refs, made = 0 \/ r > Current PROVE row'[r] = "none"
  <2>1. row[r] = "none" BY <1>3 DEF Inv, RefsInv
  <2>2. ASSUME NEW c \in 1..made PROVE ref[c] # r
    <3>1. c \in Calls /\ c <= made BY DEF Inv, TypeOK, Calls
    <3>2. made > 0 /\ ref[c] \in 1..Current BY <3>1 DEF Inv, RefsInv, TypeOK, Calls
    <3> QED BY <1>2, <1>3, <3>2 DEF Refs
  <2> QED BY <2>1, <2>2
<1>7. ASSUME NEW r \in Refs, GivenUp(r) PROVE GivenUp(r)'
  <2>1. CASE row[r] \in Dead BY <2>1 DEF GivenUp
  <2>2. CASE row[r] = "none" /\ Spent(r)
    <3>1. Spent(r)' BY <2>2 DEF Spent
    <3>2. \A c \in 1..made : ref[c] = r => effect[c] = 1
      BY <2>2 DEF Spent, Inv, TypeOK, Calls
    <3>3. row'[r] = "none" BY <2>2, <3>2
    <3> QED BY <3>1, <3>3 DEF GivenUp
  <2> QED BY <1>7, <2>1, <2>2 DEF GivenUp
<1>4. \A r \in Refs : made > 0 /\ r < Current => GivenUp(r)' BY <1>7 DEF Inv, DeadInv
<1>5. made > 0 /\ plan' = "new" => GivenUp(Current)'
  BY <1>1, <1>2, <1>7 DEF Inv, DeadInv, GivenUp, Spent
<1>8. ASSUME NEW r \in Refs, row'[r] # "none"
      PROVE  \E c \in 1..made : ref[c] = r /\ stage'[c] # "none"
  <2>1. 1..made \subseteq Calls BY DEF Inv, TypeOK, Calls
  <2> QED BY <1>8, <2>1 DEF Inv, RejectInv
<1>9. ASSUME NEW c \in Calls, reply[c] = Rejected
      PROVE  /\ c <= made
             /\ row'[ref[c]] \notin {"none"} \cup Dead =>
                   \E d \in 1..made : d # c /\ ref[d] = ref[c]
  <2>1. c <= made /\ ref[c] \in Refs /\ effect[c] = 1
    BY <1>9, MadeCall DEF Inv, RejectInv
  <2>2. CASE row[ref[c]] = "none" BY <2>1, <2>2
  <2>3. CASE row[ref[c]] # "none" BY <1>9, <2>1, <2>3 DEF Inv, RejectInv
  <2> QED BY <2>1, <2>2, <2>3
<1>6. PollInv'
  <2>1. plan \in {"poll", "paid"} \/ status # "none" => made > 0
    BY DEF Inv, TypeOK, RefsInv, PollInv
  <2> QED BY <1>1, <1>2, <2>1 DEF Inv, PollInv, Reached, Paid
<1> QED BY <1>1, <1>3, <1>4, <1>5, <1>6, <1>8, <1>9

LEMMA AnsweringStep ==
  ASSUME Inv, GatewayFrame, NEW c \in Calls, c <= made, NEW r \in Replies, TrueOf(r, c),
         Say(c, r),
         cached' = cached \/ (r \in Successes /\ cached' = [cached EXCEPT ![ref[c]] = r]),
         \A d \in Calls : d # c /\ stage[d] = "engine" => row'[ref[d]] = row[ref[d]]
  PROVE  Inv'
<1>1. ref[c] \in Refs /\ ref' = ref /\ made' = made /\ op' = op
  BY MadeCall DEF GatewayFrame, requestVars
<1>2. \A d \in Calls : /\ stage'[d] = IF d = c THEN "done" ELSE stage[d]
                       /\ reply'[d] = IF d = c THEN r ELSE reply[d]
  BY DEF Say, Inv, TypeOK
<1>3. TypeOK'
  <2>1. Replies' = Replies BY <1>1 DEF Replies, PreChecks
  <2>2. reply' \in [Calls -> Replies] /\ stage' \in [Calls -> {"none", "engine", "done"}]
    BY DEF Say, Inv, TypeOK
  <2>3. cached' \in [Refs -> Successes \cup {NoReply}] BY <1>1 DEF Inv, TypeOK
  <2> QED BY <2>1, <2>2, <2>3
      DEF GatewayFrame, RowsGrow, requestVars, callerVars, Inv, TypeOK
<1>4. RefsInv'
  BY <1>1, <1>2, FramedParts DEF GatewayFrame, requestVars, callerVars, Inv, RefsInv
<1>5. DeadInv'
  <2>1. ASSUME NEW d \in Calls, reply'[d] \in {Failed, Busy}
        PROVE  d <= made /\ row'[ref[d]] \in Dead
    <3>1. CASE d = c BY <1>2, <2>1, <3>1 DEF TrueOf
    <3>2. CASE d # c
      <4>1. d <= made /\ row[ref[d]] \in Dead BY <1>2, <2>1, <3>2 DEF Inv, DeadInv
      <4> QED BY <4>1, MadeCall DEF GatewayFrame, RowsGrow, Grows
    <3> QED BY <3>1, <3>2
  <2> QED BY <1>1, <2>1, FramedParts DEF DeadInv
<1>8. RejectInv'
  <2>1. ASSUME NEW d \in Calls, reply'[d] = Rejected
        PROVE  /\ d <= made /\ stage'[d] = "done"
               /\ row'[ref[d]] \notin {"none"} \cup Dead =>
                     \E e \in 1..made : e # d /\ ref[e] = ref[d]
    <3>1. CASE d = c BY <1>2, <2>1, <3>1 DEF TrueOf
    <3>2. CASE d # c BY <1>2, <2>1, <3>2, FramedParts DEF Inv, RejectInv
    <3> QED BY <3>1, <3>2
  <2> QED BY <1>1, <2>1, FramedParts DEF RejectInv, GatewayFrame
<1>6. SyncInv' BY <1>1, <1>2 DEF Inv, SyncInv
<1>7. AnswerInv'
  <2>1. ASSUME NEW d \in Calls, reply'[d] \in Successes
        PROVE  /\ d <= made /\ row'[ref[d]] # "none"
               /\ reply'[d] = Ok(200, "BROADCAST") => row'[ref[d]] \in Paid \cup {"FAILED"}
    <3>1. CASE d = c BY <1>2, <2>1, <3>1 DEF TrueOf
    <3>2. CASE d # c
      <4>1. /\ d <= made /\ row[ref[d]] # "none"
            /\ reply'[d] = Ok(200, "BROADCAST") => row[ref[d]] \in Paid \cup {"FAILED"}
        BY <1>2, <2>1, <3>2 DEF Inv, AnswerInv, Reached
      <4> QED BY <4>1, MadeCall DEF GatewayFrame, RowsGrow, Grows
    <3> QED BY <3>1, <3>2
  <2>2. ASSUME NEW x \in Refs, cached'[x] # NoReply
        PROVE  /\ row'[x] # "none"
               /\ cached'[x] = Ok(200, "BROADCAST") => row'[x] \in Paid \cup {"FAILED"}
    <3>1. CASE cached'[x] = cached[x]
      <4>1. /\ row[x] # "none"
            /\ cached'[x] = Ok(200, "BROADCAST") => row[x] \in Paid \cup {"FAILED"}
        BY <2>2, <3>1 DEF Inv, AnswerInv, Reached
      <4> QED BY <4>1 DEF GatewayFrame, RowsGrow, Grows
    <3>2. CASE cached'[x] # cached[x]
      <4>1. r \in Successes /\ x = ref[c] /\ cached'[x] = r
        BY <1>1, <3>2 DEF Inv, TypeOK
      <4> QED BY <4>1 DEF TrueOf
    <3> QED BY <3>1, <3>2
  <2>3. \A d \in Calls : stage'[d] = "done" => reply'[d] # NoReply
    BY <1>2 DEF TrueOf, Inv, AnswerInv
  <2> QED BY <1>1, <2>1, <2>2, <2>3 DEF AnswerInv, Reached
<1> QED BY <1>3, <1>4, <1>5, <1>6, <1>7, <1>8, FramedParts DEF Inv

(* Starting the handler keeps the frame when it leaves the rows alone.     *)
LEMMA ReceiveFrame ==
  ASSUME Inv, NEW c \in Calls, Receive(c),
         NEW s \in {"engine", "done"}, stage' = [stage EXCEPT ![c] = s]
  PROVE  /\ c <= made /\ effect[c] = 0 /\ stage[c] = "none"
         /\ row' = row => RowsGrow
         /\ RowsGrow => GatewayFrame
<1>1. outcome' \in [Calls -> Engine!Outcomes] /\ effect' \in [Calls -> 0..1]
  BY EngineTypes DEF Receive, Inv, TypeOK
<1>2. ASSUME row' = row PROVE RowsGrow
  BY <1>2, RowStaysPut DEF RowsGrow, Inv, TypeOK
<1>3. c <= made /\ effect[c] = 0 /\ effect' = [effect EXCEPT ![c] = 1]
  BY DEF Receive, Engine!Apply
<1>4. stage[c] = "none" BY <1>3 DEF Inv, RejectInv
<1>5. \A d \in Calls : /\ effect[d] = 1 => effect'[d] = 1
                       /\ stage[d] # "none" => stage'[d] # "none"
                       /\ stage'[d] # "none" => effect'[d] = 1
  BY <1>3 DEF Inv, TypeOK, RejectInv
<1>6. UNCHANGED <<requestVars, callerVars>> BY DEF Receive
<1> QED BY <1>1, <1>2, <1>3, <1>4, <1>5, <1>6 DEF GatewayFrame

LEMMA ReplayKeepsInv == ASSUME Inv, NEW c \in Calls, Replay(c) PROVE Inv'
<1> DEFINE old == cached[ref[c]]
           new == Ok(200, old.status)
<1>1. c <= made /\ GatewayFrame /\ row' = row BY ReceiveFrame DEF Replay, Say
<1>2. ref[c] \in Refs BY <1>1, MadeCall
<1>3. old \in Successes BY <1>2 DEF Replay, Inv, TypeOK
<1>4. new \in Successes /\ (new = Ok(200, "BROADCAST") => old = Ok(200, "BROADCAST"))
  <2>1. CASE old.status = "PENDING" BY <2>1, OkFields, ZenonT(40) DEF Successes
  <2>2. CASE old = Ok(200, "BROADCAST") BY <2>2, OkFields, ZenonT(40) DEF Successes
  <2> QED BY <1>3, <2>1, <2>2, SuccessFields
<1>5. new \in Replies /\ new # NoReply /\ new \notin {Failed, Busy}
  <2> HIDE DEF new
  <2> QED BY <1>4, SuccessIsTrue
<1>6. TrueOf(new, c)
  BY <1>1, <1>2, <1>4, <1>5, RejectedFields DEF TrueOf, Replay, Inv, AnswerInv, Reached
<1>7. Say(c, new) /\ cached' = cached BY DEF Replay
<1> HIDE DEF new
<1> QED BY <1>1, <1>5, <1>6, <1>7, AnsweringStep

LEMMA RefusalKeepsInv ==
  ASSUME Inv, NEW c \in Calls, FailPreCheck(c) \/ FindDuplicate(c) PROVE Inv'
<1>1. PICK r \in PreChecks \cup {Duplicate} : Reply(c, r)
  BY DEF FailPreCheck, FindDuplicate
<1>2. c <= made /\ stage[c] = "none" /\ GatewayFrame /\ row' = row
  BY ReceiveFrame DEF FailPreCheck, FindDuplicate, Reply, Say
<1>3. r \in Replies \ (Successes \cup {Failed, Busy, NoReply}) BY PreCheckFields
<1>6. row[ref[c]] = "none" \/ \E d \in 1..made : d # c /\ ref[d] = ref[c]
  <2>1. ref[c] \in Refs BY <1>2, MadeCall
  <2> QED BY <1>2, <2>1 DEF Inv, RejectInv
<1>4. TrueOf(r, c) BY <1>2, <1>3, <1>6 DEF TrueOf, Successes
<1>5. Say(c, r) /\ cached' = cached BY <1>1, <1>3 DEF Reply
<1> QED BY <1>2, <1>3, <1>4, <1>5, AnsweringStep

LEMMA FreshRowsGrow ==
  ASSUME Inv, NEW c \in Calls, c <= made, row[ref[c]] \in {"none", "SYNC"},
         NEW state \in {"SYNC", "PENDING", "BROADCAST", "FAILED", "HELD"},
         row' = [row EXCEPT ![ref[c]] = state], stage'[c] # "none",
         row[ref[c]] = "none" => effect[c] = 0
  PROVE  RowsGrow /\ row'[ref[c]] = state
<1>1. made > 0 /\ ref[c] \in Refs /\ ref[c] <= Current BY MadeCall
<1>2. row'[ref[c]] = state /\ \A r \in Refs \ {ref[c]} : row'[r] = row[r]
  BY <1>1 DEF Inv, TypeOK
<1>3. Grows(row[ref[c]], state) BY FreshRowGrows
<1>4. \A r \in Refs : Grows(row[r], row'[r])
  BY <1>2, <1>3, RowStaysPut DEF Inv, TypeOK
<1>5. state \in RowStates BY <1>3 DEF Grows
<1>6. row' \in [Refs -> RowStates] BY <1>5 DEF Inv, TypeOK
<1>7. c \in 1..made BY DEF Inv, TypeOK, Calls
<1> QED BY <1>1, <1>2, <1>4, <1>6, <1>7 DEF RowsGrow

(* Steps that answer nobody.                                               *)
LEMMA SilentStep ==
  ASSUME Inv, GatewayFrame, UNCHANGED <<reply, cached>>, SyncInv',
         stage' \in [Calls -> {"none", "engine", "done"}],
         \A d \in Calls : stage'[d] # stage[d] =>
            d <= made /\ stage[d] = "none" /\ stage'[d] = "engine"
  PROVE  Inv'
<1> USE DEF GatewayFrame, requestVars, callerVars
<1>1. TypeOK' BY DEF RowsGrow, Inv, TypeOK, Replies, PreChecks
<1>2. RefsInv' BY FramedParts DEF Inv, RefsInv
<1>3. DeadInv'
  <2>1. \A d \in Calls : reply[d] \in {Failed, Busy} => d <= made /\ row'[ref[d]] \in Dead
    BY MadeCall DEF Inv, DeadInv, RowsGrow, Grows
  <2> QED BY <2>1, FramedParts DEF DeadInv
<1>5. RejectInv'
  <2>1. \A d \in Calls : reply[d] = Rejected => stage'[d] = "done"
    BY DEF Inv, RejectInv
  <2> QED BY <2>1, FramedParts DEF RejectInv
<1>4. AnswerInv'
  <2>1. \A d \in Calls : reply[d] \in Successes =>
           /\ d <= made /\ row'[ref[d]] # "none"
           /\ reply[d] = Ok(200, "BROADCAST") => row'[ref[d]] \in Paid \cup {"FAILED"}
    BY MadeCall DEF Inv, AnswerInv, Reached, RowsGrow, Grows
  <2>2. \A r \in Refs : cached[r] # NoReply =>
           /\ row'[r] # "none"
           /\ cached[r] = Ok(200, "BROADCAST") => row'[r] \in Paid \cup {"FAILED"}
    BY DEF Inv, AnswerInv, Reached, RowsGrow, Grows
  <2>3. \A d \in Calls : stage'[d] = "done" => reply[d] # NoReply BY DEF Inv, AnswerInv
  <2> QED BY <2>1, <2>2, <2>3 DEF AnswerInv, Reached
<1> QED BY <1>1, <1>2, <1>3, <1>4, <1>5, FramedParts DEF Inv

(* Only one handler waits over a row, and its row is SYNC.                 *)
LEMMA OtherRowsStay ==
  ASSUME Inv, NEW c \in Calls, c <= made, row[ref[c]] = "none" \/ stage[c] = "engine",
         NEW state, row' = [row EXCEPT ![ref[c]] = state],
         NEW d \in Calls, d # c, stage[d] = "engine"
  PROVE  ref[d] # ref[c] /\ row'[ref[d]] = row[ref[d]]
<1>1. d <= made BY DEF Inv, RefsInv
<1>2. ref[c] \in Refs /\ ref[d] \in Refs BY <1>1, MadeCall
<1>3. ref[d] # ref[c] BY DEF Inv, SyncInv
<1> QED BY <1>2, <1>3 DEF Inv, TypeOK

LEMMA InsertKeepsInv == ASSUME Inv, NEW c \in Calls, Insert(c) PROVE Inv'
<1>1. /\ c <= made /\ UNCHANGED <<requestVars, callerVars>> /\ row[ref[c]] = "none"
      /\ effect[c] = 0 /\ stage[c] = "none" /\ (RowsGrow => GatewayFrame)
      /\ stage'[c] # "none"
  <2>1. PICK s \in {"engine", "done"} : stage' = [stage EXCEPT ![c] = s]
    BY DEF Insert, Reply, Say
  <2>2. stage'[c] = s BY <2>1 DEF Inv, TypeOK
  <2> QED BY <2>1, <2>2, ReceiveFrame DEF Insert, Receive
<1>2. CASE row' = [row EXCEPT ![ref[c]] = "PENDING"] /\ Reply(c, Ok(200, "PENDING"))
  <2> DEFINE r == Ok(200, "PENDING")
  <2>1. GatewayFrame /\ row'[ref[c]] = "PENDING"
    BY <1>1, <1>2, FreshRowsGrow
  <2>2. r \in Successes /\ r \in Replies BY SuccessIsTrue DEF Successes
  <2>3. TrueOf(r, c) BY <2>1, <2>2, OkFields, SuccessIsTrue, RejectedFields DEF TrueOf
  <2>4. Say(c, r) /\ (cached' = cached \/ cached' = [cached EXCEPT ![ref[c]] = r])
    BY <1>2 DEF Reply
  <2>5. \A d \in Calls : d # c /\ stage[d] = "engine" => row'[ref[d]] = row[ref[d]]
    BY <1>1, <1>2, OtherRowsStay
  <2> HIDE DEF r
  <2> QED BY <1>1, <2>1, <2>2, <2>3, <2>4, <2>5, AnsweringStep
<1>3. CASE /\ row' = [row EXCEPT ![ref[c]] = "SYNC"]
           /\ stage' = [stage EXCEPT ![c] = "engine"] /\ UNCHANGED <<reply, cached>>
  <2>1. GatewayFrame /\ row'[ref[c]] = "SYNC"
    BY <1>1, <1>3, FreshRowsGrow
  <2>2. \A d \in Calls : stage'[d] = IF d = c THEN "engine" ELSE stage[d]
    BY <1>3 DEF Inv, TypeOK
  <2>3. stage' \in [Calls -> {"none", "engine", "done"}] BY <1>3 DEF Inv, TypeOK
  <2>4. \A d \in Calls : d # c /\ stage[d] = "engine" =>
           ref[d] # ref[c] /\ row'[ref[d]] = row[ref[d]]
    BY <1>1, <1>3, OtherRowsStay
  <2>5. ref' = ref BY <1>1 DEF requestVars
  <2>6. SyncInv' BY <2>1, <2>2, <2>4, <2>5 DEF Inv, SyncInv
  <2>7. \A d \in Calls : stage'[d] # stage[d] =>
           d <= made /\ stage[d] = "none" /\ stage'[d] = "engine"
    BY <1>1, <2>2
  <2> QED BY <1>3, <2>1, <2>3, <2>6, <2>7, SilentStep
<1> QED BY <1>2, <1>3 DEF Insert

LEMMA SettleKeepsInv ==
  ASSUME Inv, NEW c \in Calls, NEW state \in {"PENDING", "BROADCAST", "FAILED", "HELD"},
         NEW r \in Replies, Settle(c, state, r),
         \/ r \in Successes /\ (r = Ok(200, "BROADCAST") => state = "BROADCAST")
         \/ r \in {Failed, Busy} /\ state \in Dead
         \/ r = Rejected /\ state = "HELD"
         \/ r = Internal
  PROVE  Inv'
<1>1. c <= made /\ row[ref[c]] = "SYNC" BY DEF Settle, Inv, RefsInv, SyncInv
<1>7. stage' = [stage EXCEPT ![c] = "done"] /\ stage'[c] = "done"
  BY DEF Settle, Reply, Say, Inv, TypeOK
<1>2. RowsGrow /\ row'[ref[c]] = state BY <1>1, <1>7, FreshRowsGrow DEF Settle
<1>8. \A d \in Calls : /\ stage[d] # "none" => stage'[d] # "none"
                       /\ stage'[d] # "none" => effect[d] = 1
  BY <1>7 DEF Settle, Inv, RejectInv, TypeOK
<1>3. GatewayFrame BY <1>2, <1>8 DEF Settle, GatewayFrame, wireVars, Inv, TypeOK
<1>4. TrueOf(r, c)
  <2>1. CASE r \in Successes /\ (r = Ok(200, "BROADCAST") => state = "BROADCAST")
    BY <1>2, <2>1, SuccessIsTrue, RejectedFields DEF TrueOf, Paid
  <2>2. CASE r \in {Failed, Busy} /\ state \in Dead
    <3>1. r \in Faults BY <2>2 DEF Faults
    <3>2. r \notin Successes /\ r # NoReply
      BY <3>1, NoReplyFields, SuccessFields, FaultFields, ZenonT(40)
    <3> QED BY <1>2, <2>2, <3>2 DEF TrueOf, Successes
  <2>3. CASE (r = Rejected /\ state = "HELD") \/ r = Internal
    <3>1. r \notin Successes \cup {Failed, Busy, NoReply}
      BY <2>3, PreCheckFields DEF PreChecks
    <3>2. Internal # Rejected
      <4>1. Internal.http = 500 BY DEF Internal, Fault
      <4>2. Rejected.http = 400 BY DEF Rejected, Fault
      <4> QED BY <4>1, <4>2
    <3> QED BY <1>2, <2>3, <3>1, <3>2 DEF TrueOf, Successes, Dead
  <2> QED BY <2>1, <2>2, <2>3
<1>5. /\ Say(c, r)
      /\ cached' = cached \/ (r \in Successes /\ cached' = [cached EXCEPT ![ref[c]] = r])
  BY DEF Settle, Reply
<1>6. \A d \in Calls : d # c /\ stage[d] = "engine" => row'[ref[d]] = row[ref[d]]
  BY <1>1, OtherRowsStay DEF Settle
<1> QED BY <1>1, <1>3, <1>4, <1>5, <1>6, AnsweringStep

LEMMA EngineKeepsInv ==
  ASSUME Inv, NEW c \in Calls,
         \/ EngineBroadcasts(c) \/ EngineIsLate(c) \/ EngineRefuses(c)
         \/ RejectSigned(c) \/ HandlerCrashes(c)
  PROVE  Inv'
<1>1. CASE EngineBroadcasts(c)
  BY <1>1, SettleKeepsInv, SuccessIsTrue DEF EngineBroadcasts, Successes
<1>2. CASE EngineIsLate(c)
  BY <1>2, SettleKeepsInv, SuccessIsTrue, OkFields DEF EngineIsLate, Successes
<1>3. CASE EngineRefuses(c)
  BY <1>3, SettleKeepsInv DEF EngineRefuses, Refusals, Dead, Replies
<1>4. CASE RejectSigned(c)
  BY <1>4, SettleKeepsInv DEF RejectSigned, Replies, PreChecks
<1>5. CASE HandlerCrashes(c)
  BY <1>5, SettleKeepsInv DEF HandlerCrashes, Replies, PreChecks
<1> QED BY <1>1, <1>2, <1>3, <1>4, <1>5

LEMMA AdvanceKeepsInv == ASSUME Inv, NEW x \in Refs, Advance(x) PROVE Inv'
<1>1. PICK state \in Successors(row[x]) : row' = [row EXCEPT ![x] = state] BY DEF Advance
<1>2. row[x] \in RowStates BY DEF Inv, TypeOK
<1>3. Grows(row[x], state) /\ row[x] \notin {"none", "SYNC"} BY <1>2, SuccessorGrows
<1>4. \A r \in Refs : row'[r] = IF r = x THEN state ELSE row[r] BY <1>1 DEF Inv, TypeOK
<1>5. RowsGrow
  <2>1. row' \in [Refs -> RowStates] BY <1>1, <1>3 DEF Grows, Inv, TypeOK
  <2>2. \A r \in Refs : Grows(row[r], row'[r])
    BY <1>3, <1>4, RowStaysPut DEF Inv, TypeOK
  <2> QED BY <1>3, <1>4, <2>1, <2>2 DEF RowsGrow
<1>6. GatewayFrame BY <1>5 DEF GatewayFrame, Advance, wireVars, Inv, TypeOK, RejectInv
<1>7. SyncInv'
  <2>1. \A d \in Calls : stage[d] = "engine" => ref[d] \in Refs /\ row[ref[d]] = "SYNC"
    BY MadeCall DEF Inv, RefsInv, SyncInv
  <2> QED BY <1>3, <1>4, <2>1 DEF Inv, SyncInv, Advance, requestVars
<1> QED BY <1>6, <1>7, SilentStep DEF Advance, Inv, TypeOK

LEMMA InvStep == Inv /\ [Next]_vars => Inv'
<1> SUFFICES ASSUME Inv, [Next]_vars PROVE Inv' OBVIOUS
<1>1. CASE Caller
  BY <1>1, CreateKeepsInv, ReturnKeepsInv, RaiseKeepsInv, PollKeepsInv DEF Caller
<1>2. ASSUME NEW c \in Calls, Handler(c) PROVE Inv'
  BY <1>2, ReplayKeepsInv, RefusalKeepsInv, InsertKeepsInv, EngineKeepsInv DEF Handler
<1>3. ASSUME NEW r \in Refs, Advance(r) PROVE Inv' BY <1>3, AdvanceKeepsInv
<1>4. CASE UNCHANGED vars
  <2>1. TypeOK'
    BY <1>4 DEF vars, wireVars, requestVars, gatewayVars, callerVars, Inv, TypeOK,
                Replies, PreChecks
  <2>2. RefsInv' /\ SyncInv' /\ AnswerInv' /\ PollInv'
    BY <1>4 DEF vars, wireVars, requestVars, gatewayVars, callerVars, Inv, RefsInv,
                SyncInv, AnswerInv, PollInv, Reached, Current
  <2>3. DeadInv' /\ RejectInv'
    BY <1>4 DEF vars, wireVars, requestVars, gatewayVars, callerVars, Inv, DeadInv,
                RejectInv, GivenUp, Spent, Current
  <2> QED BY <2>1, <2>2, <2>3 DEF Inv
<1> QED BY <1>1, <1>2, <1>3, <1>4 DEF Next

-----------------------------------------------------------------------------
(* The inductive invariant holds for any number of calls and polls.        *)
THEOREM Invariance == Spec => []Inv
BY InvInit, InvStep, PTL DEF Spec

(* Every variable keeps its type.                                          *)
THEOREM TypeCorrect == Spec => []TypeOK
<1>1. Inv => TypeOK BY DEF Inv
<1> QED BY <1>1, Invariance, PTL

(* A caller who resends, renews and polls as the SDK's answers tell never  *)
(* has two rows of one payment on the chain: given-up reference ids are    *)
(* dead (DeadInv), later ones have no row (RefsInv).                       *)
THEOREM NeverPaidTwice == Spec => []PaidOnce
<1>1. Inv => PaidOnce
  <2> SUFFICES ASSUME Inv, NEW r \in Refs, NEW s \in Refs, row[r] \in Paid, row[s] \in Paid
               PROVE  r = s
    BY DEF PaidOnce
  <2>1. ASSUME NEW x \in Refs, row[x] \in Paid PROVE made > 0 /\ x = Current
    <3>1. row[x] # "none" /\ row[x] \notin Dead BY <2>1 DEF Paid, Dead
    <3>2. made # 0 /\ ~(x > Current) BY <3>1 DEF Inv, RefsInv
    <3>3. made > 0 /\ Current \in Nat /\ x \in Nat
      BY <3>2 DEF Inv, TypeOK, RefsInv, Refs
    <3>4. ~(x < Current) BY <3>1, <3>3 DEF Inv, DeadInv, GivenUp
    <3> QED BY <3>2, <3>3, <3>4
  <2> QED BY <2>1
<1> QED BY <1>1, Invariance, PTL

(* A caller who took an answer for a payment is right: the row reached the *)
(* chain (where it may still fail).                                        *)
THEOREM PaymentsAreReal == Spec => []PaidIsTrue
<1>1. Inv => PaidIsTrue BY DEF Inv, PollInv, PaidIsTrue, Reached
<1> QED BY <1>1, Invariance, PTL

(* Polling ends with a verdict only on a decided row.                      *)
THEOREM VerdictsAreFinal == Spec => PollEndsDecided
<1> DEFINE Verdict == plan = "poll" /\ plan' \in {"new", "paid"} => row[Current] \notin Open
<1>1. Inv /\ [Next]_vars => [Verdict]_vars
  <2> SUFFICES ASSUME Inv, Next, plan = "poll", plan' \in {"new", "paid"}
               PROVE  row[Current] \notin Open
    OBVIOUS
  <2>1. plan' # plan OBVIOUS
  <2>2. PollEnds
    BY <2>1 DEF Next, Caller, Handler, Create, Return, RaiseRefused, RaiseUnknown, PollRead,
       PollAgain, PollGivesUp, GetRaises, Advance, Settle, Replay, FailPreCheck,
       FindDuplicate, Insert, Receive, EngineBroadcasts, EngineIsLate, EngineRefuses,
       RejectSigned, HandlerCrashes, callerVars
  <2>3. status \in {"FAILED"} \cup Paid
    BY <2>2 DEF PollEnds, IsInFlight, Inv, TypeOK
  <2>4. Reached(Current) BY <2>3 DEF Inv, PollInv, Reached
  <2> QED BY <2>4 DEF Reached, Paid, Open
<1> QED BY <1>1, Invariance, PTL DEF Spec, PollEndsDecided

-----------------------------------------------------------------------------
(* What a step does to the rows and the plan is what Payment allows.       *)
LEMMA FateCases ==
  /\ Fate("none") = "none"
  /\ \A state \in {"SYNC", "PENDING", "SIGNED"} : Fate(state) = "open"
  /\ \A state \in Paid : Fate(state) = "moved"
  /\ \A state \in Dead : Fate(state) = "dead"
BY DEF Fate, Paid, Dead

(* One row at a time changes, and the caller is told nothing by it.        *)
LEMMA OneAttempt ==
  ASSUME Inv, plan' = plan, NEW r \in Refs, NEW state, row' = [row EXCEPT ![r] = state]
  PROVE  /\ Promise!Become(r, Fate(state))
         /\ Fate(state) = Fate(row[r]) => UNCHANGED Promise!vars
<1>1. \A s \in Refs : row'[s] = IF s = r THEN state ELSE row[s] BY DEF Inv, TypeOK
<1>2. Told' = Told BY DEF Told
<1>3. \A s \in Refs : Fate(row'[s]) = IF s = r THEN Fate(state) ELSE Fate(row[s])
  BY <1>1
<1>4. Promise!Become(r, Fate(state)) BY <1>2, <1>3 DEF Promise!Become
<1>5. ASSUME Fate(state) = Fate(row[r]) PROVE UNCHANGED Promise!vars
  <2>1. \A s \in Refs : Fate(row'[s]) = Fate(row[s]) BY <1>3, <1>5
  <2>2. [s \in Refs |-> Fate(row[s])]' = [s \in Refs |-> Fate(row[s])] BY <2>1
  <2> QED BY <1>2, <2>2 DEF Promise!vars
<1> QED BY <1>4, <1>5

(* A row that may still go on to the chain, or be inserted, is that of the *)
(* latest reference_id, and its caller has not been told to go on.         *)
LEMMA LiveRow ==
  ASSUME Inv, NEW r \in Refs, made > 0, r <= Current,
         ~GivenUp(r), row[r] \notin Paid \cup {"FAILED"}
  PROVE  r = Current /\ Told = "waiting"
<1>1. Current \in Nat /\ r \in Nat BY DEF Inv, TypeOK, RefsInv, Refs
<1>2. r = Current BY <1>1 DEF Inv, DeadInv
<1> QED BY <1>2 DEF Inv, DeadInv, PollInv, Reached, Told

LEMMA RowIsUsed ==
  ASSUME Inv, NEW r \in Refs, row[r] # "none"
  PROVE  made > 0 /\ r <= Current
BY DEF Inv, TypeOK, RefsInv, Refs

(* No other attempt is open or on the chain beside the latest.             *)
LEMMA OthersAreOver ==
  ASSUME Inv, NEW s \in Refs, made > 0, s # Current
  PROVE  Fate(row[s]) \in {"none", "dead"}
<1>1. Current \in Nat /\ s \in Nat BY DEF Inv, TypeOK, RefsInv, Refs
<1>2. CASE s < Current BY <1>2, FateCases DEF Inv, DeadInv, GivenUp
<1>3. CASE s > Current BY <1>3, FateCases DEF Inv, RefsInv
<1> QED BY <1>1, <1>2, <1>3

LEMMA InsertBegins == ASSUME Inv, NEW c \in Calls, Insert(c) PROVE Promise!Next
<1> DEFINE r == ref[c]
<1>1. c <= made /\ effect[c] = 0 /\ row[r] = "none" /\ plan' = plan
  BY DEF Insert, Receive, Engine!Apply, callerVars
<1>2. made > 0 /\ r \in Refs /\ r <= Current BY <1>1, MadeCall
<1>3. ~GivenUp(r) BY <1>1, <1>2 DEF GivenUp, Spent, Dead
<1>4. r = Current /\ Told = "waiting" BY <1>1, <1>2, <1>3, LiveRow DEF Paid
<1>5. \A s \in Refs : Fate(row[s]) \in {"none", "dead"}
  BY <1>1, <1>2, <1>4, OthersAreOver, FateCases
<1>6. PICK state \in {"PENDING", "SYNC"} : row' = [row EXCEPT ![r] = state]
  BY DEF Insert
<1>7. Promise!Become(r, "open") BY <1>1, <1>2, <1>6, OneAttempt, FateCases
<1>8. Promise!Begin(r)
  BY <1>1, <1>2, <1>4, <1>5, <1>7, FateCases DEF Promise!Begin, Promise!OverFor
<1> QED BY <1>2, <1>8 DEF Promise!Next

(* Of a row that is there: it goes on, dies, or shows no difference.       *)
LEMMA RowGoesOn ==
  ASSUME Inv, NEW r \in Refs, NEW old, old = row[r], NEW new,
         plan' = plan, row' = [row EXCEPT ![r] = new],
         \/ old \in {"SYNC", "PENDING"} /\ new \in {"PENDING", "SIGNED"}
         \/ old \in {"SYNC", "SIGNED"}  /\ new = "BROADCAST"
         \/ old \in Paid                /\ new \in Paid
         \/ old = "HELD"                /\ new = "FAILED"
         \/ old \in {"SYNC", "PENDING", "SIGNED"} \cup Paid /\ new \in Dead
  PROVE  Promise!Next \/ UNCHANGED Promise!vars
<1>1. /\ Promise!Become(r, Fate(new))
      /\ Fate(new) = Fate(old) => UNCHANGED Promise!vars
  BY OneAttempt
<1>2. CASE \/ old \in {"SYNC", "PENDING"} /\ new \in {"PENDING", "SIGNED"}
           \/ old \in Paid /\ new \in Paid
           \/ old = "HELD" /\ new = "FAILED"
  BY <1>1, <1>2, FateCases DEF Dead
<1>3. CASE old \in {"SYNC", "SIGNED"} /\ new = "BROADCAST"
  <2>1. made > 0 /\ r <= Current BY <1>3, RowIsUsed
  <2>2. ~GivenUp(r) /\ old \notin Paid \cup {"FAILED"} BY <1>3 DEF GivenUp, Dead, Paid
  <2>3. Told = "waiting" BY <2>1, <2>2, LiveRow
  <2>4. Promise!Move(r) BY <1>1, <1>3, <2>3, FateCases DEF Promise!Move, Paid
  <2> QED BY <2>4 DEF Promise!Next
<1>4. CASE old \in {"SYNC", "PENDING", "SIGNED"} \cup Paid /\ new \in Dead
  <2>1. Promise!Die(r) BY <1>1, <1>4, FateCases DEF Promise!Die
  <2> QED BY <2>1 DEF Promise!Next
<1> QED BY <1>2, <1>3, <1>4

LEMMA SettleGoesOn ==
  ASSUME Inv, NEW c \in Calls, NEW state \in {"PENDING", "BROADCAST"} \cup Dead, NEW r,
         Settle(c, state, r)
  PROVE  Promise!Next \/ UNCHANGED Promise!vars
<1>1. c <= made /\ row[ref[c]] = "SYNC" /\ plan' = plan
  BY DEF Settle, callerVars, Inv, RefsInv, SyncInv
<1>2. ref[c] \in Refs BY <1>1, MadeCall
<1> QED BY <1>1, <1>2, RowGoesOn DEF Settle

LEMMA AdvanceGoesOn ==
  ASSUME Inv, NEW r \in Refs, Advance(r)
  PROVE  Promise!Next \/ UNCHANGED Promise!vars
<1>1. PICK new \in Successors(row[r]) : row' = [row EXCEPT ![r] = new] BY DEF Advance
<1>2. plan' = plan BY DEF Advance, callerVars
<1>3. row[r] \in RowStates BY DEF Inv, TypeOK
<1> QED BY <1>1, <1>2, <1>3, RowGoesOn DEF Successors, RowStates, Open, Dead, Paid

(* Steps of the caller: he tries, and is told what his plan rests on.      *)
LEMMA CallerIsTold ==
  ASSUME Inv, Inv', row' = row, made > 0, UNCHANGED requestVars,
         plan \notin {"new", "paid"}
  PROVE  Promise!Next \/ UNCHANGED Promise!vars
<1>1. Told = "waiting" /\ Current' = Current BY DEF Told, requestVars, Current
<1>2. \A answer : Told' = answer => Promise!Tell(answer) BY DEF Promise!Tell
<1>3. \A s \in Refs : s # Current => Fate(row[s]) \in {"none", "dead"} BY OthersAreOver
<1>4. CASE plan' = "new"
  <2>1. GivenUp(Current)' BY <1>4 DEF Inv, DeadInv, requestVars
  <2>2. \A s \in Refs : Fate(row[s]) \in {"none", "dead"}
    BY <1>1, <1>3, <2>1, FateCases DEF GivenUp
  <2>3. Promise!LearnFree
    BY <1>1, <1>2, <1>4, <2>2 DEF Promise!LearnFree, Promise!OverFor, Told
  <2> QED BY <2>3 DEF Promise!Next
<1>5. CASE plan' = "paid"
  <2>1. row[Current] \in Paid \cup {"FAILED"} BY <1>1, <1>5 DEF Inv, PollInv, Reached
  <2>2. Fate(row[Current]) \in {"moved", "dead"} BY <2>1, FateCases DEF Dead
  <2>3. Current \in Refs BY DEF Inv, TypeOK, RefsInv, Refs, Calls
  <2>4. Promise!LearnPaid
    BY <1>1, <1>2, <1>3, <1>5, <2>2, <2>3 DEF Promise!LearnPaid, Told
  <2> QED BY <2>4 DEF Promise!Next
<1>6. CASE plan' \notin {"new", "paid"} BY <1>1, <1>6 DEF Told, Promise!vars
<1> QED BY <1>4, <1>5, <1>6

LEMMA CreateTries == ASSUME Inv, Create PROVE Promise!Next \/ UNCHANGED Promise!vars
<1>1. row' = row /\ Told' = "waiting" /\ Told \in {"free", "waiting"}
  BY DEF Create, gatewayVars, Told
<1>2. CASE Told = "free"
  BY <1>1, <1>2 DEF Promise!Try, Promise!Tell, Promise!Next
<1> QED BY <1>1, <1>2 DEF Promise!vars

(* The payment a careful caller makes keeps the promise, for any number of *)
(* calls and polls: attempts begin one after the other, each after those   *)
(* before it are over, and what he has been told stays true.               *)
THEOREM PaymentRefinement == Spec => ImplementsPayment
<1>1. Init => Promise!Init
  BY FateCases DEF Init, Promise!Init, Told
<1>2. Inv /\ Inv' /\ [Next]_vars => [Promise!Next]_(Promise!vars)
  <2> SUFFICES ASSUME Inv, Inv', [Next]_vars
               PROVE  Promise!Next \/ UNCHANGED Promise!vars
    OBVIOUS
  <2>1. CASE Caller
    <3>1. CASE Create BY <3>1, CreateTries
    <3>2. CASE Return \/ RaiseRefused \/ RaiseUnknown \/ PollRead \/ PollAgain
               \/ PollEnds \/ PollGivesUp \/ GetRaises
      <4>1. /\ row' = row /\ UNCHANGED requestVars
            /\ plan \in {"wait", "poll"} \/ status # "none"
        BY <3>2 DEF Return, RaiseRefused, RaiseUnknown, PollRead, PollAgain, PollEnds,
           PollGivesUp, GetRaises, gatewayVars
      <4>2. made > 0 /\ plan \in {"wait", "poll"}
        BY <4>1, WaitingCall DEF Inv, PollInv
      <4> QED BY <4>1, <4>2, CallerIsTold
    <3> QED BY <2>1, <3>1, <3>2 DEF Caller
  <2>2. ASSUME NEW c \in Calls, Handler(c)
        PROVE  Promise!Next \/ UNCHANGED Promise!vars
    <3>1. CASE Replay(c) \/ FailPreCheck(c) \/ FindDuplicate(c)
      BY <3>1 DEF Replay, FailPreCheck, FindDuplicate, Receive, callerVars, Told,
         Promise!vars
    <3>2. CASE Insert(c) BY <3>2, InsertBegins
    <3>3. CASE \/ EngineBroadcasts(c) \/ EngineIsLate(c) \/ EngineRefuses(c)
               \/ RejectSigned(c) \/ HandlerCrashes(c)
      BY <3>3, SettleGoesOn DEF EngineBroadcasts, EngineIsLate, EngineRefuses,
         RejectSigned, HandlerCrashes, Refusals, Dead
    <3> QED BY <2>2, <3>1, <3>2, <3>3 DEF Handler
  <2>3. ASSUME NEW r \in Refs, Advance(r)
        PROVE  Promise!Next \/ UNCHANGED Promise!vars
    BY <2>3, AdvanceGoesOn
  <2>4. CASE UNCHANGED vars
    BY <2>4 DEF vars, gatewayVars, callerVars, Told, Promise!vars
  <2> QED BY <2>1, <2>2, <2>3, <2>4 DEF Next
<1> QED BY <1>1, <1>2, Invariance, PTL DEF Spec, Promise!Spec, ImplementsPayment
=============================================================================
