------------------------- MODULE RequestBodiesProofs -------------------------
(* Proofs about RequestBodies for any number of edits, at any moment.      *)
EXTENDS RequestBodies, TLAPS

(* A body holds exactly the fields that are kept, with their values.       *)
LEMMA BodyFields ==
  ASSUME NEW k, NEW r
  PROVE  /\ \A f \in DOMAIN Body(k, r) : f \in FieldsOf(k) /\ Kept(k, f, r[f])
         /\ \A f \in FieldsOf(k) : Kept(k, f, r[f]) => f \in DOMAIN Body(k, r)
         /\ \A f \in DOMAIN Body(k, r) : Body(k, r)[f] = r[f]
BY DEF Body

LEMMA OperationBody ==
  ASSUME NEW k \in Operations, NEW r, Passes(k, r)
  PROVE  /\ \A f \in Required[k] : /\ f \in DOMAIN Body(k, r)
                                   /\ Body(k, r)[f] \notin {"None", "", " "}
         /\ \A f \in DOMAIN Body(k, r) : Body(k, r)[f] \notin {"None", ""}
         /\ \A f \in FieldsOf(k) : r[f] \notin {"None", ""} =>
                f \in DOMAIN Body(k, r) /\ Body(k, r)[f] = r[f]
<1>1. k # "X402" BY DEF Operations
<1>2. \A f \in Required[k] : r[f] \notin {"None", "", " "} BY <1>1 DEF Passes, Usable
<1>3. ASSUME NEW f
      PROVE  Kept(k, f, r[f]) <=> f \in Required[k] \/ r[f] \notin {"None", ""}
  <2>1. k \notin Plain BY DEF Operations, Plain
  <2> QED BY <1>1, <2>1 DEF Kept, Put
<1>4. Required[k] \subseteq FieldsOf(k) BY DEF FieldsOf
<1>5. ASSUME NEW f \in Required[k]
      PROVE  f \in DOMAIN Body(k, r) /\ Body(k, r)[f] \notin {"None", "", " "}
  <2>1. f \in DOMAIN Body(k, r) BY <1>3, <1>4, BodyFields
  <2>2. Body(k, r)[f] = r[f] BY <2>1, BodyFields
  <2> QED BY <1>2, <2>1, <2>2
<1>6. ASSUME NEW f \in DOMAIN Body(k, r) PROVE Body(k, r)[f] \notin {"None", ""}
  <2>1. Body(k, r)[f] = r[f] /\ Kept(k, f, r[f]) BY BodyFields
  <2> QED BY <1>2, <1>3, <2>1
<1>7. ASSUME NEW f \in FieldsOf(k), r[f] \notin {"None", ""}
      PROVE  f \in DOMAIN Body(k, r) /\ Body(k, r)[f] = r[f]
  <2>1. f \in DOMAIN Body(k, r) BY <1>3, <1>7, BodyFields
  <2> QED BY <2>1, BodyFields
<1> QED BY <1>5, <1>6, <1>7

-----------------------------------------------------------------------------
IInv == /\ outcome \in {"idle", "sending", "ValueError"}
        /\ \E S : wire \in Seq(S)
        /\ HandedOver

LEMMA InvInit == Init => IInv
<1> SUFFICES ASSUME Init PROVE IInv OBVIOUS
<1>1. outcome = "idle" /\ wire = <<>> BY DEF Init
<1>2. wire \in Seq({}) BY <1>1
<1>3. HandedOver BY <1>1 DEF HandedOver
<1> QED BY <1>1, <1>2, <1>3 DEF IInv

LEMMA InvStep == IInv /\ [Next]_vars => IInv'
<1> SUFFICES ASSUME IInv, [Next]_vars PROVE IInv' OBVIOUS
<1> USE DEF IInv, HandedOver
<1>1. ASSUME NEW f, NEW v, Edit(f, v) PROVE IInv' BY <1>1 DEF Edit
<1>2. CASE Call BY <1>2 DEF Call
<1>3. CASE Send
  <2>1. PICK S : wire \in Seq(S) OBVIOUS
  <2>2. PICK new : wire' = Append(wire, new) /\ (kind # "X402" => new = body)
    BY <1>3 DEF Send, Copies
  <2>3. wire \in Seq(S \cup {new}) BY <2>1
  <2>4. wire' \in Seq(S \cup {new}) BY <2>2, <2>3
  <2>5. kind' # "X402" => \A i \in 1..Len(wire') : wire'[i] = body'
    BY <1>3, <2>2, <2>3 DEF Send
  <2> QED BY <1>3, <2>4, <2>5 DEF Send
<1>4. CASE UNCHANGED vars BY <1>4 DEF vars
<1> QED BY <1>1, <1>2, <1>3, <1>4 DEF Next

(* Once the engine has the body, all it sends is the body of what was      *)
(* passed in, edited since or not.                                         *)
THEOREM Invariance == Spec => []HandedOver
<1>1. IInv => HandedOver BY DEF IInv
<1> QED BY <1>1, InvInit, InvStep, PTL DEF Spec

(* Type correctness; at most two attempts are made.                        *)
THEOREM TypeCorrect == Spec => []TypeOK
<1>1. Init => TypeOK
  <2> SUFFICES ASSUME Init PROVE TypeOK OBVIOUS
  <2>1. request \in [FieldsOf(kind) -> AllValues] BY DEF Init, AllValues
  <2>2. kind \in Kinds /\ passed = request /\ outcome = "idle" BY DEF Init
  <2>3. body = <<>> /\ wire = <<>> BY DEF Init
  <2>4. DOMAIN body \subseteq FieldsOf(kind) /\ Len(wire) <= 2 BY <2>3
  <2>5. edits = 0 BY DEF Init
  <2>6. edits \in 0..MaxEdits BY <2>5, EditsAssumption
  <2> QED BY <2>1, <2>2, <2>4, <2>6 DEF TypeOK
<1>2. ASSUME TypeOK, IInv, [Next]_vars PROVE TypeOK'
  <2>1. ASSUME NEW f \in FieldsOf(kind), NEW v \in Values(f), Edit(f, v) PROVE TypeOK'
    <3>1. v \in AllValues BY DEF Values, AllValues
    <3>2. request' \in [FieldsOf(kind) -> AllValues] BY <1>2, <2>1, <3>1 DEF TypeOK, Edit
    <3>3. edits' \in 0..MaxEdits BY <1>2, <2>1, EditsAssumption DEF TypeOK, Edit
    <3> QED BY <1>2, <2>1, <3>2, <3>3 DEF TypeOK, Edit
  <2>2. CASE Call
    <3>1. DOMAIN body' \subseteq FieldsOf(kind) BY <1>2, <2>2, BodyFields DEF TypeOK, Call
    <3>2. outcome' \in {"idle", "sending", "ValueError"} BY <2>2 DEF Call
    <3> QED BY <1>2, <2>2, <3>1, <3>2 DEF TypeOK, Call
  <2>3. CASE Send
    <3>1. PICK S : wire \in Seq(S) BY <1>2 DEF IInv
    <3>2. PICK new : wire' = Append(wire, new) BY <2>3 DEF Send
    <3>3. wire \in Seq(S \cup {new}) BY <3>1
    <3>4. Len(wire') = Len(wire) + 1 /\ Len(wire) \in Nat BY <3>2, <3>3
    <3>5. Len(wire') <= 2 BY <2>3, <3>4 DEF Send, AttemptsLeft
    <3> QED BY <1>2, <2>3, <3>5 DEF TypeOK, Send
  <2>4. CASE UNCHANGED vars BY <1>2, <2>4 DEF TypeOK, vars
  <2> QED BY <1>2, <2>1, <2>2, <2>3, <2>4 DEF Next
<1> QED BY <1>1, <1>2, InvInit, InvStep, PTL DEF Spec

LEMMA SentBody ==
  ASSUME IInv, kind # "X402", NEW b \in Sent
  PROVE  Passes(kind, passed) /\ b = Body(kind, passed)
<1>1. PICK i \in 1..Len(wire) : b = wire[i] BY DEF Sent
<1>2. outcome = "sending" BY <1>1 DEF IInv, HandedOver
<1>3. b = body BY <1>1 DEF IInv, HandedOver
<1> QED BY <1>2, <1>3 DEF IInv, HandedOver

(* No transaction is sent without a field it needs, however often the      *)
(* object is edited.                                                       *)
THEOREM CompleteBodies == Spec => []SentIsComplete
<1>1. ASSUME IInv PROVE SentIsComplete
  <2> SUFFICES ASSUME kind \in Operations, NEW b \in Sent
               PROVE  /\ \A f \in Required[kind] :
                             f \in DOMAIN b /\ b[f] \notin {"None", "", " "}
                      /\ \A f \in DOMAIN b : b[f] \notin {"None", ""}
    BY DEF SentIsComplete
  <2>1. kind # "X402" BY DEF Operations
  <2>2. Passes(kind, passed) /\ b = Body(kind, passed) BY <1>1, <2>1, SentBody
  <2> QED BY <2>2, OperationBody
<1> QED BY <1>1, InvInit, InvStep, PTL DEF Spec

(* Nothing the caller had set when he called is missing or different.      *)
THEOREM NothingLost == Spec => []NothingSetIsLost
<1>1. ASSUME IInv PROVE NothingSetIsLost
  <2> SUFFICES ASSUME kind \in Operations, NEW b \in Sent, NEW f \in FieldsOf(kind),
                      passed[f] \notin {"None", ""}
               PROVE  f \in DOMAIN b /\ b[f] = passed[f]
    BY DEF NothingSetIsLost
  <2>1. kind # "X402" BY DEF Operations
  <2>2. Passes(kind, passed) /\ b = Body(kind, passed) BY <1>1, <2>1, SentBody
  <2> QED BY <2>2, OperationBody
<1> QED BY <1>1, InvInit, InvStep, PTL DEF Spec

(* The attempt after token_expired repeats the first.                      *)
THEOREM SameRetry == Spec => []RetrySendsTheSame
<1>1. IInv => RetrySendsTheSame BY DEF IInv, HandedOver, RetrySendsTheSame
<1> QED BY <1>1, InvInit, InvStep, PTL DEF Spec
=============================================================================
