---------------------------- MODULE RequestBodies ----------------------------
(***************************************************************************)
(* From a request object to the JSON on the wire: the checks (_require),   *)
(* the choice of fields (_put, to_body, _to_body), and the engine's two    *)
(* attempts, each of which serialises the body anew, while the caller goes *)
(* on using the mutable object he passed in.                               *)
(*                                                                         *)
(* Of a value only what the code tells apart is kept: None, "", a string   *)
(* of spaces, 0, or anything else.  Nested legs are written as paths.      *)
(***************************************************************************)
EXTENDS Naturals, Sequences

CONSTANTS
    Kinds,      \* the request types used
    MaxEdits    \* bound: assignments to the object's fields

VARIABLES
    kind,      \* the type of the request object
    request,   \* its fields now
    edits,     \* assignments made to it
    passed,    \* history: its fields when the method was called
    body,      \* the dict handed to the engine
    wire,      \* what the attempts have sent, in order
    outcome    \* "idle", "sending", "ValueError"

vars == <<kind, request, edits, passed, body, wire, outcome>>

Operations == {"TRANSFER", "PROGRAM_CALL", "CONTRACT_CALL"}
Plain      == {"WALLET", "ACCOUNT", "ASSET"}

ASSUME KindsAssumption == Kinds \subseteq Operations \cup Plain \cup {"X402"}
ASSUME EditsAssumption == MaxEdits \in Nat

Legs == {"incoming.to", "incoming.token", "incoming.amount",
         "outgoing.from", "outgoing.to", "outgoing.token", "outgoing.amount"}

(* The fields a request is refused without.                                *)
Required ==
    [TRANSFER      |-> {"from_address", "to_address", "chain", "token_symbol", "amount"},
     PROGRAM_CALL  |-> {"from_address", "chain", "signed_transaction"},
     CONTRACT_CALL |-> {"from_address", "chain", "quote_id", "expiration",
                        "counterparty_signature"} \cup Legs,
     WALLET        |-> {}, ACCOUNT |-> {}, ASSET |-> {},
     X402          |-> {"x402Version", "paymentPayload"}]

Optional ==
    [TRANSFER      |-> {"reference_id", "memo"},
     PROGRAM_CALL  |-> {"reference_id", "memo", "receive_address"},
     CONTRACT_CALL |-> {"reference_id", "memo", "receive_address", "permit_deadline"},
     WALLET        |-> {"wallet_name", "description", "threshold", "total_shares",
                        "signing_party_ids"},
     ACCOUNT       |-> {"wallet_id", "chain", "account_type", "label"},
     ASSET         |-> {"account_id", "symbol", "chain"},
     X402          |-> {"paymentRequirements"}]

FieldsOf(k) == Required[k] \cup Optional[k]
Fields == UNION {FieldsOf(k) : k \in Kinds}

Numbers == {"expiration", "permit_deadline", "threshold", "total_shares", "x402Version"}
Lists   == {"signing_party_ids"}   \* [] is a value: it is sent
Values(f) == CASE f \in Numbers -> {"None", "0", "value"}
               [] f \in Lists   -> {"None", "value"}
               [] OTHER         -> {"None", "", " ", "value"}
AllValues == {"None", "", " ", "0", "value"}

-----------------------------------------------------------------------------
ChecksOnlyNone(v) == v # "None"                 \* mutant: "" passes

(* _require for strings, "if not self.expiration" for the one number; the  *)
(* facilitator body needs a version of 1 or 2 and the key paymentPayload.  *)
Usable(v) == v \notin {"None", "", " ", "0"}

Passes(k, r) ==
    \A f \in Required[k] : IF k = "X402" /\ f = "paymentPayload" THEN r[f] # "None"
                                                               ELSE Usable(r[f])

PutsTruthy(v) == v \notin {"None", "", "0"}     \* mutant: "if value:"

(* _put; permit_deadline is kept unless None.                              *)
Put(v) == v \notin {"None", ""}

(* _to_body of the wallet, account and asset requests.                     *)
NotDefault(v) == v \notin {"None", "", "0"}

Kept(k, f, v) ==
    \/ k \in Operations /\ (f \in Required[k] \/ Put(v))
    \/ k \in Plain /\ NotDefault(v)
    \/ k = "X402" /\ v # "None"

(* The fields that are sent: a function on them.                           *)
Body(k, r) == [f \in {g \in FieldsOf(k) : Kept(k, g, r[g])} |-> r[f]]

SharesAll(k) == FALSE                           \* mutant: to_body returns __dict__

(* to_body and asdict build a dict of their own; the facilitator payload   *)
(* is the caller's.                                                        *)
Copies(k) == k # "X402"

-----------------------------------------------------------------------------
TypeOK ==
    /\ kind \in Kinds
    /\ request \in [FieldsOf(kind) -> AllValues]
    /\ passed \in [FieldsOf(kind) -> AllValues]
    /\ edits \in 0..MaxEdits
    /\ DOMAIN body \subseteq FieldsOf(kind)
    /\ Len(wire) <= 2
    /\ outcome \in {"idle", "sending", "ValueError"}

(* An object with everything filled in, or with nothing.                   *)
Init ==
    /\ kind \in Kinds
    /\ \/ request = [f \in FieldsOf(kind) |-> "value"]
       \/ request = [f \in FieldsOf(kind) |->
              IF kind = "X402" \/ f \in Lists \/ f \in Numbers \ {"expiration"} THEN "None"
              ELSE IF f = "expiration" THEN "0" ELSE ""]
    /\ edits = 0
    /\ passed = request
    /\ body = <<>>
    /\ wire = <<>>
    /\ outcome = "idle"

(* The caller assigns a field, at any time: the object is his.             *)
Edit(f, v) ==
    /\ edits < MaxEdits
    /\ edits' = edits + 1
    /\ v # request[f]
    /\ request' = [request EXCEPT ![f] = v]
    /\ UNCHANGED <<kind, passed, body, wire, outcome>>

(* The method is called: it raises before anything is sent, or goes on.    *)
Call ==
    /\ outcome \in {"idle", "ValueError"}
    /\ passed' = request
    /\ IF Passes(kind, request)
         THEN outcome' = "sending" /\ body' = Body(kind, request)
         ELSE outcome' = "ValueError" /\ UNCHANGED body
    /\ UNCHANGED <<kind, request, edits, wire>>

RetriesAgain == Len(wire) < 3                   \* mutant: retries the retry

AttemptsLeft == Len(wire) < 2

(* session.request(json=body): once, and once more after token_expired.    *)
Send ==
    /\ outcome = "sending"
    /\ AttemptsLeft
    /\ wire' = Append(wire, IF Copies(kind) THEN body ELSE Body(kind, request))
    /\ UNCHANGED <<kind, request, edits, passed, body, outcome>>

Next == \/ \E f \in FieldsOf(kind) : \E v \in Values(f) : Edit(f, v)
        \/ Call
        \/ Send

Spec == Init /\ [][Next]_vars

-----------------------------------------------------------------------------
Sent == {wire[i] : i \in 1..Len(wire)}

(* No transaction reaches the gateway without a field it needs, whatever   *)
(* the caller does to the object meanwhile; and none with a null.          *)
SentIsComplete == kind \in Operations =>
    \A b \in Sent : /\ \A f \in Required[kind] : f \in DOMAIN b /\ b[f] \notin {"None", "", " "}
                    /\ \A f \in DOMAIN b : b[f] \notin {"None", ""}

(* What the caller had set when he called is what is sent, a zero included.*)
NothingSetIsLost == kind \in Operations =>
    \A b \in Sent, f \in FieldsOf(kind) :
        passed[f] \notin {"None", ""} => f \in DOMAIN b /\ b[f] = passed[f]

(* The attempt after token_expired repeats the first one to the letter: an *)
(* edit between the two does not make it another transaction.              *)
RetrySendsTheSame == kind # "X402" /\ Len(wire) = 2 => wire[1] = wire[2]

-----------------------------------------------------------------------------
(* The inductive invariant: what is handed over is the body of what was    *)
(* passed in, and it is what has been sent.                                *)
HandedOver ==
    /\ outcome = "sending" => Passes(kind, passed) /\ body = Body(kind, passed)
    /\ outcome # "sending" => wire = <<>>
    /\ kind # "X402" => \A i \in 1..Len(wire) : wire[i] = body
=============================================================================
