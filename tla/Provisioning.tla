---------------------------- MODULE Provisioning ----------------------------
(***************************************************************************)
(* A caller setting up a wallet, an account under it and an asset under    *)
(* that, as the README lays out: create_wallet, get_wallet until status    *)
(* and key_status are both ACTIVE, create_account, create_asset; a create  *)
(* that raised is given up or made again.  Unlike a transaction, none of   *)
(* them carries a reference_id or an Idempotency-Key.                      *)
(*                                                                         *)
(* Each create is a call of CallOnce, what the request engine promises:    *)
(* its handler runs at most once, and maybe after the caller gave up.  The *)
(* item a call creates is named after the call.                            *)
(***************************************************************************)
EXTENDS Naturals

CONSTANT MaxCalls    \* bound: create calls made

ASSUME MaxCallsAssumption == MaxCalls \in Nat

Calls == 1..MaxCalls
Blank == 0                \* the id ""
Stranger == MaxCalls + 1  \* an older wallet of the same client
Ids == 0..MaxCalls + 1

Fields == {"status", "key_status"}
Kinds  == {"wallet", "account", "asset"}

VARIABLES
    outcome, effect,   \* what the request engine made of each call: CallOnce
    replaces,  \* whether the caller writes wallet = client.get_wallet(...)
    phase,     \* the kind being created, "poll", "done" or "stopped"
    made,      \* calls made; the last one may be pending
    request,   \* the kind and the parent of each call
    result,    \* what its handler came to
    active,    \* the fields of each wallet that read ACTIVE
    held,      \* the id the caller has of each kind
    blanked    \* history: the items whose id was replaced by a blank one

gatewayVars == <<result, active>>
callerVars  == <<replaces, phase, made, request, held, blanked>>
vars == <<outcome, effect, gatewayVars, callerVars>>

Engine == INSTANCE CallOnce

Results == {"none", "created", "bad_request", "wallet_not_active", "asset_already_exists"}

TypeOK ==
    /\ outcome \in [Calls -> Engine!Outcomes] /\ effect \in [Calls -> {0, 1}]
    /\ replaces \in BOOLEAN
    /\ phase \in Kinds \cup {"poll", "done", "stopped"}
    /\ made \in 0..MaxCalls
    /\ request \in [Calls -> [kind : Kinds, parent : Ids]]
    /\ result \in [Calls -> Results]
    /\ active \in [Calls -> SUBSET Fields]
    /\ held \in [Kinds -> Ids]
    /\ blanked \in SUBSET Calls

Init ==
    /\ Engine!Init
    /\ replaces \in BOOLEAN
    /\ phase = "wallet" /\ made = 0
    /\ request = [c \in Calls |-> [kind |-> "wallet", parent |-> Blank]]
    /\ result = [c \in Calls |-> "none"]
    /\ active = [c \in Calls |-> {}]
    /\ held = [k \in Kinds |-> Blank]
    /\ blanked = {}

Pending == made > 0 /\ outcome[made] = "pending"

Item(k, i) == i \in Calls /\ result[i] = "created" /\ request[i].kind = k

-----------------------------------------------------------------------------
(* The gateway and its engine.                                             *)
Orphan(q)   == q.kind # "wallet" /\ q.parent = Blank
TooEarly(q) == q.kind = "account" /\ q.parent \in Calls /\ active[q.parent] # Fields
Exists(q)   == q.kind = "asset" /\ \E d \in Calls : Item("asset", d) /\ request[d] = q

Came(q) == IF Orphan(q) THEN "bad_request"
           ELSE IF TooEarly(q) THEN "wallet_not_active"
           ELSE IF Exists(q) THEN "asset_already_exists" ELSE "created"

Handle(c) ==
    /\ c <= made
    /\ Engine!Apply(c)
    /\ result' = [result EXCEPT ![c] = Came(request[c])]
    /\ UNCHANGED <<active, callerVars>>

Keygen(c, f) ==
    /\ Item("wallet", c)
    /\ active' = [active EXCEPT ![c] = @ \cup {f}]
    /\ UNCHANGED <<outcome, effect, result, callerVars>>

-----------------------------------------------------------------------------
(* The SDK: what an answer becomes.                                        *)
WrongKey(id) == Blank      \* mutant: the id is looked for under another name

IdOf(id) == id

(* A 204, or a 2xx without content, becomes {} and then a dataclass of     *)
(* defaults.                                                               *)
NoContent == [id |-> Blank, active |-> {}]

FirstListed == [id |-> Stranger, active |-> Fields]   \* mutant: takes the first item

(* get_wallet("") asks for /api/v1/wallets/.  Where the gateway answers    *)
(* with the list, its keys are unknown to Wallet and ignored.              *)
FromList == NoContent

\* mutant: key_status is read from "status" too
OneKeyTwice(id) == IF id = Blank THEN FromList
                   ELSE [id |-> IdOf(id), active |-> IF "status" \in active[id] THEN Fields ELSE {}]

GetWallet(id) == IF id = Blank THEN FromList ELSE [id |-> IdOf(id), active |-> active[id]]

Ready(a) == a = Fields

(* What the caller does once the call has returned.                        *)
After(k) == IF k = "wallet" THEN "poll" ELSE IF k = "account" THEN "asset" ELSE "done"

Parent(k) == IF k = "wallet" THEN Blank
             ELSE IF k = "account" THEN held["wallet"] ELSE held["account"]

Create ==
    /\ phase \in Kinds /\ ~Pending /\ made < MaxCalls
    /\ made' = made + 1
    /\ request' = [request EXCEPT ![made + 1] = [kind |-> phase, parent |-> Parent(phase)]]
    /\ UNCHANGED <<outcome, effect, gatewayVars, replaces, phase, held, blanked>>

(* create_wallet, create_account or create_asset returns.                  *)
Return(body) ==
    /\ Pending
    /\ Engine!Answer(made)
    /\ result[made] = "created"
    /\ held' = [held EXCEPT ![phase] = IF body THEN IdOf(made) ELSE NoContent.id]
    /\ blanked' = IF body THEN blanked ELSE blanked \cup {made}
    /\ phase' = After(phase)
    /\ UNCHANGED <<gatewayVars, replaces, made, request>>

(* It raises: an APIError, or an exception that tells nothing.  The caller *)
(* stops, or makes the call again.                                         *)
Raise ==
    /\ Pending
    /\ \/ Engine!Answer(made) /\ result[made] # "created"
       \/ Engine!Refuse(made)
       \/ Engine!LoseTrack(made)
    /\ phase' \in {phase, "stopped"}
    /\ UNCHANGED <<gatewayVars, replaces, made, request, held, blanked>>

Poll(body) ==
    /\ phase = "poll"
    /\ LET w == IF body THEN GetWallet(held["wallet"]) ELSE NoContent IN
       /\ phase' = IF Ready(w.active) THEN "account" ELSE "poll"
       /\ held' = IF replaces THEN [held EXCEPT !["wallet"] = w.id] ELSE held
       /\ blanked' = IF replaces /\ w.id = Blank
                     THEN blanked \cup ({held["wallet"]} \cap Calls) ELSE blanked
    /\ UNCHANGED <<outcome, effect, gatewayVars, replaces, made, request>>

StopPolling ==
    /\ phase = "poll"
    /\ phase' = "stopped"
    /\ UNCHANGED <<outcome, effect, gatewayVars, replaces, made, request, held, blanked>>

Next ==
    \/ \E c \in Calls : Handle(c)
    \/ \E c \in Calls, f \in Fields : Keygen(c, f)
    \/ Create \/ Raise \/ StopPolling
    \/ \E body \in BOOLEAN : Return(body) \/ Poll(body)

Spec == Init /\ [][Next]_vars

-----------------------------------------------------------------------------
(* Nothing is created in the wrong place: an account is under a wallet of  *)
(* this caller that was active before the request was made, an asset under *)
(* an account of his, however late the handlers run.  In particular the    *)
(* wallet of defaults built from the list is never taken for one.          *)
ChainIsSound ==
    \A c \in Calls : result[c] = "created" =>
        /\ request[c].kind = "account" => /\ Item("wallet", request[c].parent)
                                          /\ active[request[c].parent] = Fields
        /\ request[c].kind = "asset" => Item("account", request[c].parent)

(* A caller who waits as the README says never meets wallet_not_active.    *)
NeverTooEarly == \A c \in Calls : result[c] # "wallet_not_active"

(* An item the caller has no id of comes from a call he was told nothing   *)
(* of, or from an answer without a body: these, and no others, are what he *)
(* has to look for with the list methods before he creates a second one.   *)
StraysAreUnknown ==
    \A c \in Calls : result[c] = "created" =>
        c = held[request[c].kind] \/ outcome[c] \in {"pending", "unknown"} \/ c \in blanked

-----------------------------------------------------------------------------
(* The inductive invariant.  Calls not made have not run; the pending one  *)
(* creates what the phase is about; ids are of items, and the parents of   *)
(* all calls fit.                                                          *)
CallInv ==
    /\ \A c \in Calls : /\ c > made => outcome[c] = "pending" /\ effect[c] = 0
                        /\ effect[c] = 0 <=> result[c] = "none"
                        /\ c < made => outcome[c] # "pending"
    /\ Pending => request[made].kind = phase

HeldInv ==
    /\ \A k \in Kinds : held[k] = Blank \/ Item(k, held[k])
    /\ phase = "wallet" => held["wallet"] = Blank
    /\ phase \in {"wallet", "poll", "account"} => held["account"] = Blank
    /\ phase # "done" /\ phase # "stopped" => held["asset"] = Blank
    /\ phase \in {"account", "asset"} =>
           held["wallet"] \in Calls /\ active[held["wallet"]] = Fields

Fits(c) ==
    /\ request[c].kind = "account" => /\ Item("wallet", request[c].parent)
                                      /\ active[request[c].parent] = Fields
    /\ request[c].kind = "asset" =>
           request[c].parent = Blank \/ Item("account", request[c].parent)
    /\ result[c] = "created" => ~Orphan(request[c])

ParentInv == \A c \in Calls : c <= made => Fits(c)

Inv == TypeOK /\ CallInv /\ HeldInv /\ ParentInv /\ NeverTooEarly /\ StraysAreUnknown
=============================================================================
