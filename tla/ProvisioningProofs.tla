-------------------------- MODULE ProvisioningProofs --------------------------
(* Proofs about Provisioning for any number of calls.                      *)
EXTENDS Provisioning, TLAPS

LEMMA IdFacts == /\ Calls \subseteq Nat /\ Blank \notin Calls /\ Blank \in Ids
                 /\ Calls \subseteq Ids /\ Stranger \notin Calls
BY MaxCallsAssumption DEF Calls, Blank, Ids, Stranger

LEMMA InvInit == Init => Inv
<1> SUFFICES ASSUME Init PROVE Inv OBVIOUS
<1> USE DEF Init, Engine!Init
<1>1. TypeOK
  BY MaxCallsAssumption, IdFacts
  DEF TypeOK, Engine!Outcomes, Kinds, Results, Fields, Blank, Ids
<1>2. CallInv BY IdFacts DEF CallInv, Pending, Calls
<1>3. HeldInv BY DEF HeldInv, Kinds
<1>4. ParentInv BY IdFacts DEF ParentInv, Fits
<1>5. NeverTooEarly /\ StraysAreUnknown BY DEF NeverTooEarly, StraysAreUnknown
<1> QED BY <1>1, <1>2, <1>3, <1>4, <1>5 DEF Inv

-----------------------------------------------------------------------------
(* Items stay, and so do their kind and what has become active.            *)
LEMMA ItemsStay ==
    ASSUME NEW k, NEW i, Item(k, i),
           \A c \in Calls : result[c] = "created" => /\ result'[c] = "created"
                                                     /\ request'[c] = request[c]
    PROVE  Item(k, i)'
BY DEF Item

LEMMA HandleStep == ASSUME Inv, NEW c \in Calls, Handle(c) PROVE Inv'
<1> USE DEF Inv, Handle, Engine!Apply, callerVars
<1> DEFINE came == Came(request[c])
<1>1. came \in Results \ {"none"} BY DEF Came, Results
<1>2. TypeOK' BY <1>1 DEF TypeOK
<1>3. result[c] = "none" /\ effect[c] = 0 BY DEF CallInv
<1>4. CallInv'
  <2>1. \A d \in Calls : /\ d > made => outcome[d] = "pending" /\ effect'[d] = 0
                         /\ effect'[d] = 0 <=> result'[d] = "none"
                         /\ d < made => outcome[d] # "pending"
    <3> TAKE d \in Calls
    <3>1. CASE d = c
      <4>1. effect'[c] = 1 /\ result'[c] # "none" BY <1>1 DEF TypeOK
      <4>2. ~(c > made)
        <5>1. c \in Nat /\ made \in Nat /\ c <= made BY IdFacts DEF TypeOK
        <5> QED BY <5>1
      <4> QED BY <3>1, <4>1, <4>2 DEF CallInv
    <3>2. CASE d # c
      <4>1. effect'[d] = effect[d] /\ result'[d] = result[d] BY <3>2 DEF TypeOK
      <4> QED BY <4>1 DEF CallInv
    <3> QED BY <3>1, <3>2
  <2>2. Pending' => request'[made'].kind = phase' BY DEF CallInv, Pending
  <2> QED BY <2>1, <2>2 DEF CallInv
<1>5. \A d \in Calls : result[d] = "created" => /\ result'[d] = "created"
                                                /\ request'[d] = request[d]
  BY <1>3 DEF TypeOK
<1>6. HeldInv'
  <2>1. \A k \in Kinds : held[k] = Blank \/ Item(k, held[k])' BY <1>5, ItemsStay DEF HeldInv
  <2> QED BY <2>1 DEF HeldInv
<1>7. ParentInv'
  <2> SUFFICES ASSUME NEW d \in Calls, d <= made PROVE Fits(d)'
    BY DEF ParentInv
  <2>1. Fits(d) BY DEF ParentInv
  <2>2. result'[d] = "created" => ~Orphan(request[d])
    <3>1. CASE d = c BY <3>1 DEF Came, TypeOK
    <3>2. CASE d # c
      <4>1. result'[d] = result[d] BY <3>2 DEF TypeOK
      <4> QED BY <2>1, <4>1 DEF Fits
    <3> QED BY <3>1, <3>2
  <2> QED BY <1>5, <2>1, <2>2, ItemsStay DEF Fits, Orphan
<1>8. ~TooEarly(request[c]) BY DEF ParentInv, Fits, TooEarly, Item
<1>9. NeverTooEarly' BY <1>8 DEF NeverTooEarly, Came, TypeOK
<1>10. StraysAreUnknown'
  <2> SUFFICES ASSUME NEW d \in Calls, result'[d] = "created"
               PROVE  \/ d = held[request[d].kind]
                      \/ outcome[d] \in {"pending", "unknown"} \/ d \in blanked
    BY DEF StraysAreUnknown
  <2>1. CASE d = c BY <2>1
  <2>2. CASE d # c
    <3>1. result[d] = "created" BY <2>2 DEF TypeOK
    <3> QED BY <3>1 DEF StraysAreUnknown
  <2> QED BY <2>1, <2>2
<1> QED BY <1>2, <1>4, <1>6, <1>7, <1>9, <1>10

LEMMA KeygenStep == ASSUME Inv, NEW c \in Calls, NEW f \in Fields, Keygen(c, f) PROVE Inv'
<1> USE DEF Inv, Keygen, callerVars
<1>1. TypeOK' BY DEF TypeOK
<1>2. \A d \in Calls : active[d] = Fields => active'[d] = Fields BY DEF TypeOK
<1>3. CallInv' BY DEF CallInv, Pending
<1>4. \A k, i : Item(k, i)' <=> Item(k, i) BY DEF Item
<1>5. HeldInv' BY <1>2, <1>4 DEF HeldInv
<1>6. ParentInv'
  <2>1. \A d \in Calls : Item("wallet", request[d].parent) => request[d].parent \in Calls
    BY DEF Item
  <2> QED BY <1>2, <1>4, <2>1 DEF ParentInv, Fits, Orphan
<1>7. NeverTooEarly' /\ StraysAreUnknown' BY DEF NeverTooEarly, StraysAreUnknown
<1> QED BY <1>1, <1>3, <1>5, <1>6, <1>7

LEMMA CreateStep == ASSUME Inv, Create PROVE Inv'
<1> USE DEF Inv, Create, gatewayVars
<1> DEFINE n == made + 1
           q == [kind |-> phase, parent |-> Parent(phase)]
<1>1. /\ made \in Nat /\ n \in Calls /\ n \in 0..MaxCalls
  BY MaxCallsAssumption DEF TypeOK, Calls
<1>2. q \in [kind : Kinds, parent : Ids]
  <2>1. Parent(phase) \in Ids BY IdFacts DEF TypeOK, Parent, Kinds
  <2> QED BY <2>1
<1>3. TypeOK' BY <1>1, <1>2 DEF TypeOK
<1>4. request' = [request EXCEPT ![n] = q] /\ request \in [Calls -> [kind : Kinds, parent : Ids]]
  BY DEF TypeOK
<1> HIDE DEF q
<1>5. \A d \in Calls : d # n => request'[d] = request[d] BY <1>4
<1>6. request'[n] = q BY <1>1, <1>4
<1>7. result[n] = "none" /\ outcome[n] = "pending"
  <2>1. n > made BY <1>1
  <2> QED BY <1>1, <2>1 DEF CallInv
<1>8. CallInv'
  <2>1. \A d \in Calls : /\ d > n => outcome[d] = "pending" /\ effect[d] = 0
                         /\ effect[d] = 0 <=> result[d] = "none"
                         /\ d < n => outcome[d] # "pending"
    <3> TAKE d \in Calls
    <3>1. d \in Nat /\ d > 0 BY DEF Calls
    <3>2. d > n => outcome[d] = "pending" /\ effect[d] = 0
      <4>1. d > n => d > made BY <1>1, <3>1
      <4> QED BY <4>1 DEF CallInv
    <3>3. d < n => outcome[d] # "pending"
      <4> SUFFICES ASSUME d < n PROVE outcome[d] # "pending" OBVIOUS
      <4>1. d < made \/ d = made BY <1>1, <3>1
      <4>2. CASE d < made BY <4>2 DEF CallInv
      <4>3. CASE d = made BY <3>1, <4>3 DEF Pending
      <4> QED BY <4>1, <4>2, <4>3
    <3> QED BY <3>2, <3>3 DEF CallInv
  <2>2. request'[n].kind = phase BY <1>6 DEF q
  <2> QED BY <2>1, <2>2 DEF CallInv, Pending
<1>9. \A d \in Calls : result[d] = "created" => /\ result'[d] = "created"
                                                /\ request'[d] = request[d]
  BY <1>5, <1>7
<1>10. \A k \in Kinds : held[k] = Blank \/ Item(k, held[k])'
  BY <1>9, ItemsStay DEF HeldInv
<1>11. HeldInv' BY <1>10 DEF HeldInv
<1>12. ParentInv'
  <2> SUFFICES ASSUME NEW d \in Calls, d <= n PROVE Fits(d)'
    BY DEF ParentInv
  <2>1. CASE d = n
    <3>1. PICK x : x = q OBVIOUS
    <3>2. request'[d] = x /\ x.kind = phase /\ x.parent = Parent(phase)
      BY <1>6, <2>1, <3>1 DEF q
    <3>3. ASSUME phase = "account" PROVE Item("wallet", x.parent)' /\ active[x.parent] = Fields
      <4>1. x.parent = held["wallet"] BY <3>2, <3>3 DEF Parent
      <4>2. /\ held["wallet"] \in Calls /\ active[held["wallet"]] = Fields
            /\ held["wallet"] = Blank \/ Item("wallet", held["wallet"])'
        BY <1>10, <3>3 DEF HeldInv, Kinds
      <4>3. held' = held OBVIOUS
      <4> QED BY <4>1, <4>2, <4>3, IdFacts
    <3>4. ASSUME phase = "asset" PROVE x.parent = Blank \/ Item("account", x.parent)'
      <4>1. x.parent = held["account"] BY <3>2, <3>4 DEF Parent
      <4>2. held["account"] = Blank \/ Item("account", held["account"])' BY <1>10 DEF Kinds
      <4>3. held' = held OBVIOUS
      <4> QED BY <4>1, <4>2, <4>3
    <3>5. result[d] # "created" BY <1>7, <2>1
    <3>6. active' = active /\ result' = result OBVIOUS
    <3> QED BY <3>2, <3>3, <3>4, <3>5, <3>6 DEF Fits
  <2>2. CASE d # n
    <3>1. d <= made
      <4>1. d \in Nat BY IdFacts
      <4> QED BY <1>1, <2>2, <4>1
    <3>2. Fits(d) /\ request'[d] = request[d] BY <1>5, <2>2, <3>1 DEF ParentInv
    <3>3. active' = active /\ result' = result OBVIOUS
    <3>4. \A k, i : Item(k, i) => Item(k, i)' BY <1>9, ItemsStay
    <3> QED BY <3>2, <3>3, <3>4 DEF Fits, Orphan
  <2> QED BY <2>1, <2>2
<1>13. NeverTooEarly' /\ StraysAreUnknown' BY <1>5, <1>7 DEF NeverTooEarly, StraysAreUnknown
<1> QED BY <1>3, <1>8, <1>11, <1>12, <1>13

-----------------------------------------------------------------------------
(* What the end of the pending call leaves of CallInv.                     *)
LEMMA Concluded ==
    ASSUME Inv, Pending, NEW o \in Engine!Outcomes \ {"pending"}, Engine!Conclude(made, o),
           UNCHANGED <<result, made, request>>
    PROVE  /\ made \in Calls /\ CallInv' /\ outcome' \in [Calls -> Engine!Outcomes]
           /\ effect' = effect /\ outcome'[made] = o
           /\ \A c \in Calls : c # made => outcome'[c] = outcome[c]
<1> USE DEF Inv, Engine!Conclude
<1>1. made \in Calls BY MaxCallsAssumption DEF Pending, TypeOK, Calls
<1>2. outcome \in [Calls -> Engine!Outcomes] BY DEF TypeOK
<1>3. /\ outcome'[made] = o /\ \A c \in Calls : c # made => outcome'[c] = outcome[c]
      /\ outcome' \in [Calls -> Engine!Outcomes]
  BY <1>1, <1>2
<1>4. ~Pending' BY <1>3 DEF Pending
<1>5. CallInv'
  <2>1. \A c \in Calls : /\ c > made => outcome'[c] = "pending" /\ effect[c] = 0
                         /\ effect[c] = 0 <=> result[c] = "none"
                         /\ c < made => outcome'[c] # "pending"
    <3> TAKE c \in Calls
    <3>1. c > made => c # made BY <1>1, IdFacts
    <3>2. c < made => c # made BY <1>1, IdFacts
    <3> QED BY <1>3, <3>1, <3>2 DEF CallInv
  <2> QED BY <1>4, <2>1 DEF CallInv
<1> QED BY <1>1, <1>3, <1>5

LEMMA ReturnStep == ASSUME Inv, NEW body \in BOOLEAN, Return(body) PROVE Inv'
<1> USE DEF Inv, Return, gatewayVars
<1>1. /\ made \in Calls /\ CallInv' /\ outcome' \in [Calls -> Engine!Outcomes]
      /\ effect' = effect /\ outcome'[made] = "answered"
      /\ \A c \in Calls : c # made => outcome'[c] = outcome[c]
  BY Concluded DEF Engine!Answer, Engine!Outcomes
<1>2. phase = request[made].kind /\ phase \in Kinds BY <1>1 DEF CallInv, TypeOK
<1>3. Item(phase, made) BY <1>1, <1>2 DEF Item
<1>4. \A k, i : Item(k, i)' <=> Item(k, i) BY DEF Item
<1>5. PICK id \in {made, Blank} : /\ held' = [held EXCEPT ![phase] = id]
                                  /\ id = Blank => blanked' = blanked \cup {made}
                                  /\ id # Blank => blanked' = blanked
  BY IdFacts, <1>1 DEF IdOf, NoContent
<1>6. held \in [Kinds -> Ids] /\ id \in Ids BY <1>1, IdFacts DEF TypeOK
<1>7. TypeOK'
  <2>1. held' \in [Kinds -> Ids] BY <1>5, <1>6
  <2>2. blanked' \in SUBSET Calls BY <1>1, <1>5 DEF TypeOK
  <2>3. phase' \in Kinds \cup {"poll", "done", "stopped"} BY DEF After, Kinds
  <2> QED BY <1>1, <2>1, <2>2, <2>3 DEF TypeOK
<1>8. held'[phase] = id /\ \A k \in Kinds : k # phase => held'[k] = held[k]
  BY <1>2, <1>5, <1>6
<1>9. HeldInv'
  <2>1. \A k \in Kinds : held'[k] = Blank \/ Item(k, held'[k])
    BY <1>3, <1>8 DEF HeldInv
  <2>2. CASE phase = "wallet" BY <1>2, <1>4, <1>8, <2>1, <2>2 DEF HeldInv, After, Kinds
  <2>3. CASE phase = "account" BY <1>2, <1>4, <1>8, <2>1, <2>3 DEF HeldInv, After, Kinds
  <2>4. CASE phase = "asset" BY <1>2, <1>4, <1>8, <2>1, <2>4 DEF HeldInv, After, Kinds
  <2> QED BY <1>2, <2>2, <2>3, <2>4 DEF Kinds
<1>10. ParentInv' BY <1>4 DEF ParentInv, Fits, Orphan
<1>11. NeverTooEarly' BY DEF NeverTooEarly
<1>12. held[phase] = Blank BY <1>2 DEF HeldInv, Kinds
<1>13. StraysAreUnknown'
  <2> SUFFICES ASSUME NEW c \in Calls, result[c] = "created"
               PROVE  \/ c = held'[request[c].kind]
                      \/ outcome'[c] \in {"pending", "unknown"} \/ c \in blanked'
    BY DEF StraysAreUnknown
  <2>1. CASE c = made BY <1>2, <1>5, <1>8, <2>1
  <2>2. CASE c # made
    <3>1. \/ c = held[request[c].kind]
          \/ outcome'[c] \in {"pending", "unknown"} \/ c \in blanked'
      BY <1>1, <1>5, <2>2 DEF StraysAreUnknown
    <3>2. request[c].kind \in Kinds BY DEF TypeOK
    <3>3. c = held[request[c].kind] => request[c].kind # phase BY <1>12, IdFacts
    <3> QED BY <1>8, <3>1, <3>2, <3>3
  <2> QED BY <2>1, <2>2
<1> QED BY <1>1, <1>7, <1>9, <1>10, <1>11, <1>13

LEMMA RaiseStep == ASSUME Inv, Raise PROVE Inv'
<1> USE DEF Inv, Raise, gatewayVars
<1>1. PICK o \in {"answered", "refused", "unknown"} :
          /\ Engine!Conclude(made, o)
          /\ o = "answered" => result[made] # "created"
          /\ o = "refused" => effect[made] = 0
  BY DEF Engine!Answer, Engine!Refuse, Engine!LoseTrack
<1>2. /\ made \in Calls /\ CallInv' /\ outcome' \in [Calls -> Engine!Outcomes]
      /\ effect' = effect /\ outcome'[made] = o
      /\ \A c \in Calls : c # made => outcome'[c] = outcome[c]
  BY <1>1, Concluded DEF Engine!Outcomes
<1>3. TypeOK' BY <1>2 DEF TypeOK
<1>4. \A k, i : Item(k, i)' <=> Item(k, i) BY DEF Item
<1>5. HeldInv' BY <1>4 DEF HeldInv
<1>6. ParentInv' BY <1>4 DEF ParentInv, Fits, Orphan
<1>7. result[made] = "created" => o = "unknown"
  <2>1. effect[made] = 0 => result[made] = "none" BY <1>2 DEF CallInv
  <2> QED BY <1>1, <2>1
<1>8. NeverTooEarly' BY DEF NeverTooEarly
<1>9. StraysAreUnknown'
  <2> SUFFICES ASSUME NEW c \in Calls, result[c] = "created"
               PROVE  \/ c = held[request[c].kind]
                      \/ outcome'[c] \in {"pending", "unknown"} \/ c \in blanked
    BY DEF StraysAreUnknown
  <2>1. CASE c = made BY <1>2, <1>7, <2>1
  <2>2. CASE c # made BY <1>2, <2>2 DEF StraysAreUnknown
  <2> QED BY <2>1, <2>2
<1> QED BY <1>2, <1>3, <1>5, <1>6, <1>8, <1>9

LEMMA PollStep == ASSUME Inv, NEW body \in BOOLEAN, Poll(body) PROVE Inv'
<1> USE DEF Inv, Poll, gatewayVars
<1> DEFINE h == held["wallet"]
<1>1. phase = "poll" /\ ~Pending /\ held \in [Kinds -> Ids]
  BY DEF CallInv, TypeOK, Kinds, Pending, Calls
<1>2. PICK w : /\ \/ w = NoContent
                  \/ h # Blank /\ w = [id |-> h, active |-> active[h]]
               /\ phase' = IF Ready(w.active) THEN "account" ELSE "poll"
               /\ held' = IF replaces THEN [held EXCEPT !["wallet"] = w.id] ELSE held
               /\ blanked' = IF replaces /\ w.id = Blank
                             THEN blanked \cup ({h} \cap Calls) ELSE blanked
  BY DEF GetWallet, FromList, IdOf
<1>3. /\ w.id \in {h, Blank} /\ h \in Ids
      /\ Ready(w.active) => w.id = h /\ h \in Calls /\ active[h] = Fields
  <2>1. CASE w = NoContent
    <3>1. w.id = Blank /\ ~Ready(w.active) BY <2>1 DEF NoContent, Ready, Fields
    <3> QED BY <1>1, <3>1 DEF Kinds
  <2>2. CASE h # Blank /\ w = [id |-> h, active |-> active[h]]
    <3>1. h \in Calls BY <2>2 DEF HeldInv, Kinds, Item
    <3> QED BY <1>1, <2>2, <3>1 DEF Ready, Kinds
  <2> QED BY <1>2, <2>1, <2>2
<1>4. held'["wallet"] \in {h, Blank} /\ \A k \in Kinds : k # "wallet" => held'[k] = held[k]
  BY <1>1, <1>2, <1>3 DEF Kinds
<1>5. h = held'["wallet"] \/ h \notin Calls \/ h \in blanked'
  BY <1>1, <1>2, <1>3 DEF Kinds
<1>6. blanked \subseteq blanked' /\ blanked' \subseteq Calls BY <1>2 DEF TypeOK
<1>7. TypeOK'
  <2>1. held' \in [Kinds -> Ids] BY <1>1, <1>2, <1>3, IdFacts
  <2>2. phase' \in Kinds \cup {"poll", "done", "stopped"} BY <1>2 DEF Kinds
  <2> QED BY <1>6, <2>1, <2>2 DEF TypeOK
<1>8. CallInv' BY <1>1 DEF CallInv, Pending
<1>9. \A k, i : Item(k, i)' <=> Item(k, i) BY DEF Item
<1>10. HeldInv'
  <2>1. \A k \in Kinds : held'[k] = Blank \/ Item(k, held'[k]) BY <1>4 DEF HeldInv
  <2>2. phase' = "account" => held'["wallet"] \in Calls /\ active[held'["wallet"]] = Fields
    BY <1>1, <1>2, <1>3 DEF Kinds
  <2>3. phase' \in {"poll", "account"} BY <1>2
  <2>4. held'["account"] = Blank /\ held'["asset"] = Blank BY <1>1, <1>4 DEF HeldInv, Kinds
  <2> QED BY <1>9, <2>1, <2>2, <2>3, <2>4 DEF HeldInv
<1>11. ParentInv' BY <1>9 DEF ParentInv, Fits, Orphan
<1>12. NeverTooEarly' BY DEF NeverTooEarly
<1>13. StraysAreUnknown'
  <2> SUFFICES ASSUME NEW c \in Calls, result[c] = "created"
               PROVE  \/ c = held'[request[c].kind]
                      \/ outcome[c] \in {"pending", "unknown"} \/ c \in blanked'
    BY DEF StraysAreUnknown
  <2>1. request[c].kind \in Kinds BY DEF TypeOK
  <2> QED BY <1>4, <1>5, <1>6, <2>1 DEF StraysAreUnknown
<1> QED BY <1>7, <1>8, <1>10, <1>11, <1>12, <1>13

LEMMA OtherStep == Inv /\ (StopPolling \/ UNCHANGED vars) => Inv'
<1> SUFFICES ASSUME Inv, StopPolling \/ UNCHANGED vars PROVE Inv' OBVIOUS
<1>1. /\ UNCHANGED <<outcome, effect, gatewayVars, replaces, made, request, held, blanked>>
      /\ phase' = phase \/ (phase = "poll" /\ phase' = "stopped")
  BY DEF StopPolling, vars, callerVars
<1> USE <1>1 DEF Inv, gatewayVars
<1>2. TypeOK' BY DEF TypeOK
<1>3. CallInv' BY DEF CallInv, Pending, TypeOK, Kinds, Calls
<1>4. \A k, i : Item(k, i)' <=> Item(k, i) BY DEF Item
<1>5. HeldInv' BY <1>4 DEF HeldInv
<1>6. ParentInv' BY <1>4 DEF ParentInv, Fits, Orphan
<1>7. NeverTooEarly' /\ StraysAreUnknown' BY DEF NeverTooEarly, StraysAreUnknown
<1> QED BY <1>2, <1>3, <1>5, <1>6, <1>7

-----------------------------------------------------------------------------
(* Invariance: calls, ids and parents, whatever is lost or blank.          *)
THEOREM Invariance == Spec => []Inv
<1>1. Inv /\ [Next]_vars => Inv'
  BY HandleStep, KeygenStep, CreateStep, ReturnStep, RaiseStep, PollStep, OtherStep DEF Next
<1> QED BY <1>1, InvInit, PTL DEF Spec

(* Accounts and assets are only ever created under items of this caller,   *)
(* accounts under active wallets, however many answers are lost or blank.  *)
THEOREM SoundChain == Spec => []ChainIsSound
<1>1. Inv => ChainIsSound
  <2> SUFFICES ASSUME Inv, NEW c \in Calls, result[c] = "created"
               PROVE  /\ request[c].kind = "account" =>
                             /\ Item("wallet", request[c].parent)
                             /\ active[request[c].parent] = Fields
                      /\ request[c].kind = "asset" => Item("account", request[c].parent)
    BY DEF ChainIsSound
  <2>1. c \in Nat /\ made \in Nat BY IdFacts DEF Inv, TypeOK
  <2>2. ~(c > made) BY DEF Inv, CallInv
  <2>3. Fits(c) BY <2>1, <2>2 DEF Inv, ParentInv
  <2> QED BY <2>3 DEF Fits, Orphan
<1> QED BY <1>1, Invariance, PTL

(* A caller who polls as the README says is never told wallet_not_active.  *)
THEOREM WaitsLongEnough == Spec => []NeverTooEarly
BY Invariance, PTL DEF Inv

(* Every item without an id comes from a call that was lost or blank.      *)
THEOREM StraysExplained == Spec => []StraysAreUnknown
BY Invariance, PTL DEF Inv
=============================================================================
