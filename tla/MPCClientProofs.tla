-------------------------- MODULE MPCClientProofs --------------------------
(* Proofs about MPCClient for every set of calls and every timing.         *)
EXTENDS MPCClient, TLAPS

USE NoCallAssumption, TimeAssumption

(* Every step keeps the types: the proof goes action by action because     *)
(* each one rebuilds some of the per-call functions.                       *)
LEMMA TypeInit == Init => TypeOK
<1> SUFFICES ASSUME Init PROVE TypeOK OBVIOUS
<1>1. NoToken \in Tokens BY DEF NoToken, Tokens
<1>2. NoAnswer \in Answers
  BY <1>1 DEF NoAnswer, Says, Answers, Absent, ApiVerdicts, AuthVerdicts
<1>3. "new" \in Steps BY DEF Steps
<1>4. 0 \in 0..MaxTime /\ 0 \in Nat /\ 1 \in 1..2 OBVIOUS
<1>5. announced \in Nat \cup {Absent} BY DEF Init
<1> QED BY <1>1, <1>2, <1>3, <1>4, <1>5, Zenon DEF Init, TypeOK

LEMMA SaysType == \A v \in ApiVerdicts \cup AuthVerdicts \cup {"none"} : Says(v) \in Answers
BY DEF Says, Answers, NoToken, Tokens, Absent, ApiVerdicts, AuthVerdicts

LEMMA TypeStep == TypeOK /\ [Next]_vars => TypeOK'
<1> SUFFICES ASSUME TypeOK, [Next]_vars PROVE TypeOK' OBVIOUS
<1> USE DEF TypeOK, Steps, Waiting, Done
<1>0. NoAnswer \in Answers BY SaysType DEF NoAnswer
<1>1. CASE UNCHANGED vars
  BY <1>1 DEF vars, cacheVars, callVars, wireVars
<1>2. ASSUME NEW c \in Calls, Begin(c) PROVE TypeOK'
  BY <1>2 DEF Begin, Goto, cacheVars, wireVars
<1>3. ASSUME NEW c \in Calls, EnsureToken(c) PROVE TypeOK'
  <2>1. CASE Acquire(c) BY <2>1 DEF Acquire, Goto, wireVars
  <2>2. CASE UseCached(c) BY <2>2 DEF UseCached, Release, Goto, wireVars
  <2>3. CASE PostToken(c)
    BY <2>3, <1>0 DEF PostToken, OpenExchange, Goto, cacheVars
  <2>4. CASE AcceptToken(c)
    <3>1. answer[c] \in Answers OBVIOUS
    <3>2. answer[c].token \in Tokens /\ answer[c].ttl \in Nat \cup {Absent}
      BY <3>1 DEF Answers
    <3>3. EffectiveTtl(answer[c].ttl) \in Nat BY <3>2 DEF EffectiveTtl
    <3>4. wall + EffectiveTtl(answer[c].ttl) \in Nat BY <3>3 DEF wall
    <3> QED
      BY <2>4, <3>2, <3>4, <1>0 DEF AcceptToken, CloseExchange, Release, Goto
  <2>5. CASE AcceptUndated(c)
    <3>1. answer[c].token \in Tokens BY DEF Answers
    <3> QED
      BY <2>5, <3>1, <1>0 DEF AcceptUndated, CloseExchange, Release, Goto
  <2>6. CASE AuthDenied(c)
    BY <2>6, <1>0 DEF AuthDenied, CloseExchange, Release, Goto
  <2> QED BY <1>3, <2>1, <2>2, <2>3, <2>4, <2>5, <2>6 DEF EnsureToken
<1>4. ASSUME NEW c \in Calls, Exchange(c) PROVE TypeOK'
  <2>1. CASE Send(c) BY <2>1, <1>0 DEF Send, OpenExchange, Goto, cacheVars
  <2>2. CASE RetryExpired(c)
    BY <2>2, <1>0 DEF RetryExpired, CloseExchange, Goto, cacheVars
  <2>3. ASSUME NEW o \in Done, Conclude(c, o) PROVE TypeOK'
    BY <2>3, <1>0 DEF Conclude, CloseExchange, Goto, cacheVars
  <2> QED
    BY <1>4, <2>1, <2>2, <2>3 DEF Exchange, RaiseRefused, Return, RaiseGarbled
<1>5. ASSUME NEW c \in Calls, TransportFails(c) PROVE TypeOK'
  BY <1>5, <1>0 DEF TransportFails, Goto
<1>6. ASSUME NEW c \in Calls, Gateway(c) PROVE TypeOK'
  <2>0. ASSUME NEW a \in Answers, Answer(c, a),
               processed' \in [Calls -> Nat], issued' \in Nat
        PROVE  TypeOK'
    BY <2>0, <1>0 DEF Answer, cacheVars, callVars
  <2>1. CASE GrantToken(c)
    <3>1. PICK life \in Lifetimes, v \in {"token", "badTtl"}, ttl \in Lifetimes \cup {Absent} :
             IssueToken(c, life, v, ttl)
      BY <2>1 DEF GrantToken
    <3>2. [verdict |-> v, token |-> [id |-> issued + 1, exp |-> now + life], ttl |-> ttl]
            \in Answers
      BY DEF Answers, Tokens, AuthVerdicts
    <3> QED BY <2>0, <3>1, <3>2 DEF IssueToken
  <2>2. CASE DenyToken(c) BY <2>0, <2>2, SaysType DEF DenyToken, AuthVerdicts
  <2>3. CASE TurnDown(c)
    <3>1. PICK v \in {"expired", "refused"} : Answer(c, Says(v))
      BY <2>3 DEF TurnDown
    <3> QED BY <2>0, <2>3, <3>1, SaysType DEF TurnDown, ApiVerdicts
  <2>4. CASE Handle(c)
    <3>1. PICK v \in {"handled", "garbled"} : Answer(c, Says(v))
      BY <2>4 DEF Handle
    <3> QED BY <2>0, <2>4, <3>1, SaysType DEF Handle, ApiVerdicts
  <2> QED BY <1>6, <2>1, <2>2, <2>3, <2>4 DEF Gateway
<1>7. CASE Tick BY <1>7 DEF Tick, cacheVars, callVars, wireVars
<1>9. CASE Jump
  <2>1. announced' \in Nat \cup {Absent} BY <1>9 DEF Jump
  <2>2. skew' \in Skews BY <1>9 DEF Jump
  <2> QED BY <1>9, <2>1, <2>2, Zenon DEF Jump, callVars, wireVars
<1>8. CASE Terminating BY <1>1, <1>8 DEF Terminating
<1> QED
  BY <1>1, <1>2, <1>3, <1>4, <1>5, <1>6, <1>7, <1>8, <1>9 DEF Next

(* The state stays within the declared types, whatever the gateway answers *)
(* and however the threads interleave.                                     *)
THEOREM TypeCorrect == Spec => []TypeOK
<1>1. Init => TypeOK BY TypeInit
<1>2. TypeOK /\ [Next]_vars => TypeOK' BY TypeStep
<1> QED BY <1>1, <1>2, PTL DEF Spec

-----------------------------------------------------------------------------
(* The steps of one call, as one disjunction: every part of the invariant  *)
(* is shown to survive each of them.                                       *)
CallStep(c) ==
    \/ Begin(c) \/ Acquire(c) \/ UseCached(c) \/ PostToken(c)
    \/ AcceptToken(c) \/ AcceptUndated(c) \/ AuthDenied(c)
    \/ Send(c) \/ RetryExpired(c) \/ RaiseRefused(c) \/ Return(c) \/ RaiseGarbled(c)
    \/ TransportFails(c) \/ GrantToken(c) \/ DenyToken(c) \/ TurnDown(c) \/ Handle(c)

LEMMA NextSteps ==
  ASSUME [Next]_vars
  PROVE  (\E c \in Calls : CallStep(c)) \/ Tick \/ Jump \/ UNCHANGED vars
BY DEF Next, EnsureToken, Exchange, Gateway, CallStep, Terminating

LEMMA LockStep ==
  ASSUME TypeOK, LockInv, [Next]_vars
  PROVE  LockInv'
<1> USE DEF TypeOK, LockInv
<1>1. CASE Tick \/ Jump \/ UNCHANGED vars
  BY <1>1 DEF Tick, Jump, vars, cacheVars, callVars, wireVars
<1>2. ASSUME NEW c \in Calls, CallStep(c) PROVE LockInv'
  <2>1. CASE Begin(c) BY <2>1 DEF Begin, Goto, cacheVars
  <2>2. CASE Acquire(c) BY <2>2 DEF Acquire, LockFree, Goto
  <2>3. CASE UseCached(c) BY <2>3 DEF UseCached, Release, Goto
  <2>4. CASE PostToken(c) BY <2>4 DEF PostToken, Goto, cacheVars
  <2>5. CASE AcceptToken(c) \/ AcceptUndated(c) \/ AuthDenied(c)
    BY <2>5 DEF AcceptToken, AcceptUndated, AuthDenied, Release, Goto
  <2>6. CASE Send(c) \/ RetryExpired(c)
    BY <2>6 DEF Send, RetryExpired, Goto, cacheVars
  <2>7. CASE RaiseRefused(c) \/ Return(c) \/ RaiseGarbled(c)
    BY <2>7 DEF RaiseRefused, Return, RaiseGarbled, Conclude, Goto, cacheVars
  <2>8. CASE TransportFails(c) BY <2>8 DEF TransportFails, Goto, Waiting
  <2>9. CASE GrantToken(c) \/ DenyToken(c) \/ TurnDown(c) \/ Handle(c)
    BY <2>9 DEF GrantToken, IssueToken, DenyToken, TurnDown, Handle, Answer,
                cacheVars, callVars
  <2> QED
    BY <1>2, <2>1, <2>2, <2>3, <2>4, <2>5, <2>6, <2>7, <2>8, <2>9 DEF CallStep
<1> QED BY <1>1, <1>2, NextSteps

LEMMA DeadlineStep ==
  ASSUME TypeOK, DeadlineInv, [Next]_vars
  PROVE  DeadlineInv'
<1> USE DEF TypeOK, DeadlineInv, Waiting
<1>1. CASE Tick \/ Jump \/ UNCHANGED vars
  BY <1>1 DEF Tick, Jump, vars, cacheVars, callVars, wireVars
<1>2. ASSUME NEW c \in Calls, CallStep(c) PROVE DeadlineInv'
  <2>1. CASE Begin(c) \/ Acquire(c) \/ UseCached(c)
    BY <2>1 DEF Begin, Acquire, UseCached, Goto
  <2>2. CASE PostToken(c) \/ Send(c)
    BY <2>2 DEF PostToken, Send, OpenExchange, Goto
  <2>3. CASE AcceptToken(c) \/ AcceptUndated(c) \/ AuthDenied(c)
    BY <2>3 DEF AcceptToken, AcceptUndated, AuthDenied, CloseExchange, Goto
  <2>4. CASE RetryExpired(c) \/ RaiseRefused(c) \/ Return(c) \/ RaiseGarbled(c)
    BY <2>4 DEF RetryExpired, RaiseRefused, Return, RaiseGarbled, Conclude,
                CloseExchange, Goto
  <2>5. CASE TransportFails(c) BY <2>5 DEF TransportFails, Goto
  <2>6. CASE GrantToken(c) \/ DenyToken(c) \/ TurnDown(c) \/ Handle(c)
    BY <2>6 DEF GrantToken, IssueToken, DenyToken, TurnDown, Handle, Answer, callVars
  <2> QED BY <1>2, <2>1, <2>2, <2>3, <2>4, <2>5, <2>6 DEF CallStep
<1> QED BY <1>1, <1>2, NextSteps

LEMMA AskStep ==
  ASSUME TypeOK, AskInv, EffectInv, [Next]_vars
  PROVE  AskInv'
<1> USE DEF TypeOK, AskInv
<1>1. CASE Tick \/ Jump \/ UNCHANGED vars
  BY <1>1 DEF Tick, Jump, vars, cacheVars, callVars, wireVars
<1>2. ASSUME NEW c \in Calls, CallStep(c) PROVE AskInv'
  <2>1. CASE Begin(c) \/ Acquire(c) \/ UseCached(c)
    BY <2>1 DEF Begin, Acquire, UseCached, Goto, wireVars
  <2>2. CASE PostToken(c) \/ Send(c)
    BY <2>2 DEF PostToken, Send, OpenExchange, Goto, NoAnswer, Says, EffectInv
  <2>3. CASE AcceptToken(c) \/ AcceptUndated(c) \/ AuthDenied(c)
    BY <2>3 DEF AcceptToken, AcceptUndated, AuthDenied, CloseExchange, Goto,
                NoAnswer, Says
  <2>4. CASE RetryExpired(c) \/ RaiseRefused(c) \/ Return(c) \/ RaiseGarbled(c)
    BY <2>4 DEF RetryExpired, NeedsRetry, RaiseRefused, Return, RaiseGarbled,
                Conclude, CloseExchange, Goto, NoAnswer, Says
  <2>5. CASE TransportFails(c)
    BY <2>5 DEF TransportFails, Goto, Waiting, NoAnswer, Says
  <2>6. CASE GrantToken(c) \/ DenyToken(c) \/ TurnDown(c) \/ Handle(c)
    BY <2>6 DEF GrantToken, IssueToken, DenyToken, TurnDown, Handle, Answer, callVars
  <2> QED BY <1>2, <2>1, <2>2, <2>3, <2>4, <2>5, <2>6 DEF CallStep
<1> QED BY <1>1, <1>2, NextSteps

LEMMA EffectStep ==
  ASSUME TypeOK, AskInv, EffectInv, [Next]_vars
  PROVE  EffectInv'
<1> USE DEF TypeOK, EffectInv
<1>1. CASE Tick \/ Jump \/ UNCHANGED vars
  BY <1>1 DEF Tick, Jump, vars, cacheVars, callVars, wireVars
<1>2. ASSUME NEW c \in Calls, CallStep(c) PROVE EffectInv'
  <2>1. CASE Begin(c) \/ Acquire(c) \/ UseCached(c)
    BY <2>1 DEF Begin, Acquire, UseCached, Goto, wireVars
  <2>2. CASE PostToken(c) \/ Send(c)
    BY <2>2 DEF PostToken, Send, OpenExchange, Goto, NoAnswer, Says
  <2>3. CASE AcceptToken(c) \/ AcceptUndated(c) \/ AuthDenied(c)
    BY <2>3 DEF AcceptToken, AcceptUndated, AuthDenied, CloseExchange, Goto
  <2>4. CASE RetryExpired(c)
    BY <2>4 DEF RetryExpired, NeedsRetry, CloseExchange, Goto
  <2>5. CASE RaiseRefused(c) \/ Return(c) \/ RaiseGarbled(c)
    BY <2>5 DEF RaiseRefused, Return, RaiseGarbled, Conclude, CloseExchange, Goto
  <2>6. CASE TransportFails(c) BY <2>6 DEF TransportFails, Goto, Waiting
  <2>7. CASE GrantToken(c) \/ DenyToken(c)
    BY <2>7 DEF GrantToken, IssueToken, DenyToken, Answer, callVars, AskInv
  <2>8. CASE TurnDown(c)
    BY <2>8 DEF TurnDown, Answer, Says, callVars, AskInv, Waiting
  <2>9. CASE Handle(c)
    BY <2>9 DEF Handle, Answer, Says, callVars, AskInv, Waiting
  <2> QED
    BY <1>2, <2>1, <2>2, <2>3, <2>4, <2>5, <2>6, <2>7, <2>8, <2>9 DEF CallStep
<1> QED BY <1>1, <1>2, NextSteps

(* The step that needs the lock: the call whose token enters the cache is  *)
(* the only one with a token under way.                                    *)
LEMMA OrderStep ==
  ASSUME TypeOK, LockInv, AskInv, OrderInv, [Next]_vars
  PROVE  OrderInv'
<1> USE DEF TypeOK, OrderInv, Issuing, Tokens
<1>0. \A c \in Calls : answer[c].token \in Tokens BY DEF Answers
<1>1. CASE Tick \/ Jump \/ UNCHANGED vars
  BY <1>1 DEF Tick, Jump, vars, cacheVars, callVars, wireVars
<1>2. ASSUME NEW c \in Calls, CallStep(c) PROVE OrderInv'
  <2>1. CASE Begin(c) \/ Acquire(c)
    BY <2>1 DEF Begin, Acquire, Goto, wireVars, cacheVars
  <2>2. CASE UseCached(c) BY <2>2 DEF UseCached, Goto, wireVars
  <2>3. CASE PostToken(c) \/ Send(c)
    BY <2>3 DEF PostToken, Send, OpenExchange, Goto, NoAnswer, Says, cacheVars
  <2>4. ASSUME \/ AcceptToken(c) \/ AcceptUndated(c)
        PROVE  OrderInv'
    <3>1. \A d \in Calls : d # c => pc[d] # "auth"
      BY <2>4 DEF LockInv, AcceptToken, AcceptUndated
    <3>2. Issuing(c) /\ token' = answer[c].token /\ issued' = issued
      BY <2>4 DEF AcceptToken, AcceptUndated, CloseExchange, Issuing
    <3>3. held' = held \/ held' = [held EXCEPT ![c] = answer[c].token]
      BY <2>4 DEF AcceptToken, AcceptUndated
    <3>4. /\ answer' = [answer EXCEPT ![c] = NoAnswer]
          /\ \E p \in {"send", "unknown"} : pc' = [pc EXCEPT ![c] = p]
      BY <2>4 DEF AcceptToken, AcceptUndated, CloseExchange, Goto
    <3> QED BY <1>0, <3>1, <3>2, <3>3, <3>4
  <2>5. CASE AuthDenied(c) BY <2>5 DEF AuthDenied, CloseExchange, Goto
  <2>6. CASE RetryExpired(c)
    BY <2>6 DEF RetryExpired, CloseExchange, Goto, cacheVars
  <2>7. CASE RaiseRefused(c) \/ Return(c) \/ RaiseGarbled(c)
    BY <2>7 DEF RaiseRefused, Return, RaiseGarbled, Conclude, CloseExchange, Goto,
                cacheVars
  <2>8. CASE TransportFails(c) BY <2>8 DEF TransportFails, Goto
  <2>9. CASE GrantToken(c)
    <3>1. PICK life \in Lifetimes, v \in {"token", "badTtl"}, ttl \in Lifetimes \cup {Absent} :
             IssueToken(c, life, v, ttl)
      BY <2>9 DEF GrantToken
    <3>2. PICK a : a.token.id = issued + 1 /\ Answer(c, a)
      BY <3>1 DEF IssueToken
    <3>3. pc[c] \in Waiting BY <3>1 DEF IssueToken, AskInv, Waiting
    <3> QED BY <1>0, <3>1, <3>2, <3>3 DEF IssueToken, Answer, cacheVars, callVars
  <2>10. CASE DenyToken(c) \/ TurnDown(c) \/ Handle(c)
    BY <2>10 DEF DenyToken, TurnDown, Handle, Answer, Says, NoAnswer, cacheVars, callVars
  <2> QED
    BY <1>2, <2>1, <2>2, <2>3, <2>4, <2>5, <2>6, <2>7, <2>8, <2>9, <2>10 DEF CallStep
<1> QED BY <1>1, <1>2, NextSteps

(* The cache dates a token no earlier than the gateway did: its answer     *)
(* cannot arrive before it was issued.                                     *)
LEMMA EarlyStep ==
  ASSUME TypeOK, LockInv, AskInv, EarlyInv, [Next]_vars
  PROVE  EarlyInv'
<1> USE DEF TypeOK, EarlyInv, Tokens
<1>0. \A c \in Calls : answer[c].token \in Tokens /\ answer[c].ttl \in Nat \cup {Absent}
  BY DEF Answers
<1>1. CASE Tick \/ Jump \/ UNCHANGED vars
  <2>1. now' \in Nat /\ now' >= now BY <1>1 DEF Tick, Jump, vars
  <2>2. UNCHANGED <<token, tokenExpiresAt, callVars, wireVars>>
    BY <1>1 DEF Tick, Jump, vars, cacheVars
  <2>3. announced' # Absent => announced' = announced /\ skew' = skew
    BY <1>1 DEF Tick, Jump, vars, cacheVars
  <2> QED BY <1>0, <2>1, <2>2, <2>3 DEF callVars, wireVars
<1>2. ASSUME NEW c \in Calls, CallStep(c) PROVE EarlyInv'
  <2>0. ASSUME announced' # Absent => UNCHANGED <<token, tokenExpiresAt, announced, skew>>,
               now' = now,
               \A d \in Calls : pc'[d] = "auth" /\ answer'[d].verdict = "token"
                                  => pc[d] = "auth" /\ answer'[d] = answer[d]
        PROVE  EarlyInv'
    BY <2>0
  <2>1. CASE Begin(c) \/ Acquire(c) \/ UseCached(c)
    BY <2>0, <2>1 DEF Begin, Acquire, UseCached, Goto, wireVars, cacheVars
  <2>2. CASE PostToken(c) \/ Send(c)
    <3>1. answer'[c].verdict = "none"
      BY <2>2 DEF PostToken, Send, OpenExchange, NoAnswer, Says
    <3> QED BY <2>0, <2>2, <3>1 DEF PostToken, Send, OpenExchange, Goto, cacheVars
  <2>3. CASE AcceptToken(c)
    <3>1. \A d \in Calls : d # c => pc[d] # "auth"
      BY <2>3 DEF LockInv, AcceptToken
    <3>2. announced' # Absent => token'.exp + skew' <= tokenExpiresAt'
      <4>1. CASE answer[c].ttl = Absent BY <2>3, <4>1, Zenon DEF AcceptToken
      <4>2. CASE answer[c].ttl # Absent
        <5>1. EffectiveTtl(answer[c].ttl) >= answer[c].ttl /\ EffectiveTtl(answer[c].ttl) \in Nat
          BY <1>0, <2>3, <4>2 DEF AcceptToken, EffectiveTtl
        <5>2. answer[c].token.exp <= now + answer[c].ttl
          BY <2>3, <4>2 DEF AcceptToken
        <5>3. /\ token' = answer[c].token /\ skew' = skew
              /\ tokenExpiresAt' = now + skew + EffectiveTtl(answer[c].ttl)
          BY <2>3 DEF AcceptToken, wall
        <5>4. answer[c].token.exp \in Nat BY <1>0
        <5>5. now \in Nat /\ skew \in Nat OBVIOUS
        <5> QED BY <1>0, <4>2, <5>1, <5>2, <5>3, <5>4, <5>5, <2>3 DEF AcceptToken
      <4> QED BY <4>1, <4>2
    <3>3. /\ answer' = [answer EXCEPT ![c] = NoAnswer] /\ pc' = [pc EXCEPT ![c] = "send"]
          /\ deadline' = [deadline EXCEPT ![c] = 0] /\ now' = now
      BY <2>3 DEF AcceptToken, CloseExchange, Goto
    <3> QED BY <1>0, <3>1, <3>2, <3>3
  <2>4. CASE AcceptUndated(c)
    BY <2>0, <2>4 DEF AcceptUndated, CloseExchange, Goto
  <2>5. CASE AuthDenied(c) BY <2>0, <2>5 DEF AuthDenied, CloseExchange, Goto
  <2>6. CASE RetryExpired(c) \/ RaiseRefused(c) \/ Return(c) \/ RaiseGarbled(c)
    BY <2>0, <2>6 DEF RetryExpired, RaiseRefused, Return, RaiseGarbled, Conclude,
                CloseExchange, Goto, cacheVars
  <2>7. CASE TransportFails(c) BY <2>0, <2>7 DEF TransportFails, Goto
  <2>8. CASE GrantToken(c)
    <3>1. PICK life \in Lifetimes, v \in {"token", "badTtl"}, ttl \in Lifetimes \cup {Absent} :
             IssueToken(c, life, v, ttl) /\ (ttl = life \/ ttl = Absent)
      BY <2>8 DEF GrantToken
    <3>2. pc[c] = "auth" BY <3>1 DEF IssueToken, AskInv
    <3>3. answer' = [answer EXCEPT ![c] = [verdict |-> v,
                        token |-> [id |-> issued + 1, exp |-> now + life], ttl |-> ttl]]
      BY <3>1, <3>2 DEF IssueToken, Answer, Waiting
    <3> QED BY <3>1, <3>3 DEF IssueToken, Answer, cacheVars, callVars
  <2>9. CASE DenyToken(c) \/ TurnDown(c) \/ Handle(c)
    <3>1. \E v \in {"denied", "expired", "refused", "handled", "garbled"} : Answer(c, Says(v))
      BY <2>9 DEF DenyToken, TurnDown, Handle
    <3>2. answer'[c].verdict # "token"
      BY <3>1 DEF Answer, Says, NoAnswer
    <3> QED BY <2>0, <3>1, <3>2 DEF Answer, cacheVars, callVars
  <2> QED
    BY <1>2, <2>1, <2>2, <2>3, <2>4, <2>5, <2>6, <2>7, <2>8, <2>9 DEF CallStep
<1> QED BY <1>1, <1>2, NextSteps

LEMMA DateStep ==
  ASSUME TypeOK, LockInv, DeadlineInv, AskInv, DateInv, [Next]_vars
  PROVE  DateInv'
<1> USE DEF TypeOK, DateInv, Tokens
<1>0. \A c \in Calls : answer[c].token \in Tokens /\ answer[c].ttl \in Nat \cup {Absent}
  BY DEF Answers
<1>1. CASE Tick \/ Jump \/ UNCHANGED vars
  <2>1. UNCHANGED <<token, tokenExpiresAt, callVars, wireVars>>
    BY <1>1 DEF Tick, Jump, vars, cacheVars
  <2>2. announced' # Absent => announced' = announced /\ skew' = skew
    BY <1>1 DEF Tick, Jump, vars, cacheVars
  <2> QED BY <1>0, <2>1, <2>2 DEF callVars, wireVars
<1>2. ASSUME NEW c \in Calls, CallStep(c) PROVE DateInv'
  <2>1. CASE Begin(c) \/ Acquire(c) \/ UseCached(c)
    BY <2>1 DEF Begin, Acquire, UseCached, Goto, wireVars, cacheVars
  <2>2. CASE PostToken(c) \/ Send(c)
    BY <2>2 DEF PostToken, Send, OpenExchange, Goto, NoAnswer, Says, cacheVars
  <2>3. CASE AcceptToken(c)
    <3>1. \A d \in Calls : d # c => pc[d] # "auth"
      BY <2>3 DEF LockInv, AcceptToken
    <3>2. announced' # Absent =>
             tokenExpiresAt' <= token'.exp + skew' + Beyond(announced') + Timeout
      <4>1. CASE answer[c].ttl = Absent BY <2>3, <4>1, Zenon DEF AcceptToken
      <4>2. CASE answer[c].ttl # Absent
        <5>1. EffectiveTtl(answer[c].ttl) = answer[c].ttl + Beyond(answer[c].ttl)
          BY <1>0, <4>2 DEF EffectiveTtl, Beyond
        <5>6. announced' = answer[c].ttl /\ Beyond(answer[c].ttl) \in Nat
          BY <2>3 DEF AcceptToken, Beyond
        <5>2. now <= deadline[c] BY <2>3 DEF AcceptToken, DeadlineInv, Waiting
        <5>3. /\ token' = answer[c].token /\ skew' = skew
              /\ tokenExpiresAt' = now + skew + EffectiveTtl(answer[c].ttl)
          BY <2>3 DEF AcceptToken, wall
        <5>4. answer[c].token.exp \in Nat BY <1>0
        <5>5. now \in Nat /\ skew \in Nat OBVIOUS
        <5> QED BY <1>0, <4>2, <5>1, <5>2, <5>3, <5>4, <5>5, <5>6, <2>3 DEF AcceptToken
      <4> QED BY <4>1, <4>2
    <3>3. /\ answer' = [answer EXCEPT ![c] = NoAnswer] /\ pc' = [pc EXCEPT ![c] = "send"]
          /\ deadline' = [deadline EXCEPT ![c] = 0] /\ now' = now
      BY <2>3 DEF AcceptToken, CloseExchange, Goto
    <3> QED BY <1>0, <3>1, <3>2, <3>3
  <2>4. CASE AcceptUndated(c)
    BY <2>4 DEF AcceptUndated, CloseExchange, Goto
  <2>5. CASE AuthDenied(c) BY <2>5 DEF AuthDenied, CloseExchange, Goto
  <2>6. CASE RetryExpired(c) \/ RaiseRefused(c) \/ Return(c) \/ RaiseGarbled(c)
    BY <2>6 DEF RetryExpired, RaiseRefused, Return, RaiseGarbled, Conclude,
                CloseExchange, Goto, cacheVars
  <2>7. CASE TransportFails(c) BY <2>7 DEF TransportFails, Goto
  <2>8. CASE GrantToken(c)
    <3>1. PICK life \in Lifetimes, v \in {"token", "badTtl"}, ttl \in Lifetimes \cup {Absent} :
             IssueToken(c, life, v, ttl) /\ (ttl = life \/ ttl = Absent)
      BY <2>8 DEF GrantToken
    <3>2. pc[c] = "auth" BY <3>1 DEF IssueToken, AskInv
    <3>3. answer' = [answer EXCEPT ![c] = [verdict |-> v,
                        token |-> [id |-> issued + 1, exp |-> now + life], ttl |-> ttl]]
      BY <3>1, <3>2 DEF IssueToken, Answer, Waiting
    <3>4. deadline[c] <= now + Timeout BY <3>2 DEF DeadlineInv, Waiting
    <3> QED BY <3>1, <3>3, <3>4 DEF IssueToken, Answer, cacheVars, callVars
  <2>9. CASE DenyToken(c) \/ TurnDown(c) \/ Handle(c)
    BY <2>9 DEF DenyToken, TurnDown, Handle, Answer, Says, NoAnswer, cacheVars, callVars
  <2> QED
    BY <1>2, <2>1, <2>2, <2>3, <2>4, <2>5, <2>6, <2>7, <2>8, <2>9 DEF CallStep
<1> QED BY <1>1, <1>2, NextSteps

-----------------------------------------------------------------------------
LEMMA InvariantInit == Init => IInv
<1> SUFFICES ASSUME Init PROVE IInv OBVIOUS
<1>1. TypeOK BY TypeInit
<1>2. LockInv /\ DeadlineInv
  BY DEF Init, LockInv, DeadlineInv, Waiting
<1>3. AskInv /\ EffectInv BY DEF Init, AskInv, EffectInv, NoAnswer, Says
<1>4. OrderInv BY DEF Init, OrderInv, Issuing, NoToken
<1>5. DateInv /\ EarlyInv BY DEF Init, DateInv, EarlyInv
<1> QED BY <1>1, <1>2, <1>3, <1>4, <1>5 DEF IInv

LEMMA InvariantStep == IInv /\ [Next]_vars => IInv'
BY TypeStep, LockStep, DeadlineStep, AskStep, EffectStep, OrderStep,
   EarlyStep, DateStep DEF IInv

(* The inductive invariant: who holds the lock, which requests are at the  *)
(* gateway, whether the handler ran, and the order of the tokens.          *)
THEOREM Invariance == Spec => []IInv
<1>1. Init => IInv BY InvariantInit
<1>2. IInv /\ [Next]_vars => IInv' BY InvariantStep
<1> QED BY <1>1, <1>2, PTL DEF Spec

(* Of any buffer, timeout and lifetimes: a token whose lifetime was        *)
(* announced and that the cache hands out has expired no longer ago than   *)
(* the exchange may exceed the buffer, and the default beyond that where   *)
(* the lifetime announced is zero.                                         *)
THEOREM LatenessBounded == Spec => []LateByExchange
<1>1. IInv => LateByExchange
  <2> SUFFICES ASSUME IInv, announced # Absent, Fresh
               PROVE  now < token.exp + Beyond(announced) + (Timeout - RefreshBuffer)
    BY DEF LateByExchange
  <2>1. tokenExpiresAt <= token.exp + skew + Beyond(announced) + Timeout BY DEF IInv, DateInv
  <2>2. now + skew < tokenExpiresAt - RefreshBuffer BY DEF Fresh, wall
  <2>3. Beyond(announced) \in Nat BY DEF Beyond
  <2>4. token.exp \in Nat /\ tokenExpiresAt \in Nat /\ now \in Nat /\ skew \in Nat
    BY DEF IInv, TypeOK, Tokens
  <2> QED BY <2>1, <2>2, <2>3, <2>4
<1> QED BY <1>1, Invariance, PTL

(* Unless the wall clock was set, a call that was not told token_expired   *)
(* asks for a token only when the one in the cache is near its end.        *)
THEOREM NotRefreshedEarly == Spec => NoNeedlessRefresh
<1> DEFINE Needed(c) == pc[c] = "locked" /\ pc'[c] = "auth" /\ attempt[c] = 1
                          /\ announced # Absent => token.exp <= now + RefreshBuffer
<1>1. IInv /\ [Next]_vars => [\A c \in Calls : Needed(c)]_vars
  <2> SUFFICES ASSUME IInv, [Next]_vars, NEW c \in Calls PROVE Needed(c) OBVIOUS
  <2> USE DEF IInv, TypeOK, Tokens
  <2>1. CASE PostToken(c)
    <3>1. CASE token = NoToken BY <3>1 DEF NoToken
    <3>2. CASE token # NoToken
      BY <2>1, <3>2 DEF PostToken, CacheUsable, Fresh, wall, EarlyInv
    <3> QED BY <3>1, <3>2
  <2>2. CASE Tick \/ Jump \/ UNCHANGED vars BY <2>2 DEF Tick, Jump, vars, callVars
  <2>3. ASSUME NEW d \in Calls, CallStep(d), ~PostToken(c)
        PROVE  pc[c] = "locked" => pc'[c] # "auth"
    BY <2>3 DEF CallStep, Begin, Acquire, UseCached, PostToken, AcceptToken,
       AcceptUndated, AuthDenied, Send, RetryExpired, RaiseRefused, Return,
       RaiseGarbled, Conclude, TransportFails, GrantToken, IssueToken, DenyToken,
       TurnDown, Handle, Answer, Goto, callVars
  <2> QED BY <2>1, <2>2, <2>3, NextSteps
<1> QED BY <1>1, Invariance, PTL DEF Spec, NoNeedlessRefresh

(* Threads that re-authenticate at the same time never put an older token  *)
(* back into the cache.                                                    *)
THEOREM CacheMonotonic == Spec => CacheNeverGoesBack
<1>1. IInv /\ [Next]_vars => [token'.id >= token.id]_vars
  <2> SUFFICES ASSUME IInv, [Next]_vars PROVE token'.id >= token.id OBVIOUS
  <2> USE DEF IInv, TypeOK, Tokens
  <2>1. CASE Tick \/ Jump \/ UNCHANGED vars BY <2>1 DEF Tick, Jump, vars, cacheVars
  <2>2. ASSUME NEW c \in Calls, AcceptToken(c) \/ AcceptUndated(c)
        PROVE  token'.id >= token.id
    <3>1. Issuing(c) /\ token' = answer[c].token
      BY <2>2 DEF AcceptToken, AcceptUndated, Issuing
    <3>2. answer[c].token \in Tokens BY DEF Answers
    <3> QED BY <3>1, <3>2 DEF OrderInv
  <2>3. ASSUME NEW c \in Calls, CallStep(c), ~AcceptToken(c), ~AcceptUndated(c)
        PROVE  token' = token
    BY <2>3 DEF CallStep, Begin, Acquire, UseCached, PostToken, AuthDenied, Send,
       RetryExpired, RaiseRefused, Return, RaiseGarbled, Conclude, TransportFails,
       GrantToken, IssueToken, DenyToken, TurnDown, Handle, Answer, cacheVars
  <2> QED BY <2>1, <2>2, <2>3, NextSteps
<1> QED BY <1>1, Invariance, PTL DEF Spec, CacheNeverGoesBack

(* The token of the one retry was issued after the token that the gateway  *)
(* called expired.                                                         *)
THEOREM RetryWithNewToken == Spec => RetryUsesNewToken
<1> DEFINE Renewed(c) == attempt[c] = 2 /\ pc[c] # "send" /\ pc'[c] = "send"
                           => held'[c].id > held[c].id
<1>1. IInv /\ [Next]_vars => [\A c \in Calls : Renewed(c)]_vars
  <2> SUFFICES ASSUME IInv, [Next]_vars, NEW c \in Calls PROVE Renewed(c) OBVIOUS
  <2> USE DEF IInv, TypeOK, Tokens
  <2>1. CASE Tick \/ Jump \/ UNCHANGED vars BY <2>1 DEF Tick, Jump, vars, callVars
  <2>2. CASE AcceptToken(c)
    <3>1. Issuing(c) /\ held'[c] = answer[c].token
      BY <2>2 DEF AcceptToken, Issuing
    <3> QED BY <3>1 DEF OrderInv
  <2>3. CASE UseCached(c) BY <2>3 DEF UseCached, CacheUsable
  <2>4. ASSUME NEW d \in Calls, CallStep(d), d = c => ~AcceptToken(c) /\ ~UseCached(c)
        PROVE  pc[c] # "send" => pc'[c] # "send"
    <3>1. CASE d # c
      BY <2>4, <3>1 DEF CallStep, Begin, Acquire, UseCached, PostToken, AcceptToken,
         AcceptUndated, AuthDenied, Send, RetryExpired, RaiseRefused, Return,
         RaiseGarbled, Conclude, TransportFails, GrantToken, IssueToken, DenyToken,
         TurnDown, Handle, Answer, Goto, callVars
    <3>2. CASE d = c
      BY <2>4, <3>2 DEF CallStep, Begin, Acquire, PostToken,
         AcceptUndated, AuthDenied, Send, RetryExpired, RaiseRefused, Return,
         RaiseGarbled, Conclude, TransportFails, GrantToken, IssueToken, DenyToken,
         TurnDown, Handle, Answer, Goto, callVars
    <3> QED BY <3>1, <3>2
  <2> QED BY <2>1, <2>2, <2>3, <2>4, NextSteps
<1> QED BY <1>1, Invariance, PTL DEF Spec, RetryUsesNewToken

-----------------------------------------------------------------------------
(* A step that moves one call's outcome or effect moves it as CallOnce     *)
(* does; every other step is invisible.                                    *)
LEMMA InvisibleStep ==
  ASSUME TypeOK, NEW c \in Calls, processed' = processed,
         pc' = [pc EXCEPT ![c] = pc'[c]], pc[c] \notin Done, pc'[c] \notin Done
  PROVE  UNCHANGED Ideal!vars
<1>1. outcome' = outcome
  <2>1. \A d \in Calls : (pc[d] \in Done \/ pc'[d] \in Done) => pc'[d] = pc[d]
    BY DEF TypeOK
  <2> QED BY <2>1 DEF outcome
<1> QED BY <1>1 DEF Ideal!vars

LEMMA ConcludingStep ==
  ASSUME TypeOK, NEW c \in Calls, processed' = processed, NEW o \in Done,
         pc[c] \notin Done, pc' = [pc EXCEPT ![c] = o]
  PROVE  Ideal!Conclude(c, o)
<1>1. outcome[c] = "pending" BY DEF outcome
<1>2. outcome' = [outcome EXCEPT ![c] = o]
  BY DEF outcome, TypeOK
<1> QED BY <1>1, <1>2 DEF Ideal!Conclude

(* Whatever the retries, the timeouts and the races, the handler runs at   *)
(* most once for a call and its caller is told the truth.                  *)
THEOREM Refinement == Spec => ImplementsCallOnce
<1>1. Init => Ideal!Init
  BY DEF Init, Ideal!Init, outcome, Done
<1>2. IInv /\ [Next]_vars => [Ideal!Next]_(Ideal!vars)
  <2> SUFFICES ASSUME IInv, [Next]_vars
               PROVE  Ideal!Next \/ UNCHANGED Ideal!vars
    OBVIOUS
  <2> USE DEF IInv
  <2>1. CASE Tick \/ Jump \/ UNCHANGED vars
    BY <2>1 DEF Tick, Jump, vars, callVars, wireVars, outcome, Ideal!vars
  <2>2. ASSUME NEW c \in Calls, CallStep(c)
        PROVE  Ideal!Next \/ UNCHANGED Ideal!vars
    <3>1. CASE \/ Begin(c) \/ Acquire(c) \/ UseCached(c) \/ PostToken(c)
               \/ AcceptToken(c) \/ Send(c) \/ RetryExpired(c)
      <4>1. /\ processed' = processed /\ pc[c] \notin Done
            /\ \E p \in Steps \ Done : pc' = [pc EXCEPT ![c] = p]
        BY <3>1 DEF Begin, Acquire, UseCached, PostToken, AcceptToken, Send,
           RetryExpired, OpenExchange, CloseExchange, Goto, wireVars, Steps, Done, Waiting
      <4>2. pc' = [pc EXCEPT ![c] = pc'[c]] /\ pc'[c] \notin Done
        BY <4>1 DEF TypeOK
      <4> QED BY <4>1, <4>2, InvisibleStep
    <3>2. CASE GrantToken(c) \/ DenyToken(c) \/ TurnDown(c)
      BY <3>2 DEF GrantToken, IssueToken, DenyToken, TurnDown, Answer, callVars,
         outcome, Ideal!vars
    <3>3. CASE \/ AcceptUndated(c) \/ RaiseGarbled(c) \/ TransportFails(c)
      <4>1. /\ processed' = processed /\ pc[c] \notin Done
            /\ pc' = [pc EXCEPT ![c] = "unknown"]
        BY <3>3 DEF AcceptUndated, RaiseGarbled, Conclude, TransportFails,
           CloseExchange, Goto, Done, Waiting
      <4> QED BY <4>1, ConcludingStep DEF Ideal!LoseTrack, Ideal!Next, Done
    <3>4. CASE AuthDenied(c) \/ RaiseRefused(c)
      <4>1. /\ processed' = processed /\ pc[c] \notin Done
            /\ pc' = [pc EXCEPT ![c] = "refused"]
        BY <3>4 DEF AuthDenied, RaiseRefused, Conclude, CloseExchange, Goto, Done
      <4>2. processed[c] = 0
        BY <3>4 DEF AuthDenied, RaiseRefused, Conclude, EffectInv
      <4> QED BY <4>1, <4>2, ConcludingStep DEF Ideal!Refuse, Ideal!Next, Done
    <3>5. CASE Return(c)
      <4>1. /\ processed' = processed /\ pc[c] \notin Done
            /\ pc' = [pc EXCEPT ![c] = "answered"]
        BY <3>5 DEF Return, Conclude, CloseExchange, Goto, Done
      <4>2. processed[c] = 1 BY <3>5 DEF Return, Conclude, EffectInv
      <4> QED BY <4>1, <4>2, ConcludingStep DEF Ideal!Answer, Ideal!Next, Done
    <3>6. CASE Handle(c)
      <4>1. processed[c] = 0 /\ pc[c] \in {"wait", "unknown"}
        BY <3>6 DEF Handle, AskInv
      <4>2. outcome[c] \in {"pending", "unknown"} BY <4>1 DEF outcome, Done
      <4>3. processed' = [processed EXCEPT ![c] = 1]
        BY <3>6, <4>1 DEF Handle, TypeOK
      <4>4. outcome' = outcome BY <3>6 DEF Handle, Answer, callVars, outcome
      <4> QED BY <4>1, <4>2, <4>3, <4>4 DEF Ideal!Apply, Ideal!Next
    <3> QED BY <2>2, <3>1, <3>2, <3>3, <3>4, <3>5, <3>6 DEF CallStep
  <2> QED BY <2>1, <2>2, NextSteps
<1> QED BY <1>1, <1>2, Invariance, PTL DEF Spec, Ideal!Spec, ImplementsCallOnce
=============================================================================
