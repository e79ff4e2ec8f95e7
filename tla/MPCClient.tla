----------------------------- MODULE MPCClient -----------------------------
(***************************************************************************)
(* The request engine of the SDK (paratro/client.py): one MPCClient object *)
(* shared by the threads of a program, the token cache they share under    *)
(* _token_lock, and the gateway at the other end of the wire.              *)
(*                                                                         *)
(* A call is one execution of _request_with_status.  It fetches a token    *)
(* (_ensure_token, which holds the lock across POST auth/token), sends the *)
(* request without the lock, and on 401 token_expired re-authenticates     *)
(* once and sends once more.  Every exchange may fail or be given up by    *)
(* the client while the gateway still works on it.                         *)
(*                                                                         *)
(* Time is one global clock; the machine's wall clock, which time.time()   *)
(* reads, may be set back or forth against it.  Unit: whatever the         *)
(* constants are given in; the code has RefreshBuffer = 120 s,             *)
(* Timeout = 200 s, DefaultTtl = 900 s.                                    *)
(***************************************************************************)
EXTENDS Integers

CONSTANTS
    Calls,          \* the calls made on the client, each by a thread of its own
    NoCall,         \* the holder of a free lock
    RefreshBuffer,  \* _TOKEN_REFRESH_BUFFER
    Timeout,        \* the longest an exchange lasts before requests raises
    DefaultTtl,     \* _DEFAULT_TOKEN_TTL
    Lifetimes,      \* how long the gateway lets a token live
    Skews,          \* what the wall clock may be ahead of the time by
    LastStart,      \* bound: no call starts after this time
    MaxTime         \* bound: the clock stops here

ASSUME NoCallAssumption == NoCall \notin Calls

ASSUME TimeAssumption == /\ RefreshBuffer \in Nat
                         /\ Timeout \in Nat
                         /\ DefaultTtl \in Nat
                         /\ Lifetimes \subseteq Nat
                         /\ Skews \subseteq Nat
                         /\ LastStart \in Nat
                         /\ MaxTime \in Nat

VARIABLES
    token,           \* self._token, with the expiry the gateway put into it
    tokenExpiresAt,  \* self._token_expires_at
    announced,       \* history: the expires_in that came with token; Absent without
                     \* one, and once the wall clock has been set
    lock,            \* self._token_lock
    pc,              \* where each call is
    attempt,         \* 1, or 2 once the call has met a 401 token_expired
    held,            \* the call's local variable token
    deadline,        \* when the exchange under way times out
    ask,             \* the call's request at the gateway, unanswered
    answer,          \* the response the call's open exchange has received
    processed,       \* how often the gateway's handler has run for the call
    issued,          \* how many tokens the gateway has issued
    now,             \* the time
    skew             \* what time.time() is ahead of it by

cacheVars == <<token, tokenExpiresAt, announced, lock>>
callVars  == <<pc, attempt, held, deadline>>
wireVars  == <<ask, answer, processed, issued>>
vars == <<cacheVars, callVars, wireVars, now, skew>>

-----------------------------------------------------------------------------
(* Tokens are numbered in the order the gateway issues them.               *)
Tokens  == [id : Nat, exp : Nat]
NoToken == [id |-> 0, exp |-> 0]

Absent == -1   \* a token response without expires_in

ApiVerdicts  == {"handled", "garbled", "expired", "refused"}
AuthVerdicts == {"token", "badTtl", "denied"}
Answers == [verdict : ApiVerdicts \cup AuthVerdicts \cup {"none"},
            token   : Tokens,
            ttl     : Nat \cup {Absent}]
Says(v)  == [verdict |-> v, token |-> NoToken, ttl |-> Absent]
NoAnswer == Says("none")

Waiting == {"auth", "wait"}
Done    == {"answered", "refused", "unknown"}
Steps   == {"new", "ensure", "locked", "send"} \cup Waiting \cup Done

TypeOK ==
    /\ token \in Tokens
    /\ tokenExpiresAt \in Nat
    /\ announced \in Nat \cup {Absent}
    /\ lock \in Calls \cup {NoCall}
    /\ pc \in [Calls -> Steps]
    /\ attempt \in [Calls -> 1..2]
    /\ held \in [Calls -> Tokens]
    /\ deadline \in [Calls -> Nat]
    /\ ask \in [Calls -> {"none", "token", "api"}]
    /\ answer \in [Calls -> Answers]
    /\ processed \in [Calls -> Nat]
    /\ issued \in Nat
    /\ now \in 0..MaxTime
    /\ skew \in Skews

Init ==
    /\ token = NoToken
    /\ tokenExpiresAt = 0
    /\ announced = Absent
    /\ lock = NoCall
    /\ pc = [c \in Calls |-> "new"]
    /\ attempt = [c \in Calls |-> 1]
    /\ held = [c \in Calls |-> NoToken]
    /\ deadline = [c \in Calls |-> 0]
    /\ ask = [c \in Calls |-> "none"]
    /\ answer = [c \in Calls |-> NoAnswer]
    /\ processed = [c \in Calls |-> 0]
    /\ issued = 0
    /\ now = 0
    /\ skew \in Skews

-----------------------------------------------------------------------------
(* The client.                                                             *)
Goto(c, step) == pc' = [pc EXCEPT ![c] = step]

(* An exchange opens with the request at the gateway and closes with its   *)
(* answer read.                                                            *)
OpenExchange(c, request) ==
    /\ ask' = [ask EXCEPT ![c] = request]
    /\ answer' = [answer EXCEPT ![c] = NoAnswer]
    /\ deadline' = [deadline EXCEPT ![c] = now + Timeout]
    /\ UNCHANGED <<processed, issued>>

CloseExchange(c) ==
    /\ answer' = [answer EXCEPT ![c] = NoAnswer]
    /\ deadline' = [deadline EXCEPT ![c] = 0]
    /\ UNCHANGED <<ask, processed, issued>>

LeakedRelease == lock' = lock        \* mutant: an exit that keeps the lock

Release == lock' = NoCall

NoLock == TRUE                       \* mutant: _ensure_token without the lock

LockFree == lock = NoCall

Begin(c) ==
    /\ pc[c] = "new"
    /\ now <= LastStart
    /\ Goto(c, "ensure")
    /\ UNCHANGED <<cacheVars, attempt, held, deadline, wireVars, now, skew>>

Acquire(c) ==
    /\ pc[c] = "ensure"
    /\ LockFree
    /\ lock' = c
    /\ Goto(c, "locked")
    /\ UNCHANGED <<token, tokenExpiresAt, announced, attempt, held, deadline, wireVars, now, skew>>

wall == now + skew                   \* time.time()

\* mutant: the buffer is taken off twice
TwiceTheBuffer == token # NoToken /\ wall < tokenExpiresAt - 2 * RefreshBuffer

Fresh == token # NoToken /\ wall < tokenExpiresAt - RefreshBuffer

IgnoresForce(c) == Fresh             \* mutant: force is not looked at

(* The second _ensure_token of a call is the forced one.                   *)
CacheUsable(c) == attempt[c] = 1 /\ Fresh

UseCached(c) ==
    /\ pc[c] = "locked"
    /\ CacheUsable(c)
    /\ held' = [held EXCEPT ![c] = token]
    /\ Release
    /\ Goto(c, "send")
    /\ UNCHANGED <<token, tokenExpiresAt, announced, attempt, deadline, wireVars, now, skew>>

PostToken(c) ==
    /\ pc[c] = "locked"
    /\ ~CacheUsable(c)
    /\ OpenExchange(c, "token")
    /\ Goto(c, "auth")
    /\ UNCHANGED <<cacheVars, attempt, held, now, skew>>

HardCodedTtl(ttl) == DefaultTtl      \* mutant: expires_in is not looked at

(* data.get("expires_in") or _DEFAULT_TOKEN_TTL: zero counts as missing.   *)
EffectiveTtl(ttl) == IF ttl \in {Absent, 0} THEN DefaultTtl ELSE ttl

AcceptToken(c) ==
    /\ pc[c] = "auth"
    /\ answer[c].verdict = "token"
    /\ token' = answer[c].token
    /\ tokenExpiresAt' = wall + EffectiveTtl(answer[c].ttl)
    /\ announced' = answer[c].ttl
    /\ held' = [held EXCEPT ![c] = answer[c].token]
    /\ Release
    /\ CloseExchange(c)
    /\ Goto(c, "send")
    /\ UNCHANGED <<attempt, now, skew>>

(* float(expires_in) raises: the new token is already in the cache, the    *)
(* expiry of the old one still beside it.                                  *)
AcceptUndated(c) ==
    /\ pc[c] = "auth"
    /\ answer[c].verdict = "badTtl"
    /\ token' = answer[c].token
    /\ announced' = Absent
    /\ Release
    /\ CloseExchange(c)
    /\ Goto(c, "unknown")
    /\ UNCHANGED <<tokenExpiresAt, attempt, held, now, skew>>

(* An error status, a redirect, or a body without a token.                 *)
AuthDenied(c) ==
    /\ pc[c] = "auth"
    /\ answer[c].verdict = "denied"
    /\ Release
    /\ CloseExchange(c)
    /\ Goto(c, "refused")
    /\ UNCHANGED <<token, tokenExpiresAt, announced, attempt, held, now, skew>>

Send(c) ==
    /\ pc[c] = "send"
    /\ OpenExchange(c, "api")
    /\ Goto(c, "wait")
    /\ UNCHANGED <<cacheVars, attempt, held, now, skew>>

\* mutant: an unreadable answer is retried as well
RetriesGarbled(c) == answer[c].verdict \in {"expired", "garbled"} /\ attempt[c] = 1

NeedsRetry(c) == answer[c].verdict = "expired" /\ attempt[c] = 1

RetryExpired(c) ==
    /\ pc[c] = "wait"
    /\ NeedsRetry(c)
    /\ attempt' = [attempt EXCEPT ![c] = 2]
    /\ CloseExchange(c)
    /\ Goto(c, "ensure")
    /\ UNCHANGED <<cacheVars, held, now, skew>>

(* Any other end of the exchange concludes the call.                       *)
Conclude(c, outcome) ==
    /\ pc[c] = "wait"
    /\ ~NeedsRetry(c)
    /\ CloseExchange(c)
    /\ Goto(c, outcome)
    /\ UNCHANGED <<cacheVars, attempt, held, now, skew>>

RaiseRefused(c) == answer[c].verdict \in {"expired", "refused"} /\ Conclude(c, "refused")

Return(c) == answer[c].verdict = "handled" /\ Conclude(c, "answered")

(* resp.json() raises on a 2xx body that is not JSON.                      *)
RaiseGarbled(c) == answer[c].verdict = "garbled" /\ Conclude(c, "unknown")

(* requests raises: no connection, connection lost, timeout.  What is at   *)
(* the gateway stays there.  An abandoned token request is dropped: a      *)
(* token nobody receives changes nothing.                                  *)
TransportFails(c) ==
    /\ pc[c] \in Waiting
    /\ lock' = IF pc[c] = "auth" THEN NoCall ELSE lock
    /\ ask' = [ask EXCEPT ![c] = IF pc[c] = "auth" THEN "none" ELSE ask[c]]
    /\ answer' = [answer EXCEPT ![c] = NoAnswer]
    /\ deadline' = [deadline EXCEPT ![c] = 0]
    /\ Goto(c, "unknown")
    /\ UNCHANGED <<token, tokenExpiresAt, announced, attempt, held, processed, issued, now, skew>>

(* The part of TransportFails that requests' timeout makes certain.        *)
TimeOut(c) == (now >= deadline[c] \/ now = MaxTime) /\ TransportFails(c)

-----------------------------------------------------------------------------
(* The gateway, from how the client treats its answers.  It issues tokens  *)
(* in order, runs a handler only under a token that has not expired, and   *)
(* may call a token expired earlier than the client thinks.                *)
Answer(c, a) ==
    /\ ask' = [ask EXCEPT ![c] = "none"]
    /\ answer' = [answer EXCEPT ![c] = IF pc[c] \in Waiting THEN a ELSE NoAnswer]
    /\ UNCHANGED <<cacheVars, callVars, now, skew>>

IssueToken(c, life, verdict, ttl) ==
    /\ ask[c] = "token"
    /\ issued' = issued + 1
    /\ Answer(c, [verdict |-> verdict,
                  token   |-> [id |-> issued + 1, exp |-> now + life],
                  ttl     |-> ttl])
    /\ UNCHANGED processed

GrantToken(c) == \E life \in Lifetimes :
    \/ \E ttl \in {life, Absent} : IssueToken(c, life, "token", ttl)
    \/ IssueToken(c, life, "badTtl", Absent)

DenyToken(c) ==
    /\ ask[c] = "token"
    /\ Answer(c, Says("denied"))
    /\ UNCHANGED <<processed, issued>>

(* 401 token_expired, or any other answer given before the handler.        *)
TurnDown(c) ==
    /\ ask[c] = "api"
    /\ \E verdict \in {"expired", "refused"} : Answer(c, Says(verdict))
    /\ UNCHANGED <<processed, issued>>

Handle(c) ==
    /\ ask[c] = "api"
    /\ held[c].exp > now
    /\ processed' = [processed EXCEPT ![c] = @ + 1]
    /\ \E verdict \in {"handled", "garbled"} : Answer(c, Says(verdict))
    /\ UNCHANGED issued

Tick ==
    /\ now < MaxTime
    /\ \A c \in Calls : pc[c] \in Waiting => now < deadline[c]
    /\ now' = now + 1
    /\ UNCHANGED <<cacheVars, callVars, wireVars, skew>>

(* The wall clock is set, by the operator or by NTP.                       *)
Jump ==
    /\ skew' \in Skews \ {skew}
    /\ announced' = Absent
    /\ UNCHANGED <<token, tokenExpiresAt, lock, callVars, wireVars, now>>

(* Every call that started has ended; the clock is all that is left.       *)
Terminating ==
    /\ \A c \in Calls : pc[c] \in Done \cup {"new"}
    /\ UNCHANGED vars

-----------------------------------------------------------------------------
EnsureToken(c) == \/ Acquire(c) \/ UseCached(c) \/ PostToken(c)
                  \/ AcceptToken(c) \/ AcceptUndated(c) \/ AuthDenied(c)

Exchange(c) == \/ Send(c) \/ RetryExpired(c) \/ RaiseRefused(c)
               \/ Return(c) \/ RaiseGarbled(c)

Gateway(c) == GrantToken(c) \/ DenyToken(c) \/ TurnDown(c) \/ Handle(c)

Next ==
    \/ \E c \in Calls : \/ Begin(c) \/ EnsureToken(c) \/ Exchange(c)
                        \/ TransportFails(c) \/ Gateway(c)
    \/ Tick
    \/ Jump
    \/ Terminating

Spec == Init /\ [][Next]_vars

(* Threads are scheduled, time passes, timeouts fire.  Nothing obliges the *)
(* gateway to answer.  A call asks for the lock at most twice, so a free   *)
(* lock cannot be lost to others for ever and weak fairness is enough.     *)
Fairness == /\ WF_vars(Tick)
            /\ \A c \in Calls : /\ WF_vars(EnsureToken(c))
                                /\ WF_vars(Exchange(c))
                                /\ WF_vars(TimeOut(c))

FairSpec == Spec /\ Fairness

-----------------------------------------------------------------------------
(* "The token is refreshed before expires_in runs out" (client.py 94-95): a *)
(* token the cache hands out without asking the gateway, whose lifetime the*)
(* gateway announced, has not expired.  That is what the docs say.  The    *)
(* code dates the expiry from the arrival of the token, so that one which  *)
(* took longer than the buffer to arrive is handed out expired.            *)
RefreshedBeforeExpiry == announced # Absent /\ Fresh => token.exp > now

(* What holds of the code: such a token has expired no longer ago than the *)
(* exchange may exceed the buffer, and, where the gateway announced a zero *)
(* (which counts as nothing announced), the default lifetime beyond that.  *)
(* A wall clock that is set spoils this for the token in the cache, but not*)
(* for the next one.                                                       *)
Beyond(ttl) == IF ttl = 0 THEN DefaultTtl ELSE 0
LateByExchange ==
    announced # Absent /\ Fresh =>
        now < token.exp + Beyond(announced) + (Timeout - RefreshBuffer)

(* Nor is it refreshed needlessly: unless it was forced to, or the wall    *)
(* clock was set, the client asks for a token only when the one it has     *)
(* lives no longer than the buffer.                                        *)
NoNeedlessRefresh ==
    [][\A c \in Calls : pc[c] = "locked" /\ pc'[c] = "auth" /\ attempt[c] = 1
                            /\ announced # Absent => token.exp <= now + RefreshBuffer]_vars

(* Re-authentications racing on one client never put an older token back   *)
(* over a newer one.                                                       *)
CacheNeverGoesBack == [][token'.id >= token.id]_vars

(* The one retry after 401 token_expired carries a token issued after the  *)
(* one the gateway turned down, whatever other threads did to the cache.   *)
RetryUsesNewToken ==
    [][\A c \in Calls : attempt[c] = 2 /\ pc[c] # "send" /\ pc'[c] = "send"
                            => held'[c].id > held[c].id]_vars

(* The gateway's handler runs at most once for a call and what the caller  *)
(* is told about it is true, the retry and the timeouts included.          *)
outcome == [c \in Calls |-> IF pc[c] \in Done THEN pc[c] ELSE "pending"]
Ideal == INSTANCE CallOnce WITH outcome <- outcome, effect <- processed
ImplementsCallOnce == Ideal!Spec

(* A call that has started ends, with or without an answer: no path leaves *)
(* the lock taken.                                                         *)
EveryCallEnds == \A c \in Calls : pc[c] = "ensure" ~> pc[c] \in Done

-----------------------------------------------------------------------------
(* The inductive invariant behind the properties, part by part.            *)

(* The lock is held exactly by the call that is inside _ensure_token.      *)
LockInv == \A c \in Calls : lock = c <=> pc[c] \in {"locked", "auth"}

(* The client leaves an exchange no later than Timeout after opening it.   *)
DeadlineInv == \A c \in Calls :
    pc[c] \in Waiting => now <= deadline[c] /\ deadline[c] <= now + Timeout

(* A request is at the gateway or answered, never both; only a call that   *)
(* gave up leaves one behind.                                              *)
AskInv == \A c \in Calls :
    /\ ask[c] # "none" => answer[c].verdict = "none"
    /\ ask[c] = "token" => pc[c] = "auth"
    /\ ask[c] = "api" => pc[c] \in {"wait", "unknown"} /\ processed[c] = 0

(* The handler has run exactly if the answer, or the outcome, says so.     *)
EffectInv == \A c \in Calls :
    /\ processed[c] \in 0..1
    /\ pc[c] \notin {"wait", "answered", "unknown"} => processed[c] = 0
    /\ pc[c] = "wait" => (processed[c] = 1 <=> answer[c].verdict \in {"handled", "garbled"})
    /\ pc[c] = "answered" => processed[c] = 1

(* A token on its way to the cache is newer than every token in use there. *)
Issuing(c) == pc[c] = "auth" /\ answer[c].verdict \in {"token", "badTtl"}
OrderInv ==
    /\ token.id <= issued
    /\ \A c \in Calls :
        /\ held[c].id <= issued
        /\ Issuing(c) => /\ answer[c].token.id > token.id
                         /\ answer[c].token.id > held[c].id
                         /\ answer[c].token.id <= issued

(* The cache's estimate is never early.                                    *)
EarlyInv ==
    /\ announced # Absent => token.exp + skew <= tokenExpiresAt
    /\ \A c \in Calls :
        pc[c] = "auth" /\ answer[c].verdict = "token" /\ answer[c].ttl # Absent =>
            answer[c].token.exp <= now + answer[c].ttl

(* The cache's estimate is late by no more than the exchange took, and, for*)
(* a lifetime of zero, the default.                                        *)
DateInv ==
    /\ announced # Absent =>
            tokenExpiresAt <= token.exp + skew + Beyond(announced) + Timeout
    /\ \A c \in Calls :
        pc[c] = "auth" /\ answer[c].verdict = "token" /\ answer[c].ttl # Absent =>
            /\ answer[c].ttl \in Lifetimes
            /\ deadline[c] + answer[c].ttl <= answer[c].token.exp + Timeout

IInv == /\ TypeOK /\ LockInv /\ DeadlineInv /\ AskInv /\ EffectInv
        /\ OrderInv /\ EarlyInv /\ DateInv
=============================================================================
