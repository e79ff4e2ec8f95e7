# Verification of paratro-sdk-python

TLA+ specifications, TLC configurations and TLAPS proofs for the Paratro MPC
wallet gateway SDK (`paratro/`, version 1.9.0).  The SDK is a thin HTTP client,
but a client that moves money: several threads share one `MPCClient`, every
exchange can be lost while the gateway goes on working on it, and the caller
decides from what the SDK tells it whether to poll, to resend under the same
`reference_id`, or to pay again under a new one.

## Inventory of the system

| Component | State | Operations | Hard behaviour | What makes it correct |
|---|---|---|---|---|
| Request engine (`client.py`: `_ensure_token`, `_request_with_status`, `_send`, `_raise_for_error`) | `_token`, `_token_expires_at`, `_token_lock`; per call the local `token` | fetch or reuse a token, send, re-authenticate once and resend once on `401 token_expired` | threads interleave between the lock and the send; an exchange is lost or times out while the gateway works on it; the clock | the handler runs at most once per call, the caller is told the truth, a retry has a newer token, how long the cache may serve an expired token is bounded, the lock is always given back |
| Transactions service (`transactions.py`, `CreateTransactionResponse`, `TransactionStatus` in `models.py`) | none of its own; the rows, `reference_id`s and cached 2xx answers live at the gateway | `create`, `get`, `list` | lost answers, resends under one `reference_id` racing with the first attempt, `Idempotency-Key` replays that change the HTTP status, rows decided after the answer | `accepted`, `broadcast` and the error predicates describe the row truthfully; a caller that follows them never pays twice |
| Error taxonomy (`errors.py`) | none | `from_response`, `reason_tag`, `is_rejected`, `is_duplicate_reference`, `is_engine_busy`, `reference_id_consumed`, predicates | the same HTTP status before and after the row is written; answers that are not the gateway's | class and predicates agree with each other and with where the gateway failed |
| Request bodies (`models.py`: `_require`, `_put`, `to_body`; `client.py`: `_to_body`) | the caller's mutable request object | build the JSON body or raise `ValueError` | zero, empty and absent values; edits of the object while the engine retries | nothing invalid is sent, nothing set is dropped, both attempts send the same |
| Time limits of a synchronous create (`client.py` 47-68) | none; three clocks that start at different moments | the SDK waits 200 s, the gateway closes after 180 s and answers 202 after 150 s | which side gives up first | the SDK's timeout never beats the gateway's answer, so a `tx_id` is not lost |
| x402 service (`x402.py`) | none | `verify`, `settle`, `settle_status`, `list_settlements` | a settlement replayed or decided later; settlements that change status while they are listed | the payload is sent as passed in; a scan misses no more than left it |
| Webhooks (`webhook.py`) | none | `verify_signature`, `parse_event` | delayed, repeated and reordered deliveries, the tolerance boundary | what was delivered in time and unchanged is accepted, what is stale is not |
| Wallet, account and asset endpoints (`client.py` 169-227) | none | `create_`, `get_` and `list_` of each: one call of the request engine and a copy of fields | no `reference_id` and no `Idempotency-Key`: a repeated create makes a second item; blank ids, empty and `null` bodies; pages read while rows come | no item under the wrong parent, none before its wallet is active, and the caller knows what he may have left behind; a scan reads every row |
| Configuration (`config.py`) | `base_url` | `validate_base_url` | none | - |
| Package exports, examples, tests | - | - | the examples are the SDK's model caller | - |

Components interact by synchronous calls only: every service method calls
`_request` or `_request_with_status`; these call `_ensure_token`, which is the
only code that takes the lock.  There are no callbacks.  All sharing between
threads goes through the three fields of the token cache.

## Plan

The order was that of importance: what can pay twice or send twice came first.

1. `CallOnce` (the engine's promise), `MPCClient` (the engine, with a wall clock
   that is set), `MPCClientProofs`.
2. `Payment` (the promise of a payment), `Transactions` (composed with `CallOnce`),
   `TransactionsProofs`.
3. `SyncTimeouts`, `SyncTimeoutsProofs`.
4. `RequestBodies`, `RequestBodiesProofs`.
5. `Webhook`, `WebhookProofs`.
6. `Errors`, `ErrorsProofs`.
7. `Listing`, `ListingProofs`.
8. `Provisioning` (composed with `CallOnce`), `ProvisioningProofs`.

All of it is done.  What could follow depends on what this repository does not
say: the life of an x402 settlement, and the gateway's order of checks.

There are two abstract specifications.  `CallOnce` is the engine's: `MPCClient` is shown
to implement it (`Ideal == INSTANCE CallOnce WITH outcome <- outcome, effect <- processed`),
and `Transactions` and `Provisioning` use its actions for the wire (`Engine == INSTANCE
CallOnce`), so what is proved of payments and of set-ups rests on what is proved of the
engine and not on a second model of the network.  `Payment` is what a payment made through
the SDK amounts to; `Transactions` is shown to implement it.

## The modules

### MPCClient and CallOnce

One `MPCClient` shared by the threads of `Calls`; each call is one execution of
`_request_with_status`.  `token`, `tokenExpiresAt` and `lock` are the three
fields of the cache; `pc`, `attempt` and `held` are where a thread is, whether it
is past its one retry, and its local variable `token`.

| Code | Model |
|---|---|
| `with self._token_lock` | `Acquire`, `Release` in every way out of it |
| the cached token (client.py 144-149) | `UseCached`; otherwise `PostToken` opens an exchange with the lock held |
| 157-165 | `AcceptToken`, `AcceptUndated` (`float()` raises after `_token` was stored), `AuthDenied` |
| `_send` | `Send`; `TransportFails` for anything `requests` raises, `TimeOut` when it must |
| 278-284 | `RetryExpired`, `RaiseRefused`, `Return`, `RaiseGarbled` |
| the gateway | `GrantToken`, `DenyToken`, `TurnDown`, `Handle`; it may answer late or never, and may run the handler for a client that has given up |

`now` is the time, `wall == now + skew` what `time.time()` reads; `Jump` sets the
wall clock, forth or back, at any moment, also between the dating of a token and
its use.  Tokens expire by `now`, the cache compares with `wall`.

`announced` and `processed` are history: the `expires_in` that came with the cached
token (`Absent` without one, and once the wall clock has been set), and how often the
handler ran.

### Transactions and Payment

One payment.  `plan` is what the caller does next; he is modelled from the
handlers in `examples/` and, for errors these let through, from what `errors.py`
documents: `Failed` and `is_engine_busy` mean a new `reference_id`, the other
503s, timeouts, lost connections and answers that leave it free a resend under the
same one (or a stop), `accepted` means polling.  After a rejected `CONTRACT_CALL` he
takes a new `reference_id`, as errors.py 322-323 advises, but only when no other call
of his used the old one (`OnlyCall`): `rejected_resend` shows why.  That care is the
caller's own bookkeeping; nothing in the SDK asks for it.  `row` is the
gateway's row under each `reference_id`, with two states the API does not show
(`SYNC`: a handler waits for the engine; `HELD`: a permit is signed and held).  It is
assumed that the permit of a held row is not used, so that the row ends `FAILED`: the
gateway releases it when the deadline has passed and the nonce on the chain shows this
(README of the SDK 259-262, errors.py 334-337, 409-412).  Were it used all the same, the
new attempt the docs advise while the row is held would pay twice.  The gateway's order
of checks is not known here, so any check that fails may be the one that answers.

`Payment` says the same without calls, handlers, status codes and keys.  It has an
attempt under each `reference_id`, which is open, has moved money or is dead, and what
the caller has been told: that he may pay, that he waits, or that he has paid.  An
attempt begins only when all others are over and the caller waits; after "free"
nothing moves until he tries again, after "paid" nothing ever does.
`Promise` maps the rows to attempts (`Fate`: a `HELD` row is dead already) and the plan
to what the caller was told (`Told`).

### SyncTimeouts

One synchronous create.  `delay`, chosen at the start, is the longest way through
this network.  `now` counts from the SDK's send, `received` and `dispatched` are
when the gateway's two clocks started.  `ReadTimeout` is `timeout=self._timeout`;
`AcceptDue` and `CloseDue` are the gateway's limits as the comment at client.py
51-60 states them.

### RequestBodies

A request object, the body built from it and what the two attempts of the engine
serialise.  `Call` is `create()` up to the engine, `Send` one
`session.request(json=body)`, `Edit` the caller assigning to his object at any time.
Of a value the model keeps what the code tells apart: `None`, `""`, blanks, `0`, or
a value.  The x402 payload is the caller's own dict (`Copies`).

### Webhook

One event: signed by the message service (`Sign`), damaged or not on its way
(`Damage`), handed to `verify_signature` any number of times.  Clocks are in ticks
of a fraction of a second since the stamp is a whole second and `time.time()` is
not; `skew` is the difference between the two clocks.  `RefuseTimestamp`,
`RefuseAge`, `RaiseTypeError`, `RefuseSignature` and `Accept` are the five ends of
the function, with its order of checks in their guards; `Accept` includes the
handler's `parse_event` and crediting a leg with `booked`.

### Errors

One `create()` that fails.  The handler goes from its checks past the insert to its
end; `TurnDown`, `Reject` and `FailAfterInsert` are the answers it may give on the
way, `Intercept` is a proxy that answers in its place (a page, or JSON of its own;
a redirect) while it goes on.  `Raise` is `_raise_for_error` with `from_response`.
A message is one of the openings the SDK looks for and the text after it, a tag or
prose.  `Predicates` are the nine functions at the end of errors.py.  `ClassesAgree`
compares them with the classes.  `VerdictsAreTrue` compares what an exception asserts
with the row: consumed or `transaction_failed`, there is one; a class raised before the
insert, there is none and will be none.  `TagIsReason` compares the tag of a 400 with
what the verifier or the engine gave as its reason.  `FreeIsFree` is what the docs say of
the 503s that do not consume; it fails.

### Listing

A caller reads a collection page by page (`Read`) while rows come (`Enter`) and, where
the filter is a status, go (`Leave`).  `PageServed` and `SizeServed` are what the
gateway makes of parameters the SDK sends only when positive; `Readable` is the
difference between `_paginated` (`data.get("data", [])`) and the two services (`... or
[]`) on an empty page written as `null`.  The gateway's lists may be newest or oldest
first: the repository does not say, so both are checked.

### Provisioning

A caller sets up a wallet, an account and an asset as the README of the SDK shows.
Each create is a call of `CallOnce`; `Handle` runs its handler, maybe after the
caller gave up or called again.  `Keygen` makes the two fields of a wallet `ACTIVE`
one by one, `Poll` is `get_wallet` with the caller's condition, and a caller may
write `wallet = client.get_wallet(...)` (`replaces`) and so lose the id.  A body that
is empty becomes `{}` and then a dataclass of defaults (`NoContent`), and so does the
list answered to `get_wallet("")` (`FromList`).  The item a call creates has the
number of the call.

## The runs

| Run | Instance | What it shows |
|---|---|---|
| `threads` | 2 threads, clock 0..3, `FairSpec` | tokens only get newer in the cache, the retry has a newer token, the engine implements `CallOnce`, every call that starts ends |
| `clock` | 2 threads, clock 0..3, buffer 1, timeout 2, lifetimes 0 and 2 (default 5), the wall clock 0 or 2 ahead and set at any time, symmetric | the inductive invariant holds; a token handed out has expired no longer ago than `LateByExchange` says, but for the one in the cache when the clock was set; no token is asked for needlessly |
| `late_refresh` | one call, the defaults of the code in units of 20 s | **violation**: an expired token is handed out |
| `retries` | 3 creates, 2 polls, all operations, keyed or not | at most one payment; "paid" and "failed" are true; rows and caller do what `Payment` promises |
| `rejected_resend` | a `CONTRACT_CALL`, 2 creates | **violation**: a rejected resend leaves the first call's row open |
| `timeouts` | the real limits in units of 5 s, a network of 5 s or 15 s each way | the gateway gives up first, or the network took the 20 s between the limits; when a 202 can be missed |
| `bodies` | all request types, 2 edits | complete, lossless, identical on retry |
| `tolerance` | half-second ticks, tolerance 2 s or none, skew up to 1.5 s | stale refused for good, prompt accepted, only booked legs credited |
| `verdicts` | three operations, two tags | consumed rows exist, early errors left none; the tag of a 400 is the reason; classes and predicates agree |
| `free_503` | a `CONTRACT_CALL`, one tag | **violation**: a 503 called free, with its row |
| `scan` | 4 rows, pages of 1, 2 (default) and 3, counted from 0 or 1, both orders | what a finished scan can have missed or read twice; it ends |
| `provisioning` | 6 creates | nothing in the wrong place or too early; strays are of unknown calls |

Bounds, each named in a guard or a constant:

- `Calls`: two threads suffice for every race on the lock and the cache: one holds
  the lock over an exchange or replaces the token while the other waits, or is between
  a send and its answer.  The theorems hold for any number.
- `Timeout`, `RefreshBuffer`: `clock` has a timeout above the buffer, as the code has,
  so that tokens may be late; `late_refresh` has the code's values.
- `MaxTime`, `LastStart`: both runs have room for issue, caching, the buffer, expiry
  and a second token; `late_refresh` for one lifetime.  `MaxTime`
  must be reachable by the timeouts, hence `now = MaxTime` in `TimeOut`.
- `MaxCalls`: three creates allow a lost one, its resend, and one under a new
  reference.  `PollAttempts`: two, so that a loop goes round and runs out.
- `MaxEdits`: two, one before the call and one between the attempts, or a
  correction after a `ValueError`.
- `SyncTimeouts.Delays`: one network within the margin and one beyond it.  The
  clock stops when neither side has anything left to do.
- `Skews`: the same clock twice (0) or two units ahead, more than the buffer and as
  much as a lifetime, so that a stale token looks fresh and a fresh one stale.
- `Listing`: four rows give up to four pages, so rows move across more than one
  boundary; `MaxPages` exceeds the pages any scan needs.
- `Provisioning.MaxCalls`: six creates are two of each kind, or four of one.
- `Errors` has no bound; `Tags` needs two, so that one could be taken for another.
- `Webhook.MaxTime`: ten ticks exceed tolerance plus skew; one damage to a
  delivery, since a second one cannot repair the first.

Every clock bound is absent from what is proved: the theorems hold for all values.

Fairness is assumed in `threads` and `scan`.  In `scan` it is of `Read` alone: the
caller goes on reading while he is told there is more.  In `threads` it is of
`Tick` (time passes), of each thread's `EnsureToken` and `Exchange` (the operating
system schedules threads), and of `TimeOut` (`requests` raises at its timeout).  Weak fairness of taking the lock is
enough because a call asks for it at most twice, so that others cannot hold it
for ever.  The gateway is not assumed to answer, ever.  `time.time()` stands still
only at the bound.

## What the violations show

- `late_refresh`: the expiry is dated from the arrival of the token response (client.py
  164), which may take 200 s (66) while the buffer is 120 s (44).  client.py 94-95 has
  "the token is refreshed before `expires_in` runs out", the README of the SDK (106-107)
  "refreshed 2 minutes before".  A token that took the full 200 s is handed out for
  another 80 s after it expired; `LatenessBounded` proves that it is no longer.  The
  gateway then answers `401 token_expired`, and the one retry repairs it.
- `rejected_resend`: a `create()` times out, its handler goes on, the resend is
  answered `Rejected` by a check (a quote that expired meanwhile, say).  errors.py
  315-323 knows two cases, `reference_id` free or row held, and advises a new
  `reference_id`; here the first row is neither, and may still be paid.  With the
  guard `OnlyCall` in the caller, `PaidOnce` holds and is proved.
- `free_503`: the gateway writes the row, something in front of it answers 503 with a
  text of its own, and `reference_id_consumed`, which looks at the message alone
  (errors.py 434), is False: free, by 431-432, with the row there.  A caller who
  resends under the same `reference_id` is safe all the same (`Duplicate`); one who
  takes the row for absent is not.

Four more disagreements between text and code follow from the models without a
run of their own:

- `compare_digest` raises `TypeError` on a signature header that is missing or not
  ASCII (webhook.py 88: `RaiseTypeError`), where the docstring (53-54) has `APIError`;
- an `expires_in` of 0 becomes 900 s (client.py 163), against the comment at 45 ("only if
  the token response carries no `expires_in`"): such a token is handed out for up to the
  default lifetime too long, which `LateByExchange` has as its second term;
- `reason_tag` does not look at the status (errors.py 240-251): a 500 `Rejected: x`, as
  in test_errors.py 88, has the tag `x`, where the docstring (275-279) has `None` for
  anything but the two 400s.  `TagIsReason` therefore speaks of 400s and of answers that
  are not the gateway's;
- `_to_body` drops `0` (client.py 343), which its docstring (341) and that of
  `CreateWalletRequest` (models.py 25) do not say: `threshold=0` yields the gateway's
  default quorum rather than its 400.  `NothingSetIsLost` therefore speaks of the
  three operations only, whose bodies `_put` builds.

## The proofs

All theorems hold for every value of the constants, under the named assumptions
of the modules; stronger ones are written in the theorem.

`MPCClientProofs`.  `IInv` is inductive: `LockInv` (the lock is held exactly by the
thread inside `_ensure_token`) makes the token on its way to the cache the only
one, so `OrderInv` (it is newer than the cache and than every token in use) can
be kept by `AcceptToken`; `AskInv` (a request is at the gateway or answered, never
both) is what keeps `EffectInv` true when a client gives up.  From `IInv` follow
`CacheMonotonic`, `RetryWithNewToken` and `Refinement` (each step of the engine is a
step of `CallOnce` or a stutter).  `DateInv`, which rests on `DeadlineInv`, says that
the cache's estimate is late by no more than the exchange took; from it follows
`LatenessBounded`, without an assumption on buffer, timeout or lifetimes.
`NotRefreshedEarly` follows from `EarlyInv`: the estimate is never before the expiry.
All of these hold for any way the wall clock is set.

`TransactionsProofs`.  `PaidOnce` is not inductive.  `Inv` says why it holds:
references are used one after the other, those given up are dead (`DeadInv`) and
stay so, those to come have no row (`RefsInv`), so only the current one can be
paid; an answer that frees the caller to renew (`Failed`, `Busy`) comes from a row
that is dead (`SyncInv`: only one handler waits over a row), a rejection from the one
call under its `reference_id` leaves no row or a held one (`RejectInv`), and what was
answered, cached or read of a row is still true of it (`AnswerInv`, `PollInv`).
`PaymentRefinement` uses all of it: a row that may still be inserted or reach the chain
is that of the current reference while the caller waits (`LiveRow`), the others are
over (`OthersAreOver`), and what the caller is told after a step follows from `Inv`
after that step.

`SyncTimeoutsProofs`.  `Inv` bounds the clock in each stage of a create.
`GatewayFirst` supposes `SdkTimeout > WriteTimeout + 2 * delay`: the 20 s of the
defaults tolerate almost 10 s each way.  `TimeoutsAreTheNetworks` and `SlowEngine`
need nothing.

`RequestBodiesProofs`.  `HandedOver` is inductive (with `wire` a sequence): the body
is that of the object as it was when passed in, and all that has been sent.
`CompleteBodies` and `NothingLost` follow with a lemma on what `Body` keeps,
`SameRetry` at once.  `TypeCorrect` bounds the attempts by two.

`WebhookProofs`.  `StampInv` (the stamp is at most a second before the signing) and
`VerdictInv` (what a verdict says of the age then).  `PromptAccepted` and
`ExpiredStaysExpired` assume that the clocks are no further apart than a tolerance
in use: otherwise an intact delivery can be refused as coming from the future and
accepted later.

`ErrorsProofs`.  The inductive invariant `Inv` says of a response on its way what
`VerdictsAreTrue` says of the exception, since the handler may go on in between; that the
stages "inserted" and "ended" are final does the rest.  `TrueVerdicts` covers what
`VerdictsAreTrue` states and no more: the free 503s are refuted by `free_503`.
`Agreement` goes through the statuses.  `TagsAreReasons` rests on `TagInv`: an exception
is a copy of the gateway's answer, which names `reason` if it is a 400, or comes from
elsewhere and has no tag; `reason` changes only before the gateway's answer is on its way.

`ListingProofs`.  None of the three properties is inductive; `Inv` counts where the
next page will be.  `MissedInv`: each row that leaves lets at most one unread row slip
ahead of the next page.  `TwiceInv`: each row that enters pushes at most one read row
back behind it.  `RaiseInv`: where rows only enter, a scan goes on only to a page that
has rows.  `MissedAreFew` with no row leaving says that nothing is missed.  The lemmas are
about positions: `Rank` numbers the rows of a finite set without gaps, so a place holds
exactly one of them (`PlacesHold`, `PlaceFilled`); that a place is not skipped takes
induction over the numbers, which `LeastNumber` has from the well-foundedness of `<`
(the library's theorem on minimal elements takes a set, not an operator).

`ProvisioningProofs`.  `HeldInv` (the ids the caller holds are of items, his wallet is
active once he is past the poll) and `ParentInv` (so are the parents in all requests,
the late ones included) give `SoundChain` and `WaitsLongEnough`; `CallInv` ties the
effects of `CallOnce` to the results.

Only model-checked: `EveryCallEnds` and `ScanEnds` (liveness and `ENABLED` are out of
the prover's reach).  Every other property of a passing run is a theorem.  No module
with theorems uses a `RECURSIVE` operator or needs induction over data.

## Not modelled

- `requests` applies its timeout to the connection and to each read of the
  socket, not to the whole exchange; a response that trickles in lasts longer.
  `Timeout` is the longest an exchange lasts.
- A token request the client gave up on: the token it yields is never seen.
- Connections of the `requests.Session` and their reuse; lost connections in
  `SyncTimeouts` (they are in `MPCClient`, as `TransportFails`).
- An edit of a request object inside `to_body`: it is one step here, while
  another thread could assign between the check and the use.
- Whether the gateway looks at the `reference_id` before the policy: it may answer
  with either in `Transactions`.
- Error pages of proxies outside `Errors`: in `MPCClient` they count as
  `TransportFails`, since the caller learns as little from them.
- `PENDING_APPROVAL` and the other statuses of rows the portal creates: a payment
  made through the SDK never has them.  `CONFIRMING` is counted as `BROADCAST`.
- The life of an x402 settlement: `verify`, `settle` and `settle_status` are one engine
  call and a copy of fields each, and the repository does not say which statuses
  follow which or what a settlement repeated without `Idempotency-Key` does.
- The lists of reason tags and error codes: a tag is a model value, as `reason_tag`
  looks at its shape and not at the lists.
- `total` of a page, which nothing in the SDK uses.
- Configuration (a check of one string), package exports, `_env.py` of the examples:
  no state and no behaviour over time.
