# Verification of simple-search

This directory is the TLA+ development of simple-search: the modules that
describe the program, the configurations under which TLC checks them, and the
theorems that TLAPS proves about them. It was written from the code under
`app/`; paths below are relative to the repository (`src/`), line numbers are
those of the commit the modules were written from.

- [1. The system](#1-the-system)
- [2. Module by module](#2-module-by-module)
- [3. Runs](#3-runs)
- [4. Fairness and deadlock](#4-fairness-and-deadlock)
- [5. Proofs](#5-proofs)
- [6. Findings and observations](#6-findings-and-observations)
- [7. What is not modelled](#7-what-is-not-modelled)
- [8. Plan](#8-plan)

`PROJECT.json` holds the machine-readable side: components, runs, the source
lines behind every definition (`map`), the hazards with the properties that
watch them, a mutant for every checked property and the list of theorems.

Reproduce with `tlc -config X.cfg MCModule.tla` and `tlapm M.tla` in this
directory.

---

## 1. The system

simple-search is one asyncio process: a FastAPI application that sends searches
to configured backends, caches the answers, and (optionally) runs a small
second-price ad auction on an SQLite file. All state is in that process, in one
SQLite file and in Redis. There is one event loop; other threads are the
aiosqlite worker and nothing else. So everything that can go wrong
concurrently goes wrong at an `await`.

### 1.1 Components

| Component | Code | State | Operations | Modelled |
|---|---|---|---|---|
| Ads store | `app/ads/storage.py` | one aiosqlite connection (its transaction belongs to everybody), tables users/bids/impressions/clicks, the cached phrase-bid pool | open, init_schema with two migrations, create_user, upsert_bid, delete_bid, list_exact_bids, list_phrase_bids_with_tokens, record_impression, record_click, read-only statistics | yes (statistics only read) |
| Ads service | `app/ads/service.py` | none of its own | register, login, place_bid, delete_bid, run_auction, record_click | yes |
| Auction | `app/ads/auction.py` | none | select_winner | yes |
| Ads routes, sessions | `app/ads/routes.py`, `auth.py` | signed session cookie | sign-up, login, logout, cabinet, bid, delete, click redirect | partly (not what a cookie holds) |
| Login throttle | `app/ads/throttle.py` | failures and window end per account | is_locked, record_failure, reset | yes |
| Circuit breaker | `app/core/circuit_breaker.py` | one record per backend: state, failures, probe slots, opened_at | register, state_of, call | yes |
| Routing service | `app/search/router.py` | none of its own | search_web, search_images: rules, candidates, attempt loop | yes |
| Backend registry | `app/search/registry.py` | registered backends and their capabilities, fixed after start-up | construction, look-up | yes |
| Search endpoints, cache | `app/api/v1/web_search.py`, `image_search.py`, `app/core/cache.py` | responses by key in Redis, with a ttl (or no cache at all) | look up, route, store | yes |
| Rate limiter | `app/core/rate_limit.py` | a window per client, calls since the last sweep | one call per request | yes |
| Health, backend listing | `app/api/v1/health.py`, `backends.py` | none | gathered probes, breaker look-up | yes |
| Backend adapters | `app/backends/` | HTTP client | search, healthcheck; mocks that make no call | yes (payloads and items are formatting) |
| HTML search pages | `app/ui/routes.py` | none | a search with an auction before it | yes (not its rendering) |
| Assembly | `app/main.py`, `app/core/config.py`, `app/api/deps.py` | what is open, the layers around the routes | start-up, shutdown, exception handlers | yes (not the parsing of configurations) |
| Request hygiene | `csrf.py`, `security_headers.py`, `ids.py`, `errors.py` | a log-sampling flag | one check per request, headers, the status of an exception | yes (not the values of headers) |
| Text, i18n, logging | `i18n.py`, `logging.py`, `normalizer.py`, `ranking.py`, `schemas.py` | none | formatting, validation | no |

### 1.2 How they interact

1. A request passes the layers of `create_app` from the outside in: sessions,
   CORS, trusted hosts, rate limiter, origin check, security headers, request id.
   The first with a reason to refuse it answers it, and an answer gets its headers from
   the layers on its way out. The limiter contains no `await` before it decides and
   is therefore one step.
2. A search request asks the cache (an await), then routes: `_route` walks the
   candidates, asks the breaker of each, and calls the first that is admitted
   (an await). A `BackendError` under `auto` moves on to the next candidate; any other
   exception ends the search with a 500. The
   response is stored (an await) and returned. Many searches share the breakers
   and the cache.
3. `GET /search` (HTML) runs an auction first, whose exceptions are only logged, and
   then routes without the cache. What fails is shown on a page with status 200; the API
   answers with the status of the last exception.
4. An ad click looks up its bid, bills it in one explicit transaction and
   redirects; the request id `r=` of the search ties it to the impression that
   quoted its price.
5. Sign-up, bids and deletions are single writes on the same connection,
   committed by a `commit()` of their own.
6. A login asks the throttle, awaits the user's row, and then counts or forgets
   a failure.
7. `create_app` and `lifespan` open the HTTP client, build the registry, connect the
   cache and upgrade the database, in that order; any of it may fail, and the end
   closes what is open in the same order.
8. `GET /health` probes all backends at once; a probe of an adapter is a search.

### 1.3 What is hard about it

- **One connection, one transaction.** Handlers that interleave at awaits share
  the transaction: one's COMMIT commits the other's half-done work, one's
  ROLLBACK undoes it, `BEGIN IMMEDIATE` is refused inside it.
- **Stale reads.** A wallet, a bid, a phrase pool or a cache key is read before
  an await and used after it.
- **Late answers.** A call admitted while its breaker was closed can end while
  the breaker is open, half-open with other probes in it, or closed again.
- **Crashes.** The file is all that survives; a start migrates what an
  earlier version left and may itself be cut off.
- **Windows and caps.** Rate limits, lockouts, probe slots and tracked clients
  are counters with limits, reset by time and by sweeps.
- **Parts that fail.** One backend of several is misconfigured, one probe of several
  raises, one close of several fails, a page's auction fails; the rest must go on.
- **Order of layers.** `add_middleware` nests in reverse, and every early answer skips
  the layers further in, with their counters and headers.
- **Progress.** Every request must be answered, an open breaker must be able to
  recover, a lock must end.

### 1.4 What makes each component correct

- *Ads*: a wallet and what it was billed for always add up to the sign-up
  balance; no wallet is overdrawn; a click pays what its impression quoted; a
  page view is billed once; rows refer to rows that exist; a crash leaves whole
  operations; the cached phrase pool follows the bids; upgrades lose nothing.
- *Auction*: the winner pays at least 1 and never more than its bid.
- *Breaker*: its state agrees with its failures, probe slots neither leak nor
  overrun, and no backend is shut out for ever.
- *Routing and cache*: an `auto` search gives up only after every backend able to
  serve it was tried, its asker is told the last failure, a mock serves what it can
  (both but for an exception that is no `BackendError`, section 6), and an answer belongs to the question it is given to.
- *Layers*: a refusal costs nothing further in, and every handled answer has the headers
  its receiver needs.
- *Assembly, registry, health*: the service offers what is configured or does not
  start, its health fits the probes, and an orderly stop leaves nothing open.
- *Rate limiter*: memory and bursts are bounded.
- *Throttle*: guesses per window are bounded and a lock always ends.

---

## 2. Module by module

```
 NaturalBounds        Auction     AdsTables
                          \       /      \
                          AdsStore ====> ClickLedger      (AdsStore implements it
                                                           when handlers do not overlap)

 CircuitBreaker   RoutingPolicy        RateLimiter   LoginThrottle
            \      /                           \      /
          SearchRouting   BackendAdapter     RequestGates    BackendRegistry   SchemaMigration
                    \      /        \             ||                     \       /
                  SearchPages        \     RequestPipeline            ServiceLifecycle
                                      \______________________________/
```

`====>` and `||` are refinements: RequestPipeline implements RequestGates. SearchPages
takes the steps of SearchRouting, and ServiceLifecycle those of SchemaMigration.

Each system module has an `MC...` module with the constants of its small
instances, and `...Proofs` modules hold the theorems (section 5). A definition
under the heading "Mutant" in a comment is a plausible wrong form of the
definition next to it, used only to see that the properties notice it.

### Auction

`select_winner` over a set of candidates ordered as `_collect_candidates` sorts
them. `Leaders` is whoever may stand first, `Price` the quoted cost per click:
second price plus one, at most the own bid, at least one; half the bid for a
lone bidder. Created-at stamps are left out: rows are stamped in insertion
order, and the id orders live rows the same way. `Leaders` is a set because a stale
phrase snapshot can hold a deleted bid next to a new one with its id.

### AdsTables

The four tables as one record, and the effect of each write statement with its
UNIQUE indexes, foreign keys, cascades and CHECKs. `users` is the set
`accounts` and the function `wallet`; usernames are case-folded accounts,
`slot` is `(query_normalized, match_mode)`. Titles, URLs and time stamps are
left out. `INTEGER PRIMARY KEY` without `AUTOINCREMENT` hands out one more
than the largest live id (`NextId`), so ids of deleted bids come back.
`billed` is a history variable: what click rows ever charged each account,
which survives the cascade of a deleted bid. Click rows are a set, as the unique index has
it: that an equal second row is refused is taken from SQLite, not shown.

The predicates `Linked`, `Opened`, `OwnQuotes`, `InBalance`, `InRange`,
`ClickedOnce` and `AsQuoted` say what a database says together; `InOrder` is
their conjunction.

### ClickLedger

The abstract specification of the ads layer: what it promises an advertiser
when each of sign-up, bid, deletion, showing an ad and billing a click is one
indivisible change of the books. `record_click` states the promise
("Atomically bill a click and persist it", storage.py:500).

### AdsStore

The program. `db` is what any statement on the connection sees, `saved` what the
last COMMIT left, `txn` whether a transaction is open. `queue` is the central
abstraction of the scheduling: each `await conn.execute(...)` hands one
operation to the worker thread's FIFO queue; results come back to the event loop
in the same order, and each resumed handler immediately hands over its next
operation. So the handlers in progress take turns, and *only* new arrivals and
the lengths of the statement sequences decide the interleaving. An action is one
operation together with the handler code up to its next await.

| Actions | Code |
|---|---|
| `Execute`, `Fetch`, `Closes` | `async with conn.execute(...) as cur: await cur.fetchone()`: three turns (execute, fetch, close); `fetchall` may still see later writes |
| `LookedUp`, `Signup` | `AdsService.register`, `AdsStore.create_user` |
| `Session`, `Upsert`, `Unbid`, `Readback` | `require_user`, `place_bid`/`upsert_bid`, `delete_bid` |
| `Replayed`, `Exact`, `Phrase`, `Seen`, `Quote`, `Again` | `run_auction`, the candidate lists, `record_impression` |
| `Target`, `Owner`, `Dupe`, `Quoted`, `Debit`, `Insert` | `record_click` of the service and the store |
| `Begin`, `CommitStep`, `RollbackStep`, `Undo` | the explicit transactions and their except clauses |
| `Expire` | the phrase pool's ttl passes |
| `Crash` | the process dies and starts again on the same file |
| `Arrive` | a request reaches its handler |

`held` keeps what a handler remembers across awaits (a search's candidates, a
click's bid row), `charged` the price of a click, `rows` the open cursor's
result. Whatever is in a local variable of a handler and not used any more is
reset, which only merges states.

`SpentStaysSpent` is what is left of atomicity when handlers do overlap: a ROLLBACK may
undo what is not committed, and a COMMIT may publish half of it, but what is committed of
an account is never taken back. `AnswersCommitted` is about the answer itself: what a handler confirms is in the
committed tables. It holds of handlers that do not overlap; a ROLLBACK of another
handler between a write and its COMMIT breaks it (section 6).

Python's sqlite3 opens a transaction before INSERT/UPDATE/DELETE; hence
`Write` sets `txn`, and a failed INSERT (`Signup` of a taken name) leaves the
transaction open.

### CircuitBreaker, RoutingPolicy, SearchRouting

`CircuitBreaker` is one `_BreakerState` and what `_maybe_recover`, `acquire`,
`_record_success` and `_record_failure` do to it. The code's only question to
the clock is whether `recovery_timeout_seconds` have passed since `opened_at`;
`rested` is the answer. The asyncio lock is never contended because nothing
awaits while it is held.

`RoutingPolicy` holds `_rule_match`, `_candidates`, `_make_requires` and the
cache key. Capabilities are reduced to what routing asks: the kinds served,
pagination, and the language parameter. A backend name of `""` is treated as
`auto`, as the code does. Languages are primary subtags, the form in which
rules and requests are compared.

`SearchRouting` has one process per request. An action runs from one await to
the next: `AskNext` is the part of the attempt loop between two awaits, in which
any number of candidates can be skipped (incapable or refused by their breaker)
before one is called. `Respond`, `Fail` and `Raise` are the three ways a
call ends: a response, a `BackendError`, any other exception. `Hit`, `Miss` and
`Store` are the cache's; a cache that cannot be read is a miss, one that cannot
be written is a lost write. `Evict` is the ttl, `Rest` the clock, `Inspect` the
listing of backends, which may move a breaker on. Requests that may not use the
cache (`cache=false`, `time_range=day`, the HTML page) have `eligible = FALSE`.

### BackendAdapter, SearchPages

`BackendAdapter` says what one reply comes to: `Post` is `_post` with the errors of
`BaseBackend` and the size cap (a declared length is believed), `SearchEnd` what is left
of it for a search, `HealthCheck` for a probe. Results are validated outside of any
translation of errors, hence an answer of status 200 can end in "other exception".

`SearchPages` puts the two askers around SearchRouting and the replies behind it. A
page is `Open`, then an auction whose end is either the search or a query the model does
not admit (`AuctionEnds`); an API search is `Ask`. A call ends as some reply of its
backend decides (`Answered`, `Failing`, `Raising`), and a mock answers. `raised` is
`last_exc`: `Tells` keeps the last candidate that failed or whose breaker refused in
the step. `StatusOf` is the handlers of `errors.py`, and the page that shows an error
with status 200.

### RateLimiter, LoginThrottle, RequestGates

Time is "ticks left": a window is its count and the time left to `reset_at`, an
entry of the throttle its failures and the time left to the lock's end. That is
what the code compares, and it keeps the state finite without a bound on the
clock. `Swept` follows `_maybe_sweep`: expired windows go, then the oldest beyond the
cap; among equal `reset_at` the choice is left open. `RequestGates` composes the
two: a request passes the limiter in one step, a login then asks the throttle
(`Login`), awaits the user's row and records the outcome (`Verify`), so that
several logins for one account can be between the two. `recent` is history: the
admissions of one watched client by age, and `Admissions` their set, so that
`BurstBounded` counts them.

### RequestPipeline

The layers in the order of `add_middleware` (`Added`; a later one is further out), with
those a configuration may leave out. `Answerer` is the outermost layer that stops a
request: a preflight ends at CORS, an unknown host at TrustedHost, an unsafe request
from elsewhere at the origin check, each if installed. `Enters` is the limiter's part: a request that is
answered further out leaves the counters alone. `Headers` is what an answer has when it leaves: the
layers around its maker, and the request id that the 429 and the 403 write
themselves. An unhandled exception is answered by Starlette's outermost layer
(`Outermost`), around which there is nothing. `Serve` is any request but a login,
`SignIn` and `Finish` are the two halves of a login. The specification implements that of
RequestGates (`GatesKept`).

### SchemaMigration

`AdsStore.open` and `init_schema`, one action per statement, on any database an
earlier version can have left (`Deployments`: none, the first version's, one with
the new bids table but unpriced clicks, the present one). The sqlite facts it
rests on: outside of BEGIN, CREATE and ALTER are on disk at once; UPDATE opens
a transaction; DROP TABLE with foreign keys enforced deletes referring rows;
`PRAGMA foreign_keys` is per connection. `Rollback` is the except clause of the
rebuild, `Crash` the end of the process before any statement, `Close` is `aclose`.

### BackendRegistry, ServiceLifecycle

`BackendRegistry.Instances` is what `_instantiate` may end with: an adapter, a mock if there are
no credentials for a built-in type, nothing, or an exception that nobody catches
(an adapter that is given an IAM token but no API key). A plugin's factory may do any of it.

`ServiceLifecycle` is one process after another on the same database: `Start`
(`create_app`, which decides about the session key), `Build` (one round of
`build_registry`), `ConnectCache`, `Migrate` (the actions of SchemaMigration), then
`AskHealth`, `Probe` and `AnswerHealth` while it serves, and `Stop`, `CloseHttp`,
`CloseCache`, `CloseAds`. `MigrationFails`, `CloseFails` and `Die` end the process where it stands,
and the next one starts on what it left.

### NaturalBounds

Two operators, the least and the greatest element of a set of naturals, in the
form the proofs use them.

---

## 3. Runs

| Run | Module | Properties | Distinct states, or outcome | What it shows |
|---|---|---|---|---|
| `ClickLedger` | MCClickLedger | `TypeOK`, `Balanced`, `Solvent`, `ChargedAsQuoted`, `BilledOnce` | 204,837 | The promised ledger keeps its books: two advertisers, bid ids that are given out again, repeated and unquoted clicks. |
| `AdsSerial` | MCAdsStore | `TypeOK`, `PoolCurrent`, `KeepsTheBooks`, `AnswersCommitted` | 310,624 | Handlers that do not overlap implement the promised ledger, keep the phrase pool current and confirm only what is committed, with a crash at any statement. |
| `AdsInterleaved` | MCAdsStore | `SpentStaysSpent`, `RowsLinked`, `NeverBilledTwice`, `WalletsInRange`, `NoStrayTransaction` | 859,000 | What survives any interleaving of three handlers on the one connection, rollbacks of each other's transactions included. |
| `AdsProgress` | MCAdsStore | `EveryRequestAnswered` | 109,389 | Sign-ups that collide and clicks whose BEGIN is refused are all answered, across a crash. |
| `AdsRacingClicks` | MCAdsStore | `Balanced` | violated | Two clicks in flight: the rollback of the one whose BEGIN fails undoes the other's debit, whose click row is then committed as charged. |
| `AdsStalePool` | MCAdsStore | `PoolCurrent` | violated | A search that read the phrase bids before an edit caches its snapshot after the edit dropped the pool. |
| `SearchBreakers` | MCSearchRouting | `TypeOK`, `ClosedBelowThreshold`, `SlotsBacked`, `FailsLast`, `OwnAnswer` | 156,771 | Four searches over two backends and the shared cache, late answers and recoveries in any order: breaker state, probe slots and the fallback order stay right and nobody gets an answer to something else. |
| `SearchPages` | MCSearchPages | `FailureTold`, `MocksStandIn`, `EveryVisitAnswered`, `NeverLockedOut` | 144,973 | A page with its auction and two API searches over two backends, each an adapter that times out, refuses, misbehaves or answers, or a mock: everybody is answered, told the right failure, served while a mock can serve, and no breaker refuses for ever. |
| `RequestGates` | MCRequestPipeline | `PipeTypeOK`, `TrackedBounded`, `BurstBounded`, `AttemptsBounded`, `AnswersDressed`, `NeverLockedOut`, `RefusedInOrder`, `GatesKept` | 42,151 | Four clients over a window table with room for two, and overlapping logins on an account, behind every layer create_app can install: memory, bursts and password attempts stay bounded, every lock ends, refusals happen in the order of the layers and answers have their headers. |
| `SchemaMigration` | MCServiceLifecycle | `LifeTypeOK`, `NothingLost`, `UpToDate`, `SpendKeptUncut`, `ServesAsConfigured`, `HealthFits`, `ClosedInOrder`, `StartsAndStopsEnd` | 250,245 | Every database an earlier version can leave is upgraded whole by services that start, fail, serve, die and stop, with the upgrade cut off at any two statements; five configurations of two backends are offered as configured, health fits what the probes met, and an orderly stop closes everything. |
| `MigrationCutOff` | MCSchemaMigration | `SpendKept` | violated | A start that dies between ALTER TABLE and the COMMIT of the backfill leaves a column that the next start takes for done. |
| `SearchCachedPage` | MCSearchRouting | `PageAsAsked` | violated | Page 1 of a named backend without pagination is answered with the cached page 0. |

### Bounds, and why they are enough

- **Handlers in progress.** Two handlers are enough for every race of one
  transaction with another; the third in AdsInterleaved lets a handler roll back or
  commit for one while another begins anew in between. With the FIFO queue a
  fourth adds lengths, not kinds, of interleavings, and the theorems of section
  5 hold for any number.
- **Ads data.** One query that an exact and a phrase bid match; two advertisers
  with bids of 3 and 2 out of wallets of 4, so that a wallet covers one click and not
  two; an impression that exists and a request id that has none; a third account
  for sign-ups. The start is a database the program can have left (`InOrder`,
  which TLC evaluates). AdsSerial adds a crash before any statement, three
  requests one after another (for instance place, search, click, or delete,
  place again, click with the old request id) from a workload of twelve.
- **ClickLedger** starts empty and gives out up to three bid ids, so an id is
  given out again while request ids of the earlier bid are still around.
- **Searches.** Two backends, one of which cannot paginate nor serve images, a
  configured name that is not registered, a rule for images. Threshold 2 needs
  two failures to open a breaker, so a late success between them matters;
  four searches are two to open it, a probe, and a call from before. One
  probe slot is the default. The query never varies in the runs; that queries do
  not mix is proved (`AnswersFit`).
- **Pages.** One page and two API searches, for the caller of a late answer, a failure and
  a probe; threshold 1, so each failure opens a breaker; any subset of the two
  backends are mocks (all four are initial states); four replies, one for each way a
  call ends: results, results that do not fit, a refused request, a timeout. No rule is
  configured, as those of SearchBreakers match none of these searches; the theorems hold for
  all rules.
- **Gates.** Four clients for a table with room for two, so that sweeps find
  it one over; a limit of 1 in a window of 2 ticks; a sweep every third call;
  a lock at 2 attempts for 2 ticks, with two logins in progress. The ticks are
  fewer than the code's seconds, yet longer than the steps between them, as
  any number of requests may come within a tick. Every layer is installed; that a
  deployment may leave some out is covered by the theorems. The requests include one
  that three layers have a reason to refuse.
- **Migration.** Two bids with a click each and a third click nobody quoted;
  two interrupted starts, so that a start also repeats what a repeated start
  left. All deployments over these rows are initial states.
- **Services.** Two backends in five configurations: an adapter next to a mock with ads
  and a secret, a plugin next to an adapter without ads, a token without a key next to an unknown
  type, one that is off next to a plugin with a made-up key, and a service that must not
  start. Four replies to a probe, one for each way it counts. Twice a process may die or fail
  while its database is open; failures elsewhere are unbounded.

---

## 4. Fairness and deadlock

- `AdsStore`: weak fairness of "some handler's operation is served". The
  worker thread and the event loop run while there is something in the queue. Nothing is assumed of
  a particular handler: that each gets its turn is what the FIFO gives, and
  `EveryRequestAnswered` shows it. No request has to arrive, no pool to expire.
- `SearchRouting`: weak fairness of each request's next step. Backend calls end
  because the adapter passes a timeout to every request (search_router.py:136).
  For the cache it is an assumption about the environment: `RedisCache.from_url`
  sets no socket timeout, so a search ends only if Redis answers or the connection
  breaks. And weak fairness of `Rest(b)`, because the clock goes on. Nobody has to
  search or to list backends.
- `SearchPages`: the same, `GoOn(t)` for the next step of each request. That it contains
  the end of an auction is justified by AdsStore, where `EveryRequestAnswered` holds.
- `RequestGates`, `RequestPipeline`: weak fairness of the clock, in the same form, so that the
  one implements the other with it.
- `ServiceLifecycle`: weak fairness of `Continue`, what goes on by itself once it has
  begun: the event loop runs what can run, and probes end because every HTTP request
  has a timeout. Nobody has to start or stop the service or ask for its health, and it may die.
- `SchemaMigration`, `ClickLedger`: safety only, no fairness.

Deadlock is checked in RequestGates, which never stops. The others stop when
their finitely many requests are answered (AdsStore, SearchRouting, SearchPages), when the
books admit no further entry (ClickLedger), when the database is open
(SchemaMigration) or because a service must not start, for want of a secret
(ServiceLifecycle), and say `CHECK_DEADLOCK FALSE`. That nothing stops earlier is
checked as liveness (`EveryRequestAnswered`, `EveryVisitAnswered`, `StartsAndStopsEnd`).

---

## 5. Proofs

All theorems hold for every value of the constants within the named
assumptions (`ASSUME`), which are: a sign-up balance and crash bounds are
naturals, bid amounts and limits are positive, configured and registered
names are sequences over the names, requests, clients and logins in progress
are finite sets, and the initial database is `InOrder`. The breaker's threshold
is positive, as its constructor demands; its probe limit may be any integer, 0 included,
which admits no probe. Of a configuration it is assumed that no backend is listed twice and that
no plugin has the type nobody knows; of the layers, that the limiter, the security
headers and the request id are installed. Two assumptions belong to theorems, which name them:
`Serial` (`MaxOpen = 1` and finitely many handlers) for AdsSerialProofs, and `NoSignups`
for `TransactionsEnd`.

| Module | Theorem | Property of a run | Establishes |
|---|---|---|---|
| AdsTablesProofs | `PriceWithinBid` | - | select_winner never quotes less than 1 or more than the winner's own bid, for any finite candidate list. |
| AdsTablesProofs | `RivalsSetThePrice` | - | With a rival, what a winner pays does not depend on how much more it bids: one coin more than the best of the others, for any finite candidate list. |
| ClickLedgerProofs | `TypesHold` | `TypeOK` | Type correctness of the promised ledger. |
| ClickLedgerProofs | `BooksBalance` | `Balanced` | In the promised ledger wallets and billed clicks always add up to the sign-up balances. |
| ClickLedgerProofs | `WalletsSolvent` | `Solvent` | No sequence of clicks overdraws a wallet. |
| ClickLedgerProofs | `ChargesQuoted` | `ChargedAsQuoted` | Every charged click has the impression that quoted it, although bid ids are reused. |
| ClickLedgerProofs | `ViewsBilledOnce` | `BilledOnce` | No page view is billed twice. |
| AdsStoreProofs | `TypesHold` | `TypeOK` | Type correctness of the program's interleaved handlers, including what each knows at each step. |
| AdsStoreProofs | `RowsStayLinked` | `RowsLinked` | For any number of handlers in any interleaving the tables keep their keys and references. |
| AdsStoreProofs | `ClicksBilledOnce` | `NeverBilledTwice` | For any interleaving a page view has at most one click row per bid. |
| AdsStoreProofs | `WalletsStayInRange` | `WalletsInRange` | For any interleaving of debits and rollbacks no wallet leaves its range. |
| AdsStoreProofs | `TransactionsEnd` | `NoStrayTransaction` | Without sign-ups, which may leave one open, no transaction outlives the handlers that use it, however they interleave and roll back each other's. |
| AdsStoreProofs | `SpendingIsFinal` | `SpentStaysSpent` | However handlers commit and roll back each other's half-done work, no committed debit, bill or account is ever undone. |
| AdsStoreProofs | `HandlersAdvance` | - | Every turn of a handler leaves it fewer turns to take, whatever the others do to the connection: the safety core of EveryRequestAnswered. |
| AdsSerialProofs | `PoolStaysCurrent` | `PoolCurrent` | Handlers that do not overlap never leave a stale phrase pool, for every database and crash. |
| AdsSerialProofs | `TheBooksAreKept` | `KeepsTheBooks` | Handlers that do not overlap implement the promised ledger, statement by statement and with a crash at any of them. |
| AdsSerialProofs | `TheFileStaysInOrder` | - | Handlers that do not overlap keep the committed wallets and bills in balance, the wallets in range, charges as quoted and views billed once (which overlapping ones do not, AdsRacingClicks). |
| AdsSerialProofs | `ConfirmedIsCommitted` | `AnswersCommitted` | What a handler that does not overlap confirms is in the committed tables. |
| SearchRoutingProofs | `TypesHold` | `TypeOK` | Types, and that a search in progress is at a candidate that can serve it. |
| SearchRoutingProofs | `StateFollowsFailures` | `ClosedBelowThreshold` | Whatever late answers arrive, a breaker is closed exactly while below its threshold. |
| SearchRoutingProofs | `NoSlotLeaks` | `SlotsBacked` | Probe slots never leak and never exceed their limit, for any number of calls. |
| SearchRoutingProofs | `NoRefusalIsFinal` | - | A breaker that admits probes at all refuses only while its rest or the end of a call in progress is still to come: the safety core of NeverLockedOut. |
| SearchRoutingProofs | `EveryCapableBackendTried` | `FailsLast` | For every configuration, an auto search fails only after every capable backend was attempted and is unsupported only if there is none; an exception that is no BackendError ends it earlier, with everybody up to the candidate that raised it attempted. |
| SearchRoutingProofs | `CalledInTurnAndOnce` | - | No search calls a backend twice, or before every capable one ahead of it in the candidates' order had its turn. |
| SearchRoutingProofs | `SearchesAdvance` | - | Every step of a search brings it nearer to its answer by a measure its candidates bound, and an answer is final. |
| SearchRoutingProofs | `AnswersFit` | `OwnAnswer` | Nobody gets an answer of another kind, query or backend, from a backend or from the cache. |
| SearchRoutingProofs | `PagesKeepTheSearches` | - | TypeOK, ClosedBelowThreshold, SlotsBacked, FailsLast and OwnAnswer hold of pages and API searches whose calls end as the backends' replies decide. |
| SearchRoutingProofs | `MocksServe` | `MocksStandIn` | A search that a mock can serve neither fails nor is unsupported, whatever is configured, whatever BackendErrors other backends raise and whatever the breakers have seen; only a reply to an adapter that is raised as another exception, before any mock was tried, can end it unserved. |
| SearchRoutingProofs | `TheLastFailureIsTold` | `FailureTold` | The exception told is that of the last candidate able to serve the search, for every order, and 400 is told for no other reason than that one's or no candidate. |
| SearchRoutingProofs | `VisitsAdvance` | - | The same of pages with their auctions and of API searches over real replies: the safety core of EveryVisitAnswered. |
| RequestGatesProofs | `TypesHold` | - | Type correctness of limiter, throttle and logins in progress, for any number of clients and accounts. |
| RequestGatesProofs | `MemoryBounded` | `TrackedBounded` | However many clients keep their windows live, at most one more than the cap is tracked. |
| RequestGatesProofs | `BurstsBounded` | `BurstBounded` | Within any window's time a client gets through at most twice the limit; and every admission of that time is counted, unless more than the cap of clients had live windows and a sweep could drop the client's own, which begins its budget anew. |
| RequestGatesProofs | `OthersUntouched` | - | No request of one client takes from or adds to the live window of another while no more than the cap have one. |
| RequestGatesProofs | `GuessesBounded` | `AttemptsBounded` | Within a lockout window an account is tried at most max_attempts - 1 times and once per login in progress, for any interleaving of the checks. |
| RequestGatesProofs | `LocksRunOut` | - | Every tick shortens a lock that runs, and no login, in flight or refused, lengthens it: the safety core of its NeverLockedOut. |
| RequestGatesProofs | `LayersKeepTheGates` | - | Behind any layers create_app can install, limiter and throttle take only the steps they take on their own (without the fairness of the clock, which GatesKept adds). |
| RequestGatesProofs | `LayeredTypes` | `PipeTypeOK` | Types of the counters and the answers behind the layers, for any configuration of them. |
| RequestGatesProofs | `LayeredBounds` | - | The bounds on memory, bursts (with the exception of BurstsBounded) and guesses hold for requests that come through the layers. |
| RequestGatesProofs | `AnswersAlwaysDressed` | `AnswersDressed` | For any set of installed layers an answer carries the headers of every layer it needs, whoever made it. |
| RequestGatesProofs | `RefusalsInOrder` | `RefusedInOrder` | For any set of installed layers a refusal further out costs nothing further in, and the limiter refuses only a client whose budget is used up. |
| ServiceLifecycleProofs | `TypesHold` | - | Type correctness of the upgrade, and that only a transaction keeps the connection's view from the disk. |
| ServiceLifecycleProofs | `UpgradesLoseNothing` | `NothingLost` | Any number of starts, cut off anywhere, lose no bid and no click of any earlier database: the committed bids stay the same rows, their table is there, and the clicks that refer to them too. |
| ServiceLifecycleProofs | `UpgradesComplete` | `UpToDate` | When the service is up the schema is the present one, committed and with references enforced. |
| ServiceLifecycleProofs | `UncutUpgradesKeepSpend` | `SpendKeptUncut` | An upgrade that was never cut off leaves every click at the price of its impression. |
| ServiceLifecycleProofs | `ServicesLoseNothing` | `NothingLost` | No bid and no click is lost by whole services either, which also fail elsewhere, stop and close. |
| ServiceLifecycleProofs | `ServicesRunUpToDate` | `UpToDate` | A database that is open to requests of a service has the present schema. |
| ServiceLifecycleProofs | `ServicesKeepSpend` | `SpendKeptUncut` | Services that were never cut off keep what the clicks cost. |
| ServiceLifecycleProofs | `ServicesTyped` | `LifeTypeOK` | Types, and at which stages of the service the database is open. |
| ServiceLifecycleProofs | `ServicesCloseWhatTheyOpen` | `ClosedInOrder` | A stop in which nothing failed leaves nothing open. |
| ServiceLifecycleProofs | `ServicesServeAsConfigured` | `ServesAsConfigured` | For every list of backends and every configuration the backends offered are those enabled and known, in order, real ones with credentials only. |
| ServiceLifecycleProofs | `HealthIsTold` | `HealthFits` | For any number of backends and outcomes the status of /health fits what the probes met. |
| ServiceLifecycleProofs | `StartsAndStopsAdvance` | - | Each step of a start, a stop or a health request brings it nearer to its end, by a measure the number of backends bounds: the safety core of StartsAndStopsEnd. |

### The arguments

**ClickLedgerProofs.** `Inv == Sound(ledger)`: `InOrder`, and bids bounded. None of the four
properties is inductive alone: `Balanced` needs that clicks are billed to the
owner of the bid, hence `OwnQuotes`; `ChargedAsQuoted` needs that an impression
goes only with its bid (`Linked`) and that a fresh bid has no old impressions
although its id is used again, which holds because deletions cascade. That each
entry of the books keeps a database `Sound`, and each write statement keeps it `Intact`,
are lemmas of `AdsTablesProofs` about one database record, which this proof and those of
AdsStore share.

**AdsStoreProofs.** `Inv == StoreOK /\ PoolOK /\ HandlersOK`. Both databases,
the open one and the committed one, are *Intact* (linked, clicked once, in range),
and they are equal outside of a transaction, so that COMMIT and ROLLBACK by
anybody preserve this. `HandlersOK` says that each handler is at a step of its own
request, reads rows of the right table and, once it bills, knows its payer. That no balance is part of
`Intact` is the point: RowsLinked, NeverBilledTwice and WalletsInRange survive
arbitrary interleavings because each *statement* preserves them; Balanced does
not, because it needs two statements to stay together (finding 1).
`TransactionsEnd` adds `Tidy`: every handler in progress waits in the queue, and an
open transaction is that of a handler at one of the steps between a write and its end. With an
empty queue there is none left. `SpendingIsFinal` rests on `Ahead`: the connection's view has
spent at least what the file has (`Spends`), since every statement only debits and bills, so
a COMMIT can only add to what is spent and a ROLLBACK only gives up the lead.
`HandlersAdvance` gives each handler a rank, `TurnsLeft`: three turns for each operation on the
longest way through its code that is still ahead, less those taken for the present one.

**AdsSerialProofs.** `Alone == TakeTurns /\ Files`. `TakeTurns` says that whoever is in
progress is the only one in the queue, and where it stands: outside of a transaction it
sees the file itself (`Reads`), what it has read is still so (`Knows`), a debit that is not
committed is that of its own click (`Bills`), and at its COMMIT the view is the file changed by exactly one
operation of the ledger (`Changes`). So every step but a COMMIT is a stutter of
ClickLedger, and a COMMIT, even one cut off by a crash right after it, is one of its actions; that is
`TheBooksAreKept`. What the ledger promises therefore holds of the file
(`TheFileStaysInOrder`, by the lemmas about entries). `Files` says that a pool that is set fits the file, and that no
more bid ids were given out than requests could, which the ledger's bound asks for.

**SearchRoutingProofs.** `Inv == StateOK /\ CacheOK /\ BreakersOK /\ HandlersOK`.
For `FailsLast`, the attempted backends of a search in progress are exactly the
capable candidates up to its current place, also when the call there ends it with an
exception that `_route` does not catch; the lemma `AskNextOutcome` says what
the loop leaves behind from any place, and the rest follows from `Order` ending
with all registered backends. The same lemma says that the loop only moves on and stops at the
next candidate that can serve; hence `CalledInTurnAndOnce`, and the rank of `SearchesAdvance`:
the candidates left, and the steps around a call. `NoRefusalIsFinal` reads off
`SlotsBacked` that a half-open breaker which refuses has a call in progress, and an open one
that was not looked at has its rest to come. For `SlotsBacked`, the slots of a half-open breaker
never exceed the calls in progress; a late answer that clears the slots of other
probes only lowers them. For `OwnAnswer`, every cache entry is under the key of
a search that its response fits. `PagesInv` carries this over to SearchPages, whose steps are
those of SearchRouting (`PagesStep`), and adds that a mock's breaker never leaves closed,
that a search in progress has passed no mock which could serve it (so a mock's turn comes,
unless an adapter ahead of it raises what is no `BackendError`: `RaisedAlone`; `MocksServe`),
and that `raised` is about the last fitting candidate passed (`AskNextTells`, the loop's
account of `last_exc` from any place; `TheLastFailureIsTold`). `VisitsOK` says that whoever is
in an auction has no search yet, which puts the auction above the search in the rank of
`VisitsAdvance`.

**RequestGatesProofs.** `TrackedBounded` and `AttemptsBounded` are inductive with
the types. The latter counts failures *plus* checks in progress; a login adds a check only
below the lock, and a verified login turns a check into at most one failure.
`BurstsBounded` needs `BurstOK`: while the watched client's window is live, the admissions
younger than the window are exactly those it has counted, and the older ones are at most
`Limit`; without a live window none is of this tick and at most `Limit` are remembered. The
first admission of a new window makes those the older ones, a tick ages both, and a sweep of
expired windows changes neither. What the count leaves out is part of the theorem
(`HistoryKept`): nothing, but for the history before a step in which more clients than the cap
have live windows, the watched one among them, since a sweep may then drop its window and
hand out a fresh budget. `RefusedAtLimit`,
from the same invariant, says that a refusal finds a budget that is used up. For the layers,
`PipeStep` says that each step of RequestPipeline is one of RequestGates or leaves its
variables; `AnswersAlwaysDressed` and `RefusalsInOrder` need only where each layer
stands in `Added` (`Places`) and that the answerer is the outermost layer with a reason
(`AnswererOK`), whatever is installed.

**ServiceLifecycleProofs.** `Inv` relates each program point of the upgrade to what the
connection has done by then (`Achieved`), what the disk must still have (`RowsKept`) and,
without crashes, which clicks are priced (`Priced`). A step of a service is one of the
upgrade or leaves it alone (`LifeStep`), so the four theorems carry over. `LifeInv`
adds what is open at each stage (`OpenOK`) and that the registry is, entry by
entry, what the configured backends considered so far may become (`RegistryOK`). `StatusFits` relates
the summary of any set of statuses to its members. `StepsLeft` ranks the stages of a service,
with the backends still to build or to probe and the statements of the upgrade still to run
(`StartsAndStopsAdvance`).

**AdsTablesProofs, NaturalBounds**: what each write statement and each entry preserves; the
price of an auction lies between 1 and the winner's bid for every finite set of candidates, and
with a rival is set by the rivals alone; least and greatest elements of finite sets of naturals.

### Only model-checked

Every invariant and every safety action property of the passing runs is proved (those of
AdsSerial under `Serial`, `NoStrayTransaction` under `NoSignups`). Liveness is
not, because it is beyond what the prover handles: `EveryRequestAnswered`,
`EveryVisitAnswered`, `StartsAndStopsEnd`, both `NeverLockedOut`, and the fairness that
`GatesKept` carries over. For each of them the part that does not need fairness is proved, for
all values of the constants:

| Liveness, by TLC | Its safety core, by TLAPS | What is left to fairness |
|---|---|---|
| `EveryRequestAnswered` | `HandlersAdvance` | that the queue is served |
| `EveryVisitAnswered` | `VisitsAdvance`, `SearchesAdvance` | that calls, auctions and the cache answer |
| `StartsAndStopsEnd` | `StartsAndStopsAdvance` | that what has begun goes on |
| `NeverLockedOut` of a breaker | `NoRefusalIsFinal` | that calls end and the clock goes on |
| `NeverLockedOut` of an account | `LocksRunOut` | that the clock goes on |

That a step which advances is possible (ENABLED) is with TLC too.

---

## 6. Findings and observations

Each finding is a run that TLC refutes.

1. **A click is recorded as paid and the wallet is not debited** (AdsRacingClicks,
   `Balanced`; storage.py:565). Two clicks in flight on the shared connection:
   the first has begun and debited; the second's `BEGIN IMMEDIATE` is refused and
   its except clause rolls back *the first one's* transaction; the first goes on,
   its INSERT opens a new transaction and commits `charged > 0`. The docstrings say
   "Atomically bill a click and persist it" (500) and that concurrent auctions
   "take turns cleanly" (5-6).
2. **A stale phrase pool survives its invalidation** (AdsStalePool, `PoolCurrent`;
   storage.py:437). The snapshot read before an await is cached after an edit has
   committed and dropped the pool.
3. **Page 1 is answered with the cached page 0** (SearchCachedPage, `PageAsAsked`;
   cache.py:150). The key of a named backend that cannot paginate has no page, and the
   cache is asked before the capability gate is.
4. **An upgrade cut off after ALTER TABLE loses the spend of old clicks** (MigrationCutOff,
   `SpendKept`; storage.py:171). ALTER is committed at once, the backfill later,
   and the next start asks only for the column.

Observations that are in the models and contradict no property:

- Two sign-ups with one name: the second's INSERT raises an `IntegrityError` that
  nothing translates, and leaves a transaction open until somebody ends it
  (`Signup`). The next click or search on the idle connection is then refused
  once (`NoStrayTransaction` excludes sign-ups for that reason).
- Two overlapping deletions, or a deletion and a refused click: the ROLLBACK of one handler can undo
  a delete that another has executed and will confirm (`AnswersCommitted` holds of
  handlers that do not overlap).
- A click whose bid is deleted between look-up and INSERT answers 500.
- An exception that is no `BackendError` ends an `auto` search (`Raise`) with a 500: a reply
  with an item that makes no `WebResult` (search_router.py:173) raises a `ValidationError`,
  which `_route` does not catch (router.py:133), and a capable backend or mock after that
  candidate is never tried. docs/architecture.md:47-48 says of it "On exception from a
  candidate, records the failure on the breaker and advances to the next candidate (only when
  `backend=auto`)". `FailsLast` and `MocksStandIn` state what holds: who was attempted by then.
- The "hard cap" of rate_limit.py:31 is exceeded by one (`TrackedBounded` states
  the bound that holds).
- Concurrent logins pass the lock together: up to `MaxAttempts - 1` plus the
  number in progress (`AttemptsBounded`).
- security_headers.py speaks of "every response"; answers of layers further out (429,
  unknown host, preflight) and of the unhandled-error handler leave without them
  (`AnswersDressed` states who gets what). The 429 and the 403 carry a request id of their
  own, not the one the client sent.
- A page with a query that the request model refuses holds its auction first, records an
  impression, and then answers 500 (`AuctionEnds`).
- What an `auto` search that fails is told is the last candidate's failure, so one
  backend's 400 hides the timeouts before it; and a 400 counts against the
  breaker of the backend that gave it.
- A backend configured with an IAM token and no API key keeps the whole service from starting
  (`Instances`): its `ValueError` is not the `ConfigurationError` the registry catches.
- With no backend registered `/health` says "ok".
- A close that fails skips the closes after it, and a start that fails closes nothing
  (`ClosedInOrder` is about stops in which nothing failed).
- `max_response_size_mb = 0` keeps the default cap of 5 MB.
- docs/architecture.md:42 names sha256 for the cache key, the code uses blake2b;
  docs/deployment.md:41 calls rate limiting a disabled skeleton, the code limits.

---

## 7. What is not modelled

- *Cancellation*: a search whose client goes away ends like `Raise`; a cancelled ads
  handler, which leaves its transaction to the next ROLLBACK or COMMIT, is not in
  AdsStore.
- *Text*: payloads, the parsing of result items, rendering, translations, logging, and
  the values of headers and ids: formatting without state that others use.
- *Parsing of configurations* (YAML, environment variables): a configuration is one of a set.
  `rate_limit_per_minute = 0`, which installs no limiter, is left out.
- *Session cookies*: signed client-side state; a session here is one read of the
  user's row, as `require_user` does.
- *Statistics queries*: they read only; their turns on the connection would only
  lengthen the gaps between other statements.
- *Passwords*: `Verify` has the three outcomes.
- *The cache's ping* in `/health`: it is reported on its own and enters no status.
- *Rows that `_SCHEMA` refuses*: `CREATE UNIQUE INDEX clicks_unique_by_request`
  would fail on an old file with duplicate clicks; `SchemaMigration` starts from
  files without them.
- *Power loss* with `synchronous=NORMAL`: a crash is the end of the process.
- *Replicas*: breakers, limiter and throttle are per process (docs/deployment.md:47
  says so of the breakers), so each replica is an instance of the models. What several
  replicas do to a shared Redis is what several searches do to `cache`; several
  processes on one SQLite file are not modelled.

---

## 8. Plan

The order in which the development grows.

1. (done) The ads core: AdsTables, ClickLedger, AdsStore; the search core:
   CircuitBreaker, RoutingPolicy, SearchRouting; the gates; the migrations; their
   runs and first theorems.
2. (done) Around the core: the layers of the application over the gates
   (RequestPipeline); the replies of backends, mocks, pages and what a failed search is told
   (BackendAdapter, SearchPages); registry, start, health and stop of the service over
   the migrations (BackendRegistry, ServiceLifecycle).
3. (done) The refinement of ClickLedger by handlers that do not overlap, `PoolCurrent` and
   `AnswersCommitted` in the same setting, `NoStrayTransaction` without sign-ups, and the
   theorems about the modules of part 2.
4. (done) `BurstBounded` as the size of a set, which can be proved; `SpentStaysSpent`; the books of the
   committed file; the safety cores of the liveness properties; who is called, when and how often.
5. (open) Cancelled handlers in AdsStore, whose transactions are left to others; several
   processes on one SQLite file; the workload of AdsInterleaved with bids of more than one
   query; a bound on what overlapping clicks can leave unpaid (finding 1), and its proof.
