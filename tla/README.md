# Verification of Diallo-sup

Diallo-sup is the supervision console of a fleet of Mac mini ("M4") installed in
schools. Each M4 pushes telemetry to a FastAPI service; the service stores it in
SQLite and serves aggregated views to a React console used by a few
administrators, who authenticate with a password and a TOTP code.

This directory holds TLA+ models of that program, the TLC configurations that
check them, and theorems about them that TLAPS checks. `PROJECT.json` lists the
runs, the mutants, the source lines each definition stands for, the findings
and the hazards.

Run a model with `tlc -config <X>.cfg <Module>.tla` and a proof with
`tlapm <Module>.tla`.

## 1. Inventory

| Component | State | Operations | Interacts with | Hard because |
|---|---|---|---|---|
| **Admin authentication, MFA** `app/api/auth_admin.py`, `services/auth_lockout.py`, `core/{recovery_codes,totp,crypto,jwt}.py` | the row of `users`; tokens in cookies; `.env` | login, totp/enroll, totp/confirm, verify-totp, logout, me | browser (one cookie), database, `.env` | handlers run in a pool of threads: one read of the row, one write later, no lock, no version; token expiry; restarts; key rotation |
| **Establishments, API keys** `app/api/establishments.py`, `deps.py` | table `etablissements` | create, authenticate a push, re-read heartbeats | ingestion | check then insert |
| **Ingestion** `app/services/ingest.py` | `raw_pushes` and five tables | store_push | M4 collector (not in this repository) | retries with no identity, reception order against commit order |
| **Fleet aggregation** `app/services/fleet.py` | none (reads) | health, usage, history, detail | database, clock | windows, boundaries, "latest" of several tables read one after the other |
| **Overviews** `app/services/{incidents,reports,inventory,settings}.py` | none (reads) | aggregations over windows | database, clock | an instant and calendar days mixed |
| **Database, application start** `app/core/db.py`, `main.py` | connection pool | session per request | all handlers | write lock of SQLite |
| **Scripts** `app/scripts/*.py` | `.env`, schema, rows | init_secrets, create_admin, migrate_phase_b, seed_fleet | service, at its next restart | read-modify-write of a file, crash in the middle |
| **Console: authentication** `frontend/src/auth/*`, `pages/auth/Login.tsx`, `lib/api.ts` | auth state, step of the login page, cookie jar | submit, enrol, confirm, verify, logout, 401 listener | auth endpoints | late answers, double submits, one cookie for two purposes |
| **Console: polling** `hooks/usePolling.ts`, pages | data, error, loading | poll, change address, unmount | read endpoints | polls overlap, answers out of order |
| **Operations** `ops/*.plist` | process | restart | everything | requests in flight are lost |

What makes each correct:

* authentication - a session needs an enrolment; an enrolment is final and its
  secret one the owner has used; a recovery code opens one session; the lockout
  counts every failure, is cleared by a session only, and lapses;
* ingestion - what was acknowledged is stored once, whole or not at all;
* aggregation - totals count each reported thing once, windows agree with each
  other, and health follows the newest push;
* console - what is shown belongs to the address and the session on screen.

## 2. Plan

Built, in this order; a component's model comes with its runs and its proofs.

| Section | Component | Modules | Proofs |
|---|---|---|---|
| 3 | one admin account | `AuthAccount`, against `AuthLifecycle` and `AuthSerial`; `MCAuthAccount` | `AuthAccountProofs` |
| 4 | polling | `Polling` | `PollingProofs` |
| 5 | ingestion | `Ingest` (checked under `Overviews`) | `IngestProofs` |
| 6 | views of the fleet | `Queries`, `FleetView`; `MCFleetView` | `FleetViewProofs` |
| 7 | overviews | `Queries`, `Overviews`; `MCOverviews` | `OverviewsProofs` |
| 8 | entering and leaving the console | `ConsoleAuth`, against `AuthLifecycle` | `ConsoleAuthProofs` |
| 9 | establishments and keys | `Establishments`; `MCEstablishments` | `EstablishmentsProofs` |
| 10 | deployment | `Deployment`; `MCDeployment` | `DeploymentProofs` |

How they are composed: `FleetView`, `Overviews` and `Establishments` extend
`Queries`, which extends `Ingest`, so views, listings and keys run while pushes
are stored. `AuthLifecycle` is the abstract account: `AuthAccount` (the
service's side, with threads) and `ConsoleAuth` (the browser's side, with late
answers) both implement it.

Every safety invariant and every action property of the passing runs is proved
as well as checked; liveness is model-checked (section 11).

## 3. What is modelled: one admin account

### Modules

`AuthAccount.tla` is the account as the handlers of `auth_admin.py` see it.
Its state and the code:

| Variable | Code |
|---|---|
| `row` | the committed row of `users`: `is_active`, `totp_secret`, `totp_enrolled`, `recovery_codes`, `failed_login_count`, `locked_until` |
| `env` | what the process read from `.env` at its start: whether `JWT_SECRET` is set, the value of `TOTP_AT_REST_KEY` |
| `exp` | per purpose (`pre_auth`, `session`), how long the longest-lived token still lives; tokens are stateless, so this is all the server can tell |
| `slots[r]` | the request thread `r` runs: its handler, its body, the row **as it read it**, what it has to answer |
| `gen`, `shown`, `history` | secrets and batches generated, what was shown once to the owner, what truly happened; no code reads the last two except that the owner types what she was shown |
| `restarts` | bound on restarts |

The handlers are `def`, not `async def`: FastAPI runs each in a thread, so they
interleave. A handler is a *Receive* (cookie decoded, row read, early returns
in the order of the code), a *commit* (one transaction) and an *Answer* (cookie
and body leave). `Write` is the ORM's flush: only the columns whose value
changed since the row was read are in the `UPDATE`, with no version check; this
is what makes overlapping requests interesting. `CommitFails` is SQLite giving up on
the write lock. `Tick` is the clock: durations are held as ticks left, so time
needs no bound. `Restart` loses the requests in flight and reads a `.env` that
may have changed.

Rows of different accounts are never read or written together, so one account
stands for all. Password hashing, base32, SHA-256 and JWT signatures are
abstract: a code matches what it was generated for and nothing else. A replay of
a TOTP code within its window is permitted, as in the code.

`AuthLifecycle.tla` states what must hold whatever requests do to each other:
new, pending, enrolled, in this order, sessions in the last phase only.
`AuthSerial.tla` states what the handlers mean when each runs alone: one step
per request, a count of failures that cannot go stale.
`MCAuthAccount.tla` adds the symmetry set TLC uses.

### Runs

| Run | Question | Bounds |
|---|---|---|
| `auth_one_thread` | do the handlers, one at a time, implement `AuthSerial` (a lock refuses logins, confirmations and verifications, a session clears the counter), count failures exactly, spend codes once? | 1 thread, 2 keys, 2 attempts, pre_auth 1 tick, other durations 2, 2 codes, 2 secrets, 1 restart |
| `auth_two_threads` | what survives interleaving, and does every lock end? | 2 threads, 1 attempt, lock of 2 ticks, other durations 1, 1 code, 2 secrets, no restart |
| `race_recovery_code`, `key_replaced` | does a sentence of the documentation survive interleaving, or a changed key? (no: see Findings) | 2 threads (1 for the key) |

Why the bounds are enough. Two overlapping requests show every lost update on a
single row: a third adds a write of the same three kinds. Two attempts make the
last-but-one and the last failure distinct. Two secrets are one confirmed and
one that replaces it, two codes are one spent and one left. Durations of one or
two ticks put an expiry before, between and after the steps of any request.
Restarts are with one thread in the runs; the theorems have them with any number.

Fairness. `WF(Handle(r))`: a thread that has received a request runs it to its
answer. The code has no wait other than the database's, which gives up after a
timeout (`CommitFails` belongs to `Handle`). `WF(Tick)`: time passes. Nothing is
assumed of the users: no request is fair. `LockLapses` needs both: a request
that read the row before the lock was set may set it again, each thread once.

Deadlock is checked in every run.

### Findings

Each is a run that TLC ends with a counterexample, on the property named.

* `race_recovery_code` (`RecoveryCodeOpensOnce`) - "usage unique" does not hold
  of overlapping requests: one code opens two sessions. For the same reason the
  later of two writes puts back the code the other one spent; `UsedCodesAreGone`
  is therefore checked of one thread only.
  The same cause, a row written as it was read, has other consequences that
  TLC finds when these properties are given two threads: overlapping failures
  count for one (`LockIffSpent`; `services/auth_lockout.py:43`); a session
  established from a clean row leaves a lock set meanwhile
  (`ImplementsSerial`); an enroll that overlaps a confirm replaces the
  secret of an account that is enrolled by then (`EnrolledSecretProven`;
  `api/auth_admin.py:234`). They are checked of one thread only.
* `key_replaced` (`RecoveryOutlivesKey`) - after a change of
  `TOTP_AT_REST_KEY`, recovery codes do not open a session, though
  `docs/RESILIENCE.md` says so: the secret is decrypted first, and fails.

### Proofs

`AuthAccountProofs.tla` proves, for every set of threads, every key, every
limit and every bound:

* `TypeCorrect`: `Spec => []TypeOK`;
* `SessionsAreEnrolled`: `Spec => []SessionNeedsEnrolment`;
* `EnrolledStaysUsable`: `Spec => []EnrolledIsUsable`;
* `EnrolmentNeverUndone`: `Spec => EnrolmentIsFinal`;
* `RefinesLifecycle`: `Spec => ImplementsLifecycle`;
* `CodesAlwaysReach`: `Spec => []CodesReachOwner`;

and, for requests that do not overlap (`OneAtATime`: there is one thread at most,
with any limits, keys and restarts):

* `LockCountsExactly`: `Spec => []LockIffSpent`;
* `SecretStaysProven`: `Spec => []EnrolledSecretProven`;
* `UsedCodesStayGone`: `Spec => []UsedCodesAreGone`;
* `RefinesSerial`: `Spec => ImplementsSerial`.

The hypothesis is that of the run `auth_one_thread`, and it is needed: with two
threads TLC breaks each of the four (see Findings). The other assumptions are those of `AuthAccount` on its constants: limits and
durations are positive, `NoKey` is not a key.

None of the invariants is inductive alone: a request may write a row it read
long ago. `EnrolmentInv` adds what a thread knows of the base (`HeldInv`): the
row it holds was once the base's, so what it holds as enrolled is enrolled,
what it holds as a secret is still one (maybe another), a confirm at work
started from a secret, a request about to answer with a session follows a
commit that enrolled. `Forward` says what every step preserves of the base, and
`HeldKept` that it preserves what the other threads know. There is one lemma
per kind of step, and one case per action.

`CodesInv` carries the recovery codes. A request may write codes it read before
another's, so it is not enough to speak of the base: the codes of every row
that is held were `Given`, that is shown or in an answer about to leave, and
what was given stays so until a restart drops the answers (`GivenGrows`).

`SerialInv` carries the four properties of one thread. `LetInInv` says that the
row a request works on is still the base's (`Fresh`) and that what let it in
(not locked, not enrolled) still holds; `FreshWrite` follows: a flush then leaves
exactly the columns of the handler. `CountInv` relates the counter, the lock and
the failures that stand, `SecretInv` and `UsedInv` the base and the history. For
the refinement, a commit is the step of `AuthSerial`, after which a session is owed
until its answer leaves (`Owed`); receiving a request is a stutter.

Only model-checked: `LockLapses` (liveness).

## 4. What is modelled: polling

### Module

`Polling.tla` is one tab of the console: `hooks/usePolling.ts`, the page that
mounts it, `lib/api.ts` and its shared handler of 401 answers.

| Variable | Code |
|---|---|
| `page` | the mounted page: one of `Lists` (a component each), one address of `EstablishmentDetail` (`Details`: one component for all, so the hook's state survives a change of address), or one of `Placeholders` (`/etablissement`, `/deploiements`: a text, with no hook and no call) |
| `shown` | `data`, `loading`, `error` of the hook, and the freshness last drawn |
| `calls` | the fetches in flight, each with the `cancelled` flag of the effect that sent it (`live`) |
| `session`, `service`, `version` | the cookie's worth, the state of the service, the age of what it would answer |
| `opened` | for the properties: when the effect began, whether it has been answered |

The timer fires whether or not the previous call was answered, so calls overlap
and their answers come in any order (`Serve` then `Settle`), or never (`Lose`).
A 401 is handled by `api()` before the hook sees the answer, also when its
effect was cleaned up (`Expel`).

### Runs

| Run | Question | Bounds |
|---|---|---|
| `polling_overlaps` | is what is shown that of the address on screen, never older than its opening, never blank; does a page that polls recover from any outage, notice the end of its session, mark old telemetry? | 2 calls, 1 list, 2 details, 1 placeholder, 1 change of the data |

Two calls are an early and a late one; two details, a list and a placeholder are
every kind of change of address. Versions only grow, so one change separates an answer older
than the opening from one that is not. The proofs have no such bound.

Fairness: `WF(Poll)` (the `setInterval` of the hook: `Poll` is enabled on the pages
that mount it only), `WF(Age)` (time passes), for each call
`WF(Serve \/ Lose)` (a fetch ends) and `WF(Settle \/ Expel)` (its promise is
settled). Nothing is asked of the user or of the service: the properties say
under which state of the service they hold.

A placeholder makes no call, so nothing notices there that the session has ended:
it stays on screen until the user asks for another page. `SessionLossNoticed` is
therefore about the pages that poll.

An answer that overtakes another may replace newer data by older data until the
next poll: `Converges` says the page ends on the last version nonetheless.

Seen while modelling, with no run: when every `fetch` rejects, `usePolling` sets no
state, the page is not drawn again, and its freshness marks, evaluated when it is
drawn, keep saying "recent", although `EstablishmentDetail.tsx:5-7` says that old
telemetry must not pass for live. `MarkedWhileAnswered` therefore supposes that calls
are answered in the end; without that TLC refutes it.

### Proofs

`PollingProofs.tla`, for any number of calls and pages: `PollingTypes`
(`TypeOK`), `ShownAlwaysOfPage` (`ShownIsOfPage`) and `PagesNeverBlank`
(`NeverBlank`). The last two need `CallInv`: a call that still has a say was
sent by the page on screen, and what it brings is no older than the opening of
that page. The cleanup of the effect is what keeps it. Liveness is only
model-checked.

## 5. What is modelled: ingestion

`Ingest.tla` is `POST /api/ingest`: `api/ingest.py` and `services/ingest.py`.

| Variable | Code |
|---|---|
| `db` | the tables as sets of rows, and the last identifier given; the rows of one push bear one identifier, its rank among the commits |
| `requests[t]` | what thread `t` has received, or stored and not yet answered |
| `clock` | `datetime.now(UTC)`, in ticks; assumed never to go back |
| `acked`, `surpassed` | for the properties: the pushes answered 202, and those some stored push was sent after |

`received_at` is taken before the transaction and the transaction may wait for
another, so rows appear in another order than their times, and two may have
the same time. A commit may fail (write lock), an answer be lost, the service
restart. The M4 is outside this repository; the model lets it send anything at any
time, so a retry is one more push, and duplicates are stored as the code stores
them.

`Ingest` is checked in the run `overviews` (section 7), on top of which its own
actions all run: `Replayable` (the tables are a replay of the raw log, which has
all that was acknowledged) and `NewestWins` (the newest push is never one its
M4 had replaced). Two pushes are the replaced one and the one that replaces it;
four instants give earlier, equal and later receptions.

`IngestProofs.tla` proves, for any number of threads, establishments and
pushes: `IngestTypes`, `LogIsReplayable` (`Replayable`) and `NewestAlwaysWins`
(`NewestWins`). The last needs `OrderInv`: times and identifiers in the log are
of the past, and each request knows pushes that are in the log and were
received no later than itself; so its row, whose identifier is larger than any
of the log's, comes after them in `received_at DESC, id DESC`, also if a tie.
Both columns are needed, as the mutants show.

The module ends with what the proofs of the views are built from. The tables are
finite (`TablesAreFinite`). Sums of a series and totals of a set of rows grow with
the rows (`TotalGrows`), a total is the sum over its keys (`SumByKey`), and the
days of a series, or of its end, add up to the total of their rows (`DaysAddUp`,
`EndOfSeries`). The first k rows in a strict order are k rows, or all of them, and
what is left out comes after each (`FirstOnes`). `Total` and the rest are folds,
and an induction whose property is an operator is beyond the provers; the
lemmas take instead a smallest finite set that would be a counterexample
(`SmallestSubset`: strict inclusion is well founded) and remove one element of it.

## 6. What is modelled: the fleet's views

`FleetView.tla` extends `Ingest` with `GET /api/fleet` (one tile) and
`GET /api/fleet/{id}`: `build_fleet_item` and `build_establishment_detail` of
`services/fleet.py`.

| Variable | Code |
|---|---|
| `readers[g]` | the request that thread `g` of the pool serves: `now`, taken first, then what each query has given, in the order of the code; `known` is for the properties: what the M4 was acknowledged, or some answer had shown of it, when the request came |
| `told` | for the properties: the last pushes that answers have shown |

The handlers are `def`: each request has a thread of its own, so requests overlap
and are answered in any order. SQLite gives every query what is committed by then,
so pushes are stored between the parts of one answer. Health, series, week and
dormancy are operators on what was read, with the code's boundaries.

| Run | Question | Bounds |
|---|---|---|
| `fleet` | do health, counts and dormancy follow what was acknowledged, do the figures of a tile agree, is an answer never older than what was known before it was asked? | 2 threads, 2 pushes, 2 requests, one establishment, thresholds of 0 and 1 ticks, a tick is a day, windows of 1, 3 and 4 days, 3 instants |

Thresholds and windows are constants: what the checks are about is their order
and both sides of each boundary, which small values have as well. Pushes of two
threads commit before, between and after the queries of one answer, and in the
other order than they were received. `Bounded` of `MCFleetView`
keeps the run small: the two requests overlap each other before the last instant, and
when the pushes are heartbeats and snapshots (of which an answer could show an old
one); beside any other push there is one request at a time. Health, counts and
dormancy are about one answer and the log, and what other requests read changes
neither. The theorems have no such bound. One establishment suffices for these
views, whose queries all filter by it; `overviews` has two.

`NeverStale` does not say that the console never goes back. Of two answers that
were asked together, the one sent later may be the one that read earlier, and a
console whose polls overlap then shows an older push after a newer one, until its
next poll (section 4). What holds is that a request that comes after an answer has
been sent, or a push acknowledged, shows nothing older.

Two documents disagree with the code on the health. `HealthIsTrue` states what the
code does, and there is no run for these:

* `docs/JOURNAL.md:407-409` (and `:438`) has a heartbeat of 15 minutes silent and of
  5 degraded (`≥`); the code compares with `>` (`services/fleet.py:58`, `:62`), and so
  does its test (`tests/test_fleet_health.py:31-35`): at exactly 15 minutes degraded, at
  exactly 5 online;
* the docstring (`services/fleet.py:45`) has a status that is not "ok" degraded; an
  empty one is accepted (`HeartbeatIn.status` is any string) and its M4 is shown online
  (`services/fleet.py:60`). The payloads of the run have it.

`FleetViewProofs.tla`, for any number of threads, requests at once, pushes and
M4s, all thresholds and windows, and all statuses, the empty one included:

* `AnswersNeverStale` (`NeverStale`);
* `HealthStaysTrue` (`HealthIsTrue`), with the code's limits;
* `IncidentsStayTrue` (`IncidentsAreTrue`): totals of sets one within the other;
* `DormantStaysTrue` (`DormantIsTrue`): a trend whose sum is 0 has no session in
  any of its days, and has all the days of each session acknowledged;
* `WeekAlwaysMatches` (`WeekMatchesTrend`): the end of the series is the total of
  the rows of its days.

`Replayable` turns each query into one on the log; the log only grows and keeps
a newest row (`NewestInv`). `RequestTrue` is carried along for every request that
is being served: each part it has read has what was known when it came, and nothing
that is not stored. What answers have shown is in the log (`told \subseteq db.raw`),
so the requests that come next know it.

Not modelled of the views: totals over the whole history, the weighted mean of
durations, the fields of the snapshots.

## 7. What is modelled: the overviews

`Overviews.tla` extends `Ingest` with `GET /api/incidents/overview`,
`/api/reports/overview` and `/api/inventory/overview`:
`services/{incidents,reports,inventory}.py`.

| Variable, operator | Code |
|---|---|
| `page` | the handler at work: `moment`, taken first, then the rows each query gave; once sent, the answer |
| `ReadShort`, `ReadLong` | `_totals_since` over 7 and 30 times 24 hours |
| `ReadTrend`, `ByDay` | `_trend_by_category`: from the midnight of the first of 30 calendar days |
| `ReadTop`, `Top` | `_top_establishments`: by decreasing total, then by name, cut at ten |
| `ReadRecent`, `Recent` | `_recent_incidents`, `_recent_reports`: by `received_at`, `id`, cut at fifty |
| `ReadLine`, `EndLines` | `_establishment_inventory`, one establishment after the other, a query each |

| Run | Question | Bounds |
|---|---|---|
| `overviews` | is the log replayable, and do the parts of a page, read at different moments, count what was acknowledged, include, rank and explain each other? | 2 establishments, 2 threads, 2 pushes (of one and two refusals, of two reports, an inventory), days of 2 ticks, windows of 1 and 2 days, cuts at 1 |

Cuts at one make every second row or establishment the one that is left out.
Days of two ticks have an instant at midnight and one that is not, so 24 hours
and a calendar day differ.

What holds although the parts are of different moments: every figure counts
what was acknowledged before the page was asked for and nothing that is not
stored (`TotalsAreTrue`); the seven days are within the thirty and these within
the table of establishments, since they are read in this order
(`ShortWithinLong`, broken by the other order); what is counted is in the list
below unless that is full of what came later (`RecentExplainsTotals`). What does
not, and no document promises: the total of thirty days counts a part of a
31st calendar day that the trend, also labelled 30 days, does not have
(`TrendAgrees` states the relation that holds).

`OverviewsProofs.tla`, for any number of establishments, threads, pushes and
all windows: `ShortIsWithinLong`, `TotalsStayTrue`, `InventoryStaysCurrent`.
The first two rest on `FiguresInv`: a part that has been read holds what was
acknowledged, and, as the tables only grow, what a part read before it holds.
The last rests on `LinesInv` and on `NewestInv` of section 6: each table has a
newest row.

`ListsInv` adds what the trend and the list have of the figures around them:
the trend, which begins at a midnight that is not later than the seven days
ago, has what these counted, and the table read after it has the trend
(`TrendInv`); what the thirty days counted is in the list, or the list is full of
rows that come before it. Then `RecentAlwaysExplains` (`RecentExplainsTotals`),
`TopAlwaysTop` (`TopIsTop`) and `TrendAlwaysAgrees` (`TrendAgrees`) hold for all
windows and cuts, with the sums and the first rows of section 5.

## 8. What is modelled: entering and leaving the console

`ConsoleAuth.tla` is one tab of a browser, its cookie jar, and the account.

| Variable | Code |
|---|---|
| `auth` | the state of `AuthProvider` |
| `path` | `/login`, or a guarded route: `console` for one whose page polls, `placeholder` for `/etablissement` and `/deploiements`, which make no call; `Landings` is the guard (`RequireAuth`) and the effect of the login page, applied at once as React settles before the user can act |
| `form` | `step`, `busy`, the secret of the QR code, `codesAcked`; `hung` marks a promise that was rejected with `busy` set |
| `jar` | the purpose of the one cookie |
| `calls` | the fetches in flight: the cookie they left with, whether the component that sent them is mounted, the answer once given |
| `account` | whether it is enrolled, and how many secrets were generated |

A call is sent (`Send`), handled in one step of the service (`Handle*`, or
`Refuse` for any other answer), and delivered (`After*`) later or never
(`Lose`). What a handler of `Login.tsx` does after its `await` is in `After*`,
also when the page is gone: setters of a component that was unmounted do
nothing, `refresh()` and `navigate()` still act (`owner = "script"`). `Load` is
the page opened or loaded again; `AfterNobody` an answer that comes after that,
whose cookie the browser may keep. `Elsewhere` is any other tab: it changes the
cookie and the account, not the state of this page. `Navigate` is a link of
the side bar, from a guarded route to another. The polls of a page are one call here
(their overlaps are in section 4), and are made on the routes that poll only. How the service handles overlapping
requests is in section 3: here a handler is one step.

| Run | Question | Bounds |
|---|---|---|
| `console_auth` | do steps and sessions follow the account however late the answers, are the codes gated, does the form come back, does a page that polls end when it has no session? | 2 calls and a poll in flight, 2 secrets, a user who waits for the enrol |
| `codes_lost` | are the codes gated from a user who submits twice? (no: see the finding) | the same, `Impatient` |

Two calls are a late one and the one that overtakes it; two secrets are the one
on screen and the one that replaced it.

Fairness: `WF(Handle(s))` and `WF(Deliver(s))` (what reaches the service is
answered, and its answers arrive), `WF(Poll)` (`setInterval`), and `SF` of
handling and delivering a poll: a page that polls does it again and again, and the
network does not fail every one. The user and the network are otherwise free.
`GhostConsoleEnds` needs the polls: nothing else tells a console that was shown
by a late `/me`, or left by a logout in another tab, that there is no session. On a
placeholder nothing does: it is excluded by `path = "console"`, and it does stay, until
the user follows a link to a page that polls.

Finding: `codes_lost` (`CodesAreGated`) - `submitPassword` clears `busy`
before it awaits `/totp/enroll`. A user who submits again gets a second QR code;
if the answer of the first enrol comes after the second code was confirmed, it
sets the step back to the QR code, and the recovery codes, shown once, are gone
from the screen without the box having been ticked (`docs/JOURNAL.md:530-531`,
`Login.tsx:13`).

Seen in the model, with no document against it: a late 401, or a late answer of
the first `/me`, shows the login page to who has just signed in; a `/me` that
rejects at the first mount leaves the spinner; a submit that rejects leaves the
form busy (`FormComesBack` excludes it by `hung`).

`ConsoleAuthProofs.tla`, for any number of calls and secrets, and for a user who
waits or not: `ConsoleTypes`, `StepsAlwaysFollow`, `ConsoleKeepsLifecycle`.
`StepsFollowAccount` alone is not inductive: `CallsInv` adds what an answer that
is still on its way can tell of an account that has changed since (enrolments
are final, secrets only grow).

`CodesStayGated` proves `CodesAreGated` for a user who waits (`~Impatient`; the
run `codes_lost` shows that one who does not loses the codes). `AwaitInv`: the
form waits for one call at most, and it is at the step that sent it, so a late
answer finds the step it belongs to or is nobody's. `GateInv`: while the codes
are on screen or on their way, no call in flight can take the page to the console
- a `/me` that left before has no session cookie, since there was no
enrolment. Liveness is model-checked.

## 9. What is modelled: establishments and keys

`Establishments.tla` extends `Ingest` with `POST /api/establishments`,
`api/deps.py` and the listing of heartbeats.

| Variable | Code |
|---|---|
| `schools` | the table `etablissements`; the SHA-256 of a key is the key |
| `creations[c]` | a creation: the name was free, a key is generated, the row is inserted, the answer leaves |
| `minted`, `held` | keys generated; keys that arrived in an answer, which is all an M4 can be configured with |
| `listing` | the listing being served, or the last one |

The look-up of the name and the insert are two steps, so creations of one name
overlap; the UNIQUE constraint refuses the second (an error nobody catches,
500). `Push` looks the key up and then is a `Post` of `Ingest`: the status is not
looked at again before the commit. No code deactivates an establishment
(`Deactivate` is by hand).

| Run | Question | Bounds |
|---|---|---|
| `establishments` | does a shown key open its establishment and no other, does nobody else push, does a deactivated one fall silent, does a listing have what was acknowledged? | 2 names, 2 creations, 3 keys, 2 threads, 2 heartbeats, 2 instants, a listing of 1 |

Three keys are two for one name and one for another.

`EstablishmentsProofs.tla`, for any number of names, creations and keys:
`RegistryKeepsTypes`, `ShownKeysOpen`, `OnlyHoldersEverPush`. `KeysInv` says that
a key belongs to one creation until its row is inserted and to one row then;
`RegistryIngests` that every step is one of `Ingest` or leaves it alone, so its
invariant is used as it was proved.

`ListingStaysCurrent` (`ListingIsCurrent`) adds to it `ListingInv`: what was
acknowledged when a listing was asked for is stored when it is read; the first
rows of an order in which no two are at the same place leave out only what comes
after a full page. `DeactivationSilences` (`DeactivatedFallsSilent`, an action
property) adds `CountedInv`: an identifier is one row's, so a deactivated row is
the only one its pushes can be let in by, and what is in flight is finite, so
that a commit moves one push from one count to the other.

An answer that is lost leaves a name that is taken and a key nobody has:
`OnlyHoldersPush` says that establishment stays silent, and the code has no
way to give it another key.

## 10. What is modelled: deployment

`Deployment.tla` is `.env`, the table `users`, the scripts that prepare both,
and the service that reads them.

| Variable | Code |
|---|---|
| `file` | `.env`: the lines of `JWT_SECRET`, of `TOTP_AT_REST_KEY` and of another setting, a number |
| `runs[r]` | a run of `init_secrets`, `create_admin` or `migrate_phase_b`: its step, what it has read (`env`, from `_read_env`; `lines`, from the second reading in `_write_env`) |
| `table`, `admins` | the columns of `users`, the emails in it |
| `service` | the step of its start, the secrets it read at import |
| `sealed` | the key the TOTP secret of an admin is encrypted under |
| `done`, `added` | for the properties: what some run ended well, what was reported as added |
| `lost` | for the properties: what has happened to `.env`: a writer `cut` between the truncation and the write, two writers that did `overlap`, an `edit` between a script's reading and its writing, a `note` that was written into a value |

`_write_env` reads the file a second time, truncates it and writes it:
`Reread`, `Truncate`, `Write`. Each `ALTER TABLE` is committed by itself
(SQLite's driver opens no transaction for DDL). `create_all` looks for the table
and then creates it, in `create_admin` and in the service. `Die` cuts a script
at any step, `Kill` the service.

Two programs read `.env`, and not in the same way. A line is what the service reads
in it (`text`), and whether a note follows a value without quotes (`noted`:
`KEY=value # note`). The settings drop the note; `_read_env` keeps it (`Read`), and
`_write_env` puts all it has read between quotes (`Merged`, `Quoted`), so that the
service reads the note as well from then on. What that changes depends on the
value: a `JWT_SECRET` is another secret, a number no longer parses and the import
fails (`Importable`), and a Fernet key still decodes to itself, because base64 stops
at its padding (`KeyOf`). `Edit` writes another setting, with a note or not; with it
`JWT_SECRET` is removed or replaced, as `docs/RESILIENCE.md:117` has it done to close
the sessions, or the line of the TOTP key is typed again. An edit is one step, and is
not made while a script is between the truncation and the write. Lines with
`export` and escapes in quotes are not modelled.

| Run | Question | Bounds |
|---|---|---|
| `deployment` | which part of `.env` is kept, and when; is a migration that reports success complete, can a service that starts after both log in, does it always come up? | 2 runs at a time, 1 email, 4 secrets, 1 edit (once there is a `JWT_SECRET`: `Bounded` of `MCDeployment`), 1 kill; a new machine and one of the phase before |
| `env_cut` | is a key that is there never generated again? (no: see the finding) | 1 run at a time, 6 secrets, 1 edit, 1 kill |

Four secrets are two generations on a new machine, and one beside the secret of the
phase before; two runs are enough for one to be between the reading and the writing
of the other.

Fairness: `WF(Serve)`, which is launchd's `KeepAlive` and a start that goes on.
A start that fails because `create_admin` has just created the tables is made
again (`ComesUp`).

What holds of `.env` (`KeysSurvive`): the TOTP key stays, edited, with notes or
not, as long as no writer is cut while it writes and no two overlap; what was typed
by hand stays if, further, no note gets into a value and no edit comes while a script
is at work. What does not hold, although `scripts/init_secrets.py:3-4` says that
every key is preserved and every other line kept, and `docs/RESILIENCE.md:98-99` that a
secret is never generated again:

* a writer that is cut replaces the key. Finding `env_cut` (`KeyNeverReplaced`):
  `JWT_SECRET` is removed to close the sessions, `init_secrets` dies between the
  truncation and the write, and the next one generates both secrets, so that the TOTP
  secret of the enrolled admin can no longer be decrypted;
* two writers that overlap replace it as well: both read before either writes, and
  the second writes its key over the one the service has read from the first. TLC
  finds it when `EnvCut.cfg` is given two runs, with no death and no edit;
* a note becomes part of the value: one script, alone and not cut, rewrites
  `KEY=value # note` as `KEY="value # note"` (`scripts/init_secrets.py:26`, `:42`). All
  sessions close, or the service does not start; `KeysSurvive` has it as
  `"note" \in lost`.

`DeploymentProofs.tla`, for any number of runs, emails, secrets, edits and
deaths: `DeploymentTypes`, `KeysAlwaysSurvive`, `MigrationsStick`, `ReportedOnce`,
`DeploymentsHold`. `TableInv` says that what a migration has no more to do is
done, by it or by another. `EnvInv` says, as long as no writer was cut or overlapped
(`Alone`), what the file and a run that is to write it hold, in three tiers: the key in
any case, the secrets if nobody edited meanwhile, what was typed by hand if no note
got into a value either. `ComesUp` is model-checked.

## 11. What is only model-checked, and what is not modelled

Only model-checked, because the provers have no rule for liveness under fairness:
`LockLapses`, `Converges`, `SessionLossNoticed`, `MarkedWhileAnswered`,
`FormComesBack`, `GhostConsoleEnds`, `ComesUp`. The properties that are refuted
(sections 3, 8 and 10) have a run, and no theorem but `CodesStayGated`, which is
about the users who do not meet its counterexample.

Proved under a hypothesis beyond those of the constants: the four theorems
with `OneAtATime` (section 3), which say nothing of requests that overlap, and
`CodesStayGated` with `~Impatient` (section 8). A run is in each of these cases, and
each is needed.

Proved, and not repeated in a run: the types of every module but
`AuthAccount`; `SessionNeedsEnrolment` and `EnrolmentIsFinal`, which
`ImplementsLifecycle` implies; `ColumnsReportedOnce`. `RecoveryCodeOpensOnce` is
what `ImplementsSerial` and `UsedCodesAreGone` give for one thread.

Not modelled: rendering (components, charts, styles); the breakdowns of the
overviews by category, level, mode and formula; `services/settings.py`, which
copies the configuration into an answer; the response schemas; routing and
static files; the collector on the M4 (not in this repository); demonstration
data (`seed_fleet.py`); log files; and what the documentation announces and the
code does not have yet (nightly purge, SSE, `audit_log`).
